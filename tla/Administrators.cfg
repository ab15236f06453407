CONSTANTS
  Users = {a1, a2, u1}
  Teams = {"g", "h"}
  Employees = "g"
  Choices = {{}, {"admins"}, {"all", "g"}, {"g", "h"}}
  Root = {a1, a2}
  Staff = {}
  Requests = {r1, r2}
  MaxUserGroups = 2
  MaxWork = 3
  MaxFaults = 1
SPECIFICATION Spec
SYMMETRY Symmetric
INVARIANTS TypeOK MembershipHolds BootstrapOnce
PROPERTIES AdministratorRemains
CHECK_DEADLOCK FALSE
