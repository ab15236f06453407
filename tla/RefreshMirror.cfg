CONSTANTS
  Families = {1, 2}
  Users = {u1}
  Clients = {c1}
  Sessions = {s1}
  Scopes = {a}
  Requests = {r1, r2}
  NoSession = NoSession
  MaximumGeneration = 1
  MinimumInterval = 1
  MaximumActiveFamilies = 1
  RefreshTtl = 1
  SessionTtl = 1
  Retention = 1
  AlarmDelay = 1
  MaxClock = 0
  MaxFaults = 0
SPECIFICATION FairSpec
INVARIANTS FamilyCap
PROPERTIES BurnReachesMirror RevocationReachesObject
CHECK_DEADLOCK FALSE
