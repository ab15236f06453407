CONSTANTS
  u1 = u1
  e1 = e1
  e2 = e2
  k1 = k1
  k2 = k2
  p2 = p2
  Users = {u1}
  Emails = {e1, e2}
  Links = {l1, l2}
  Passwords = {p1}
  Passkeys = {k1}
  Sessions = {s1}
  Strong = {p1}
  Purposes = {"reset", "invite", "verify", "change", "magic"}
  Patches = {"disable"}
  Activities = {"login", "passkeys", "delete", "misdirect"}
  Root = {}
  Requests = {r1, r2}
  MaxPasswords = 2
  MaxVersion = 2
  MaxFaults = 1
  FirstEmail <- MCFirstEmail
  FirstPasswords <- Nothing
  FirstPasskeys <- NewOrNot
SPECIFICATION Spec
SYMMETRY Symmetric
INVARIANTS TypeOK
PROPERTIES LinksAreCurrent ImplementsLinks
CHECK_DEADLOCK FALSE
