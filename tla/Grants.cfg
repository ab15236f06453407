CONSTANTS
  u1 = u1
  u2 = u2
  s1 = s1
  s2 = s2
  Codes = {k1}
  Devices = {d1}
  Issues = {i1, i2}
  Users = {u1, u2}
  Clients = {c1, c2}
  Sessions = {s1, s2}
  Scopes = {a, b}
  OwnerOf <- MCOwnerOf
  Requests = {r1, r2}
  CodeTtl = 0
  DeviceTtl = 1
  SessionTtl = 1
  PollInterval = 1
  Backoff = 1
  MaxActiveDevices = 1
  MaxClock = 1
  MaxFaults = 1
SPECIFICATION StoriesSpec
SYMMETRY Symmetric
INVARIANTS TypeOK IssuedAsDecided RevocationReachesDevices
PROPERTIES DecisionsStand ImplementsGrant
CHECK_DEADLOCK FALSE
