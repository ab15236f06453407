CONSTANTS
  u1 = u1
  u2 = u2
  s1 = s1
  s2 = s2
  Codes = {k1}
  Devices = {}
  Issues = {i1, i2}
  Users = {u1}
  Clients = {c1}
  Sessions = {s1}
  Scopes = {a}
  OwnerOf <- MCOwnerOf
  Requests = {r1, r2}
  CodeTtl = 1
  DeviceTtl = 1
  SessionTtl = 1
  PollInterval = 1
  Backoff = 1
  MaxActiveDevices = 1
  MaxClock = 0
  MaxFaults = 0
SPECIFICATION Spec
CONSTRAINT ResourceStays
SYMMETRY Symmetric
INVARIANTS RevocationIsComplete
CHECK_DEADLOCK FALSE
