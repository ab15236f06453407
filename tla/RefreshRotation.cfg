CONSTANTS
  Families = {1}
  Users = {u1}
  Clients = {c1, c2}
  Sessions = {s1}
  Scopes = {a, b}
  Requests = {r1, r2}
  NoSession = NoSession
  MaximumGeneration = 2
  MinimumInterval = 1
  MaximumActiveFamilies = 1
  RefreshTtl = 2
  SessionTtl = 2
  Retention = 0
  AlarmDelay = 0
  MaxClock = 3
  MaxFaults = 1
SPECIFICATION Spec
CONSTRAINT SmallWhenOld
SYMMETRY Symmetric
INVARIANTS TypeOK OwnedBySomeoneActive RotationInv
PROPERTIES MirrorOnlyNarrows ImplementsChain
CHECK_DEADLOCK FALSE
