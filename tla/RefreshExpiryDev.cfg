CONSTANTS
  Families = {1}
  Users = {u1}
  Clients = {c1}
  Sessions = {s1}
  Scopes = {a}
  Requests = {r1}
  NoSession = NoSession
  MaximumGeneration = 1
  MinimumInterval = 1
  MaximumActiveFamilies = 1
  RefreshTtl = 4
  SessionTtl = 1
  Retention = 1
  AlarmDelay = 1
  MaxClock = 5
  MaxFaults = 0
SPECIFICATION HistSpec
PROPERTIES ExpiredSessionEndsFamily
CHECK_DEADLOCK FALSE
