CONSTANTS
  Limit = 2
  Window = 3
  AlarmGrace = 1
  MaxTime = 10
  Events = {"e1", "e2"}
  Mails = {"m1", "m2"}
  Malformed = {"m2"}
  Consumers = {k1, k2}
  MaxRetries = 1
  DeleteBatch = 2
  MaxReplays = 1
SPECIFICATION Spec
INVARIANTS LimitHolds DenialsHold NothingLostNorRepeated
PROPERTIES EventuallySettled
CHECK_DEADLOCK FALSE
