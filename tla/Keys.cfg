CONSTANTS
  Isolates = {i1, i2}
  Jobs = {p1, p2}
  CronPeriod = 3
  RotationInterval = 2
  Propagation = 2
  CacheTtl = 1
  JwksAge = 1
  Grace = 2
  TokenTtl = 1
  KeyLease = 1
  JobLease = 1
  CronDelay = 1
  LoadLatency = 0
  LegacyBoot = TRUE
  MaxClock = 8
  MaxFaults = 1
  MigrationClock = 1
SPECIFICATION Spec
CONSTRAINT EitherStory
SYMMETRY Symmetric
INVARIANTS TypeOK PrivateHalves TokensVerifiable
PROPERTIES PublishedStays CopiesStayTracked
CHECK_DEADLOCK FALSE
