SPECIFICATION FairSpec
CONSTANTS
  HeartbeatsRequired = 3
  MaxRelease = 3
  MaxAttempts = 3
  MaxFaults = 2
CHECK_DEADLOCK FALSE
INVARIANTS
  TypeOK
  RollbackIsLate
  RollbackGoesBack
PROPERTIES
  HealthIsEarned
  EveryUpdateSettles
