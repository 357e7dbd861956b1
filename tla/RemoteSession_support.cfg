SPECIFICATION FairSpec
CONSTANTS
  Modes = {"screen"}
  Operators = {o1}
  MaxStarts = 1
  MaxSockets = 4
  MaxJoins = 1
  MaxFaults = 1
  MaxFiles = 2
  Size = 2
  HighWatermark = 0
CHECK_DEADLOCK FALSE
INVARIANTS
  TypeOK
  NothingLeftBehind
PROPERTIES
  SessionRecovers
  ImplementsDelivery
