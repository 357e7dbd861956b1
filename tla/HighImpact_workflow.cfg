SPECIFICATION FairSpec
CONSTANTS
  Admins = {a1, a2}
  Checks = {c1, c2}
  MaxDevices = 7
  MaxRequests = 1
  MaxUpdates = 1
  MaxFaults = 2
CHECK_DEADLOCK FALSE
INVARIANTS
  TypeOK
  RowsExplained
  DestroyedForGood
PROPERTIES
  Reenrols
  WipedOnApproval
