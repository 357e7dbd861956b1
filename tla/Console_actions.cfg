SPECIFICATION FairSpec
CONSTANTS
  Features = {"Self-Healing"}
  MaxRuns = 2
  MaxRequests = 2
  PageLimit = 2
  ShownLimit = 1
  MaxOthers = 2
  MaxCalls = 2
  MaxMounts = 2
  MaxFaults = 1
CHECK_DEADLOCK FALSE
INVARIANTS
  TypeOK
  ActionsAreHonest
PROPERTIES
  ActionsConclude
