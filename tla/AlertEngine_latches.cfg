SPECIFICATION FairSpec
CONSTANTS
  missing = missing
  Rules <- TwoRules
  Margin <- Margins
  Default <- Defaults
  Editable <- JustCpu
  Full = 2
  Values <- Readable
  Missing = missing
  MaxCount = 2
  MaxSteps = 2
CHECK_DEADLOCK FALSE
INVARIANTS
  TypeOK
  AlertsAgree
PROPERTIES
  AlertsFollowReadings
