SPECIFICATION FairSpec
CONSTANTS
  MaxDevices = 2
  MaxDay = 2
  HangSites = {"load", "calls", "command", "sign", "hwpost", "checking"}
  Checked = {"windowsUpdate", "tpmBitlocker"}
  MaxHangs = 1
  MaxFaults = 1
CHECK_DEADLOCK FALSE
INVARIANTS
  TypeOK
  RecordsAreTraceable
PROPERTIES
  CycleDelivers
