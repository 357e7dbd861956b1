SPECIFICATION CollectorSpec
CONSTANTS
  Families <- AllFamilies
  Window = 2
  Null = Null
CHECK_DEADLOCK FALSE
INVARIANTS
  CollectorTypeOK
  
  OutagesAreReported
