SPECIFICATION Spec
CONSTANTS
  t1 = t1
  d1 = d1
  d2 = d2
  Tenants = {t1}
  Devices = {d1, d2}
  TenantOf <- OneTenant
  Writers = {w1, w2}
  Keep = 1
  MaxEvents = 3
  MaxStamp = 2
  MaxFaults = 1
  Idle = Idle
SYMMETRY Alike
CHECK_DEADLOCK FALSE
INVARIANTS
  TypeOK
  TamperEvident
  AlarmsAreExplained
  OverCapIsOwed
