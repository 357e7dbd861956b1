SPECIFICATION Spec
CONSTANTS
  t1 = t1
  d1 = d1
  d2 = d2
  Tenants = {t1}
  Devices = {d1, d2}
  TenantOf <- OneTenant
  Writers = {w1}
  Keep = 1
  MaxEvents = 3
  MaxStamp = 1
  MaxFaults = 0
  Idle = Idle
CHECK_DEADLOCK FALSE
INVARIANT
  HonestHistoryVerifies
