SPECIFICATION FairSpec
CONSTANTS
  Admins = {a1, a2}
  MaxCmds = 2
  MaxFaults = 1
  MaxChanges = 1
  NoCmd = NoCmd
CHECK_DEADLOCK FALSE
INVARIANTS
  TypeOK
  StatusWasEarned
  RunsArePaidFor
PROPERTIES
  PlanGuardsRun
  EventuallyCompleted
