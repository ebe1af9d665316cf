SPECIFICATION Spec
CONSTANTS
  Hosts <- Timed
  Sizes = {2}
  Cap = 2
  MaxRetries = 0
  MaxFaults = 0
INVARIANT LeavesOnce
CHECK_DEADLOCK FALSE
