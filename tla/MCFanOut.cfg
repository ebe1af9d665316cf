SPECIFICATION Spec
CONSTANTS
  Hosts <- MCHosts
  Sizes = {0, 3, 4}
  Cap = 3
  MaxRetries = 1
  MaxFaults = 1
INVARIANTS OnePath NothingLeftOpen
PROPERTIES FinishedOnce Settles
CHECK_DEADLOCK FALSE
