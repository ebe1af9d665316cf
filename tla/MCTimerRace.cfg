CONSTANTS
  Hosts = {"task", "scope", "catch", "gate", "choice"}
  Processes <- MCProcesses
  Kind <- MCKind
  Messages = {"m1", "m2", "m3"}
  ArmsOf <- MCArmsOf
  Fallible = {"task", "scope"}
  Modes = {"direct", "workflow"}
  MaxCalls <- Bounds
  MaxFaults <- Faults
SPECIFICATION FairSpec
INVARIANTS OnePath NothingLeftOpen
PROPERTIES DeadlineKept
CHECK_DEADLOCK FALSE
