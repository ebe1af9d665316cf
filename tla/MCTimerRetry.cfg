CONSTANTS
  Hosts = {"task", "scope", "catch", "gate", "choice"}
  Processes <- OneTask
  Kind <- MCKind
  Messages = {"m1", "m2", "m3"}
  ArmsOf <- MCArmsOf
  Fallible = {"task", "scope"}
  Modes = {"direct", "workflow"}
  MaxCalls <- Retry
  MaxFaults <- NoFaults
SPECIFICATION FairSpec
PROPERTIES ResultApplied
CHECK_DEADLOCK FALSE
