SPECIFICATION FairSpec
CONSTANTS
  v1 = v1
  v2 = v2
  remind = remind
  confirm = confirm
  Visits = {v1, v2}
  First = v1
  End = End
  Element <- ChainElement
  Timed = {remind}
  OnMessage <- NextVisit
  OnTimeout <- NextVisit
  Messages = {m1, m2}
  NoMessage = NoMessage
  NoId = NoId
  Modes = {"direct", "workflow"}
  MaxFaults = 1
INVARIANTS OneOutcome AppliedOnce
PROPERTY CorrelatedSettles
CHECK_DEADLOCK FALSE
