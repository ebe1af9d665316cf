SPECIFICATION Spec
CONSTANTS
  t1 = t1
  t2 = t2
  t3 = t3
  root = root
  left = left
  right = right
  None = None
  Root = root
  Tasks <- Three
  Tokens <- RegionTokens
  Parent <- RegionParent
  Branches <- RegionBranches
  Before <- RegionBefore
  After <- RegionAfter
  Guarded = {}
  RetryLimit = 1
  MaxCalls = 2
  MaxCrashes = 1
INVARIANTS
  TypeOK
  CompensatesOnlyDone
PROPERTIES
  ReverseOrder
  CompensatedIsFinal
  NoForwardAfterUndo
CHECK_DEADLOCK FALSE
