SPECIFICATION Spec
CONSTANTS
  t1 = t1
  t2 = t2
  t3 = t3
  root = root
  left = left
  right = right
  None = None
  Root = root
  Tasks <- Three
  Tokens <- RegionTokens
  Parent <- RegionParent
  Branches <- RegionBranches
  Before <- ChainBefore
  After <- RegionAfter
  Guarded = {}
  RetryLimit = 1
  MaxCalls = 1
  MaxCrashes = 0
INVARIANTS
  StragglersCompensated
CHECK_DEADLOCK FALSE
