SPECIFICATION FairSpec
CONSTANTS
  t1 = t1
  t2 = t2
  t3 = t3
  root = root
  left = left
  right = right
  None = None
  Root = root
  Tasks <- Two
  Tokens <- SingleTokens
  Parent <- SingleParent
  Branches <- SingleBranches
  Before <- SingleBefore
  After <- SingleAfter
  Guarded = {t2}
  RetryLimit = 2
  MaxCalls = 2
  MaxCrashes = 0
INVARIANTS
  AllOrNothing
  CompensatedMeansUndone
  RetryHasTarget
PROPERTIES
  ReverseSettles
CHECK_DEADLOCK FALSE
