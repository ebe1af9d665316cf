SPECIFICATION Spec
CONSTANT Graphs <- MCGraphs
INVARIANTS
  Confined
  NeverStalls
  ReentryIsGuarded
  ArrivesAtItsJoin
CHECK_DEADLOCK FALSE
