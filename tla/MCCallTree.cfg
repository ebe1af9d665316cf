CONSTANTS
  Instances = {"root", "child"}
  Root = "root"
  Tasks = {"a", "b"}
  Body <- Short
  MayErr = {"child"}
  Catching = {}
  Timed = {"child"}
  Fallible = {"b"}
  Modes = {"workflow"}
  MaxCalls = 2
  MaxLost = 0
SPECIFICATION Spec
INVARIANTS TypeOK RootOwesNothing WalkInOrder LedgerTrue
PROPERTIES ReverseThroughTree UndoneOnce CascadeOnlyTheLiving
CONSTRAINT CallOrTimer
CHECK_DEADLOCK FALSE
