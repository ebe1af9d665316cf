CONSTANTS
  Instances = {"root", "child"}
  Root = "root"
  Tasks = {"a", "b"}
  Body <- Short
  MayErr = {}
  Catching = {}
  Timed = {}
  Fallible = {"a", "b"}
  Modes = {"direct"}
  MaxCalls = 2
  MaxLost = 0
SPECIFICATION Spec
INVARIANT ChildOwesNothing
CHECK_DEADLOCK FALSE
