CONSTANTS
  Instances = {"root", "child", "grand"}
  Root = "root"
  Tasks = {"b", "d"}
  Body <- Deep
  MayErr = {}
  Catching = {}
  Timed = {}
  Fallible = {}
  Modes = {"workflow"}
  MaxCalls = 1
  MaxLost = 0
SPECIFICATION Spec
PROPERTIES DescendantsFirst
CHECK_DEADLOCK FALSE
