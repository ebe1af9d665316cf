CONSTANTS
  Instances = {"root", "child"}
  Root = "root"
  Tasks = {"a", "b", "d"}
  Body <- OneCall
  MayErr = {"child"}
  Catching = {"child"}
  Timed = {}
  Fallible = {}
  Modes = {"direct"}
  MaxCalls = 1
  MaxLost = 1
SPECIFICATION FairSpec
PROPERTIES TakenUp
CHECK_DEADLOCK FALSE
