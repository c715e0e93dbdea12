SPECIFICATION Spec
CONSTANTS
  p1 = p1
  p2 = p2
  p3 = p3
  Instances = {p1, p2}
  NoInstance = NoInstance
  Commands = {"watch"}
  Faults = {}
INVARIANTS
  OneWatcher
CHECK_DEADLOCK FALSE
