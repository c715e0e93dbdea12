SPECIFICATION FairSpec
CONSTANTS
  p1 = p1
  p2 = p2
  p3 = p3
  Instances = {p1, p2, p3}
  NoInstance = NoInstance
  Commands = {"once", "watch"}
  Faults = {"crash", "io"}
INVARIANTS
  TypeOK
PROPERTIES
  LockLostOnlyToStaleTakeover
  ResidueIsTakenOver
CHECK_DEADLOCK FALSE
