SPECIFICATION FairSpec
CONSTANTS
  w1 = w1
  w2 = w2
  Writers = {w1, w2}
  NoWriter = NoWriter
  Faults = {"crash"}
  WriteBound = 2
INVARIANTS
  TypeOK
  OneWriterAtATime
PROPERTIES
  UpdatesAreAtomic
  ResidueIsBroken
CHECK_DEADLOCK FALSE
