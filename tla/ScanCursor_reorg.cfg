SPECIFICATION FairSpec
CONSTANTS
  Confirmations = 1
  Span = 2
  Deployments <- Watchers
  MaxHeight = 4
  ReorgBound = 2
  FaultBound = 2
INVARIANTS
  TypeOK
  CursorHidesNoBlock
  AnchorsAreCommonAncestors
  NoFalseReorg
PROPERTIES
  FinalizedIsScanned
