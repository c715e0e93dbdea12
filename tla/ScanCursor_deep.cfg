SPECIFICATION Spec
CONSTANTS
  Confirmations = 1
  Span = 2
  Deployments <- OnlyDeep
  MaxHeight = 4
  ReorgBound = 1
  FaultBound = 1
INVARIANT
  CursorHidesNoBlock
