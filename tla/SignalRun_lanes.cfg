SPECIFICATION Spec
CONSTANTS
  s1 = s1
  s2 = s2
  Signals = {s1, s2}
  NoSignal = NoSignal
  Handlers <- BothLanes
  Deployments <- AttendedOrNot
  ReorgBound = 1
INVARIANTS
  TypeOK
PROPERTIES
  UnknownOutcomeStaysOpen
  ConfirmedMeansDelivered
  NoBlindRebroadcast
  DeadLetterIsFinal
CHECK_DEADLOCK FALSE
