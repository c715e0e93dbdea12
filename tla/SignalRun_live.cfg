SPECIFICATION FairSpec
CONSTANTS
  s1 = s1
  s2 = s2
  Signals = {s1, s2}
  NoSignal = NoSignal
  Handlers <- ReturnsOne
  Deployments <- OnlyLate
  ReorgBound = 1
PROPERTIES
  EverySignalSettles
CHECK_DEADLOCK FALSE
