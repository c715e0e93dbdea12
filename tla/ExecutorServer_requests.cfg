SPECIFICATION FairSpec
CONSTANTS
  r1 = r1
  r2 = r2
  d1 = d1
  d2 = d2
  o1 = o1
  h1 = h1
  h2 = h2
  a = a
  b = b
  c = c
  k = k
  NoId = NoId
  NoOrder = NoOrder
  NoKey = NoKey
  effectOf <- OneOrder
  handlers <- Handlers
  RestartBound = 1
  SignalBound = 2
  Requests = {r1, r2}
  Ids = {d1, d2}
  MaxAttempts = 2
INVARIANTS
  TypeOK
  DispatchRunsOnce
  DeliveryRecordIsTruthful
  SignalBroadcastOnce
  OutcomesStand
PROPERTIES
  AcceptedIsSettled
CHECK_DEADLOCK FALSE
