SPECIFICATION FairSpec
CONSTANTS
  p1 = p1
  p2 = p2
  p3 = p3
  w1 = w1
  o1 = o1
  o2 = o2
  j1 = j1
  Pids = {p1, p2}
  NoPid = NoPid
  MaxAttempts = 1
  AttemptBound = 1
  Jobs = {j1}
  NoJob = NoJob
  Executors = {w1, o1}
  pidOf <- OneOperator
  Watchers = {w1}
  Operators = {o1}
  Handling = {w1, o1}
  DryRun = {}
  PidReuse = FALSE
PROPERTIES
  StrandedRunIsTakenOver
  StuckReleaseClears
  JobsAreLent
CHECK_DEADLOCK FALSE
