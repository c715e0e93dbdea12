SPECIFICATION FairSpec
CONSTANTS
  l1 = l1
  l2 = l2
  w1 = w1
  w2 = w2
  Logs = {l1}
  NoLog = NoLog
  Watchers = {w1, w2}
  NoWatcher = NoWatcher
  Mishaps = {"round", "crash", "jobs", "cursor"}
  MaxHeight = 2
  ReorgBound = 1
  MishapBound = 1
INVARIANTS
  TypeOK
  LogsBehindCursorHaveJobs
  PassLeavesScannedJobs
PROPERTIES
  FinalLogsSettle
CHECK_DEADLOCK FALSE
