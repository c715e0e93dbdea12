SPECIFICATION Spec
CONSTANTS
  c1 = c1
  c2 = c2
  t1 = t1
  t2 = t2
  me = me
  other = other
  home = home
  away = away
  Commands = {c1, c2}
  Tasks = {t1, t2}
  Wallets = {me, other}
  Domains = {home, away}
  NoTask = NoTask
  Unset = Unset
  PrepareOptions <- MyTasks
  SubmitOptions <- MySubmits
  MaxTime = 1
  PrepareBound = 2
INVARIANTS
  TypeOK
  SignsOnlyWhatWasNamed
  ServerVerdictStands
