SPECIFICATION Spec
CONSTANTS
  q1 = q1  s1 = s1  r1 = r1  r2 = r2  r3 = r3
  g1 = g1  g2 = g2  t1 = t1  t2 = t2  h1 = h1
  Requests = {q1, s1}
  Scheduled = {s1}
  Relations = {r1, r2, r3}
  Untracked = {r3}
  PoolSize <- MCPoolSize
  Handlers = {g1, g2}
  Threads = {t1, t2}
  Registrars = {h1}
  Tables = {r1, r2}
  Others = {o1}
  Owner = owner
  OwnerChanges = 2
  Loads <- MCLoads
INVARIANTS
  TypeOK
  RunTellsTheTruth
  GrantedStays
  RegisterTellsAll
  DenialsOnRecord
  ResultsMeanFinished
PROPERTIES
  GrantsAccumulate
  ThreadsKeepClear
  RunsEnd
CHECK_DEADLOCK FALSE
