SPECIFICATION FairSpec
CONSTANTS
  Callers = {c1, c2}
  Workers = {w1, w2}
  Owner = owner
  Tasks = {t1, t2, t3}
  None = none
  Cancelable = {t1}
  AutoRun = TRUE
INVARIANTS
  TypeOK
  TokensMatch
  NoEarlyExit
  NothingLost
PROPERTIES
  ImplementsExecutor
  DestructorReturns
  SyncEnds
