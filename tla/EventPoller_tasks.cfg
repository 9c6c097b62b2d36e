SPECIFICATION FairSpec
CONSTANTS
  Producers = {p1, p2}
  Loop = loop
  Owner = owner
  Tasks = {t1, t2}
  DelayTasks = {}
  Io = io
  None = none
  Cancelable = {t1}
  Delays = {}
  NestedDelays = {}
  PipeCap = 2
  ReadSize = 1
  MaxTime = 0
INVARIANTS
  NoLostWakeup
  TasksAccounted
PROPERTIES
  ImplementsExecutor
  DestructorReturns
