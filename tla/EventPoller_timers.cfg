SPECIFICATION FairSpec
CONSTANTS
  Producers = {p1}
  Loop = loop
  Owner = owner
  Tasks = {}
  DelayTasks = {d1, d2}
  Io = io
  None = none
  Cancelable = {d1}
  Delays = {0, 1}
  NestedDelays = {1}
  PipeCap = 1
  ReadSize = 1
  MaxTime = 3
INVARIANTS
  TypeOK
  TimerArmed
PROPERTIES
  SleepEndsAtDeadline
  DelayedTaskFires
