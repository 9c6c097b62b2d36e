SPECIFICATION FairSpec
CONSTANTS
  Producers = {p1}
  Loop = loop
  Owner = owner
  Tasks = {}
  DelayTasks = {d1, d2}
  Io = io
  None = none
  Cancelable = {}
  Delays = {1}
  NestedDelays = {0}
  PipeCap = 1
  ReadSize = 1
  MaxTime = 2
PROPERTIES
  DelayedTaskFires
