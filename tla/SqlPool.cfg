CONSTANTS
  Threads = {worker, caller}
  Worker = worker
  worker = worker
  caller = caller
  Objects = {o1, o2, o3, o4}
  o1 = o1
  o2 = o2
  o3 = o3
  o4 = o4
  Sizes = {1, 2}
  None = none
  Statements = {s1, s2}
  s1 = s1
  s2 = s2
  Formats = {s2}
  TryCnt = 3
  MaxFaults = 3
SPECIFICATION FairSpec
INVARIANTS TypeOK ConnectionsSound
PROPERTY StatementsServed
