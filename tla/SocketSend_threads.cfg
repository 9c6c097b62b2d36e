SPECIFICATION Spec
CONSTANTS
  Senders = {s1, s2}
  Poller = poller
  Packets = {a, b, c}
  None = none
  CallbackCalls = TRUE
  MayReset = TRUE
  SndCap = 1
  MaxReads = 1
SYMMETRY Symmetry
INVARIANTS
  TypeOK
  InOnePlace
  OneLockCycle
