SPECIFICATION Spec
CONSTANTS
  Senders = {s1}
  Poller = poller
  Packets = {a, b}
  None = none
  CallbackCalls = FALSE
  MayReset = FALSE
  SndCap = 1
  MaxReads = 0
INVARIANTS
  InOrder
