SPECIFICATION FairSpec
CONSTANTS
  Senders = {}
  Poller = poller
  Packets = {a, b, c}
  None = none
  CallbackCalls = TRUE
  MayReset = TRUE
  SndCap = 1
  MaxReads = 2
INVARIANTS
  InOrder
PROPERTIES
  FlushedMeansEmpty
  AllSent
