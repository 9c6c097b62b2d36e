CONSTANTS
  p1 = p1
  p2 = p2
  a = a
  b = b
  Pollers = {p1, p2}
  Main = p1
  Peers = {a, b}
  MaxInputs = 3
SPECIFICATION FairSpec
INVARIANTS TypeOK SessionsSound CallbacksOnOwnThread
PROPERTY SessionsServed
