SPECIFICATION FairSpec
CONSTANTS
  Pollers = {p1}
  Readers = {r1, r2}
  Cached = {r1}
  Dispatchers = {d1, d2}
  Elsewhere = elsewhere
  None = none
  MaxLog = 3
  MaxSize = 2
  MaxGops = 2
INVARIANTS
  TypeOK
  CachesSound
  MapsSound
PROPERTIES
  ImplementsBroadcast
