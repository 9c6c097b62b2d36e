SPECIFICATION FairSpec
CONSTANTS
  MaxNumber = 2
  MaxSockets = 3
  Switched = {1}
  Loop = loop
  Other = other
  None = none
  Pipe = pipe
INVARIANTS
  TypeOK
  RegistrationsSound
  EventsOwn
PROPERTIES
  DataRead
