SPECIFICATION FairSpec
CONSTANTS
  MaxAttempts = 3
  Closers = {c1}
  None = none
INVARIANTS
  TypeOK
  MembersSound
PROPERTIES
  AnswersFresh
  Answered
