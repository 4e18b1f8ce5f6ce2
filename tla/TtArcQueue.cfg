SPECIFICATION FairSpec
CONSTANTS
  Sender = {s1, s2}
  s1 = s1
  s2 = s2
  NumEntries = 2
  Word = 32
  MaxSends = 6
  NONE = NONE
INVARIANTS
  RequestRing
  ResponseRing
  OwnResponse
PROPERTIES
  SendReturns
CHECK_DEADLOCK FALSE
