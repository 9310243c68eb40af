CONSTANTS
  Client = {c1, c2}
  SendCap = 3
SPECIFICATION FairSpec
INVARIANTS
  TypeOK
  StartPending
PROPERTIES
  StreamStarts
CHECK_DEADLOCK FALSE
