CONSTANTS
  Page = {p1, p2}
  MaxConns = 2
  NoConn = NoConn
SPECIFICATION FairSpec
INVARIANTS
  TypeOK
  OneOfEach
PROPERTIES
  RefusedForCause
  Reconnects
CHECK_DEADLOCK FALSE
