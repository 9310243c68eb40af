CONSTANTS
  Client = {c1, c2}
  NoClient = NoClient
  Code = {"KeyA", "IntlRo"}
  KeyMap <- SmallKeyMap
  Button = {0, 3}
  MaxWire = 1
SPECIFICATION FairSpec
INVARIANTS
  TypeOK
  ReportsWhole
  HostFollows
PROPERTIES
  KeysComeUp
CHECK_DEADLOCK FALSE
