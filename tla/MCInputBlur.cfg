CONSTANTS
  Client = {c1}
  NoClient = NoClient
  Code = {"KeyA"}
  KeyMap <- SmallKeyMap
  Button = {0}
  MaxWire = 1
SPECIFICATION FairSpec
PROPERTIES
  AllReleased
CHECK_DEADLOCK FALSE
