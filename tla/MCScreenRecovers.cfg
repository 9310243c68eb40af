CONSTANTS
  Joiner = {h1}
  MaxCrashes = 0
  MaxCmds = 2
  Screencast = FALSE
  CanStop = FALSE
SPECIFICATION FairSpec
PROPERTIES
  CaptureRecovers
CHECK_DEADLOCK FALSE
