CONSTANTS
  Joiner = {h1, h2}
  MaxCrashes = 1
  MaxCmds = 4
  Screencast = TRUE
  CanStop = TRUE
  MaxRecycles = 1
SPECIFICATION CaptureSpec
INVARIANTS
  TypeOK
  KmsTypeOK
  NothingLeaks
  CursorOfPlane
  PanicNeedsFault
PROPERTIES
  ImplementsSupervised
  CancelEndsProcesses
  ServerStops
CHECK_DEADLOCK FALSE
