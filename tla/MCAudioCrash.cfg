CONSTANTS
  Cap = 2
  MaxChunks = 1
  MaxCrashes = 1
  MaxFails = 1
  MaxCmds = 3
SPECIFICATION Spec
INVARIANTS
  NeverPanics
CHECK_DEADLOCK FALSE
