CONSTANTS
  Cap = 2
  MaxChunks = 5
  MaxCrashes = 2
  MaxFails = 1
  MaxCmds = 4
SPECIFICATION FairSpec
INVARIANTS
  TypeOK
  LatestKept
  NeverBlocks
PROPERTIES
  ImplementsSupervised
  SoundArrives
  StopsOrStuck
CHECK_DEADLOCK FALSE
