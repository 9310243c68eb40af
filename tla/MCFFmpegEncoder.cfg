CONSTANTS
  NalCap = 1
  WriteCap = 1
  MaxPipe = 2
  MaxCrashes = 1
  MaxFails = 1
  MaxCmds = 3
SPECIFICATION FairSpec
INVARIANTS
  TypeOK
  NoNeedlessRestart
  EncoderNeverPanics
PROPERTIES
  ImplementsSupervised
  CloseEndsAll
  EncoderRecovers
  StreamsInOrder
CHECK_DEADLOCK FALSE
