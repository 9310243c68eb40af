CONSTANTS
  Client = {c1, c2}
  NoClient = NoClient
  MaxClients = 1
  BufSize = 2
  HasInput = TRUE
  MaxNals = 5
  MaxChunks = 1
SPECIFICATION ScenarioSpec
INVARIANTS
  TypeOK
  InputExclusive
  CountExact
  NoMissedCheckpoint
  AtMostOneReplay
PROPERTIES
  ImplementsLease
  Reclaimed
  QueueServed
CHECK_DEADLOCK FALSE
