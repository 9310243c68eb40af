CONSTANTS
  Client = {c1}
  NoClient = NoClient
  MaxClients = 2
  BufSize = 2
  HasInput = TRUE
  MaxNals = 5
  MaxChunks = 0
SPECIFICATION Spec
INVARIANTS
  CheckpointFirst
CHECK_DEADLOCK FALSE
