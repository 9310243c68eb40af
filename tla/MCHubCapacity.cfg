CONSTANTS
  Client = {c1, c2, c3}
  NoClient = NoClient
  MaxClients = 2
  BufSize = 1
  HasInput = TRUE
  MaxNals = 0
  MaxChunks = 0
SPECIFICATION Spec
SYMMETRY Symmetry
INVARIANTS
  WithinCapacity
CHECK_DEADLOCK FALSE
