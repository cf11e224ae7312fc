CONSTANTS
  s1 = s1
  s2 = s2
  s3 = s3
  west = west
  middle = middle
  east = east
  Sessions = {s1, s2, s3}
  Cells <- MCCells
  Editable = {middle, east}
  Chunks <- MCCells
  ChunkOf <- MCChunkOf
  Centers = {1, 2}
  View <- MCView
  SpawnCenter = 1
  Contend = FALSE
  EchoMayFail = FALSE
  MaxEdits = 3
  MaxMoves = 1
SPECIFICATION Spec
INVARIANTS
  TypeOK
  NobodyLeftBehind
PROPERTY
  ClientsConverge
CHECK_DEADLOCK FALSE
