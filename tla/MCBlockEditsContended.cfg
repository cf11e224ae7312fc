CONSTANTS
  s1 = s1
  s2 = s2
  s3 = s3
  west = west
  middle = middle
  east = east
  Sessions = {s1, s2}
  Cells <- MCCells
  Editable = {west, middle}
  Chunks <- MCCells
  ChunkOf <- MCChunkOf
  Centers = {1, 2}
  View <- MCView
  SpawnCenter = 1
  Contend = TRUE
  EchoMayFail = FALSE
  MaxEdits = 2
  MaxMoves = 1
SPECIFICATION Spec
INVARIANTS
  NobodyLeftBehind
CHECK_DEADLOCK FALSE
