CONSTANTS
  Base = 8
  MaxDigits = 4
  Word = 4096
  Width <- MCWidth
  Side = 2
  SectionCount = 3
  MinY <- MCMinY
  BiomeCount = 1
  Layers <- MCLayers
  DirtDepth = 1
  MinBits = 2
  MaxBits = 3
  DirectBits = 4
  LongBits = 8
  Surfaces <- MCSurfaces
  Spots <- MCSpots
  Biome = 5
  Nothing = Nothing
SPECIFICATION Spec
INVARIANT
  ColumnReadable
