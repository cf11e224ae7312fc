CONSTANTS
  home = home
  near = near
  far = far
  Chunks = {home, near, far}
  Regions = {1, 2}
  RegionOf <- MCRegionOf
  Seeds = {0, 7}
  DefaultSeed = 0
  NoSeed = NoSeed
  SeedFile = 3
  MaxEdits = 2
  MaxStarts = 2
  MaxFaults = 2
  Base = 8
  MaxDigits = 4
  Word = 4096
  Width <- MCWidth
  Side = 2
  SectionCount = 3
  MinY <- MCMinY
  BiomeCount = 1
  Layers <- MCLayers
  DirtDepth = 1
  MinBits = 2
  MaxBits = 3
  DirectBits = 4
  LongBits = 8
  Supported = {0, 1, 2, 3, 7}
  RegionSize = 2
  SectorSize = 8
  Surface <- MCSurface
  Changes <- MCChanges
  Position <- MCPosition
  Sizes = {3, 4, 5}
SPECIFICATION Spec
INVARIANTS
  TypeOK
  OnlyRiskedLost
  ColumnsKept
  HeightsRight
  RegionsReadBack
PROPERTIES
  ImplementsDurableWorld
  EditsReachDisk
CHECK_DEADLOCK FALSE
