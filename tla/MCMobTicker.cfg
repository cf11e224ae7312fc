CONSTANTS
  s1 = s1
  pig = pig
  zombie = zombie
  Sessions = {s1}
  Mobs = {pig, zombie}
  Hostile = {zombie}
  Home <- MCHome
  Width = 3
  ChunkSize = 1
  ViewDistance = 1
  ChaseRadius = 2
  LeashRadius = 1
  SpawnPlace = 0
  MaxQueue = 0
SPECIFICATION Spec
INVARIANTS
  TypeOK
  MobsInOrder
  ViewsExact
PROPERTIES
  MobsAppear
  MobsVanish
CHECK_DEADLOCK FALSE
