CONSTANTS
  s1 = s1
  s2 = s2
  s3 = s3
  alice = alice
  bob = bob
  Sessions = {s1, s2, s3}
  Uuids = {alice, bob}
  UuidOf <- RejoinUuidOf
  Positions = {0, 1}
  Yaws = {0, 1}
  Spawn <- MCSpawn
  Absent = Absent
  Exclusive = TRUE
  MaxFrames = 2
SPECIFICATION Spec
INVARIANTS
  TypeOK
  PosesConverge
  TabListExact
  StaysRegistered
  MovementAfterSpawn
  NobodyMissing
CHECK_DEADLOCK FALSE
