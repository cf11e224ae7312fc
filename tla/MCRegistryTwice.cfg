CONSTANTS
  s1 = s1
  s2 = s2
  s3 = s3
  alice = alice
  bob = bob
  Sessions = {s1, s2, s3}
  Uuids = {alice, bob}
  UuidOf <- RejoinUuidOf
  Positions = {0, 1}
  Yaws = {0, 1}
  Spawn <- MCSpawn
  Absent = Absent
  Exclusive = FALSE
  MaxFrames = 0
SPECIFICATION Spec
INVARIANT
  StaysRegistered
CHECK_DEADLOCK FALSE
