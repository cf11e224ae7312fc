CONSTANTS
  Base = 8
  MaxDigits = 4
  Word = 4096
  Width <- MCWidth
  XZ = 64
  Y = 16
  MaxPacket = 126
  Samples <- MCSamples
  Scripts <- MCScripts
  Cut <- MCCut
  Thresholds = {Uncompressed, 0, 3, 999}
  Uncompressed = Uncompressed
  Encrypted = {TRUE, FALSE}
  BlockLen = 2
  EncryptBlock <- MCEncryptBlock
  Interruptible = FALSE
  MaxWrites = 1
SPECIFICATION Spec
INVARIANTS
  TypeOK
  FramesIntact
  WireIsCfb8
  PacketsUnderstood
PROPERTY
  EveryFrameHandled
CHECK_DEADLOCK FALSE
