CONSTANTS
  Base = 2
  MaxDigits = 4
  Word = 16
  MaxPacket = 3
  Scripts <- MCScripts
  Cut <- MCScripts
  Thresholds = {Uncompressed, 0, 3, 99}
  Uncompressed = Uncompressed
  Encrypted = {TRUE, FALSE}
  BlockLen = 2
  EncryptBlock <- MCEncryptBlock
  Interruptible = TRUE
  MaxWrites = 1
SPECIFICATION Spec
INVARIANT
  FramesIntact
CHECK_DEADLOCK FALSE
