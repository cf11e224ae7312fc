CONSTANTS
  Servers = {first, second}
  Texts <- MCTexts
  Defaults <- MCDefaults
  NoKey = "none"
  Backslash <- MCBackslash
  Escapable <- MCEscapable
  NoFile = NoFile
  MaxStarts = 3
  MaxEdits = 1
  MaxFaults = 1
SPECIFICATION Spec
INVARIANTS
  TypeOK
  
  Settled
  LogsKept
  AgreementKept
PROPERTY
  EveryStartDecides
CHECK_DEADLOCK FALSE
