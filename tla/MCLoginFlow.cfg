CONSTANTS
  Registries = 2
  KnownPacks = {{"core"}, {"core", "other"}, {"other"}, {}}
  MaxStrays = 2
SPECIFICATION Spec
INVARIANTS
  TypeOK
  Readable
  OnlyVerifiedPlay
  PlayAfterConfiguration
PROPERTY
  LoginAnswered
CHECK_DEADLOCK FALSE
