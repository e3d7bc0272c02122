SPECIFICATION SealedSpec
CONSTANTS
  MaxRetries = 1
  BootStates = {secure, changed}
  None = None
INVARIANTS
  TargetHolds
  SealedKeysReturn
PROPERTIES
  RevokedIsKept
  EveryCommandEnds
