SPECIFICATION FairConnectSpec
CONSTANTS
  None = None
  Exits <- MCExits
  Relays = {"r"}
  Versions = {1, 2}
  Place <- MCPlace
  Tier <- MCTier
  Preferred <- MCPreferred
  Listed <- MCListed
  Selectors <- MCSelectors
  Limits <- MCLimits
  Resends = 2
INVARIANTS
  ExitsTakeTurns
PROPERTIES
  NoExitIsJustified
  EveryAttemptEnds
