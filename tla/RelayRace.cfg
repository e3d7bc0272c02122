SPECIFICATION FairSpec
CONSTANTS
  Attempts <- MCAttempts
  RoundTrips <- MCRoundTrips
  FirstDeadline = 12
  Cap = 10
  Enough = 2
  NoAttempt = NoAttempt
INVARIANTS
  BestIsFastest
  SelectionIsPrompt
  OneIsHeld
PROPERTY EveryHandshakeEnds
