SPECIFICATION FairSpec
CONSTANTS
  TunnelArgs = {berlin, tokyo}
  Interfaces = {wifi}
  Options = {o1, o2}
  DefaultOptions = o1
  Conns = {c1, c2}
  None = None
  MaxBytes = 1
INVARIANTS
  ConnectedIsSound
  AttemptIsCaptured
PROPERTIES
  ImplementsPromise
  StatsAreMonotone
  Converges
  DeadTunnelIsDropped
