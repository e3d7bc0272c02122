SPECIFICATION Spec
CONSTANTS
  Configs = {c1, c2}
  None = None
  Sockets = {s1, s2, s3}
SYMMETRY Symmetry
CONSTRAINT Bounded
INVARIANTS
  OkMeansInForce
PROPERTIES
  KillSwitchHeld
  ImplementsCalls
