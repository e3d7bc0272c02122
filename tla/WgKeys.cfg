SPECIFICATION Spec
CONSTANTS
  Keys = {k1, k2, k3}
  None = None
SYMMETRY Symmetry
INVARIANTS
  SecretMatchesPublic
  ServerAgrees
PROPERTIES
  OldKeysAreRevoked
