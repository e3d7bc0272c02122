SPECIFICATION Spec
CONSTANTS
  Accounts = {alice, bob, carol}
  None = None
  Lists = {"exits"}
  Tasks = {t1, t2}
  MaxVersion <- MCMaxVersion
SYMMETRY Symmetry
CONSTRAINT Bounded
INVARIANTS
  LoginIsConsistent
  UpdatesAreExclusive
PROPERTIES
  ListsMoveForward
