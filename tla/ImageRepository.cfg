SPECIFICATION Spec
CONSTANTS
  a = a
  b = b
  Ids = {a, b}
  Names = {a, b}
  Jobs = {j1, j2}
  Runs = {r1}
  Writers <- AllWriters
  Installed <- OneImage
  None = None
CONSTRAINT NotStale
SYMMETRY JobSymmetry
INVARIANTS
  TypeOK
  RegisteredIntact
  RegisteredOnce
  LockProtectsIndex
PROPERTIES
  NothingForgotten
CHECK_DEADLOCK FALSE
