SPECIFICATION Spec
CONSTANTS
  a = a
  b = b
  Ids = {a, b}
  Names = {a, b}
  Jobs = {j1}
  Runs = {r1}
  Writers <- AllWriters
  Installed <- OneImage
  None = None
INVARIANT DeleteRemovesItsOwnFile
CHECK_DEADLOCK FALSE
