SPECIFICATION Spec
CONSTANTS
  N = 2
  PipeSize = 1
  Images <- StandardImage
INVARIANT
  SuccessMeansWhole
CHECK_DEADLOCK FALSE
