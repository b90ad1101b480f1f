SPECIFICATION FairSpec
CONSTANTS
  N = 3
  PipeSize = 1
  Images <- AllImages
INVARIANTS
  TypeOK
  NothingLostInTransit
  HashedIsWritten
PROPERTIES
  ImplementsVerifiedWrite
  CancelReturns
  FeederEnds
  ServedRunReturns
CHECK_DEADLOCK FALSE
