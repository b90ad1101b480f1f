SPECIFICATION FairSpec
CONSTANTS
  Viewer = {v1}
  Sync = Sync
  Blocks = 3
INVARIANTS
  TypeOK
  NothingSkipped
  EndsWithOutcome
  CrashNeedsLeaver
PROPERTIES
  OutcomeShown
CHECK_DEADLOCK FALSE
