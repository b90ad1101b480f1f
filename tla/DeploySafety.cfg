SPECIFICATION Spec
CONSTANTS
  Task = {t1, t2, t3}
  NoTask = NoTask
  Shutdown = {}
SYMMETRY Symmetry
CONSTRAINT ThirdWithoutSync
INVARIANTS
  TypeOK
  ExclusiveUntilInterrupted
  CurrentStoppable
  AbandonedIsStopped
  OrphanNeedsLateCompletion
  StatusCoherent
CHECK_DEADLOCK FALSE
