SPECIFICATION FairSpec
CONSTANTS
  Task = {t1}
  NoTask = NoTask
  Shutdown = {s1, s2}
PROPERTIES
  CancelDrains
  SyncStops
  ShutdownTakesEffect
CHECK_DEADLOCK FALSE
