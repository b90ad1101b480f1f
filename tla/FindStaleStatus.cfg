SPECIFICATION Spec
CONSTANTS
  Task = {t1}
  NoTask = NoTask
  Shutdown = {}
INVARIANT
  StatusAccurateAtRest
CHECK_DEADLOCK FALSE
