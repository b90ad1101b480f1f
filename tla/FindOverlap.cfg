SPECIFICATION Spec
CONSTANTS
  Task = {t1, t2}
  NoTask = NoTask
  Shutdown = {}
INVARIANT
  OneDeployAtATime
CHECK_DEADLOCK FALSE
