SPECIFICATION Spec
CONSTANTS
  Viewer = {}
  Sync = Sync
  Blocks = 1
INVARIANT
  NoSendOnClosed
CHECK_DEADLOCK FALSE
