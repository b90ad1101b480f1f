SPECIFICATION Spec
CONSTANTS
  Deployments = {d1, d2}
  None = None
  MaxBoots = 2
SYMMETRY DeploymentSymmetry
VIEW HistoryView
INVARIANTS
  TypeOK
  HistoryIsGenuine
  HistoryIsAccurate
  RunningIsLive
  SuccessesNotInflated
  PortalIsRight
CHECK_DEADLOCK FALSE
