SPECIFICATION FairServerSpec
CONSTANTS
  j1 = j1
  w1 = w1
  Jobs = {j1}
  Workspaces = {w1}
  Chunks = 1
  Limits = {0}
  Ops = {"translate"}
  Passes = 2
  PipeCap = 1
  Corrupt = FALSE
  MaxRestarts = 0
  MaxFailures = 1
  HttpFaults = TRUE
  Archivable = {w1}
  None = None
INVARIANTS
  NoWorkerOutlivesServer
PROPERTIES
  StopEndsServer
  ReloadEnds
CHECK_DEADLOCK FALSE
