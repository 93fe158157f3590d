SPECIFICATION FairSpec
CONSTANTS
  j1 = j1
  w1 = w1
  Jobs = {j1}
  Workspaces = {w1}
  Chunks = 3
  Limits = {0, 1, 2}
  Ops = {"translate", "target", "other"}
  Passes = 4
  PipeCap = 2
  Corrupt = TRUE
  MaxRestarts = 0
  MaxFailures = 0
  None = None
INVARIANTS
  SuccessIsComplete
  RestIsHandedOver
  ReloadSignalsInstalledHandler
PROPERTIES
  StopEnds
  DrainEnds
CHECK_DEADLOCK FALSE
