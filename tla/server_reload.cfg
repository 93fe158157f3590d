SPECIFICATION ServerSpec
CONSTANTS
  j1 = j1
  j2 = j2
  w1 = w1
  Jobs = {j1, j2}
  Workspaces = {w1}
  Chunks = 2
  Limits = {0}
  Ops = {"translate"}
  Passes = 1
  PipeCap = 1
  Corrupt = FALSE
  MaxRestarts = 1
  MaxFailures = 0
  HttpFaults = FALSE
  Archivable = {}
  None = None
SYMMETRY Symmetry
INVARIANTS
  ReloadedWorkIsKept
  ReloadedWorkIsDoneOnce
CHECK_DEADLOCK FALSE
