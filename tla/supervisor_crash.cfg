SPECIFICATION Spec
CONSTANTS
  j1 = j1
  j2 = j2
  w1 = w1
  Jobs = {j1, j2}
  Workspaces = {w1}
  Chunks = 1
  Limits = {0}
  Ops = {"translate"}
  Passes = 1
  PipeCap = 1
  Corrupt = FALSE
  MaxRestarts = 1
  MaxFailures = 1
  None = None
SYMMETRY Symmetry
INVARIANTS
  LiveWorkerIsOwned
  AtMostOneWriter
PROPERTY
  ImplementsLifecycle
CHECK_DEADLOCK FALSE
