SPECIFICATION Spec
CONSTANTS
  Parts = {"home", "sqlite"}
  MaxServers = 2
  MaxTurns = 2
  MaxDeaths = 3
  None = None
INVARIANTS
  NoSecondRuntime
  RefusedForCause
PROPERTY
  ImplementsSession
CHECK_DEADLOCK FALSE
