SPECIFICATION Spec
CONSTANTS
    Tasks = {"p2", "p3"}
    P0 = "p0"
    None = None
    MaxTurns = 5
    MaxDeaths = 3
INVARIANTS
    NoDuplicateTurn
    TurnsAccounted
    HeldForCause
CHECK_DEADLOCK FALSE
