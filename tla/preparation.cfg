SPECIFICATION Spec
CONSTANTS
    Parts <- MCParts
    Dirs <- MCDirs
    MaxSources = 2
    MaxFailures = 3
    MaxDeaths = 1
    None = None
INVARIANTS
    PlanSurvives
    SettledPlanIsWhole
    ChoicesFitPlan
    MadeFromSelected
PROPERTY
    WorkIsKept
CHECK_DEADLOCK FALSE
