SPECIFICATION Spec
CONSTANTS
    Units = 2
    Chunks = 2
    Terms = {"term"}
    Forms = {"a", "b"}
    Default = "a"
    Mentions <- MCMentions
    Answers <- MCAnswers
    Suffix <- MCSuffix
    Ends <- MCEnds
    None = None
    Limits = {0, 1}
    MaxEdits = 1
    Targets = {3, 5}
    MaxTargets = 1
    MaxDeaths = 1
    MaxEpubs = 2
INVARIANTS
    ResetIsWhole
    UnitsReadPredecessors
    AgreedUnlessTorn
    DoneIsCurrent
    EditionsHold
PROPERTY
    UnlimitedRunFinishesAll
CHECK_DEADLOCK FALSE
