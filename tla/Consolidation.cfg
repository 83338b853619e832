CONSTANTS
    None = None
    SeedId <- MCSeedId
    Tasks <- MCTasks
    MeanUnit = 6
    Outcomes <- MCOutcomes
    SeedDraws <- MCSeedDraws
    Modes <- MCModes
    MaxIterations = 3
    BeamWidth = 1
    BeamCandidates = 1
    MaxDepth = 4
    Ceiling = 2
    BarsFocus = FALSE
    MaxTraces = 20
    TraceBudget = 20
    MaxRepresentative = 3
    MaxInspiration = 5
SPECIFICATION Spec
INVARIANTS
    FocusIsInherited
    VerdictIsEarned
    NoTaskIsStarved
PROPERTY ImprovementReachesTheOracle
CHECK_DEADLOCK FALSE
