CONSTANTS
    None = None
    SeedId <- MCSeedId
    Tasks <- MCTasks
    MeanUnit = 6
    Outcomes <- MCOutcomes
    SeedDraws <- MCSeedDraws
    Modes <- MCModes
    MaxIterations = 3
    BeamWidth = 1
    BeamCandidates = 1
    MaxDepth = 4
    Ceiling = 2
    BarsFocus = FALSE
    MaxTraces = 2
    TraceBudget = 20
    MaxRepresentative = 3
    MaxInspiration = 5
SPECIFICATION Spec
INVARIANT FocusIsShown
CHECK_DEADLOCK FALSE
