CONSTANTS
    None = None
    SeedId <- MCSeedId
    MergeId <- MCMergeId
    Tasks <- MCTasks
    Evaluations <- DisjointWins
    SeedEvaluations <- SecondWin
    MeanUnit = 2
    MaxIterations = 2
    BeamWidth = 2
    BeamCandidates = 1
    MaxDepth = 3
    Patience = 2
    EpsilonPermille = 20
    RegressionGuard = TRUE
    Resamples = 1
    BarChoices <- NoBars
    WithinLayerRefine = FALSE
    Repropagation = TRUE
    DailyBudget = TRUE
    MaxInterruptions = 1
    MaxLostCheckpoints = 1
SPECIFICATION Spec
INVARIANT ResumeIsTransparent
CHECK_DEADLOCK FALSE
