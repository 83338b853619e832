CONSTANTS
    None = None
    SeedId <- MCSeedId
    MergeId <- MCMergeId
    Tasks <- MCTasks
    Evaluations <- DisjointWins
    SeedEvaluations <- SecondWin
    MeanUnit = 2
    MaxIterations = 2
    BeamWidth = 1
    BeamCandidates = 1
    MaxDepth = 3
    Patience = 2
    EpsilonPermille = 20
    RegressionGuard = TRUE
    Resamples = 0
    BarChoices <- MCBarChoices
    WithinLayerRefine = TRUE
    Repropagation = FALSE
    DailyBudget = TRUE
    MaxInterruptions = 1
    MaxLostCheckpoints = 1
SPECIFICATION FairSpec
INVARIANTS
    MemoryMatchesDisk
    ResumeIsTransparent
PROPERTIES
    WorkIsNeverRepeated
    Terminates
CHECK_DEADLOCK FALSE
