\* One live archive on a unit scale, regression guard and verified code on.
CONSTANTS
    None = None
    SeedId = gen0_seed
    MergeId = merge_oracle
    ChildIds = {c1, c2}
    Tasks <- MCTasks
    Outcomes <- UnitOutcomes
    MeanUnit = 2
    MaxDepth = 3
    RegressionGuard = TRUE
    Resamples = 1
    VerifiedCode = TRUE
SYMMETRY MCSymmetry
SPECIFICATION Spec
INVARIANTS
    PerTaskBestDominates
PROPERTIES
    PerTaskBestNeverDrops
    MergeDeploysTheOracle
CHECK_DEADLOCK FALSE
