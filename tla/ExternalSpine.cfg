\* Three executions at a time over two slots, under a time limit.
CONSTANTS
    Runs = {r1, r2, r3}
    Parallel = 3
    MaxDocker = 2
    Headroom = 1
    MaxCost = 1
    TimeLimit = TRUE
    MaxFaults = 1
    MaxDays = 1
SPECIFICATION FairSpec
INVARIANTS
    LeasesAreAccounted
    OvershootIsBounded
    OneRowPerExecution
    UndercountIsBounded
PROPERTY EveryExecutionEnds
CHECK_DEADLOCK FALSE
