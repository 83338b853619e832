SPECIFICATION Spec
CONSTANTS
    Kinds <- AllKinds
    FileOf <- FilesOfTwo
    LoadFailed <- Unreadable
    DevMaps <- SomeDevMaps
    Workers = 2
    Pids = {1, 2}
    Forkers = {2}
    MaxBatch = 2
    MaxCalls <- TwoAndOne
INVARIANTS
    UsageIsTheChildsOwn
    LossIsBounded
    ResultIsNotMissed
    NothingIsEarnedByFailing
PROPERTY OnlyATornResultBlocks
CHECK_DEADLOCK FALSE
