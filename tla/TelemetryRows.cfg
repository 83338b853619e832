SPECIFICATION Spec
CONSTANTS
    t1 = t1
    t2 = t2
    NoRow = NoRow
    NoTrace = NoTrace
    Tasks = {t1, t2}
    MaxCandidates = 1
    Confs <- MCConfs
    Outcomes <- MCOutcomes
    GateN = 1
    Parallel = 2
    MaxKills = 1
    MaxFaults = 1
INVARIANTS
    ComparisonIsExact
    RollupsCountEveryRun
CHECK_DEADLOCK FALSE
SYMMETRY Symmetric
