SPECIFICATION Spec
CONSTANTS
    s1 = s1
    omega = omega
    NoScore = NoScore
    Callers = {s1, omega}
    Solvers = {s1}
    Threshold = 1
    MaxCost = 1
    MaxRetries = 1
    MaxFaults = 1
    MaxTurns = 4
    SpendBudget = 1
    MaxInner = 1
    Perfect = 1
INVARIANTS
    SpendIsBounded
    UsageIsReported
    ConfirmationIsTwofold
PROPERTY EverySolverEnds
CHECK_DEADLOCK FALSE
