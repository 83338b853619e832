\* All four runners; a budget that the second call reaches; the envelope's
\* cancellation, Ctrl-C's and that of the closing loop.
CONSTANTS
    None = None
    Kinds = {"builtin", "t2", "oh_tb", "local"}
    Budgets = {0, 1}
    MaxCalls = 3
    MaxCost = 1
    MaxFaults = 1
    MaxCancels = 3
SPECIFICATION Spec
INVARIANTS
    VerdictIsConsistent
    NoRunnerIsLeft
PROPERTY ImplementsAgentRun
CHECK_DEADLOCK FALSE
