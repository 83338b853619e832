\* Three cancellations: the envelope's, Ctrl-C's and that of the closing loop.
CONSTANTS
    MaxCancels = 3
    MaxFaults = 2
SPECIFICATION FairSpec
INVARIANTS
    SweepsFollowTheKill
    NothingIsLeft
    VerdictStands
PROPERTIES
    ImplementsAgentRun
    RunEnds
CHECK_DEADLOCK FALSE
