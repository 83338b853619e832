CONSTANTS
    Names <- MCNames
    Sources <- MCSources
    Paths = {"python", "bash", "agentic", "spine"}
    Live = TRUE
    Sandboxed = {TRUE, FALSE}
    Oracle = {TRUE, FALSE}
    Deploy = {TRUE}
    SeedLibraries <- SomeSeeds
    MaxLayers = 2
    MaxRebuilds = 1
    MaxRetries = 1
    Scores = {0, 1}
    Threshold = 1
SPECIFICATION Spec
INVARIANTS
    VerifiedHelpersFindTheirCalls
    BarsAreEarned
CHECK_DEADLOCK FALSE
