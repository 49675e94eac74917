SPECIFICATION Spec
CONSTANTS
    MaxRuns = 2
    Paths = {p, q}
    MaxVersion = 1
    RoundLimit = 1
    MaxCalls = 2
    MinRawTurns = 1
PROPERTIES CancelledRunsEnd RunsReachEndOrUser
CHECK_DEADLOCK FALSE
