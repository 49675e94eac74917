SPECIFICATION Spec
CONSTANTS
    MaxRuns = 2
    Paths = {p, q}
    MaxVersion = 2
    RoundLimit = 2
    MaxCalls = 2
    MinRawTurns = 1
INVARIANTS TypeOK ControlDescribesRun ChangesAreApproved OnlySeenIsLost CancelIsReported RequestsAreWellFormed
CHECK_DEADLOCK FALSE
