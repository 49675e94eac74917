\* Two files, two calls at a time, any two crashes, failures and user's changes.
CONSTANTS
    N = 2
    Operations <- MCOperations
    Calls = {c1, c2}
    Selections <- MCSelections
    MaxApplies = 3
    MaxFaults = 2
SPECIFICATION Spec
INVARIANTS TypeOK OneApplyAtATime PublishedIsAccounted CrashesAreRepaired
PROPERTY OnlySeenIsReplaced
SYMMETRY Symmetry
CONSTRAINT NotDoubled
CHECK_DEADLOCK FALSE
