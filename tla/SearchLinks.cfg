SPECIFICATION Spec
CONSTANTS
    DocIds <- MCDocIds
    Targets <- MCTargets
    Texts <- MCTexts
    MaxUid = 3
INVARIANTS TypeOK LinksAreResolved
CHECK_DEADLOCK FALSE
