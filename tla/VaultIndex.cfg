SPECIFICATION Spec
CONSTANTS
    Paths = {p, q}
    MaxOps = 1
    MaxOutside = 1
    MaxExtras = 1
INVARIANTS TypeOK SettledIndexIsVault QueueIsAsNoted
CONSTRAINT ShortQueues
CHECK_DEADLOCK FALSE
