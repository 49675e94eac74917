\* One workspace, two requests in flight on two objects.
CONSTANTS
    Workspaces = {w1}
    Devices = {d1}
    Objects = {o1, o2}
    Requests = {r1, r2}
    c1 = c1
    c2 = c2
    Contents = {c1, c2}
    Size <- MCSize
    None = None
    MaxPendingBytes = 3
    MaxWorkspaceBytes = 3
    MaxAccountBytes = 3
    MaxBlobBytes = 2
    MaxWorkspaceCount = 2
    PendingAge = 1
    PresignTTL = 1
    OrphanLimit = 1
    MaxTime = 3
SPECIFICATION Spec
INVARIANTS WorkspaceUsageExact AvailableHasBytes NoLeakedBlob
PROPERTY RowLifecycle
SYMMETRY Symmetry
CONSTRAINTS NothingPurged ClosedByTheEnd
CHECK_DEADLOCK FALSE
