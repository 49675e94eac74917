\* Two workspaces of one account; one request races with deletion, GC and cleanup.
CONSTANTS
    Workspaces = {w1, w2}
    Devices = {d1, d2}
    Objects = {o1, o2}
    Requests = {r1}
    c1 = c1
    c2 = c2
    Contents = {c2}
    Size <- MCSize
    None = None
    MaxPendingBytes = 3
    MaxWorkspaceBytes = 3
    MaxAccountBytes = 3
    MaxBlobBytes = 2
    MaxWorkspaceCount = 2
    PendingAge = 1
    PresignTTL = 1
    OrphanLimit = 1
    MaxTime = 1
SPECIFICATION Spec
INVARIANTS TypeOK AccountUsageExact QuotaRespected
SYMMETRY Symmetry
CONSTRAINTS OneDeviceEach NothingPurged
CHECK_DEADLOCK FALSE
