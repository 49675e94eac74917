\* One call at a time, three commit ids: the shapes a history can take, and a
\* desktop that pulls it page by page meanwhile.
CONSTANTS
    CommitIds = {c1, c2, c3}
    Devices = {d1}
    b1 = b1
    k1 = k1
    Objects = {b1, k1}
    Kind <- MCKind
    Requests = {r1}
    Readers = {p1}
    Params <- MCParams
    MaxDeviceSeq = 3
    None = None
    PageSize = 1
    MaxServerSeq = 4
SPECIFICATION Spec
INVARIANTS TypeOK ServerSeqOrder ParentsEarlier CommitsDownloadable ReplayIsSegment PreservedIsSuffix
SYMMETRY Symmetry
CHECK_DEADLOCK FALSE
