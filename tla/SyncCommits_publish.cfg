\* Two calls in flight, two devices, two commit ids.
CONSTANTS
    CommitIds = {c1, c2}
    Devices = {d1, d2}
    b1 = b1
    k1 = k1
    Objects = {b1, k1}
    Kind <- MCKind
    Requests = {r1, r2}
    Readers = {}
    Params <- MCRaceParams
    MaxDeviceSeq = 2
    None = None
    PageSize = 1
    MaxServerSeq = 4
SPECIFICATION Spec
INVARIANTS HistoryLinear DeviceSeqOrder
PROPERTIES AppendOnly ImplementsLog
SYMMETRY Symmetry
CHECK_DEADLOCK FALSE
