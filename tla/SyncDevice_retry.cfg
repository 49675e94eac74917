\* A reply is lost, the run is repeated.
CONSTANTS
    Devices = {d1, d2}
    Files = {f}
    Copies = {c1}
    Edits = {e1, e2}
    Absent = Absent
    NoRow = NoRow
    EditDuringRun = FALSE
    UserDeletes = FALSE
    MaxLog = 3
SPECIFICATION Spec
INVARIANT RetryAccepted
SYMMETRY Symmetry
CHECK_DEADLOCK FALSE
