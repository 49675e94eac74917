\* A user deletes a file, then syncs.
CONSTANTS
    Devices = {d1, d2}
    Files = {f}
    Copies = {c1}
    Edits = {e1, e2}
    Absent = Absent
    NoRow = NoRow
    EditDuringRun = FALSE
    UserDeletes = TRUE
    MaxLog = 3
SPECIFICATION Spec
INVARIANT DeletesReachTree
SYMMETRY Symmetry
CHECK_DEADLOCK FALSE
