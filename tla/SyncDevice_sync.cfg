\* Users edit and delete, and leave a vault alone while it syncs.
CONSTANTS
    Devices = {d1, d2}
    Files = {f}
    Copies = {c1}
    Edits = {e1, e2}
    Absent = Absent
    NoRow = NoRow
    EditDuringRun = FALSE
    UserDeletes = TRUE
    MaxLog = 3
SPECIFICATION Spec
INVARIANTS TypeOK   TreesAgree 
SYMMETRY Symmetry
CONSTRAINT SomethingKept
CHECK_DEADLOCK FALSE
