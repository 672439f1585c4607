SPECIFICATION TeardownSpec
CONSTANTS
    None = None
    p1 = p1
    p2 = p2
    Procs = {p1, p2}
    Disks = {1, 2}
    MaxForeign = 1
SYMMETRY Symmetry
CHECK_DEADLOCK FALSE
INVARIANTS
    CompletedIsGone
PROPERTIES
    DeletesOnlyRecorded
    RecordKept
    OrderKept
