SPECIFICATION LocalSpec
CONSTANTS
    p1 = p1
    p2 = p2
    o1 = o1
    o2 = o2
    pid1 = pid1
    Procs = {p1, p2}
    Owners = {o1, o2}
    Pids = {pid1}
    MaxStarts = 2
    Absent = Absent
    Mixed = Mixed
SYMMETRY Symmetry
CHECK_DEADLOCK FALSE
INVARIANTS
    NoClusterForgotten
PROPERTIES
    DestroysItsOwn
    IdentityKept
