SPECIFICATION Spec
CONSTANTS
    p1 = p1
    p2 = p2
    p3 = p3
    a1 = a1
    a2 = a2
    a3 = a3
    b1 = b1
    b2 = b2
    b3 = b3
    Procs = {p1, p2, p3}
    Grants8 = {a1, a2, a3}
    Grants9 = {b1, b2, b3}
    None = None
    Kinds = {"full"}
    Materializations = {1}
    Lifetimes = {1, 2}
    MinLifetime = 1
    MaxLifetime = 2
    MinRemaining = 1
    MaxTime = 1
SYMMETRY Symmetry
CHECK_DEADLOCK FALSE
INVARIANTS
    FullRunRegistersItsCredential
