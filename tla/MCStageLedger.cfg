SPECIFICATION Spec
CONSTANTS
    p1 = p1
    p2 = p2
    g1 = g1
    g2 = g2
    s1 = s1
    Absent = Absent
    Torn = Torn
    Process = {p1, p2}
    Grant = {g1, g2}
    Stage = {s1}
    StageOf <- MCStageOf
    EnsureStage = {}
    NotBefore <- MCNotBefore
    NotAfter <- MCNotAfter
    PredecessorAt <- MCPredecessorAt
    Time = {0, 1}
    MutationResult <- MCMutationResult
INVARIANTS
    AtMostOneMutation
    OutcomeBoundToClaim
    ReceiptBoundToOutcome
PROPERTIES
    OrphanNeverRetried
    ImplementsGrantOnce
