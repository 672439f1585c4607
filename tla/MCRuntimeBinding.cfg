SPECIFICATION BindingSpec
CONSTANTS
    Slot = Slot
    Absent = Absent
    Torn = Torn
    Foreign = Foreign
    Process = {p1, p2}
    Predecessor = {a1, a2}
    Result <- MCResult
    Retryable = {"FAILED", "STOPPED"}
    Outputs = {o1, o2}
    MaxUid = 2
    MaxRuns = 3
SYMMETRY Symmetry
INVARIANTS
    CompletedIsDurable
    RetryRestsOnTerminal
    BindingBacked
PROPERTIES
    ReceiptsKept
