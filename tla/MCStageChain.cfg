SPECIFICATION ChainSpec
CONSTANTS
    Plans <- MCPlans
    Document <- MCDocument
    None = None
    BareLength = 3
    FullLength = 4
    Inherited = 2
    Lifecycle = 2
    Mutating = {1, 2}
    Optional = {1}
    Results <- MCResults
    MaxCompletedAt = 1
    MaxReceipts = 3
    MaxStops = 1
INVARIANTS
    DecisionRestsOnOneHistory
    EveryReceiptHasItsHistory
