SPECIFICATION Spec
CONSTANTS
    None = None
    Caller = {c1, c2}
    MaxProcess = 3
CHECK_DEADLOCK FALSE
INVARIANTS
    PredecessorsPersisted
    NoStageTwice
    StoppedWhereItSays
    SucceededIsWhole
