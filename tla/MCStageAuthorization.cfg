SPECIFICATION FairSpec
CONSTANTS
    Absent = Absent
    Torn = Torn
    Call = {c1, c2}
    Request = {q1, q2}
    Permitted = {q1}
    MaxAttempts = 2
    GrantValidFor = 1
    Time = {0, 1}
    MaxCalls = 2
CHECK_DEADLOCK FALSE
INVARIANTS
    AtMostOneGrant
PROPERTIES
    LostStaysLost
    EveryCallEnds
