SPECIFICATION Spec
CONSTANTS
    Attempts = 2
    MaxUid = 4
    MaxEdits = 1
    MaxPlane <- MCMaxPlane
    Absent = Absent
CHECK_DEADLOCK FALSE
INVARIANTS
    CreatedOnceInOrder
    ResultsTrue
    SubmitsWhatWasReviewed
PROPERTIES
    SubmitEnds
