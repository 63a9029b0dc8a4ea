SPECIFICATION Spec
CONSTANTS
    Endpoints = {e1, e2, e3}
    NNames = 3
    Intervals <- StunIntervals
    Deadline = 4
    Beat = 2
    MaxLag = 1
    MaxAttempts = 2
SYMMETRY Perms
INVARIANTS
    QueriesAgree
    AnswersReadRight
PROPERTIES
    PatienceKept
CHECK_DEADLOCK FALSE
