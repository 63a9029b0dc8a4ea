SPECIFICATION Spec
CONSTANTS
    Attempts = {1, 2, 3}
    Half = 4
    Window = 2
    MaxSent = 9
    ShortRun = 3
    RunLength <- AttemptRuns
    MaxRenegotiations = 8
    None = None
INVARIANTS
    VerdictsTellTheTruth
    FiguresAreTrue
PROPERTIES
    NothingTwiceNothingForgotten
CHECK_DEADLOCK FALSE
