SPECIFICATION Spec
CONSTANTS
    Retrying = {"b"}
    Moving = {"b"}
    Candidates = {"cand"}
    Mapped = {"nat"}
    Stray = {"stray"}
    MaxReneg = 2
    MaxProbes = 1
    Bucket = 1
    RetiredCap = 2
    MaxDraws = 1
INVARIANTS
    RetryIsHeard
CHECK_DEADLOCK FALSE
