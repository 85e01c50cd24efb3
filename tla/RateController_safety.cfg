SPECIFICATION Spec
CONSTANTS
    Callers = {c1, c2, c3}
    Interval = 2
    RetryAfter = {0, 3}
    Late = TRUE
    Horizon = 7
SYMMETRY
    Identical
INVARIANTS
    SlotsSpaced
    LongRunRate
    BoundedWait
    RateInv
PROPERTIES
    PauseHonoured
    IntervalUntilPaused
CHECK_DEADLOCK FALSE
