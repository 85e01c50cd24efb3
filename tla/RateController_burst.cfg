SPECIFICATION Spec
CONSTANTS
    Callers = {c1, c2, c3}
    Interval = 2
    RetryAfter = {1, 3}
    Late = FALSE
    Horizon = 9
PROPERTIES
    FixedInterval
CHECK_DEADLOCK FALSE
