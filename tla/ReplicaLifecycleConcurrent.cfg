CONSTANTS
    Callers = {c1, c2}
    Serialized = FALSE
    ConfigMayFail = TRUE

SPECIFICATION Spec

PROPERTY StopReturns

\* Every goroutine finishes: a state where all Stop calls returned is final.
CHECK_DEADLOCK FALSE
