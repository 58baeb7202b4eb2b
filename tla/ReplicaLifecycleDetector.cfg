CONSTANTS
    Callers = {c1}
    Serialized = TRUE
    ConfigMayFail = TRUE

SPECIFICATION Spec

INVARIANT DetectorStoppedWithReplica

\* Every goroutine finishes: a state where all Stop calls returned is final.
CHECK_DEADLOCK FALSE
