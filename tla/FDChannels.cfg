CONSTANTS
    NodeIDs = {0, 1, 2}
    StopCallers = {c1}

SPECIFICATION Spec

INVARIANT TypeOK

PROPERTY StopReturns

CHECK_DEADLOCK FALSE
