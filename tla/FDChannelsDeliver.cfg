CONSTANTS
    NodeIDs = {0, 1, 2}
    StopCallers = {c1}

SPECIFICATION Spec



PROPERTY DeliverReturns

CHECK_DEADLOCK FALSE
