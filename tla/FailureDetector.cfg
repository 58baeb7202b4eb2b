CONSTANTS
    NodeIDs = {0, 1, 2}
    Self = 0
    MaxLatency = 3

SPECIFICATION Spec

INVARIANTS
    TypeOK
    DelayBounded

PROPERTIES
    StrongCompleteness
    EventualStrongAccuracy
    EventualLeader
