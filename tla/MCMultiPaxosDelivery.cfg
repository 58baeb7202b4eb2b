CONSTANTS
    V1 = V1
    Values <- MCValues
    NoOp = NoOp
    NilValue = NilValue
    Replicas = {0}
    MaxRound = 0
    MaxSlot = 2

SPECIFICATION FairSpec

PROPERTY
    LearntSlotsDelivered

\* With the request decided and no more to come, the replica only waits.
CHECK_DEADLOCK FALSE
