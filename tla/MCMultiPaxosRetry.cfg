CONSTANTS
    V1 = V1
    Values <- MCValues
    NoOp = NoOp
    NilValue = NilValue
    Replicas = {0, 1, 2}
    MaxRound = 2
    MaxSlot = 1

SPECIFICATION FairSpec

PROPERTY
    PhaseOneCompletes

\* Once the request is decided the replicas only wait.
CHECK_DEADLOCK FALSE
