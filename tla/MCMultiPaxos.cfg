CONSTANTS
    V1 = V1
    V2 = V2
    Values <- MCValues
    NoOp = NoOp
    NilValue = NilValue
    Replicas = {0, 1, 2}
    MaxRound = 3
    MaxSlot = 2

SPECIFICATION Spec

SYMMETRY ValueSymmetry

CONSTRAINT OneReplicaPerValue

INVARIANTS
    TypeOK
    ChosenValueLocked

PROPERTY
    ImplementsConsensus

\* Once the rounds and slots of the bounds are used up every step is
\* disabled; the Go replicas would only wait for more leader changes.
CHECK_DEADLOCK FALSE
