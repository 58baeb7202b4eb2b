CONSTANTS
    V1 = V1
    Values <- MCValues
    NoOp = NoOp
    NilValue = NilValue
    Nodes = {0, 1, 2}
    Proposers = {1, 2}
    Learners = {0}
    Adu = 0
    MaxSlot = 1

SPECIFICATION Spec

INVARIANT
    ChosenUnique
