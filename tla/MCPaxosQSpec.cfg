CONSTANTS
    V1 = V1
    V2 = V2
    Values <- MCValues
    NoOp = NoOp
    NilValue = NilValue
    Nodes = {0, 1, 2}
    Prepare <- MCPrepare
    Slots = {1, 2, 3}
    VoteRounds = {0, 1, 3}

SPECIFICATION Spec
INVARIANT PrepareQFCorrect
\* The quorum call ends once every node has replied.
CHECK_DEADLOCK FALSE
