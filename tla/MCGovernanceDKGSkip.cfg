SPECIFICATION Spec
CONSTANTS
    a = a
    b = b
    c = c
    d = d
    e = e
    Node <- MCNode
    PrevSet <- MCPrevSet
    Joined <- MCJoined
    NotarySets <- MCNotarySets
    CurSize = 4
    NextSize = 4
    Faulty <- MCFaulty
    Nacked <- MCNacked
    MaxResets = 1
SYMMETRY Symmetry
CHECK_DEADLOCK FALSE
INVARIANT SkipsWithItsSigner
