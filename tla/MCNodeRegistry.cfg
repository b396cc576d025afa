CONSTANTS
    a1 = a1
    a2 = a2
    k1 = k1
    k2 = k2
    k3 = k3
    Addresses = {a1, a2}
    Foundation = foundation
    Keys = {k1, k2, k3}
    Genesis <- MCGenesis
    Funds = 1
    Amounts = {0, 1}
    MinStakes = {1, 2}
    LockupPeriods = {1}
    FineValues = {1}
    Messages <- MCMessages
    MaxTime = 3
    MaxFine = 1
SPECIFICATION Spec
INVARIANTS
    OffsetsExact
    NotarySetSizeCurrent
    
    
PROPERTY
    FinedNodesLocked
    KeepsBook
