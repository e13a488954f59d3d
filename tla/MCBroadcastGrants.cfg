SPECIFICATION Spec
CONSTANTS
    j1 = j1
    j2 = j2
    j3 = j3
    g1 = g1
    g2 = g2
    p1 = p1
    p2 = p2
    None = None
    Job <- MCJob
    GrantId <- MCGrantId
    Peer <- MCPeer
    MaxSession = 2
    MaxSequence = 2
SYMMETRY MCSymmetry
INVARIANTS
    TypeOK
    OperationRunsOnce
PROPERTIES
    RevokedStaysRevoked
    SequencesInOrder
