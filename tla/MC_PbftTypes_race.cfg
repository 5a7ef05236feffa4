CONSTANTS
    n1 = n1
    n2 = n2
    n3 = n3
    nx = nx
    m1 = m1
    m2 = m2
    r1 = r1
    r2 = r2
    NoNode = NoNode
    Err = Err
    Nodes <- MCNodes
    Readers <- MCTwoReaders
    Inputs <- MCInputs
    MaxCalls = 1
    Miners <- MCMiners
    MaxBlocks = 0
    Period = 2
SPECIFICATION Spec
CHECK_DEADLOCK FALSE
INVARIANTS
    LookupFaithful
