CONSTANTS
    n1 = n1
    n2 = n2
    n3 = n3
    nx = nx
    m1 = m1
    m2 = m2
    r1 = r1
    r2 = r2
    NoNode = NoNode
    Err = Err
    Nodes <- MCNodes
    Readers <- MCOneReader
    Inputs <- MCInputs
    MaxCalls = 2
    Miners <- MCMiners
    MaxBlocks = 4
    Period = 2
SPECIFICATION FairSpec
\* Every reader makes MaxCalls lookups and MaxBlocks blocks are added; then
\* the model has nothing left to do.
CHECK_DEADLOCK FALSE
INVARIANTS
    ProducerCountIsRunLength
PROPERTIES
    ValidatorsRefineTable
