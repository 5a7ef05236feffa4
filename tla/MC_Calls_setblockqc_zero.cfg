CONSTANTS
    NoVote = NoVote
    NoQC = NoQC
    NotDone = NotDone
    Nil = Nil
    Ok = Ok
    Err = Err
    NoErr = NoErr
    NoPrice = NoPrice
    MaxUint64 = MaxUint64
    NoPos = NoPos
    TNumbers = {0}
SPECIFICATION Spec
\* setBlockQC(0) on a fresh chain: the block made from genesis takes number
\* to -1, and the loop runs to uint64(-1).  The other components run as in
\* MC_Calls.cfg; their final states have no successor.
CHECK_DEADLOCK FALSE
INVARIANT
    SetBlockQCBuildsChain
