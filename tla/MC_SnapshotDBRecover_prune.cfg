CONSTANTS
    Numbers <- MCNumbers
    ChainKinds = {TRUE, FALSE}
    NotDone = NotDone
    Ok = Ok
    Err = Err
SPECIFICATION Spec
\* recover returns: the final states have no successor.
CHECK_DEADLOCK FALSE
INVARIANT
    WalPrunedAfterRecover
