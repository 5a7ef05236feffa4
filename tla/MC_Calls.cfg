CONSTANTS
    NoVote = NoVote
    NoQC = NoQC
    NotDone = NotDone
    Nil = Nil
    Ok = Ok
    Err = Err
    NoErr = NoErr
    NoPrice = NoPrice
    MaxUint64 = MaxUint64
    NoPos = NoPos
    TNumbers = {1, 2}
SPECIFICATION Spec
\* Every function returns and the watcher is closed: their final states have
\* no successor.
CHECK_DEADLOCK FALSE
INVARIANTS
    TypeOK
    PrepareQCMatchesReference
    GenViewChangeQCMatchesReference
    RecoverMatchesReference
    GovWriteOnlyWhenPaid
    HandlerMatchesReference
    WatchedChangesRescanned
    SingleWatcherLoop
    ImportMatchesReference
    OriginRoundTrip
    MockQCAsNamed
    SetBlockQCBuildsChain
    CacheCoherent
    
    EnsNodeMatchesNamehash
