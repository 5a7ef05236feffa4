CONSTANTS
    Callers <- MCOneCaller
    Epochs <- MCEpochs
    BlockNumbers <- MCBlockNumbers
    ViewNumbers <- MCViewNumbers
    MaxUint64 = MaxUint64
    NoPos = NoPos
    JournalLimit = 2
    MaxRecords = 0
    MaxStates = 0
    MaxCrashes = 0
SPECIFICATION FairSpec
PROPERTY
    OldEpochQCsDeleted
