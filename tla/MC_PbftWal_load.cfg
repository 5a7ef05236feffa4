CONSTANTS
    Callers <- MCOneCaller
    Epochs <- MCEpochs
    BlockNumbers <- MCBlockNumbers
    ViewNumbers <- MCViewNumbers
    MaxUint64 = MaxUint64
    NoPos = NoPos
    JournalLimit = 2
    MaxRecords = 3
    MaxStates = 1
    MaxCrashes = 1
SPECIFICATION Spec
PROPERTY
    LoadReplaysJournal
