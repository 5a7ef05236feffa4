CONSTANTS
    Callers <- MCTwoCallers
    Epochs <- MCEpochs
    BlockNumbers <- MCBlockNumbers
    ViewNumbers <- MCViewNumbers
    MaxUint64 = MaxUint64
    NoPos = NoPos
    JournalLimit = 2
    MaxRecords = 0
    MaxStates = 2
    MaxCrashes = 0
SPECIFICATION Spec
PROPERTY
    ChainStateMonotonic
