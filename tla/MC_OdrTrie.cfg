CONSTANTS
    RawKeys <- MCRawKeys
    Keccak <- MCKeccak
    TrieNodes <- MCTrieNodes
    Ops <- MCOpsNoDelete
    Idle = Idle
    NoKey = NoKey
    NoHash = NoHash
SPECIFICATION FairSpec
INVARIANT MCNibblesToKeyMatchesReference ItRetrievalSupplies
PROPERTY CallsReturn
