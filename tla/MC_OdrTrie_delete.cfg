CONSTANTS
    RawKeys <- MCRawKeys
    Keccak <- MCKeccak
    TrieNodes <- MCTrieNodes
    Ops <- MCOpsAll
    Idle = Idle
    NoKey = NoKey
    NoHash = NoHash
SPECIFICATION FairSpec
PROPERTY CallsReturn
