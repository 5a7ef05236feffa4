CONSTANTS
    Total = 3
    Hashes <- MCHashes
    Claims <- MCClaims
    SigOutcomes <- MCSigOutcomes
    Inputs <- MCAnyInputs
    NoQC = NoQC
    NotDone = NotDone
    Nil = Nil
SPECIFICATION Spec
\* genViewChangeQC returns: the final states have no successor.
CHECK_DEADLOCK FALSE
INVARIANTS
    MaxBlockCoversAllVotes
