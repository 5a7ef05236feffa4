---------------------------- MODULE MC_PbftWal ----------------------------
(* Model-checking instance of PbftWal.                                     *)
EXTENDS PbftWal

\* One goroutine calls UpdateChainState: the engine's serialized loop.
MCOneCaller == {"loop"}
\* The loop and the block-chain reactor, which runs the ChainStateUpdateCB
\* callback of a committed PbftResult (pbfttypes/type.go) on its own goroutine.
MCTwoCallers == {"loop", "reactor"}
MCEpochs == {0, 1, 2}
MCBlockNumbers == {1}
MCViewNumbers == {0}
=============================================================================
