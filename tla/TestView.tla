------------------------------- MODULE TestView -------------------------------
(***************************************************************************)
(* The testView of the PBFT tests (src/consensus/pbft/pbft_test_util.go    *)
(* 47-225): four engines made by Mock4NodePipe2, the lookups of a          *)
(* proposer by validator index, currentProposerInfo (view % n on uint32),  *)
(* and setBlockQC, which has the current proposer's highest QC block       *)
(* extended by a chain of blocks, each with a mockBlockQC, inserted into   *)
(* every engine.                                                           *)
(*                                                                         *)
(* The engine is not in this tree: state.AddQCBlock with insertQCBlock     *)
(* (insertBlock) is modelled as making the block the engine's highest QC   *)
(* block and adding it to its block tree.  A block is identified by its    *)
(* ancestry, the sequence of block numbers from genesis to it, which is    *)
(* what NewBlockWithSign(parentHash, number, node) fixes of its hash.  A   *)
(* mockBlockQC for a block certifies that block, so a QC is abstracted to  *)
(* the block's membership in the tree.                                     *)
(***************************************************************************)
EXTENDS Naturals, Sequences, FiniteSets

CONSTANTS
    Index,          \* GetIndexByNodeID of each engine: engine -> 0..n-1
    Width,          \* bits of a uint32, scaled
    Width64,        \* bits of a uint64, scaled
    Views,          \* view numbers of the first engine
    Numbers,        \* the number arguments of setBlockQC
    MaxCalls,       \* setBlockQC calls in one test
    None            \* model value: no lookup done, no proposer

Engines == DOMAIN Index
Genesis == <<0>>

VARIABLES
    allPbft,        \* tv.allPbft, in the order Mock4NodePipe2 made them
    view,           \* tv.firstPbft.state.ViewNumber()
    highest,        \* engine -> hash of state.HighestQCBlock()
    tree,           \* engine -> hashes of the blocks with a QC in blockTree
    looked,         \* the engine the last proposer lookup returned
    pc,             \* "idle", "genesis" or "loop" in setBlockQC
    proposerNode, number, blockHash, i, calls,
    want            \* the height the calls so far should reach (history)

vars == <<allPbft, view, highest, tree, looked, pc, proposerNode, number,
          blockHash, i, calls, want>>

-----------------------------------------------------------------------------
\* NewBlockWithSign(parentHash, number, node): the child of parent.
Child(parent) == Append(parent, Len(parent))

Height(h) == Len(h) - 1

\* firstProposer, secondProposer, thirdProposer, currentProposer: the first
\* engine of allPbft whose index is target, or panic.
Proposer(target) ==
    LET js == {j \in DOMAIN allPbft : Index[allPbft[j]] = target}
    IN  IF js = {} THEN None ELSE allPbft[CHOOSE j \in js : \A k \in js : j <= k]

\* currentProposerInfo: uint32(ViewNumber()) % uint32(validatorPool.Len()).
currentProposerInfo == (view % (2 ^ Width)) % Cardinality(Engines)

\* uint64(x) of a Go int.
U64(x) == x % (2 ^ Width64)

\* insertBlock(pbft, b, qc) on every engine of allPbft.
InsertAll(b) ==
    /\ highest' = [e \in Engines |-> b]
    /\ tree' = [e \in Engines |-> tree[e] \cup {b}]

Init ==
    /\ allPbft \in {s \in [1..Cardinality(Engines) -> Engines] :
                        \A j, k \in DOMAIN s : j # k => s[j] # s[k]}
    /\ view \in Views
    /\ highest = [e \in Engines |-> Genesis]
    /\ tree = [e \in Engines |-> {}]
    /\ looked = None
    /\ pc = "idle" /\ proposerNode = None /\ number = 0
    /\ blockHash = Genesis /\ i = 1 /\ calls = 0 /\ want = 0

\* A test asks for the engine with validator index 0, 1 or 2.
Lookup(target) ==
    /\ pc = "idle"
    /\ looked' = Proposer(target)
    /\ UNCHANGED <<allPbft, view, highest, tree, pc, proposerNode, number,
                   blockHash, i, calls, want>>

\* setBlockQC(n, node): the current proposer of the first engine, and its
\* highest QC block; from genesis, block 1 is made and inserted first.
SetBlockQC(n) ==
    /\ pc = "idle" /\ calls < MaxCalls
    /\ LET p == Proposer(currentProposerInfo) IN
       /\ p # None
       /\ proposerNode' = p /\ number' = n
       /\ pc' = IF Height(highest[p]) = 0 THEN "genesis" ELSE "loop"
       /\ blockHash' = highest[p]
       /\ want' = want + n
    /\ i' = 1 /\ calls' = calls + 1
    /\ UNCHANGED <<allPbft, view, highest, tree, looked>>

\* block.NumberU64() == 0: block 1 with mockBlockQC(..., nil) on every
\* engine, number--, and block = proposerNode.state.HighestQCBlock().
GenesisBlock ==
    /\ pc = "genesis"
    /\ InsertAll(Child(blockHash))
    /\ number' = number - 1
    /\ blockHash' = Child(blockHash)
    /\ pc' = "loop"
    /\ UNCHANGED <<allPbft, view, looked, proposerNode, i, calls, want>>

\* Mutant: blockHash and blockNumber are not moved to the new block.
ChainBlockNoAdvance ==
    /\ pc = "loop" /\ i <= U64(number)
    /\ InsertAll(Child(blockHash))
    /\ i' = i + 1
    /\ UNCHANGED <<allPbft, view, looked, pc, proposerNode, number, blockHash, calls, want>>

\* One turn of for i := uint64(1); i <= uint64(number); i++: the next
\* block on blockHash with its mockBlockQC on every engine; blockHash,
\* blockNumber = b.Hash(), b.NumberU64().
ChainBlock ==
    /\ pc = "loop" /\ i <= U64(number)
    /\ InsertAll(Child(blockHash))
    /\ blockHash' = Child(blockHash)
    /\ i' = i + 1
    /\ UNCHANGED <<allPbft, view, looked, pc, proposerNode, number, calls, want>>

\* The loop ends and setBlockQC returns.
SetBlockQCDone ==
    /\ pc = "loop" /\ i > U64(number)
    /\ pc' = "idle"
    /\ UNCHANGED <<allPbft, view, highest, tree, looked, proposerNode, number,
                   blockHash, i, calls, want>>

Next ==
    \/ \E t \in 0..2 : Lookup(t)
    \/ \E n \in Numbers : SetBlockQC(n)
    \/ GenesisBlock
    \/ ChainBlock
    \/ SetBlockQCDone

Spec == Init /\ [][Next]_vars

-----------------------------------------------------------------------------
(* Properties.                                                             *)

\* The chain of heights 1..k on genesis.
ChainTo(k) == [j \in 1..(k + 1) |-> j - 1]

\* Between setBlockQC calls every engine's highest QC block is the tip of
\* one chain on genesis, each block a child of the one before, all with a
\* QC in every engine's block tree, as long as the calls together asked
\* for: the loop moves blockHash and blockNumber to each new block, and the
\* block made first from genesis counts against number.  (setBlockQC(0)
\* on a fresh chain takes number to -1, and uint64(-1) runs the loop on:
\* MC_Calls_setblockqc_zero.cfg shows it.)
SetBlockQCBuildsChain ==
    pc = "idle" =>
        \A e \in Engines :
            /\ highest[e] = ChainTo(want)
            /\ tree[e] = {ChainTo(k) : k \in 1..want}
=============================================================================
