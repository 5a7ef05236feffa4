----------------------------- MODULE MockBlockQC -----------------------------
(***************************************************************************)
(* The block-QC helpers of the PBFT tests (src/consensus/pbft/             *)
(* pbft_test_util.go): mockPrepareVote with mockSign, and mockBlockQC and *)
(* its variants, which make one PrepareVote per test node for a block and *)
(* aggregate them with mockPrepareQC, composed here as an instance of     *)
(* PrepareQCAggregation.                                                   *)
(*                                                                         *)
(* A test node is an engine; its state.Epoch() and ViewNumber() are read   *)
(* as they are.  validatorPool.GetIndexByNodeID is the function Validators *)
(* (a node outside it is not a validator).  A vote's signature is made by *)
(* the node's own BLS key, so it is abstracted to the node; the votes map  *)
(* key is what mockPrepareQC takes for the vote's NodeIndex.  The vote's   *)
(* payload is its <<epoch, view>>; the block, its hash, number and index   *)
(* are the same for every vote of a call.                                  *)
(***************************************************************************)
EXTENDS Naturals, Sequences, FiniteSets, Bags, TLC

CONSTANTS
    Validators,     \* GetIndexByNodeID: validator node -> index 0..n-1
    Outsiders,      \* nodes that are not validators
    Views,          \* view numbers an engine may be in
    Epoch,          \* the epoch every engine is in
    ArgEpoch,       \* the epoch mockBlockQCWithEpoch is given
    ArgView,        \* the view mockBlockQCWithViewNumber is given
    NoVote, NotDone, Nil

Engines == DOMAIN Validators \cup Outsiders

\* The helpers: those that key a vote by GetIndexByNodeID and those that
\* key it by the node's position in the slice.
IndexKinds    == {"mockBlockQC", "mockBlockQCWithViewNumber", "mockBlockQCWithEpoch"}
PositionKinds == {"mockBlockQCWithNotConsensus", "mockErrBlockQC"}

Range(s) == {s[j] : j \in DOMAIN s}

\* The nodes slices a test passes: every validator mockNodeOfNumber made,
\* in any order, or some of the nodes mockNotConsensusNode made (fresh keys
\* outside the validator set) for mockBlockQCWithNotConsensus.
Slices(k) ==
    IF k = "mockBlockQCWithNotConsensus"
    THEN UNION {{s \in [1..n -> Outsiders] : Cardinality(Range(s)) = n} :
                    n \in 1..Cardinality(Outsiders)}
    ELSE {s \in [1..Cardinality(DOMAIN Validators) -> DOMAIN Validators] :
              Range(s) = DOMAIN Validators}

VARIABLES
    kind,       \* the helper called
    nodes,      \* its nodes argument
    state,      \* engine -> its state's [epoch, view]
    i,          \* position of the range over nodes
    mv,         \* the votes map built: key -> [payload, signer]
    phase,      \* "loop" (the range over nodes), "qc" (in mockPrepareQC)
    qVotes, qVote, qTodo, qAggSig, qVSet, qResult   \* mockPrepareQC

qVars == <<qVotes, qVote, qTodo, qAggSig, qVSet, qResult>>
vars == <<kind, nodes, state, i, mv, phase, qVars>>

\* total = uint32(len(nodes)) only sizes the ValidatorSet bit array, which
\* no step of mockPrepareQC reads; it is bounded by the number of engines.
Q == INSTANCE PrepareQCAggregation
        WITH Total <- Cardinality(Engines), Payloads <- [epoch : {Epoch, ArgEpoch}, view : Views \cup {ArgView}],
             SigOutcomes <- {TRUE}, Inputs <- {},
             votes <- qVotes, vote <- qVote, todo <- qTodo,
             aggSig <- qAggSig, vSet <- qVSet, result <- qResult

-----------------------------------------------------------------------------
\* mockPrepareVote, as each helper calls it: the epoch and view of the
\* node's state unless the helper is given one; signed by mockSign.
mockPrepareVote(e) ==
    [payload |-> [epoch |-> IF kind = "mockBlockQCWithEpoch" THEN ArgEpoch ELSE state[e].epoch,
                  view  |-> IF kind = "mockBlockQCWithViewNumber" THEN ArgView ELSE state[e].view],
     signer  |-> e]

\* Mutant: mockBlockQC keys every vote by the node's position.
VoteKeyByPosition(e, j) == j - 1

\* votes[index]: GetIndexByNodeID for the index helpers, uint32(i) for the
\* others.
VoteKey(e, j) == IF kind \in IndexKinds THEN Validators[e] ELSE j - 1

Init ==
    /\ kind \in IndexKinds \cup PositionKinds
    /\ nodes \in Slices(kind)
    /\ state \in [Engines -> [epoch : {Epoch}, view : Views]]
    /\ i = 1
    /\ mv = [k \in {} |-> NoVote]
    /\ phase = "loop"
    /\ qVotes = [k \in {} |-> NoVote] /\ qVote = NoVote /\ qTodo = {}
    /\ qAggSig = EmptyBag /\ qVSet = {} /\ qResult = NotDone

\* One turn of the range over nodes: votes[key] = vote.  The index helpers
\* get validators only, so GetIndexByNodeID never fails and their
\* panic("find proposer node failed") is not reached.
MockVote ==
    /\ phase = "loop" /\ i <= Len(nodes)
    /\ LET k == VoteKey(nodes[i], i)
       IN  mv' = [x \in DOMAIN mv \cup {k} |->
                     IF x = k THEN mockPrepareVote(nodes[i]) ELSE mv[x]]
    /\ i' = i + 1
    /\ UNCHANGED <<kind, nodes, state, phase, qVars>>

\* mockPrepareQC(uint32(len(nodes)), votes); every mockSign signature
\* deserializes.
CallPrepareQC ==
    /\ phase = "loop" /\ i > Len(nodes)
    /\ phase' = "qc"
    /\ qVotes' = [k \in DOMAIN mv |-> [payload |-> mv[k].payload, ok |-> TRUE]]
    /\ UNCHANGED <<kind, nodes, state, i, mv, qVote, qTodo, qAggSig, qVSet, qResult>>

PrepareQC ==
    /\ phase = "qc"
    /\ Q!Next
    /\ UNCHANGED <<kind, nodes, state, i, mv, phase>>

Next == MockVote \/ CallPrepareQC \/ PrepareQC

Spec == Init /\ [][Next]_vars

-----------------------------------------------------------------------------
(* Properties.                                                             *)

\* The QC a verifier accepts: the aggregate holds, once each, exactly the
\* signatures of the validators whose indices its bitmap sets.
Verifies(qc) ==
    /\ qc.signers # {}
    /\ DOMAIN qc.sig = qc.signers
    /\ \A k \in DOMAIN qc.sig : qc.sig[k] = 1
    /\ \A k \in qc.signers : mv[k].signer \in DOMAIN Validators
                             /\ Validators[mv[k].signer] = k

\* The slice lists the validators in the order of their indices.
InIndexOrder == \A j \in DOMAIN nodes : nodes[j] \in DOMAIN Validators
                                        /\ Validators[nodes[j]] = j - 1

\* Each helper builds the QC its name promises, whatever order the test
\* nodes come in and whichever view each engine is in: the index helpers a
\* valid QC of all validators, the non-consensus one a QC a verifier
\* rejects, and mockErrBlockQC one that is invalid unless the nodes happen
\* to be in index order; the QC carries the given epoch or view, and when
\* the engines agree, theirs.
MockQCAsNamed ==
    qResult \notin {NotDone, Nil} =>
        /\ Verifies(qResult) <=> (kind \in IndexKinds \/ (kind = "mockErrBlockQC" /\ InIndexOrder))
        /\ kind \in IndexKinds => qResult.signers = Range(Validators)
        /\ kind = "mockBlockQCWithEpoch" => qResult.payload.epoch = ArgEpoch
        /\ kind = "mockBlockQCWithViewNumber" => qResult.payload.view = ArgView
        /\ (\A e, f \in Range(nodes) : state[e] = state[f]) /\ kind \notin {"mockBlockQCWithEpoch", "mockBlockQCWithViewNumber"}
              => qResult.payload = state[nodes[1]]
=============================================================================
