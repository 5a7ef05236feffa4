----------------------- MODULE ViewChangeQCAggregation -----------------------
(***************************************************************************)
(* genViewChangeQC (src/consensus/pbft/pbft_test_util.go 457-503): the     *)
(* aggregation of the ViewChange votes of one view into a ViewChangeQC,   *)
(* and MaxBlock over the result (consensus/pbft/types, not in this source *)
(* tree: modelled from the spec).                                          *)
(*                                                                         *)
(* The loop ranges over a Go map, so the votes are visited in an order    *)
(* the runtime chooses afresh each time: each step picks any vote not yet *)
(* visited.  A BLS signature is abstracted to its signer, an aggregate    *)
(* (bls.Sign.Add) to the bag of signers added into it, so that adding a   *)
(* signature twice is visible.  A vote's PrepareQC is abstracted to the   *)
(* <<epoch, viewNumber>> it names, or NoQC when it is nil.  All votes are *)
(* of the same <<epoch, viewNumber>>, which the engine checks before.    *)
(***************************************************************************)
EXTENDS Naturals, FiniteSets, Bags, Functions

CONSTANTS
    Total,          \* validators: vote indices are 0..Total-1 (total)
    Hashes,         \* block hashes a vote may name
    Claims,         \* <<epoch, view>> pairs a vote's PrepareQC may name
    SigOutcomes,    \* results of aggSig.Deserialize(v.Sign()): TRUE = ok
    Inputs,         \* the vote maps (index -> vote) the engine may pass in
    NoQC,           \* model value: v.PrepareQC == nil
    NotDone,        \* model value: genViewChangeQC has not returned yet
    Nil             \* model value: genViewChangeQC returned nil

Idx == 0..(Total - 1)
Vote == [hash : Hashes, qc : Claims \cup {NoQC}, ok : SigOutcomes]

\* Every map from a subset of the validators to votes.
AllVoteMaps == UNION {[S -> Vote] : S \in SUBSET Idx}

VARIABLES
    votes,      \* the viewChanges argument
    todo,       \* indices the range loop has not visited yet
    qcs,        \* the local map qcs: block hash -> group under construction
    result      \* the returned *ViewChangeQC: NotDone, Nil or a set of certs

vars == <<votes, todo, qcs, result>>

\* Bags over the validators' signatures; an aggregate is added into at most
\* once per visited vote, plus its initial signature.
Bag(S) == UNION {[T -> 1..(Total + 1)] : T \in SUBSET S}

-----------------------------------------------------------------------------
\* Mutant: the PrepareQC is read without the nil check.
BlockClaimNoNilCheck(q) == q

\* blockEpoch, blockView := 0, 0, overwritten from v.PrepareQC when non-nil.
BlockClaim(q) == IF q = NoQC THEN <<0, 0>> ELSE q

\* Lexicographic order on <<blockEpoch, blockViewNumber>>.
ClaimLeq(a, b) == a[1] < b[1] \/ (a[1] = b[1] /\ a[2] <= b[2])

\* Indices whose vote names block hash h.
Voters(h) == {i \in DOMAIN votes : votes[i].hash = h}

Init ==
    /\ votes \in Inputs
    /\ todo = DOMAIN votes
    /\ qcs = [h \in {} |-> {}]
    /\ result = NotDone

\* aggSig.Deserialize(v.Sign()) fails: return nil.
DeserializeFails(i) ==
    /\ result = NotDone /\ i \in todo
    /\ ~votes[i].ok
    /\ result' = Nil
    /\ todo' = {}
    /\ UNCHANGED <<votes, qcs>>

\* Mutant: the first voter of a group is not set in the group's bitmap.
NewGroupNoBit(i) ==
    /\ result = NotDone /\ i \in todo
    /\ votes[i].ok /\ votes[i].hash \notin DOMAIN qcs
    /\ qcs' = qcs @@ (votes[i].hash :>
                [claim |-> BlockClaim(votes[i].qc),
                 agg   |-> SetToBag({i}),
                 ba    |-> {}])
    /\ todo' = todo \ {i}
    /\ UNCHANGED <<votes, result>>

\* First vote seen for its block hash: a new cert whose BlockEpoch and
\* BlockViewNumber come from this vote's PrepareQC, with its signature as
\* the aggregate and its index set in the bitmap.
NewGroup(i) ==
    /\ result = NotDone /\ i \in todo
    /\ votes[i].ok /\ votes[i].hash \notin DOMAIN qcs
    /\ qcs' = qcs @@ (votes[i].hash :>
                [claim |-> BlockClaim(votes[i].qc),
                 agg   |-> SetToBag({i}),
                 ba    |-> {i}])
    /\ todo' = todo \ {i}
    /\ UNCHANGED <<votes, result>>

\* Later vote for a known hash: vc.aggSig.Add(&aggSig); vc.ba.SetIndex.
JoinGroup(i) ==
    /\ result = NotDone /\ i \in todo
    /\ votes[i].ok /\ votes[i].hash \in DOMAIN qcs
    /\ LET h == votes[i].hash
       IN  qcs' = [qcs EXCEPT ![h].agg = @ (+) SetToBag({i}),
                              ![h].ba  = @ \cup {i}]
    /\ todo' = todo \ {i}
    /\ UNCHANGED <<votes, result>>

\* The second loop: one ViewChangeQuorumCert per entry of qcs, with the
\* aggregate signature and ValidatorSet.Update(ba).
Finish ==
    /\ result = NotDone /\ todo = {}
    /\ result' = {[hash    |-> h,
                   claim   |-> qcs[h].claim,
                   sig     |-> qcs[h].agg,
                   signers |-> qcs[h].ba] : h \in DOMAIN qcs}
    /\ UNCHANGED <<votes, todo, qcs>>

Next ==
    \/ \E i \in todo : DeserializeFails(i) \/ NewGroup(i) \/ JoinGroup(i)
    \/ Finish

Spec == Init /\ [][Next]_vars

-----------------------------------------------------------------------------
\* ViewChangeQC.MaxBlock: the <<blockEpoch, blockViewNumber>> of the cert
\* that is greatest in that order; the zero block on an empty QC.
MaxBlock(qc) ==
    IF qc = {} THEN <<0, 0>>
    ELSE LET m == CHOOSE c \in qc : \A d \in qc : ClaimLeq(d.claim, c.claim)
         IN  m.claim

-----------------------------------------------------------------------------
(* Properties.                                                             *)

Returned == result \notin {NotDone, Nil}

TypeOK ==
    /\ votes \in AllVoteMaps
    /\ todo \subseteq DOMAIN votes
    /\ DOMAIN qcs \subseteq Hashes
    /\ result \in {NotDone, Nil} \cup SUBSET [hash : Hashes, claim : Nat \X Nat,
                                              sig : Bag(Idx),
                                              signers : SUBSET Idx]

\* genViewChangeQC against its reference: nil exactly when some signature
\* does not deserialize; otherwise one cert per distinct block hash voted
\* for, whose bitmap is exactly that hash's voters, whose aggregate holds
\* each of their signatures once, and whose block claim is one of theirs,
\* whatever order the map is ranged in.
GenViewChangeQCMatchesReference ==
    result # NotDone =>
        IF \E i \in DOMAIN votes : ~votes[i].ok
        THEN result = Nil
        ELSE /\ {c.hash : c \in result} = {votes[i].hash : i \in DOMAIN votes}
             /\ \A c \in result :
                    /\ c.signers = Voters(c.hash)
                    /\ c.sig = SetToBag(Voters(c.hash))
                    /\ \E i \in Voters(c.hash) : c.claim = BlockClaim(votes[i].qc)

\* The recovery point of a view change: the block MaxBlock selects carries
\* a PrepareQC at least as high as that of every vote aggregated into the
\* ViewChangeQC, so no block a voter had a QC for is passed over.
MaxBlockCoversAllVotes ==
    Returned =>
        \A i \in DOMAIN votes : ClaimLeq(BlockClaim(votes[i].qc), MaxBlock(result))
=============================================================================
