------------------------- MODULE PrepareQCAggregation -------------------------
(***************************************************************************)
(* mockPrepareQC (src/consensus/pbft/pbft_test_util.go 405-442): the       *)
(* aggregation of the PrepareVotes for one block into a QuorumCert.        *)
(*                                                                         *)
(* Both loops range over a Go map.  The first keeps the last vote it sees, *)
(* which is any vote; the second visits the votes in any order.  A BLS    *)
(* signature is abstracted to its signer and an aggregate to the bag of   *)
(* signers added into it; a vote's payload (epoch, view, block hash,      *)
(* number, index) to an element of Payloads.                              *)
(***************************************************************************)
EXTENDS Naturals, FiniteSets, Bags

CONSTANTS
    Total,          \* validators: vote indices are 0..Total-1 (total)
    Payloads,       \* block identities a vote may carry
    SigOutcomes,    \* results of sig.Deserialize(p.Sign()): TRUE = ok
    Inputs,         \* the vote maps (index -> vote) the caller may pass in
    NoVote,         \* model value: the first loop has not run
    NotDone,        \* model value: mockPrepareQC has not returned yet
    Nil             \* model value: mockPrepareQC returned nil

Idx == 0..(Total - 1)
Vote == [payload : Payloads, ok : SigOutcomes]

\* Every map from a subset of the validators to votes.
AllVoteMaps == UNION {[S -> Vote] : S \in SUBSET Idx}

VARIABLES
    votes,      \* the votes argument
    vote,       \* the vote kept by the first loop
    todo,       \* indices the second loop has not visited yet
    aggSig,     \* bag of the signatures added into aggSig
    vSet,       \* indices set in the bit array vSet
    result      \* the returned *QuorumCert: NotDone, Nil or a record

vars == <<votes, vote, todo, aggSig, vSet, result>>

\* Bags over the validators' signatures; an aggregate is added into at most
\* once per visited vote, plus its initial signature.
Bag(S) == UNION {[T -> 1..(Total + 1)] : T \in SUBSET S}

Init ==
    /\ votes \in Inputs
    /\ vote = NoVote
    /\ todo = {}
    /\ aggSig = EmptyBag
    /\ vSet = {}
    /\ result = NotDone

\* Mutant: an empty QuorumCert is returned instead of nil.
NoVotesEmptyQC ==
    /\ result = NotDone /\ vote = NoVote
    /\ DOMAIN votes = {}
    /\ result' = [payload |-> NoVote, sig |-> EmptyBag, signers |-> {}]
    /\ UNCHANGED <<votes, vote, todo, aggSig, vSet>>

\* len(votes) == 0: return nil.
NoVotes ==
    /\ result = NotDone /\ vote = NoVote
    /\ DOMAIN votes = {}
    /\ result' = Nil
    /\ UNCHANGED <<votes, vote, todo, aggSig, vSet>>

\* The first loop ends on vote v; its index is set in vSet and its signature
\* deserialized into aggSig, or nil is returned if that fails.
PickVote(v) ==
    /\ result = NotDone /\ vote = NoVote
    /\ vote' = v
    /\ IF votes[v].ok
       THEN /\ aggSig' = SetToBag({v})
            /\ vSet' = {v}
            /\ todo' = DOMAIN votes
            /\ UNCHANGED result
       ELSE /\ result' = Nil
            /\ UNCHANGED <<aggSig, vSet, todo>>
    /\ UNCHANGED votes

\* Mutant: the second loop does not skip the vote kept by the first.
SkipKeptVoteAdds(p) ==
    /\ result = NotDone /\ p \in todo
    /\ p = vote
    /\ aggSig' = aggSig (+) SetToBag({p})
    /\ vSet' = vSet \cup {p}
    /\ todo' = todo \ {p}
    /\ UNCHANGED <<votes, vote, result>>

\* p.NodeIndex() == vote.NodeIndex(): already aggregated, skipped.
SkipKeptVote(p) ==
    /\ result = NotDone /\ p \in todo
    /\ p = vote
    /\ todo' = todo \ {p}
    /\ UNCHANGED <<votes, vote, aggSig, vSet, result>>

\* Another vote: its signature is added into aggSig and its index set, or
\* nil is returned if it does not deserialize.
AddVote(p) ==
    /\ result = NotDone /\ p \in todo
    /\ p # vote
    /\ IF votes[p].ok
       THEN /\ aggSig' = aggSig (+) SetToBag({p})
            /\ vSet' = vSet \cup {p}
            /\ todo' = todo \ {p}
            /\ UNCHANGED result
       ELSE /\ result' = Nil
            /\ todo' = {}
            /\ UNCHANGED <<aggSig, vSet>>
    /\ UNCHANGED <<votes, vote>>

\* The QuorumCert takes its payload from vote, its signature from aggSig
\* and its ValidatorSet from vSet.
Finish ==
    /\ result = NotDone /\ vote # NoVote /\ todo = {}
    /\ result' = [payload |-> votes[vote].payload, sig |-> aggSig, signers |-> vSet]
    /\ UNCHANGED <<votes, vote, todo, aggSig, vSet>>

Next ==
    \/ NoVotes
    \/ \E v \in DOMAIN votes : PickVote(v)
    \/ \E p \in todo : SkipKeptVote(p) \/ AddVote(p)
    \/ Finish

Spec == Init /\ [][Next]_vars

-----------------------------------------------------------------------------
(* Properties.                                                             *)

TypeOK ==
    /\ votes \in AllVoteMaps
    /\ vote \in Idx \cup {NoVote}
    /\ todo \subseteq Idx
    /\ vSet \subseteq Idx
    /\ result \in {NotDone, Nil} \cup [payload : Payloads,
                                       sig : Bag(Idx),
                                       signers : SUBSET Idx]

\* mockPrepareQC against its reference: nil exactly when there is no vote
\* or some signature does not deserialize; otherwise the ValidatorSet is
\* exactly the voters, the aggregate holds each voter's signature once,
\* and the payload is that of one of the votes, whichever order the two
\* map loops take.
PrepareQCMatchesReference ==
    result # NotDone =>
        IF DOMAIN votes = {} \/ \E i \in DOMAIN votes : ~votes[i].ok
        THEN result = Nil
        ELSE /\ result # Nil
             /\ result.signers = DOMAIN votes
             /\ result.sig = SetToBag(DOMAIN votes)
             /\ \E i \in DOMAIN votes : result.payload = votes[i].payload
=============================================================================
