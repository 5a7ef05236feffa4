------------------------------ MODULE PbftTypes ------------------------------
(***************************************************************************)
(* The validator set and the producer counter of pbfttypes                 *)
(* (src/ethereum/core/types/pbfttypes/type.go).                            *)
(*                                                                         *)
(* Validators.  The lookups by position (FindNodeByIndex, NodeID,          *)
(* NodeListByIndexes, NodeListByBitArray) read vs.sortedNodes, which the  *)
(* first of them to find it empty fills by sort(): one append per node of  *)
(* the Go map vs.Nodes, in the order the range takes, then sort.Sort by    *)
(* Index.  FindNodeByID, Index and Equal read vs.Nodes only.  Each reader goroutine is a process; an append is a read of the  *)
(* slice and a later write of the slice extended by one node, so two      *)
(* unsynchronised appends can lose one another.  sort.Sort and a lookup    *)
(* are single steps.  A node is a model value, its Index the value Nodes  *)
(* gives it.                                                               *)
(*                                                                         *)
(* ProducerState.  Add is called once per block with its miner; the model *)
(* keeps the miners of the blocks added so far to compare with.           *)
(***************************************************************************)
EXTENDS Naturals, Sequences, SequencesExt, FiniteSets

CONSTANTS
    Nodes,          \* vs.Nodes: node -> Index
    Readers,        \* goroutines calling the lookups
    Inputs,         \* the calls a reader may make: [op, in]
    MaxCalls,       \* lookups per reader
    Miners,         \* block miners (none is the zero address)
    MaxBlocks,      \* blocks added to the ProducerState
    Period,         \* the period Validate is called with
    NoNode,         \* model value: the zero node (nil, or discover.NodeID{})
    Err             \* model value: the lookup returned an error

VARIABLES
    sortedNodes,    \* vs.sortedNodes
    rd,             \* per reader: the call in progress
    calls,          \* per reader: lookups made
    miners,         \* miners of the blocks added, oldest first
    ps              \* the ProducerState: [miner, count]

vars == <<sortedNodes, rd, calls, miners, ps>>

Zero == "zero"      \* the zero common.Address of a fresh ProducerState

-----------------------------------------------------------------------------
(* Validators                                                              *)

ByIndex(a, b) == Nodes[a] < Nodes[b]

\* The lookups by ID read vs.Nodes only: FindNodeByID answers the node or
\* an error, Index its Index or (math.MaxUint32 and) an error.
FindNodeByID(id) == IF id \in DOMAIN Nodes THEN id ELSE Err
Index(id) == IF id \in DOMAIN Nodes THEN Nodes[id] ELSE Err

\* Mutant: Equal does not compare the lengths.
EqualNoLen(rsh) ==
    \A k \in DOMAIN Nodes : k \in DOMAIN rsh /\ rsh[k] = Nodes[k]

\* Validators.Equal(rsh): the same Len, then every node of vs.Nodes is in
\* rsh.Nodes with the same Index (the range stops at the first that is not).
Equal(rsh) ==
    /\ Cardinality(DOMAIN Nodes) = Cardinality(DOMAIN rsh)
    /\ \A k \in DOMAIN Nodes : k \in DOMAIN rsh /\ rsh[k] = Nodes[k]

\* The lookups that read vs.sortedNodes, filling it first.
PositionalOps == {"FindNodeByIndex", "NodeID", "NodeListByIndexes", "NodeListByBitArray"}

\* The lookups over a slice s of nodes.  FindNodeByIndex and NodeID answer
\* the node at position i, or the zero node past the end; NodeListByIndexes
\* answers the nodes at the listed positions and NodeListByBitArray those
\* at the set bits, ascending, or an error if one is past the end.
Answer(op, in, s) ==
    LET At(i) == IF i < Len(s) THEN s[i + 1] ELSE NoNode
        List(is) == IF \E k \in 1..Len(is) : is[k] >= Len(s) THEN Err
                    ELSE [k \in 1..Len(is) |-> s[is[k] + 1]]
    IN  CASE op = "FindNodeByIndex"    -> At(in)
          [] op = "NodeID"             -> At(in)
          [] op = "NodeListByIndexes"  -> List(in)
          [] op = "NodeListByBitArray" -> List(SetToSortSeq(in, <))
          [] op = "FindNodeByID"       -> FindNodeByID(in)
          [] op = "Index"              -> Index(in)
          [] op = "Equal"              -> Equal(in)

Idle == [pc |-> "idle"]

Init ==
    /\ sortedNodes = <<>>
    /\ rd = [r \in Readers |-> Idle]
    /\ calls = [r \in Readers |-> 0]
    /\ miners = <<>>
    /\ ps = [miner |-> Zero, count |-> 0]

\* Mutant: the lookup reads vs.sortedNodes without filling it first.
CallLookupNoSort(r, c) ==
    /\ rd[r] = Idle /\ calls[r] < MaxCalls
    /\ rd' = [rd EXCEPT ![r] =
                [op |-> c.op, in |-> c.in, pc |-> "lookup",
                 todo |-> DOMAIN Nodes, node |-> NoNode, snap |-> <<>>]]
    /\ calls' = [calls EXCEPT ![r] = @ + 1]
    /\ UNCHANGED <<sortedNodes, miners, ps>>

\* A lookup is called: a positional one calls vs.sort() if
\* len(vs.sortedNodes) == 0.
CallLookup(r, c) ==
    /\ rd[r] = Idle /\ calls[r] < MaxCalls
    /\ rd' = [rd EXCEPT ![r] =
                [op |-> c.op, in |-> c.in,
                 pc |-> IF sortedNodes = <<>> /\ c.op \in PositionalOps
                        THEN "sort" ELSE "lookup",
                 todo |-> DOMAIN Nodes, node |-> NoNode, snap |-> <<>>]]
    /\ calls' = [calls EXCEPT ![r] = @ + 1]
    /\ UNCHANGED <<sortedNodes, miners, ps>>

\* The range over vs.Nodes yields node n; append reads vs.sortedNodes.
AppendRead(r, n) ==
    /\ rd[r].pc = "sort" /\ n \in rd[r].todo
    /\ rd' = [rd EXCEPT ![r].pc = "append", ![r].node = n,
                        ![r].snap = sortedNodes,
                        ![r].todo = @ \ {n}]
    /\ UNCHANGED <<sortedNodes, calls, miners, ps>>

\* ... and stores the slice it read, extended by n.
AppendWrite(r) ==
    /\ rd[r].pc = "append"
    /\ sortedNodes' = Append(rd[r].snap, rd[r].node)
    /\ rd' = [rd EXCEPT ![r].pc = "sort"]
    /\ UNCHANGED <<calls, miners, ps>>

\* Mutant: the range ends without sort.Sort.
SortDoneUnsorted(r) ==
    /\ rd[r].pc = "sort" /\ rd[r].todo = {}
    /\ rd' = [rd EXCEPT ![r].pc = "lookup"]
    /\ UNCHANGED <<sortedNodes, calls, miners, ps>>

\* The range is over: sort.Sort(vs.sortedNodes) by Index.
SortDone(r) ==
    /\ rd[r].pc = "sort" /\ rd[r].todo = {}
    /\ sortedNodes' = SortSeq(sortedNodes, ByIndex)
    /\ rd' = [rd EXCEPT ![r].pc = "lookup"]
    /\ UNCHANGED <<calls, miners, ps>>

\* The bounds check and the read of vs.sortedNodes; the call returns.
Lookup(r) ==
    /\ rd[r].pc = "lookup"
    /\ rd' = [rd EXCEPT ![r] = [op |-> @.op, in |-> @.in, pc |-> "done",
                                ans |-> Answer(@.op, @.in, sortedNodes)]]
    /\ UNCHANGED <<sortedNodes, calls, miners, ps>>

\* The caller takes the answer and may call again.
Return(r) ==
    /\ rd[r].pc = "done"
    /\ rd' = [rd EXCEPT ![r] = Idle]
    /\ UNCHANGED <<sortedNodes, calls, miners, ps>>

-----------------------------------------------------------------------------
(* ProducerState                                                           *)

\* Mutant: a new miner's count starts at 0.
AddResetZero(m) ==
    /\ Len(miners) < MaxBlocks
    /\ miners' = Append(miners, m)
    /\ ps' = IF ps.miner = m THEN [ps EXCEPT !.count = @ + 1]
                             ELSE [miner |-> m, count |-> 0]
    /\ UNCHANGED <<sortedNodes, rd, calls>>

\* ProducerState.Add(miner).
Add(m) ==
    /\ Len(miners) < MaxBlocks
    /\ miners' = Append(miners, m)
    /\ ps' = IF ps.miner = m THEN [ps EXCEPT !.count = @ + 1]
                             ELSE [miner |-> m, count |-> 1]
    /\ UNCHANGED <<sortedNodes, rd, calls>>

\* ProducerState.Validate(period).
Validate(period) == ps.count < period

-----------------------------------------------------------------------------
Next ==
    \/ \E r \in Readers :
          \/ \E c \in Inputs : CallLookup(r, c)
          \/ \E n \in DOMAIN Nodes : AppendRead(r, n)
          \/ AppendWrite(r) \/ SortDone(r) \/ Lookup(r) \/ Return(r)
    \/ \E m \in Miners : Add(m)

Spec == Init /\ [][Next]_vars

\* A goroutine inside a lookup keeps running until the lookup returns: Go
\* schedules every runnable goroutine, and the lookup takes no lock.
FairSpec ==
    /\ Spec
    /\ \A r \in Readers :
          /\ WF_vars(\E n \in DOMAIN Nodes : AppendRead(r, n))
          /\ WF_vars(AppendWrite(r))
          /\ WF_vars(SortDone(r))
          /\ WF_vars(Lookup(r))

-----------------------------------------------------------------------------
(* Properties.                                                             *)

\* Refinement mapping to the abstract ValidatorTable: a reader anywhere
\* inside a lookup (filling sortedNodes, or reading it) is busy with it.
TableRd ==
    [r \in Readers |->
        IF rd[r].pc \in {"sort", "append", "lookup"}
        THEN [op |-> rd[r].op, in |-> rd[r].in, pc |-> "busy"]
        ELSE rd[r]]

Table == INSTANCE ValidatorTable WITH rd <- TableRd

\* What a lookup means: positions are validator indices.
Reference(op, in) == Table!Answer(op, in)

\* Every lookup that returns, the first (which fills vs.sortedNodes) and the
\* later ones (which trust it), answers with the validator whose Index is
\* the position asked for, however the map range ordered the appends.
LookupFaithful ==
    \A r \in Readers : rd[r].pc = "done" => rd[r].ans = Reference(rd[r].op, rd[r].in)

\* Validators implements the read-only indexed table the core expects: the
\* lazily filled and sorted sortedNodes is invisible to a caller, each
\* lookup answering as one atomic read of the table would, and every
\* lookup that is called returns.
ValidatorsRefineTable == Table!Spec

\* The miners of the last k blocks, all the same.
RunOf(k) == k <= Len(miners) /\ \A j \in (Len(miners) - k + 1)..Len(miners) :
                                    miners[j] = Last(miners)

\* ProducerState counts the blocks the current miner produced in a row:
\* Get returns the last block's miner and the length of its run, and
\* Validate(Period) fails exactly when the last Period blocks share a miner.
ProducerCountIsRunLength ==
    miners # <<>> =>
        /\ ps.miner = Last(miners)
        /\ RunOf(ps.count) /\ ~RunOf(ps.count + 1)
        /\ (~Validate(Period) <=> RunOf(Period))
=============================================================================
