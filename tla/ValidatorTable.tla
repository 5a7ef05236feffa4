--------------------------- MODULE ValidatorTable ---------------------------
(***************************************************************************)
(* What pbfttypes.Validators promises its callers: a read-only table of   *)
(* the validators indexed by their Index.  Each positional lookup is one  *)
(* atomic step that answers from the table; a caller that makes a lookup  *)
(* gets its answer.  PbftTypes is shown to implement this with one reader.*)
(***************************************************************************)
EXTENDS Naturals, Sequences, SequencesExt

CONSTANTS
    Nodes,          \* node -> Index
    Readers,        \* goroutines calling the lookups
    Inputs,         \* the calls a reader may make: [op, in]
    MaxCalls,       \* lookups per reader
    NoNode,         \* model value: the zero node
    Err             \* model value: the lookup returned an error

VARIABLES
    rd,             \* per reader: idle, a lookup in progress, or its answer
    calls           \* per reader: lookups made

vars == <<rd, calls>>

Idle == [pc |-> "idle"]

\* The node whose Index is i, or the zero node.
NodeWithIndex(i) ==
    IF \E n \in DOMAIN Nodes : Nodes[n] = i
    THEN CHOOSE n \in DOMAIN Nodes : Nodes[n] = i ELSE NoNode

\* What a lookup answers: positions are validator indices; a list with a
\* position that names no validator is an error; a node is found by its
\* ID; two validator sets are equal when they map the same nodes to the
\* same indices.
Answer(op, in) ==
    LET List(is) == IF \E k \in 1..Len(is) : NodeWithIndex(is[k]) = NoNode THEN Err
                    ELSE [k \in 1..Len(is) |-> NodeWithIndex(is[k])]
    IN  CASE op \in {"FindNodeByIndex", "NodeID"} -> NodeWithIndex(in)
          [] op = "NodeListByIndexes"  -> List(in)
          [] op = "NodeListByBitArray" -> List(SetToSortSeq(in, <))
          [] op = "FindNodeByID"       -> IF in \in DOMAIN Nodes THEN in ELSE Err
          [] op = "Index"              -> IF in \in DOMAIN Nodes THEN Nodes[in] ELSE Err
          [] op = "Equal"              -> in = Nodes

Init ==
    /\ rd = [r \in Readers |-> Idle]
    /\ calls = [r \in Readers |-> 0]

Call(r, c) ==
    /\ rd[r] = Idle /\ calls[r] < MaxCalls
    /\ rd' = [rd EXCEPT ![r] = [op |-> c.op, in |-> c.in, pc |-> "busy"]]
    /\ calls' = [calls EXCEPT ![r] = @ + 1]

Lookup(r) ==
    /\ rd[r].pc = "busy"
    /\ rd' = [rd EXCEPT ![r] = [op |-> @.op, in |-> @.in, pc |-> "done",
                                ans |-> Answer(@.op, @.in)]]
    /\ UNCHANGED calls

Return(r) ==
    /\ rd[r].pc = "done"
    /\ rd' = [rd EXCEPT ![r] = Idle]
    /\ UNCHANGED calls

Next ==
    \E r \in Readers : (\E c \in Inputs : Call(r, c)) \/ Lookup(r) \/ Return(r)

\* A lookup in progress is answered.
Spec == Init /\ [][Next]_vars /\ \A r \in Readers : WF_vars(Lookup(r))
=============================================================================
