---------------------------- MODULE MC_PbftTypes ----------------------------
EXTENDS PbftTypes, TLC

CONSTANTS n1, n2, n3, nx, m1, m2, r1, r2

\* Three validators with the contiguous indices 0..2 the validator pool
\* assigns.
MCNodes == (n1 :> 0) @@ (n2 :> 1) @@ (n3 :> 2)

\* The other validator set of Equal: the same set, a smaller one, one with a
\* node's Index changed, one with a node replaced by nx, and a larger one.
RshSets ==
    { MCNodes,
      (n1 :> 0) @@ (n2 :> 1),
      (n1 :> 0) @@ (n2 :> 1) @@ (n3 :> 0),
      (n1 :> 0) @@ (n2 :> 1) @@ (nx :> 2),
      MCNodes @@ (nx :> 3) }

\* Positions inside the set and one past its end; lists of two positions;
\* bit arrays one bit wider than the set; IDs of two validators and of a
\* node that is none.
MCInputs ==
    [op : {"FindNodeByIndex", "NodeID"}, in : 0..3]
    \cup [op : {"NodeListByIndexes"}, in : {<<2, 0>>, <<1, 3>>}]
    \cup [op : {"NodeListByBitArray"}, in : {{0, 2}, {1, 3}}]
    \cup [op : {"FindNodeByID", "Index"}, in : {n1, n3, nx}]
    \cup [op : {"Equal"}, in : RshSets]

MCOneReader == {r1}
MCTwoReaders == {r1, r2}
MCMiners == {m1, m2}
=============================================================================
