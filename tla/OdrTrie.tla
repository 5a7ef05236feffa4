------------------------------- MODULE OdrTrie -------------------------------
(***************************************************************************)
(* The light client's on-demand trie (src/ethereum/light/trie.go): an      *)
(* odrTrie opens the state trie lazily and runs every TryGet, TryUpdate    *)
(* and TryDelete through do (146-163), which retries the operation after   *)
(* fetching the key's Merkle proof from a server whenever the local        *)
(* database misses a trie node.  Its node iterator has its own retry loop  *)
(* (200-218), which fetches the key nibblesToKey makes of the missing      *)
(* node's path and gives up when the same node is missing twice in a row.  *)
(*                                                                         *)
(* A trie node is abstracted to its nibble path (distinct nodes have       *)
(* distinct hashes).  Keys are one byte, so paths have at most two        *)
(* nibbles.  What the trie package resolves for an operation (trie.go is  *)
(* not in this source tree) is modelled as: the nodes on the key's path,  *)
(* and for a delete that leaves a fullnode with one child, that child,    *)
(* which the collapse into a shortnode resolves.  A server answers a      *)
(* TrieRequest with the proof of its key in the header's trie.            *)
(***************************************************************************)
EXTENDS Naturals, Sequences, SequencesExt, FiniteSets, Bitwise

CONSTANTS
    RawKeys,        \* keys the StateDB passes in: one-byte sequences
    Keccak,         \* crypto.Keccak256 on RawKeys: a function onto byte keys
    TrieNodes,      \* nibble paths of the nodes of the trie under head.Root
    Ops,            \* calls made: subset of {"get","update","delete","newit","next"}
    Idle,           \* model value: no call in progress
    NoKey,          \* model value: the call names no key
    NoHash          \* model value: lasthash = common.Hash{}

Root == <<>>
Terminator == 16

VARIABLES
    local,      \* trie nodes in the local database (backend.Database())
    nodes,      \* shape of the in-memory trie t.trie (nibble paths)
    created,    \* nodes the in-memory trie made itself (not from the database)
    opened,     \* t.trie != nil
    call,       \* the call in progress and the do loop's position in it
    itSeq,      \* the node iterator: nodes in the order it visits them
    itPos,      \* position of the node its next Next step needs
    itDone,     \* the caller has stopped using the iterator
    result      \* what the last call returned

vars == <<local, nodes, created, opened, call, itSeq, itPos, itDone, result>>

-----------------------------------------------------------------------------
(* Keys and paths.                                                          *)

\* keybytesToHex without the terminator: the nibbles of a byte key.
KeyNibbles(k) == FlattenSeq([i \in DOMAIN k |-> <<k[i] \div 16, k[i] % 16>>])

\* Mutant: the terminator nibble is not dropped.
nibblesToKeyKeepTerm(nib) ==
    LET even == IF Len(nib) % 2 = 1 THEN Append(nib, 0) ELSE nib
    IN  [bi \in 1..(Len(even) \div 2) |-> ((even[2*bi - 1] * 16) % 256) | even[2*bi]]

\* Mutant: the path is not padded to an even number of nibbles.
nibblesToKeyNoPad(nib) ==
    LET strip == IF Len(nib) > 0 /\ Last(nib) = Terminator THEN Front(nib) ELSE nib
    IN  [bi \in 1..(Len(strip) \div 2) |-> ((strip[2*bi - 1] * 16) % 256) | strip[2*bi]]

\* nibblesToKey: drop a trailing terminator, pad to even length with a 0
\* nibble, and pack each pair as nib[ni]<<4 | nib[ni+1] in a byte.
nibblesToKey(nib) ==
    LET strip == IF Len(nib) > 0 /\ Last(nib) = Terminator THEN Front(nib) ELSE nib
        even  == IF Len(strip) % 2 = 1 THEN Append(strip, 0) ELSE strip
    IN  [bi \in 1..(Len(even) \div 2) |-> ((even[2*bi - 1] * 16) % 256) | even[2*bi]]

\* Pre-order of the trie: a node before its children, children by nibble.
PathLt(a, b) ==
    \/ IsStrictPrefix(a, b)
    \/ \E i \in 1..Len(a) : /\ i <= Len(b) /\ a[i] < b[i]
                            /\ SubSeq(a, 1, i - 1) = SubSeq(b, 1, i - 1)

PreOrder(ns) == SetToSortSeq(ns, PathLt)
Children(p, ns) == {q \in ns : Len(q) = Len(p) + 1 /\ IsPrefix(p, q)}

\* The proof a server returns for a TrieRequest on key k.
Proof(k) == {p \in TrieNodes : IsPrefix(p, KeyNibbles(k))}

-----------------------------------------------------------------------------
(* What trie.TryGet/TryUpdate/TryDelete resolve, and the shape they leave. *)

OnPath(k, ns) == PreOrder({p \in ns : IsPrefix(p, KeyNibbles(k))})

\* Nodes whose subtree holds nothing but k's path: gone once k is deleted.
Emptied(k, ns) ==
    {a \in ns : IsPrefix(a, KeyNibbles(k))
                /\ \A q \in ns : IsPrefix(a, q) => IsPrefix(q, KeyNibbles(k))}

\* The fullnode that lost a child: when one child is left, it is resolved
\* to collapse the fullnode into a shortnode.
Collapse(k, ns) ==
    LET left == {a \in ns \ Emptied(k, ns) : IsPrefix(a, KeyNibbles(k))}
        low  == CHOOSE a \in left : \A b \in left : Len(b) <= Len(a)
    IN  IF left = {} \/ Cardinality(Children(low, ns \ Emptied(k, ns))) # 1
        THEN <<>>
        ELSE SetToSeq(Children(low, ns \ Emptied(k, ns)))

Needs(op, k, ns) ==
    IF op = "delete" /\ KeyNibbles(k) \in ns
    THEN OnPath(k, ns) \o Collapse(k, ns)
    ELSE OnPath(k, ns)

KeyPrefixes(k) == {SubSeq(KeyNibbles(k), 1, i) : i \in 0..Len(KeyNibbles(k))}

After(op, k, ns) ==
    CASE op = "delete" /\ KeyNibbles(k) \in ns -> ns \ Emptied(k, ns)
      [] op = "update"                        -> ns \cup KeyPrefixes(k)
      [] OTHER                                -> ns

Avail == local \cup created
Missing(s) == SelectSeq(s, LAMBDA n : n \notin Avail)

-----------------------------------------------------------------------------
(* odrTrie: TryGet, TryUpdate, TryDelete and their do loop.                *)

Init ==
    /\ local \in {UNION {Proof(k) : k \in S} : S \in SUBSET Range(Keccak)}
    /\ nodes = TrieNodes
    /\ created = {}
    /\ opened = FALSE
    /\ call = Idle
    /\ itSeq = <<>> /\ itPos = 1 /\ itDone = TRUE
    /\ result = "none"

\* Mutant: the request is built from the caller's key, not the hashed one.
CallRawRequest(op, rk) ==
    /\ call = Idle /\ op \in Ops
    /\ call' = [op |-> op, key |-> Keccak[rk], req |-> rk,
                stage |-> "do", phase |-> "fn", last |-> NoHash]
    /\ UNCHANGED <<local, nodes, created, opened, itSeq, itPos, itDone, result>>

\* TryGet/TryUpdate/TryDelete(key): key = crypto.Keccak256(key), then do
\* with a TrieRequest for that key.
Call(op, rk) ==
    /\ call = Idle /\ op \in Ops
    /\ call' = [op |-> op, key |-> Keccak[rk], req |-> Keccak[rk],
                stage |-> "do", phase |-> "fn", last |-> NoHash]
    /\ UNCHANGED <<local, nodes, created, opened, itSeq, itPos, itDone, result>>

\* One pass of the loop up to the error test: trie.New if t.trie == nil
\* (it resolves the root), then fn.  No missing node: fn's result is
\* returned.  A missing node: a MissingNodeError, so the proof is fetched.
Attempt ==
    /\ call # Idle /\ call.stage = "do" /\ call.phase = "fn"
    /\ opened' = (opened \/ Root \in Avail)
    /\ LET miss == IF opened' THEN Missing(Needs(call.op, call.key, nodes))
                              ELSE <<Root>>
           done == After(call.op, call.key, nodes)
       IN  \/ /\ miss = <<>>
              /\ nodes' = done
              /\ created' = created \cup (done \ nodes)
              /\ call' = Idle
              /\ result' = "ok"
           \/ /\ miss # <<>>
              /\ call' = [call EXCEPT !.phase = "retrieve"]
              /\ UNCHANGED <<nodes, created, result>>
    /\ UNCHANGED <<local, itSeq, itPos, itDone>>

\* backend.Retrieve(ctx, &TrieRequest{Key: key}): the proof is stored and
\* the loop goes round again, or Retrieve fails and its error is returned.
Retrieve ==
    /\ call # Idle /\ call.stage = "do" /\ call.phase = "retrieve"
    /\ \/ /\ local' = local \cup Proof(call.req)
          /\ call' = [call EXCEPT !.phase = "fn"]
          /\ UNCHANGED result
       \/ /\ call' = Idle
          /\ result' = "err"
          /\ UNCHANGED local
    /\ UNCHANGED <<nodes, created, opened, itSeq, itPos, itDone>>
-----------------------------------------------------------------------------
(* nodeIterator: newNodeIterator, Next and their do loop.                  *)

\* newNodeIterator: it.do(trie.New) when t.trie == nil, then it.do of the
\* iterator's creation.  lasthash is a local of each do call.
NewIterator ==
    /\ call = Idle /\ "newit" \in Ops
    /\ call' = [op |-> "newit", key |-> NoKey, req |-> NoKey,
                stage |-> IF opened THEN "create" ELSE "open",
                phase |-> "fn", last |-> NoHash]
    /\ UNCHANGED <<local, nodes, created, opened, itSeq, itPos, itDone, result>>

\* it.Next(descend) on an iterator the caller still uses.
NextCall ==
    /\ call = Idle /\ "next" \in Ops /\ ~itDone
    /\ call' = [op |-> "next", key |-> NoKey, req |-> NoKey,
                stage |-> "next", phase |-> "fn", last |-> NoHash]
    /\ UNCHANGED <<local, nodes, created, opened, itSeq, itPos, itDone, result>>

\* The node the iterator's fn needs: the root for trie.New, else the next
\* node in pre-order.
ItNeed == IF call.stage = "open" THEN Root ELSE itSeq[itPos]

ItGuard ==
    /\ call # Idle /\ call.stage \in {"open", "next"} /\ call.phase = "fn"
    /\ call.stage = "next" => itPos <= Len(itSeq)

\* The do call ends with it.err set: after trie.New the creation still
\* runs; Next returns false and the caller stops.
ItFail ==
    \/ /\ call.stage = "open"
       /\ call' = [call EXCEPT !.stage = "create", !.phase = "fn", !.last = NoHash]
       /\ UNCHANGED <<itDone, result>>
    \/ /\ call.stage = "next"
       /\ call' = Idle
       /\ itDone' = TRUE
       /\ result' = "err"

\* fn succeeds: trie.New stores t.trie; a Next step moves on.
ItStep ==
    /\ ItGuard /\ ItNeed \in Avail
    /\ \/ /\ call.stage = "open"
          /\ opened' = TRUE
          /\ call' = [call EXCEPT !.stage = "create", !.last = NoHash]
          /\ UNCHANGED <<itPos, result>>
       \/ /\ call.stage = "next"
          /\ itPos' = itPos + 1
          /\ call' = Idle
          /\ result' = "true"
          /\ UNCHANGED opened
    /\ UNCHANGED <<local, nodes, created, itSeq, itDone>>

\* The iterator is past the last node: Next returns false, no error.
NextEnd ==
    /\ call # Idle /\ call.stage = "next" /\ call.phase = "fn"
    /\ itPos > Len(itSeq)
    /\ call' = Idle /\ itDone' = TRUE /\ result' = "end"
    /\ UNCHANGED <<local, nodes, created, opened, itSeq, itPos>>

\* A MissingNodeError for a node other than lasthash: fetch it.  (The
\* other branch, the same node missing again, is ItRetrievalSupplies below:
\* no reachable state takes it.)
ItMissing ==
    /\ ItGuard /\ ItNeed \notin Avail /\ ItNeed # call.last
    /\ call' = [call EXCEPT !.phase = "retrieve", !.last = ItNeed]
    /\ UNCHANGED <<local, nodes, created, opened, itSeq, itPos, itDone, result>>

\* Retrieve(&TrieRequest{Key: nibblesToKey(missing.Path)}): stored and
\* round again, or it.err = the error and return.
ItRetrieve ==
    /\ call # Idle /\ call.stage \in {"open", "next"} /\ call.phase = "retrieve"
    /\ \/ /\ local' = local \cup Proof(nibblesToKey(call.last))
          /\ call' = [call EXCEPT !.phase = "fn"]
          /\ UNCHANGED <<itDone, result>>
       \/ /\ ItFail
          /\ UNCHANGED local
    /\ UNCHANGED <<nodes, created, opened, itSeq, itPos>>

\* The second it.do: it.t.trie.NodeIterator(startkey) on the opened trie,
\* which starts at the root (already resolved by trie.New).
CreateIterator ==
    /\ call # Idle /\ call.stage = "create" /\ opened
    /\ itSeq' = PreOrder(nodes) /\ itPos' = 1 /\ itDone' = FALSE
    /\ call' = Idle /\ result' = "ok"
    /\ UNCHANGED <<local, nodes, created, opened>>

\* trie.New failed, so it.t.trie is nil when NodeIterator is called on it:
\* the nil dereference panics and the process restarts with its database.
Panic ==
    /\ call # Idle /\ call.stage = "create" /\ ~opened
    /\ result' = "panic"
    /\ call' = Idle /\ nodes' = TrieNodes /\ created' = {}
    /\ itSeq' = <<>> /\ itPos' = 1 /\ itDone' = TRUE
    /\ UNCHANGED <<local, opened>>

\* The steps of the call in progress.
Progress ==
    \/ Attempt \/ Retrieve
    \/ ItStep \/ NextEnd \/ ItMissing \/ ItRetrieve
    \/ CreateIterator \/ Panic

Next ==
    \/ \E op \in {"get", "update", "delete"}, rk \in RawKeys : Call(op, rk)
    \/ NewIterator \/ NextCall
    \/ Progress

Spec == Init /\ [][Next]_vars

\* The goroutine making a call keeps running: Retrieve returns, with the
\* proof or an error, and the loop goes on.
FairSpec == Spec /\ WF_vars(Progress)

-----------------------------------------------------------------------------
(* Properties.                                                             *)

\* nibblesToKey against its reference, over the paths in Inputs: the key
\* has half as many bytes as the path has nibbles (rounded up), and its
\* nibbles are the path's, terminator dropped, then a 0.
NibblesToKeyMatchesReference(Inputs) ==
    \A nib \in Inputs :
        LET p == SelectSeq(nib, LAMBDA x : x # Terminator)
            k == nibblesToKey(nib)
        IN  /\ Len(k) = (Len(p) + 1) \div 2
            /\ \A i \in DOMAIN k : k[i] \in 0..255
            /\ \A i \in 1..(2 * Len(k)) :
                   KeyNibbles(k)[i] = IF i <= Len(p) THEN p[i] ELSE 0

\* Every TryGet, TryUpdate, TryDelete, newNodeIterator and Next call
\* returns (or the process panics and restarts): the do loops neither spin
\* on a node a fetched proof never supplies nor wait on each other.
CallsReturn == (call # Idle) ~> (call = Idle)

\* The iterator's retry loop never reaches its "retrieve loop for trie
\* node" error: after a successful Retrieve of nibblesToKey(missing.Path)
\* the node at that path is never missing again, so the fetched proof
\* always supplies it.
ItRetrievalSupplies ==
    (ItGuard /\ ItNeed \notin Avail) => ItNeed # call.last

\* newNodeIterator never calls NodeIterator on a nil t.trie: the panic
\* branch of the model is never taken.
NoIteratorPanic == result # "panic"
====
