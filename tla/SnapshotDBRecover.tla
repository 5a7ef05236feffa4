-------------------------- MODULE SnapshotDBRecover --------------------------
(***************************************************************************)
(* snapshotDB.recover (src/ethereum/core/db/snapshotdb/db.go 51-122): on   *)
(* open, the block WAL entries stored in the base database are read,       *)
(* sorted by block number and replayed: entries in (base, highest] become  *)
(* the committed blocks up to the first one whose header is missing from  *)
(* the chain or whose data does not decode; the others are queued in a    *)
(* delete batch; the current highest is set and the batch written.         *)
(*                                                                         *)
(* A WAL entry is abstracted to its block number (the key's only part     *)
(* DecodeWalKey reads, so one entry per number); a delete in the batch is *)
(* recorded as the byte string it names: the entry's key or its value.    *)
(***************************************************************************)
EXTENDS Naturals, Sequences, SequencesExt, FiniteSets

CONSTANTS
    Numbers,        \* block numbers of WAL entries and of base/highest
    ChainKinds,     \* whether blockchain != nil: subset of BOOLEAN
    NotDone,        \* model value: recover has not returned
    Ok,             \* model value: recover returned nil
    Err             \* model value: recover returned an error

VARIABLES
    base,           \* baseNum: s.current base number when recover starts
    highest,        \* highestNum: s.current highest number when recover starts
    current,        \* highest number of s.current, as SetCurrent leaves it
    wal,            \* numbers of the WAL entries the iterator read
    baseWal,        \* numbers of the WAL entries in baseDB
    broken,         \* entries whose value getBlockFromWal cannot decode
    headers,        \* numbers blockchain.GetHeaderByNumber finds
    hasChain,       \* blockchain != nil
    checked,        \* the gap check before the loop has passed
    todo,           \* sortBlockWals entries the loop has not visited
    journalBrokenNum,
    committed,      \* s.committed: numbers of the recovered blocks
    batch,          \* walNeedDelete: [kind |-> "key" | "val", num |-> n]
    result

vars == <<base, highest, current, wal, baseWal, broken, headers, hasChain,
          checked, todo, journalBrokenNum, committed, batch, result>>
input == <<base, highest, wal, broken, headers, hasChain>>

-----------------------------------------------------------------------------
InWindow(n) == base < n /\ n <= highest

\* sort.Sort(sortBlockWals): blockOrigin's Less compares the block numbers.
sortBlockWals(w) == SetToSortSeq(w, <)

\* getBlockFromWal: rlp.DecodeBytes of the entry's value succeeds.
getBlockFromWal(n) == n \notin broken

Init ==
    /\ base \in Numbers
    /\ highest \in {h \in Numbers : h >= base}
    /\ current = highest
    /\ wal \in SUBSET (Numbers \ {0})
    /\ baseWal = wal
    /\ broken \in SUBSET wal
    /\ headers \in SUBSET Numbers
    /\ hasChain \in ChainKinds
    /\ checked = FALSE
    /\ todo = sortBlockWals(wal)
    /\ journalBrokenNum = 0
    /\ committed = <<>>
    /\ batch = {}
    /\ result = NotDone

\* The first sorted entry is above baseNum+1: "wal is not enough".
WalNotEnough ==
    /\ result = NotDone /\ ~checked
    /\ wal # {} /\ Head(todo) > base + 1
    /\ result' = Err
    /\ UNCHANGED <<input, current, baseWal, checked, todo, journalBrokenNum,
                   committed, batch>>

\* No entries, or the first is at most baseNum+1: the loop runs.
WalEnough ==
    /\ result = NotDone /\ ~checked
    /\ wal # {} => Head(todo) <= base + 1
    /\ checked' = TRUE
    /\ UNCHANGED <<input, current, baseWal, todo, journalBrokenNum,
                   committed, batch, result>>

LoopGuard == result = NotDone /\ checked

Visit(n, batch2, jbn2, committed2) ==
    /\ batch' = batch2
    /\ journalBrokenNum' = jbn2
    /\ committed' = committed2
    /\ todo' = Tail(todo)
    /\ UNCHANGED <<input, current, baseWal, checked, result>>

\* An entry at or after a broken one: removed by key.
AfterBroken ==
    /\ LoopGuard /\ todo # <<>>
    /\ LET n == Head(todo) IN
       /\ journalBrokenNum # 0 /\ n >= journalBrokenNum
       /\ Visit(n, batch \cup {[kind |-> "key", num |-> n]}, journalBrokenNum, committed)

\* In the window but the chain has no header for it: removed by key, and
\* every later entry with it.
HeaderMissing ==
    /\ LoopGuard /\ todo # <<>>
    /\ LET n == Head(todo) IN
       /\ ~(journalBrokenNum # 0 /\ n >= journalBrokenNum)
       /\ InWindow(n) /\ hasChain /\ n \notin headers
       /\ Visit(n, batch \cup {[kind |-> "key", num |-> n]}, n, committed)

\* In the window, the header is there (or there is no chain) but the value
\* does not decode: removed by key, and every later entry with it.
BlockBroken ==
    /\ LoopGuard /\ todo # <<>>
    /\ LET n == Head(todo) IN
       /\ ~(journalBrokenNum # 0 /\ n >= journalBrokenNum)
       /\ InWindow(n) /\ (hasChain => n \in headers)
       /\ ~getBlockFromWal(n)
       /\ Visit(n, batch \cup {[kind |-> "key", num |-> n]}, n, committed)

\* In the window and decodable: appended to s.committed.
Recovered ==
    /\ LoopGuard /\ todo # <<>>
    /\ LET n == Head(todo) IN
       /\ ~(journalBrokenNum # 0 /\ n >= journalBrokenNum)
       /\ InWindow(n) /\ (hasChain => n \in headers)
       /\ getBlockFromWal(n)
       /\ Visit(n, batch, journalBrokenNum, Append(committed, n))

\* Mutant: the out-of-window entry is deleted by its key.
OutOfWindowByKey ==
    /\ LoopGuard /\ todo # <<>>
    /\ LET n == Head(todo) IN
       /\ ~(journalBrokenNum # 0 /\ n >= journalBrokenNum)
       /\ ~InWindow(n)
       /\ Visit(n, batch \cup {[kind |-> "key", num |-> n]}, journalBrokenNum, committed)

\* At or below baseNum or above highestNum:
\* walNeedDelete.Delete(common.CopyBytes(wal.Val)).
OutOfWindow ==
    /\ LoopGuard /\ todo # <<>>
    /\ LET n == Head(todo) IN
       /\ ~(journalBrokenNum # 0 /\ n >= journalBrokenNum)
       /\ ~InWindow(n)
       /\ Visit(n, batch \cup {[kind |-> "val", num |-> n]}, journalBrokenNum, committed)

\* The batch applied to baseDB: a delete removes a WAL entry only when it
\* names that entry's key; a value is never a WAL key.
ApplyBatch(w, b) == w \ {d.num : d \in {x \in b : x.kind = "key"}}

\* Mutant: s.current is set to the first recovered block, not the last.
NewHighestFirst == IF committed # <<>> THEN Head(committed) ELSE base

\* SetCurrent(last committed block or ZeroHash, base, last or base).
NewHighest == IF committed # <<>> THEN Last(committed) ELSE base

\* After the loop: SetCurrent, then baseDB.Write(walNeedDelete); either may
\* fail and return its error, SetCurrent before the batch is written.
Finish ==
    /\ LoopGuard /\ todo = <<>>
    /\ \/ /\ current' = NewHighest
          /\ baseWal' = ApplyBatch(baseWal, batch)
          /\ result' = Ok
       \/ /\ current' = NewHighest            \* baseDB.Write fails
          /\ result' = Err
          /\ UNCHANGED baseWal
       \/ /\ result' = Err                     \* SetCurrent fails
          /\ UNCHANGED <<current, baseWal>>
    /\ UNCHANGED <<input, checked, todo, journalBrokenNum, committed, batch>>

Next ==
    \/ WalNotEnough
    \/ WalEnough
    \/ AfterBroken
    \/ HeaderMissing
    \/ BlockBroken
    \/ Recovered
    \/ OutOfWindow
    \/ Finish

Spec == Init /\ [][Next]_vars

-----------------------------------------------------------------------------
(* Properties.  The variables in input never change, so the properties   *)
(* compare the outcome of recover with the state it started from.         *)

\* Entries of the window that recovery must stop at.
Bad == {m \in wal : InWindow(m) /\ (m \in broken \/ (hasChain /\ m \notin headers))}

\* recover against its reference: when it returns nil, the committed blocks
\* are exactly the window's entries below the first bad one, in ascending
\* order, and s.current's highest is the last of them (base if none).
RecoverMatchesReference ==
    result = Ok =>
        LET ok == {m \in wal : InWindow(m) /\ \A b \in Bad : m < b}
        IN  /\ committed = SetToSortSeq(ok, <)
            /\ current = IF ok = {} THEN base ELSE Max(ok)

\* After a successful recover the WAL holds no entry outside the recovered
\* range (base, highest]: every entry the loop logs as "remove it" is gone,
\* so the next open does not see it again.
WalPrunedAfterRecover ==
    result = Ok => \A n \in baseWal : base < n /\ n <= current
=============================================================================
