------------------------------ MODULE PbftWal ------------------------------
(***************************************************************************)
(* The write-ahead log of one PBFT node (src/consensus/pbft/wal/wal.go,    *)
(* type baseWal) together with the two stores it drives: the meta database *)
(* (keys chain-state, view-change and the view-change-qc prefix) and the   *)
(* message journal (journal.go, not in this source tree, modelled from the *)
(* spec: buffered appends, flush on WriteSync, rotation at a size limit,   *)
(* expiry of files older than the confirmed view change, replay from a     *)
(* (fileID, seq) position).                                                *)
(*                                                                         *)
(* Data is abstracted to what the properties tell apart: a chain state is  *)
(* the number of the engine step that produced it (a larger number is a   *)
(* newer state), a journal record is its sequence number, a ViewChangeQC   *)
(* is its key <<epoch, blockNumber, viewNumber>>.  Encoding (rlp) of a     *)
(* value the WAL itself produced always succeeds and decodes back, so the  *)
(* encode/decode error paths are not reachable and are left out.           *)
(*                                                                         *)
(* Concurrency: UpdateChainState is called by the goroutines in Callers    *)
(* and runs as two steps (metaDB.Put, then cachedChainState.Store), so two *)
(* callers can interleave.  ExpireJournalFile and deleteViewChangeQC are   *)
(* started with `go` and run as separate steps at any later time, or never *)
(* if the process crashes first.                                           *)
(***************************************************************************)
EXTENDS Naturals, Sequences, SequencesExt, FiniteSets, Functions

CONSTANTS
    Callers,        \* goroutines that call UpdateChainState
    Epochs,         \* epochs of ViewChangeQC keys (small naturals)
    BlockNumbers,   \* block numbers of ViewChangeQC keys
    ViewNumbers,    \* view numbers of ViewChangeQC keys
    MaxUint64,      \* model value: uint64(0) - 1, the epoch deleted when epoch 0 is stored
    JournalLimit,   \* records per journal file before Insert rotates (mockJournalLimitSize)
    MaxRecords,     \* bound: journal inserts
    MaxStates,      \* bound: chain states handed to UpdateChainState
    MaxCrashes,     \* bound: process crashes
    NoPos           \* model value: no view-change meta stored yet

ASSUME JournalLimit \in Nat \ {0} /\ MaxRecords \in Nat /\ MaxStates \in Nat
ASSUME MaxCrashes \in Nat /\ MaxUint64 \notin Epochs

NoState == 0            \* nil *protocols.ChainState; states are 1..MaxStates
QCKeys == Epochs \X BlockNumbers \X ViewNumbers
Positions == [file : Nat, seq : Nat]

VARIABLES
    dbChainState,   \* metaDB[chainStateKey]
    dbViewChange,   \* metaDB[viewChangeKey]: journal position of the confirmed view change
    dbQCs,          \* keys present under viewChangeQCPrefix
    cache,          \* baseWal.cachedChainState
    files,          \* journal files on disk: file id -> records (sequence numbers)
    buf,            \* records held by the journal's bufio.Writer, not yet on disk
    curFile,        \* journal.fileID being appended to
    nextSeq,        \* sequence number of the next inserted record
    expiring,       \* file ids of ExpireJournalFile goroutines not yet run
    deleting,       \* epochs of deleteViewChangeQC goroutines not yet run
    pc,             \* caller -> "idle" | "put" | "store"
    pending,        \* caller -> chain state it is storing
    produced,       \* engine: chain states produced so far
    acked,          \* ghost: records whose WriteSync returned nil
    qcWritten,      \* ghost: QC keys whose Put returned nil
    replayed,       \* records the last Load handed to the recovery callback
    up,             \* the process is running
    crashes

metaVars    == <<dbChainState, dbViewChange, dbQCs>>
journalVars == <<files, buf, curFile, nextSeq>>
asyncVars   == <<expiring, deleting>>
callerVars  == <<pc, pending, produced>>
ghostVars   == <<acked, qcWritten, replayed>>
vars == <<metaVars, cache, journalVars, asyncVars, callerVars, ghostVars, up, crashes>>

-----------------------------------------------------------------------------
(* Helpers of the journal and the key layout.                              *)

\* epoch - 1 on a uint64: deleteViewChangeQC(epoch - 1) at epoch 0 wraps.
PrevEpoch(e) == IF e = 0 THEN MaxUint64 ELSE e - 1

\* journal.LoadJournal(fileID, seq): the records of every file from fileID
\* on, in file order, skipping those before seq.
LoadJournal(fid, seq) ==
    LET ids == SetToSortSeq({f \in DOMAIN files : f >= fid}, <)
    IN  SelectSeq(FlattenSeq([i \in 1..Len(ids) |-> files[ids[i]]]),
                  LAMBDA r : r >= seq)

\* The current file with the buffered records written out (bufio Flush).
Flushed == [files EXCEPT ![curFile] = @ \o buf]

\* Load (wal.go 268-282): with no view-change meta stored it returns nil
\* and replays nothing; otherwise it replays the journal from the stored
\* position.  The meta is one the WAL encoded, so it always decodes.
Load ==
    IF dbViewChange = NoPos THEN <<>>
    ELSE LoadJournal(dbViewChange.file, dbViewChange.seq)

-----------------------------------------------------------------------------
Init ==
    /\ dbChainState = NoState
    /\ dbViewChange = NoPos
    /\ dbQCs = {}
    /\ cache = NoState
    /\ files = (1 :> <<>>)
    /\ buf = <<>>
    /\ curFile = 1
    /\ nextSeq = 1
    /\ expiring = {}
    /\ deleting = {}
    /\ pc = [c \in Callers |-> "idle"]
    /\ pending = [c \in Callers |-> NoState]
    /\ produced = 0
    /\ acked = {}
    /\ qcWritten = {}
    /\ replayed = <<>>
    /\ up = TRUE
    /\ crashes = 0

-----------------------------------------------------------------------------
(* UpdateChainState (wal.go 182-195).  The engine hands a newly computed   *)
(* chain state to caller c; the call then puts it into the meta database   *)
(* and, only if the put succeeded, stores it in the cache.                 *)

BeginUpdateChainState(c) ==
    /\ up /\ pc[c] = "idle" /\ produced < MaxStates
    /\ produced' = produced + 1
    /\ pending' = [pending EXCEPT ![c] = produced + 1]
    /\ pc' = [pc EXCEPT ![c] = "put"]
    /\ UNCHANGED <<metaVars, cache, journalVars, asyncVars, ghostVars, up, crashes>>

\* Mutant: the cache is stored even when metaDB.Put fails.
PutChainStateIgnoreErr(c) ==
    /\ up /\ pc[c] = "put"
    /\ \/ /\ dbChainState' = pending[c]
          /\ pc' = [pc EXCEPT ![c] = "store"]
          /\ UNCHANGED cache
       \/ /\ pc' = [pc EXCEPT ![c] = "idle"]
          /\ cache' = pending[c]
          /\ UNCHANGED dbChainState
    /\ UNCHANGED <<dbViewChange, dbQCs, journalVars, asyncVars,
                   pending, produced, ghostVars, up, crashes>>

\* data := rlp.Encode(chainState); err := metaDB.Put(chainStateKey, data)
PutChainState(c) ==
    /\ up /\ pc[c] = "put"
    /\ \/ /\ dbChainState' = pending[c]
          /\ pc' = [pc EXCEPT ![c] = "store"]
       \/ /\ pc' = [pc EXCEPT ![c] = "idle"]      \* Put failed: return err
          /\ UNCHANGED dbChainState
    /\ UNCHANGED <<dbViewChange, dbQCs, cache, journalVars, asyncVars,
                   pending, produced, ghostVars, up, crashes>>

\* wal.cachedChainState.Store(chainState)
StoreChainStateCache(c) ==
    /\ up /\ pc[c] = "store"
    /\ cache' = pending[c]
    /\ pc' = [pc EXCEPT ![c] = "idle"]
    /\ UNCHANGED <<metaVars, journalVars, asyncVars, pending, produced,
                   ghostVars, up, crashes>>

\* LoadChainState (wal.go 198-216): the cached state if there is one,
\* otherwise the stored one, which is then cached; nothing when none is stored.
LoadChainStateCache ==
    IF cache # NoState THEN cache ELSE dbChainState

\* Called by the engine loop, never while one of its UpdateChainState calls
\* is in flight.
LoadChainState ==
    /\ up /\ \A c \in Callers : pc[c] = "idle"
    /\ cache' = LoadChainStateCache
    /\ UNCHANGED <<metaVars, journalVars, asyncVars, callerVars, ghostVars, up, crashes>>

-----------------------------------------------------------------------------
(* Journal writes: Write and WriteSync (wal.go 220-234) call journal.Insert *)
(* with sync FALSE or TRUE.  Insert rotates to a new file when the current  *)
(* one has reached the size limit, appends the record to the buffer and,   *)
(* when sync, flushes the buffer to disk.                                  *)

Insert(sync) ==
    LET rotate == Len(files[curFile]) + Len(buf) >= JournalLimit
        base   == IF rotate THEN Flushed @@ (curFile + 1 :> <<>>) ELSE files
        cf     == IF rotate THEN curFile + 1 ELSE curFile
        pend   == IF rotate THEN <<nextSeq>> ELSE Append(buf, nextSeq)
    IN  /\ files' = IF sync THEN [base EXCEPT ![cf] = @ \o pend] ELSE base
        /\ buf' = IF sync THEN <<>> ELSE pend
        /\ curFile' = cf
        /\ nextSeq' = nextSeq + 1

Write ==
    /\ up /\ nextSeq <= MaxRecords
    /\ Insert(FALSE)
    /\ UNCHANGED <<metaVars, cache, asyncVars, callerVars, ghostVars, up, crashes>>

WriteSync ==
    /\ up /\ nextSeq <= MaxRecords
    /\ Insert(TRUE)
    /\ acked' = acked \cup {nextSeq}
    /\ UNCHANGED <<metaVars, cache, asyncVars, callerVars, qcWritten, replayed, up, crashes>>

-----------------------------------------------------------------------------
(* UpdateViewChange / updateViewChangeMeta (wal.go 237-264): CurrentJournal *)
(* flushes and returns the position of the next record; the position is    *)
(* put under viewChangeKey and, on success, ExpireJournalFile(fileID) is   *)
(* started in the background.  A failed Put leaves the old meta in place.  *)

UpdateViewChange ==
    /\ up
    /\ files' = Flushed
    /\ buf' = <<>>
    /\ \/ /\ dbViewChange' = [file |-> curFile, seq |-> nextSeq]
          /\ expiring' = expiring \cup {curFile}
       \/ UNCHANGED <<dbViewChange, expiring>>   \* metaDB.Put failed
    /\ UNCHANGED <<dbChainState, dbQCs, cache, curFile, nextSeq, deleting,
                   callerVars, ghostVars, up, crashes>>

\* journal.ExpireJournalFile(fileID): remove the files before fileID.
ExpireJournalFile(f) ==
    /\ up /\ f \in expiring
    /\ files' = Restrict(files, {g \in DOMAIN files : g >= f})
    /\ expiring' = expiring \ {f}
    /\ UNCHANGED <<metaVars, cache, buf, curFile, nextSeq, deleting,
                   callerVars, ghostVars, up, crashes>>

-----------------------------------------------------------------------------
(* UpdateViewChangeQC (wal.go 304-317) and deleteViewChangeQC (322-328).   *)
(* The epoch guard is an assumption about the caller, not a check of the  *)
(* code: the engine's epoch never decreases, so it never stores a QC of an *)
(* epoch below one it stored before.                                       *)

UpdateViewChangeQC(k) ==
    /\ up
    /\ \A w \in qcWritten : w[1] <= k[1]
    /\ \/ /\ dbQCs' = dbQCs \cup {k}
          /\ qcWritten' = qcWritten \cup {k}
          /\ deleting' = deleting \cup {PrevEpoch(k[1])}
       \/ UNCHANGED <<dbQCs, qcWritten, deleting>>   \* metaDB.Put failed
    /\ UNCHANGED <<dbChainState, dbViewChange, cache, journalVars, expiring,
                   callerVars, acked, replayed, up, crashes>>

\* Iterate the keys with prefix epochKey(epoch) and delete each one.
DeleteViewChangeQC(e) ==
    /\ up /\ e \in deleting
    /\ dbQCs' = {k \in dbQCs : k[1] # e}
    /\ deleting' = deleting \ {e}
    /\ UNCHANGED <<dbChainState, dbViewChange, cache, journalVars, expiring,
                   callerVars, ghostVars, up, crashes>>

-----------------------------------------------------------------------------
(* Crash and restart.  A crash loses the process memory: the cache, the    *)
(* journal buffer, the background goroutines and the calls in flight.     *)
(* Restart is NewWal (a new journal file is opened) followed by the        *)
(* engine's recovery, LoadChainState then Load; Load only reads.           *)

Crash ==
    /\ up /\ crashes < MaxCrashes
    /\ up' = FALSE
    /\ crashes' = crashes + 1
    /\ cache' = NoState
    /\ buf' = <<>>
    /\ expiring' = {}
    /\ deleting' = {}
    /\ pc' = [c \in Callers |-> "idle"]
    /\ UNCHANGED <<metaVars, files, curFile, nextSeq, pending, produced, ghostVars>>

Restart ==
    /\ ~up
    /\ up' = TRUE
    /\ files' = files @@ (curFile + 1 :> <<>>)
    /\ curFile' = curFile + 1
    /\ cache' = LoadChainStateCache
    /\ replayed' = Load
    /\ UNCHANGED <<metaVars, buf, nextSeq, asyncVars, callerVars, acked, qcWritten, crashes>>

-----------------------------------------------------------------------------
Next ==
    \/ \E c \in Callers :
           \/ BeginUpdateChainState(c)
           \/ PutChainState(c)
           \/ StoreChainStateCache(c)
    \/ LoadChainState
    \/ Write
    \/ WriteSync
    \/ UpdateViewChange
    \/ \E f \in expiring : ExpireJournalFile(f)
    \/ \E k \in QCKeys : UpdateViewChangeQC(k)
    \/ \E e \in deleting : DeleteViewChangeQC(e)
    \/ Crash
    \/ Restart

\* The background goroutines, once started, get to run unless the process dies.
Fairness ==
    /\ \A e \in Epochs \cup {MaxUint64} : WF_vars(DeleteViewChangeQC(e))
    /\ \A f \in 1..(MaxRecords + MaxCrashes + 1) : WF_vars(ExpireJournalFile(f))

Spec == Init /\ [][Next]_vars
FairSpec == Spec /\ Fairness

-----------------------------------------------------------------------------
(* Properties.                                                             *)

TypeOK ==
    /\ dbChainState \in 0..MaxStates
    /\ dbViewChange \in Positions \cup {NoPos}
    /\ dbQCs \subseteq QCKeys
    /\ cache \in 0..MaxStates
    /\ \A f \in DOMAIN files : files[f] \in Seq(Nat)
    /\ buf \in Seq(Nat)
    /\ curFile \in DOMAIN files
    /\ expiring \subseteq Nat
    /\ deleting \subseteq Epochs \cup {MaxUint64}
    /\ pc \in [Callers -> {"idle", "put", "store"}]
    /\ up \in BOOLEAN

\* Round trip of UpdateChainState / LoadChainState: whenever no
\* UpdateChainState call is in flight, a warm cache holds what the meta
\* database holds, so LoadChainState hands the
\* recovery callback the same ChainState from the cache as it would after a
\* restart from storage.
CacheCoherent ==
    (\A c \in Callers : pc[c] = "idle") => cache \in {NoState, dbChainState}

LoadReplaysJournal ==
    [][~up /\ up' =>
         LET from == IF dbViewChange = NoPos THEN 1 ELSE dbViewChange.seq
         IN  /\ \A i, j \in 1..Len(replayed') : i < j => replayed'[i] < replayed'[j]
             /\ \A s \in acked : s >= from => s \in Range(replayed')]_vars

\* The stored chain state is a high-water mark: a write never replaces it
\* with a state the engine produced earlier.
ChainStateMonotonic == [][dbChainState' >= dbChainState]_dbChainState

\* The spec's retention policy: only the current epoch's ViewChangeQCs are
\* kept, older ones being deleted once a newer epoch's QC is stored.
OldEpochQCsDeleted ==
    <>[](\A k \in dbQCs : \A w \in qcWritten : w[1] <= k[1])
=============================================================================
