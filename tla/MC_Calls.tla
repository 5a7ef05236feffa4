------------------------------ MODULE MC_Calls ------------------------------
(***************************************************************************)
(* Components checked in one model: each behaviour runs one of them from  *)
(* one of its initial states, and the others stay in an idle state no      *)
(* action leaves.                                                          *)
(*   prepare:    mockPrepareQC, as mockBlockQC calls it;                   *)
(*   viewchange: genViewChangeQC, as mockViewQC calls it, honest votes;    *)
(*   recover:    snapshotDB.recover on open;                               *)
(*   gov:        one call of the governance precompiled contract;          *)
(*   keystore:   the keystore folder watcher, started, fed folder changes  *)
(*               and closed;                                               *)
(*   presale:    importPreSaleKey of one presale wallet file;              *)
(*   origin:     a GetBlockHeaders origin encoded by one peer, or forged,  *)
(*               and decoded by another;                                   *)
(*   mockqc:     mockBlockQC and its variants, over test nodes in any      *)
(*               order and views;                                          *)
(*   testview:   the testView's proposer lookups and setBlockQC calls;     *)
(*   wal:        the PBFT write-ahead log under the engine's one caller,   *)
(*               with its background goroutines and a crash;               *)
(*   ens:        DeployENS, then Register calls of two accounts and the    *)
(*               execution of the transactions they sent.                  *)
(***************************************************************************)
EXTENDS Naturals, FiniteSets, Bags, TLC

CONSTANTS NoVote, NoQC, NotDone, Nil, Ok, Err, NoErr, NoPrice, MaxUint64, NoPos,
          TNumbers

VARIABLES
    which,                                          \* the function that runs
    pVotes, pVote, pTodo, pAggSig, pVSet, pResult,  \* mockPrepareQC
    vVotes, vTodo, vQcs, vResult,                   \* genViewChangeQC
    sBase, sHighest, sCurrent, sWal, sBaseWal, sBroken, sHeaders,
    sHasChain, sChecked, sTodo, sJbn, sCommitted, sBatch, sResult, \* recover
    gCall, gStage, gGas, gLogs, gWrites, gRet,      \* GovContract
    kStarting, kRunning, kQuit, kEv, kPc, kTrig, kArmed, kFired,
    kStarts, kChanges, kDirty,                      \* KeystoreWatcher
    xFile, xResult,                                 \* Presale
    oHn, oWire, oForged, oGot,                      \* EthProtocol
    mKind, mNodes, mState, mI, mMv, mPhase,
    mVotes, mVote, mTodo, mAggSig, mVSet, mResult,  \* MockBlockQC
    tAllPbft, tView, tHighest, tTree, tLooked, tPc,
    tProposerNode, tNumber, tBlockHash, tI, tCalls, tWant, \* TestView
    wDbChainState, wDbViewChange, wDbQCs, wCache, wFiles, wBuf, wCurFile,
    wNextSeq, wExpiring, wDeleting, wPc, wPending, wProduced, wAcked,
    wQcWritten, wReplayed, wUp, wCrashes,           \* PbftWal
    ePc, eOwner, eRegRoot, ePending, eCalls      \* Ens

pVars == <<pVotes, pVote, pTodo, pAggSig, pVSet, pResult>>
vVars == <<vVotes, vTodo, vQcs, vResult>>
sVars == <<sBase, sHighest, sCurrent, sWal, sBaseWal, sBroken, sHeaders,
           sHasChain, sChecked, sTodo, sJbn, sCommitted, sBatch, sResult>>
gVars == <<gCall, gStage, gGas, gLogs, gWrites, gRet>>
kVars == <<kStarting, kRunning, kQuit, kEv, kPc, kTrig, kArmed, kFired,
           kStarts, kChanges, kDirty>>
xVars == <<xFile, xResult>>
oVars == <<oHn, oWire, oForged, oGot>>
mVars == <<mKind, mNodes, mState, mI, mMv, mPhase,
           mVotes, mVote, mTodo, mAggSig, mVSet, mResult>>
tVars == <<tAllPbft, tView, tHighest, tTree, tLooked, tPc,
           tProposerNode, tNumber, tBlockHash, tI, tCalls, tWant>>
wVars == <<wDbChainState, wDbViewChange, wDbQCs, wCache, wFiles, wBuf, wCurFile,
           wNextSeq, wExpiring, wDeleting, wPc, wPending, wProduced, wAcked,
           wQcWritten, wReplayed, wUp, wCrashes>>
eVars == <<ePc, eOwner, eRegRoot, ePending, eCalls>>
vars == <<which, pVars, vVars, sVars, gVars, kVars, xVars, oVars, mVars, tVars, wVars, eVars>>

-----------------------------------------------------------------------------
MCTotal == 3
MCSigOutcomes == {TRUE, FALSE}

\* Every PrepareVote map over the validators.
PVoteMaps == UNION {[S -> [payload : {"b1", "b2"}, ok : MCSigOutcomes]] :
                        S \in SUBSET (0..(MCTotal - 1))}

P == INSTANCE PrepareQCAggregation
        WITH Total <- MCTotal, Payloads <- {"b1", "b2"},
             SigOutcomes <- MCSigOutcomes, Inputs <- PVoteMaps,
             votes <- pVotes, vote <- pVote, todo <- pTodo,
             aggSig <- pAggSig, vSet <- pVSet, result <- pResult

\* ViewChange maps of honest validators: votes naming the same block carry
\* the same PrepareQC, the QC of that block (epoch 0 view 1, or epoch 1
\* view 0, or none).
VHonestVoteMaps ==
    LET all == UNION {[S -> [hash : {"h1", "h2"},
                             qc : {<<0, 1>>, <<1, 0>>, NoQC},
                             ok : MCSigOutcomes]] : S \in SUBSET (0..(MCTotal - 1))}
    IN  {v \in all : \A i, j \in DOMAIN v : v[i].hash = v[j].hash => v[i].qc = v[j].qc}

V == INSTANCE ViewChangeQCAggregation
        WITH Total <- MCTotal, Hashes <- {"h1", "h2"},
             Claims <- {<<0, 1>>, <<1, 0>>},
             SigOutcomes <- MCSigOutcomes, Inputs <- VHonestVoteMaps,
             votes <- vVotes, todo <- vTodo, qcs <- vQcs, result <- vResult

\* WAL entries and base/highest over blocks 0..4.
S == INSTANCE SnapshotDBRecover
        WITH Numbers <- 0..4, ChainKinds <- {TRUE, FALSE},
             base <- sBase, highest <- sHighest, current <- sCurrent,
             wal <- sWal, baseWal <- sBaseWal, broken <- sBroken,
             headers <- sHeaders, hasChain <- sHasChain, checked <- sChecked,
             todo <- sTodo, journalBrokenNum <- sJbn, committed <- sCommitted,
             batch <- sBatch, result <- sResult

\* Gas costs and prices are small stand-ins for the configs values; what
\* matters is their order: the submits cost more than a vote or a declare,
\* and the minimum prices of the four submits are not all the same.
G == INSTANCE GovContract
        WITH GovGas <- 1,
             HandlerGas <- [f \in {"SubmitText", "SubmitVersion", "SubmitParam",
                                   "Vote", "Declare", "SubmitCancel"} |->
                              IF f \in {"Vote", "Declare"} THEN 1 ELSE 2],
             MinPrice <- ("SubmitText" :> 1) @@ ("SubmitVersion" :> 2)
                            @@ ("SubmitCancel" :> 2) @@ ("SubmitParam" :> 1),
             GasLevels <- {0, 2, 3}, Prices <- {0, 1, 2},
             call <- gCall, stage <- gStage, gas <- gGas, logs <- gLogs,
             writes <- gWrites, ret <- gRet

\* Two start() calls, so a second loop can be attempted while the first is
\* alive or after it exited; three folder changes against a channel of one
\* slot, so events are dropped while one is buffered.
MCMaxStarts == 2
K == INSTANCE KeystoreWatcher
        WITH MaxStarts <- MCMaxStarts, MaxChanges <- 3, EvCap <- 1,
             starting <- kStarting, running <- kRunning, quit <- kQuit,
             ev <- kEv, pc <- kPc, trig <- kTrig, armed <- kArmed,
             fired <- kFired, starts <- kStarts, changes <- kChanges,
             dirty <- kDirty

\* A block of two bytes, byte values up to one above it, and seeds of up
\* to six bytes: the IV, then ciphertexts of zero to four bytes, so whole
\* and partial blocks, short and long paddings.
X == INSTANCE Presale
        WITH BlockSize <- 2, Bytes <- 0..3, MaxSeed <- 6,
             file <- xFile, result <- xResult

\* Bytes of base 4 (0x80 becomes 2), so 1 is a one-byte item, 2 and 3 are
\* one-byte strings, 0 is the empty string, 4 has two bytes, and 4^7 and
\* 4^8 - 1 have all eight; forged origins one byte too long for a number
\* and one byte either side of a hash.
O == INSTANCE EthProtocol
        WITH Base <- 4, Numbers <- {0, 1, 2, 3, 4, 16384, 65535},
             Hashes <- {"hA"}, ZeroHash <- "h0", ForgedSizes <- {9, 31, 33},
             hn <- oHn, wire <- oWire, forged <- oForged, got <- oGot

\* Three validators with indices 0..2 and two non-consensus test nodes;
\* engines in view 0 or 1 of epoch 0, and arguments outside both.
MValidators == [e \in {"e1", "e2", "e3"} |->
                   CASE e = "e1" -> 0 [] e = "e2" -> 1 [] e = "e3" -> 2]
M == INSTANCE MockBlockQC
        WITH Validators <- MValidators, Outsiders <- {"o1", "o2"},
             Views <- {0, 1}, Epoch <- 0, ArgEpoch <- 1, ArgView <- 2,
             kind <- mKind, nodes <- mNodes, state <- mState, i <- mI,
             mv <- mMv, phase <- mPhase, qVotes <- mVotes, qVote <- mVote,
             qTodo <- mTodo, qAggSig <- mAggSig, qVSet <- mVSet, qResult <- mResult

\* Mock4NodePipe2's four engines in any order; uint32 scaled to 2 bits, so
\* views 4 and 5 wrap; setBlockQC called twice with a number of TNumbers
\* (uint64 scaled to 3 bits).
T == INSTANCE TestView
        WITH Index <- [e \in {"n0", "n1", "n2", "n3"} |->
                          CASE e = "n0" -> 0 [] e = "n1" -> 1 [] e = "n2" -> 2 [] e = "n3" -> 3],
             Width <- 2, Width64 <- 3, Views <- {0, 1, 2, 5}, Numbers <- TNumbers, MaxCalls <- 2,
             None <- Nil,
             allPbft <- tAllPbft, view <- tView, highest <- tHighest, tree <- tTree,
             looked <- tLooked, pc <- tPc, proposerNode <- tProposerNode,
             number <- tNumber, blockHash <- tBlockHash, i <- tI, calls <- tCalls, want <- tWant

\* The engine's serialized loop as the one caller of UpdateChainState;
\* epochs 0..2 so the QC deletion of epoch 0 - 1 wraps; journal files of
\* two records, four inserts, two chain states and one crash.
W == INSTANCE PbftWal
        WITH Callers <- {"loop"}, Epochs <- {0, 1, 2}, BlockNumbers <- {1},
             ViewNumbers <- {0}, JournalLimit <- 2, MaxRecords <- 4,
             MaxStates <- 2, MaxCrashes <- 1,
             dbChainState <- wDbChainState, dbViewChange <- wDbViewChange,
             dbQCs <- wDbQCs, cache <- wCache, files <- wFiles, buf <- wBuf,
             curFile <- wCurFile, nextSeq <- wNextSeq, expiring <- wExpiring,
             deleting <- wDeleting, pc <- wPc, pending <- wPending,
             produced <- wProduced, acked <- wAcked, qcWritten <- wQcWritten,
             replayed <- wReplayed, up <- wUp, crashes <- wCrashes

\* Names of one or two labels over "eth", "a" and the empty label; the
\* deployer and a second account each register, three calls in all, and
\* the transactions they send execute in any order.
E == INSTANCE Ens
        WITH Labels <- {"eth", "a", ""}, MaxLabels <- 2,
             Accounts <- {"alice", "bob"}, Deployer <- "alice", MaxCalls <- 3,
             pc <- ePc, owner <- eOwner, regRoot <- eRegRoot,
             pending <- ePending, calls <- eCalls

-----------------------------------------------------------------------------
NoVotes == [i \in {} |-> NoVote]

PIdle == /\ pVotes = NoVotes /\ pVote = NoVote /\ pTodo = {}
         /\ pAggSig = EmptyBag /\ pVSet = {} /\ pResult = NotDone
VIdle == vVotes = NoVotes /\ vTodo = {} /\ vQcs = NoVotes /\ vResult = NotDone
SIdle == /\ sBase = 0 /\ sHighest = 0 /\ sCurrent = 0 /\ sWal = {}
         /\ sBaseWal = {} /\ sBroken = {} /\ sHeaders = {} /\ sHasChain = FALSE
         /\ sChecked = FALSE /\ sTodo = <<>> /\ sJbn = 0 /\ sCommitted = <<>>
         /\ sBatch = {} /\ sResult = NotDone
GIdle == /\ gCall = [fcode |-> "GetProposal", empty |-> TRUE, gas |-> 0,
                     tx |-> "zero", price |-> 0, outcome |-> "ok"]
         /\ gStage = "idle" /\ gGas = 0 /\ gLogs = <<>> /\ gWrites = <<>>
         /\ gRet = [data |-> "none", code |-> NoErr, err |-> NoErr]

KIdle == /\ kStarting = FALSE /\ kRunning = FALSE /\ kQuit = TRUE /\ kEv = 0
         /\ kPc = [g \in 1..MCMaxStarts |-> "none"]
         /\ kTrig = [g \in 1..MCMaxStarts |-> FALSE]
         /\ kArmed = kTrig /\ kFired = kTrig
         /\ kStarts = MCMaxStarts /\ kChanges = 3 /\ kDirty = FALSE

XIdle == /\ xFile = [json |-> FALSE, hex |-> FALSE, seedLen |-> 0, plain |-> <<>>,
                   addrOk |-> FALSE, match |-> FALSE, store |-> FALSE]
         /\ xResult = [key |-> Nil, err |-> "json", stored |-> FALSE]

\* A sender whose origin had both fields set: EncodeRLP failed.
OIdle == /\ oHn = [hash |-> "hA", number |-> 1]
         /\ oWire = [err |-> "both", item |-> NotDone]
         /\ oForged = FALSE /\ oGot = NotDone

\* No helper called yet.
MIdle == /\ mKind = "mockBlockQC" /\ mNodes = <<>> /\ mI = 1 /\ mMv = NoVotes
         /\ mState = [e \in M!Engines |-> [epoch |-> 0, view |-> 0]]
         /\ mPhase = "idle" /\ mVotes = NoVotes /\ mVote = NoVote /\ mTodo = {}
         /\ mAggSig = EmptyBag /\ mVSet = {} /\ mResult = NotDone

\* No test view made.
TIdle == /\ tAllPbft = <<>> /\ tView = 0 /\ tHighest = [e \in T!Engines |-> T!Genesis]
         /\ tTree = [e \in T!Engines |-> {}] /\ tLooked = Nil /\ tPc = "off"
         /\ tProposerNode = Nil /\ tNumber = 0 /\ tBlockHash = T!Genesis /\ tI = 1
         /\ tCalls = 0 /\ tWant = 0

\* A fresh WAL, the state PbftWal starts in.
WIdle == W!Init

\* No ENS deployed yet.
EIdle == E!Init

Init ==
    \/ which = "prepare"    /\ P!Init /\ VIdle /\ SIdle /\ GIdle /\ KIdle /\ XIdle /\ OIdle /\ MIdle /\ TIdle /\ WIdle /\ EIdle
    \/ which = "viewchange" /\ PIdle /\ V!Init /\ SIdle /\ GIdle /\ KIdle /\ XIdle /\ OIdle /\ MIdle /\ TIdle /\ WIdle /\ EIdle
    \/ which = "recover"    /\ PIdle /\ VIdle /\ S!Init /\ GIdle /\ KIdle /\ XIdle /\ OIdle /\ MIdle /\ TIdle /\ WIdle /\ EIdle
    \/ which = "gov"        /\ PIdle /\ VIdle /\ SIdle /\ G!Init /\ KIdle /\ XIdle /\ OIdle /\ MIdle /\ TIdle /\ WIdle /\ EIdle
    \/ which = "keystore"   /\ PIdle /\ VIdle /\ SIdle /\ GIdle /\ K!Init /\ XIdle /\ OIdle /\ MIdle /\ TIdle /\ WIdle /\ EIdle
    \/ which = "presale"    /\ PIdle /\ VIdle /\ SIdle /\ GIdle /\ KIdle /\ X!Init /\ OIdle /\ MIdle /\ TIdle /\ WIdle /\ EIdle
    \/ which = "origin"     /\ PIdle /\ VIdle /\ SIdle /\ GIdle /\ KIdle /\ XIdle /\ O!Init /\ MIdle /\ TIdle /\ WIdle /\ EIdle
    \/ which = "mockqc"     /\ PIdle /\ VIdle /\ SIdle /\ GIdle /\ KIdle /\ XIdle /\ OIdle /\ M!Init /\ TIdle /\ WIdle /\ EIdle
    \/ which = "testview"   /\ PIdle /\ VIdle /\ SIdle /\ GIdle /\ KIdle /\ XIdle /\ OIdle /\ MIdle /\ T!Init /\ WIdle /\ EIdle
    \/ which = "wal"        /\ PIdle /\ VIdle /\ SIdle /\ GIdle /\ KIdle /\ XIdle /\ OIdle /\ MIdle /\ TIdle /\ W!Init /\ EIdle
    \/ which = "ens"        /\ PIdle /\ VIdle /\ SIdle /\ GIdle /\ KIdle /\ XIdle /\ OIdle /\ MIdle /\ TIdle /\ WIdle /\ E!Init

Next ==
    \/ which = "prepare"    /\ P!Next /\ UNCHANGED <<which, vVars, sVars, gVars, kVars, xVars, oVars, mVars, tVars, wVars, eVars>>
    \/ which = "viewchange" /\ V!Next /\ UNCHANGED <<which, pVars, sVars, gVars, kVars, xVars, oVars, mVars, tVars, wVars, eVars>>
    \/ which = "recover"    /\ S!Next /\ UNCHANGED <<which, pVars, vVars, gVars, kVars, xVars, oVars, mVars, tVars, wVars, eVars>>
    \/ which = "gov"        /\ G!Next /\ UNCHANGED <<which, pVars, vVars, sVars, kVars, xVars, oVars, mVars, tVars, wVars, eVars>>
    \/ which = "keystore"   /\ K!Next /\ UNCHANGED <<which, pVars, vVars, sVars, gVars, xVars, oVars, mVars, tVars, wVars, eVars>>
    \/ which = "presale"    /\ X!Next /\ UNCHANGED <<which, pVars, vVars, sVars, gVars, kVars, oVars, mVars, tVars, wVars, eVars>>
    \/ which = "origin"     /\ O!Next /\ UNCHANGED <<which, pVars, vVars, sVars, gVars, kVars, xVars, mVars, tVars, wVars, eVars>>
    \/ which = "mockqc"     /\ M!Next /\ UNCHANGED <<which, pVars, vVars, sVars, gVars, kVars, xVars, oVars, tVars, wVars, eVars>>
    \/ which = "testview"   /\ T!Next /\ UNCHANGED <<which, pVars, vVars, sVars, gVars, kVars, xVars, oVars, mVars, wVars, eVars>>
    \/ which = "wal"        /\ W!Next /\ UNCHANGED <<which, pVars, vVars, sVars, gVars, kVars, xVars, oVars, mVars, tVars, eVars>>
    \/ which = "ens"        /\ E!Next /\ UNCHANGED <<which, pVars, vVars, sVars, gVars, kVars, xVars, oVars, mVars, tVars, wVars>>

Spec == Init /\ [][Next]_vars

-----------------------------------------------------------------------------
\* Both QC builders and the WAL keep their variables in their types.
TypeOK ==
    /\ which = "prepare" => P!TypeOK
    /\ which = "viewchange" => V!TypeOK
    /\ which = "wal" => W!TypeOK

\* mockPrepareQC: nil exactly on no votes or a bad signature, otherwise the
\* bitmap is the voters and the aggregate holds each signature once.
PrepareQCMatchesReference == which = "prepare" => P!PrepareQCMatchesReference

\* genViewChangeQC: nil exactly on a bad signature, otherwise one cert per
\* block voted for, with exactly that block's voters and signatures.
GenViewChangeQCMatchesReference == which = "viewchange" => V!GenViewChangeQCMatchesReference


\* recover: the committed blocks are the window's entries below the first
\* bad one, in order, and the new highest is the last of them.
RecoverMatchesReference == which = "recover" => S!RecoverMatchesReference


\* GovContract: a governance write is kept only for a real transaction that
\* paid both gas charges at a price CheckGasPrice accepts for its fcode.
GovWriteOnlyWhenPaid == which = "gov" => G!GovWriteOnlyWhenPaid

\* GovContract: every call returns, logs and errs as its reference says.
HandlerMatchesReference == which = "gov" => G!HandlerMatchesReference

\* KeystoreWatcher: a loop idle in select has scanned after every change
\* of the folder it watched; no change is lost to the debounce.
WatchedChangesRescanned == which = "keystore" => K!WatchedChangesRescanned

\* KeystoreWatcher: start() never leaves two loop goroutines alive.
SingleWatcherLoop == which = "keystore" => K!SingleWatcherLoop

\* Presale: an import yields a key only for a well-formed file whose
\* decryption is correctly padded and whose address matches, and that key
\* is the unpadded seed.
ImportMatchesReference == which = "presale" => X!ImportMatchesReference

\* EthProtocol: a GetBlockHeaders origin decodes to what was encoded, and
\* an origin of any other size is refused.
OriginRoundTrip == which = "origin" => O!OriginRoundTrip

\* MockBlockQC: each of mockBlockQC's variants builds the QC its name
\* promises, whatever the order of the test nodes and their views.
MockQCAsNamed == which = "mockqc" => M!MockQCAsNamed

\* TestView: between setBlockQC calls every engine holds one chain on
\* genesis, of the height the calls asked for, with a QC for every block.
SetBlockQCBuildsChain == which = "testview" => T!SetBlockQCBuildsChain

\* PbftWal: once no UpdateChainState is between its two steps, the cached
\* chain state is nil or what the meta database holds.
CacheCoherent == which = "wal" => W!CacheCoherent

EnsNodeMatchesNamehash == which = "ens" => E!EnsNodeMatchesNamehash

=============================================================================
