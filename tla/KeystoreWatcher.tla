--------------------------- MODULE KeystoreWatcher ---------------------------
(***************************************************************************)
(* The keystore folder watcher (src/ethereum/accounts/keystore/watch.go). *)
(*                                                                         *)
(* start() runs with the account cache's mutex held, and loop() takes it   *)
(* for each flag update, so a flag update is one step.  Each loop          *)
(* goroutine is numbered by the start() call that spawned it.  Its locals, *)
(* rescanTriggered and the debounce timer, are per goroutine; the event    *)
(* channel w.ev (capacity EvCap) and w.quit are shared.                    *)
(*                                                                         *)
(* The environment: the notify library sends one event per change of the  *)
(* folder while a watch is registered, and drops it when w.ev is full (a   *)
(* non-blocking send); the timer fires some time after Reset.  The         *)
(* account cache's scanAccounts (not in this tree) reads the whole folder  *)
(* in one step.  `dirty` records that the folder changed while watched and *)
(* no scan has started since.                                              *)
(***************************************************************************)
EXTENDS Naturals

CONSTANTS
    MaxStarts,      \* bound: start() calls that spawn a loop
    MaxChanges,     \* bound: changes of the keystore folder
    EvCap           \* cap(w.ev)

Loops == 1..MaxStarts

VARIABLES
    starting,       \* w.starting
    running,        \* w.running
    quit,           \* w.quit is closed
    ev,             \* events buffered in w.ev
    pc,             \* loop goroutine -> "none", "watch", "setrun", "select", "done"
    trig,           \* loop goroutine -> rescanTriggered
    armed,          \* loop goroutine -> debounce timer running
    fired,          \* loop goroutine -> a value waits in debounce.C
    starts,         \* loop goroutines spawned
    changes,        \* folder changes so far
    dirty           \* a watched change no scan has covered yet

vars == <<starting, running, quit, ev, pc, trig, armed, fired, starts, changes, dirty>>

\* A loop that called notify.Watch successfully and has not yet stopped it.
Registered(g) == pc[g] \in {"setrun", "select"}

\* newWatcher.
Init ==
    /\ starting = FALSE /\ running = FALSE /\ quit = FALSE
    /\ ev = 0
    /\ pc = [g \in Loops |-> "none"]
    /\ trig = [g \in Loops |-> FALSE]
    /\ armed = [g \in Loops |-> FALSE]
    /\ fired = [g \in Loops |-> FALSE]
    /\ starts = 0 /\ changes = 0 /\ dirty = FALSE

\* Mutant: start() checks only w.running.
startNoStarting ==
    /\ ~running /\ starts < MaxStarts
    /\ starting' = TRUE
    /\ pc' = [pc EXCEPT ![starts + 1] = "watch"]
    /\ starts' = starts + 1
    /\ UNCHANGED <<running, quit, ev, trig, armed, fired, changes, dirty>>

\* start(): return if a loop is starting or running, else go w.loop().
start ==
    /\ ~(starting \/ running) /\ starts < MaxStarts
    /\ starting' = TRUE
    /\ pc' = [pc EXCEPT ![starts + 1] = "watch"]
    /\ starts' = starts + 1
    /\ UNCHANGED <<running, quit, ev, trig, armed, fired, changes, dirty>>

\* close(): close(w.quit).  A second close would panic; the account cache
\* closes its watcher once.
close ==
    /\ ~quit
    /\ quit' = TRUE
    /\ UNCHANGED <<starting, running, ev, pc, trig, armed, fired, starts, changes, dirty>>

\* The deferred function of loop(): clear both flags under the mutex.
ResetFlags ==
    /\ starting' = FALSE
    /\ running' = FALSE

\* notify.Watch fails: loop() returns through its first defer.
WatchFails(g) ==
    /\ pc[g] = "watch"
    /\ pc' = [pc EXCEPT ![g] = "done"]
    /\ ResetFlags
    /\ UNCHANGED <<quit, ev, trig, armed, fired, starts, changes, dirty>>

\* notify.Watch succeeds; the debounce timer is created and drained, so it
\* starts stopped with nothing in debounce.C.
WatchOk(g) ==
    /\ pc[g] = "watch"
    /\ pc' = [pc EXCEPT ![g] = "setrun"]
    /\ UNCHANGED <<starting, running, quit, ev, trig, armed, fired, starts, changes, dirty>>

\* w.running = true under the mutex.
SetRunning(g) ==
    /\ pc[g] = "setrun"
    /\ running' = TRUE
    /\ pc' = [pc EXCEPT ![g] = "select"]
    /\ UNCHANGED <<starting, quit, ev, trig, armed, fired, starts, changes, dirty>>

\* select, case <-w.quit: return; the defers stop the timer, stop the
\* watch, and clear the flags.
Quit(g) ==
    /\ pc[g] = "select" /\ quit
    /\ pc' = [pc EXCEPT ![g] = "done"]
    /\ armed' = [armed EXCEPT ![g] = FALSE]
    /\ ResetFlags
    /\ UNCHANGED <<quit, ev, trig, fired, starts, changes, dirty>>

\* select, case <-w.ev: arm the debounce timer unless a rescan is already
\* triggered.
Event(g) ==
    /\ pc[g] = "select" /\ ev > 0
    /\ ev' = ev - 1
    /\ armed' = IF trig[g] THEN armed ELSE [armed EXCEPT ![g] = TRUE]
    /\ trig' = [trig EXCEPT ![g] = TRUE]
    /\ UNCHANGED <<starting, running, quit, pc, fired, starts, changes, dirty>>

\* Mutant: rescanTriggered is left set after the scan.
DebounceNoReset(g) ==
    /\ pc[g] = "select" /\ fired[g]
    /\ fired' = [fired EXCEPT ![g] = FALSE]
    /\ dirty' = FALSE
    /\ UNCHANGED <<starting, running, quit, ev, pc, trig, armed, starts, changes>>

\* select, case <-debounce.C: w.ac.scanAccounts(), then rescanTriggered = false.
Debounce(g) ==
    /\ pc[g] = "select" /\ fired[g]
    /\ fired' = [fired EXCEPT ![g] = FALSE]
    /\ dirty' = FALSE
    /\ trig' = [trig EXCEPT ![g] = FALSE]
    /\ UNCHANGED <<starting, running, quit, ev, pc, armed, starts, changes>>

\* The debounce timer fires: a value is sent on debounce.C.
TimerFires(g) ==
    /\ armed[g]
    /\ armed' = [armed EXCEPT ![g] = FALSE]
    /\ fired' = [fired EXCEPT ![g] = TRUE]
    /\ UNCHANGED <<starting, running, quit, ev, pc, trig, starts, changes, dirty>>

\* The keystore folder changes; notify sends an event to w.ev if a watch is
\* registered, dropping it when the channel is full.
FolderChanges ==
    /\ changes < MaxChanges
    /\ changes' = changes + 1
    /\ LET watched == \E g \in Loops : Registered(g)
       IN  /\ dirty' = (dirty \/ watched)
           /\ ev' = IF watched /\ ev < EvCap THEN ev + 1 ELSE ev
    /\ UNCHANGED <<starting, running, quit, pc, trig, armed, fired, starts>>

Next ==
    \/ start \/ close \/ FolderChanges
    \/ \E g \in Loops :
          \/ WatchFails(g) \/ WatchOk(g) \/ SetRunning(g) \/ Quit(g)
          \/ Event(g) \/ Debounce(g) \/ TimerFires(g)

Spec == Init /\ [][Next]_vars

-----------------------------------------------------------------------------
(* Properties.                                                             *)

\* The debounce loses no change: whenever a running loop of a watcher not
\* yet closed waits in select with no event buffered, no timer armed and
\* nothing in debounce.C, every change of the folder made while it was
\* watched has been followed by a scan, however events, timer firings and
\* scans interleave and however many events the full channel dropped.
WatchedChangesRescanned ==
    \A g \in Loops :
        (~quit /\ pc[g] = "select" /\ ev = 0 /\ ~armed[g] /\ ~fired[g]) => ~dirty

\* start() spawns no second loop while one is alive: at most one goroutine
\* is between notify.Watch and the deferred reset of the flags, however
\* start() calls interleave with a loop that is starting up or exiting.
SingleWatcherLoop ==
    \A g, h \in Loops : pc[g] \in {"watch", "setrun", "select"}
                        /\ pc[h] \in {"watch", "setrun", "select"} => g = h
=============================================================================
