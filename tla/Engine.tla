-------------------------------- MODULE Engine --------------------------------
(***************************************************************************)
(* The module runtime of internal/engine/runtime.go and the event streams  *)
(* of internal/api/api.go that read it.                                    *)
(*                                                                         *)
(* Processes: whoever calls Register, Start and Close; the parent context; *)
(* one goroutine per module inside its Run; the goroutines that call a     *)
(* module's publish closure (the closure outlives Run, so a call may be    *)
(* under way when Run returns); the goroutine that closes done; and one    *)
(* reader per subscription.                                                *)
(*                                                                         *)
(* Runtime.mu is held from a state change to the end of notifyLocked,      *)
(* which is not atomic for a reader: it receives without the lock, between *)
(* any two channel operations.  The lock is therefore explicit: it is held *)
(* while some subscriber is still to be notified.                          *)
(***************************************************************************)
EXTENDS Snapshots

CONSTANTS Readers,      \* subscriptions that may be made
          None          \* an empty channel, or no snapshot written yet

ASSUME NoneAssumption == None \notin Snapshot /\ None \notin Readers

VARIABLES
    state,       \* entries[id].state of every module
    started, closed,
    parentDone,  \* the context given to Start is cancelled
    cancelled,   \* the context derived from it, which the modules see, is
    runner,      \* per module: the goroutine of run, or what Run returned
    publishing,  \* modules with a publish call past its context check
    waiter,      \* the goroutine that waits for the modules and closes done
    doneCloses,  \* how many times close(done) has run
    closeCall,   \* the caller of Close
    reader,      \* per subscription: where its consumer is
    queue,       \* per subscription: the channel of capacity one
    written,     \* per subscription: the last snapshot its consumer took
    pending,     \* subscriptions the running notifyLocked has still to serve
    draining     \* the one whose channel it has just emptied, or None

lifecycle == <<started, closed, parentDone, cancelled, waiter, doneCloses, closeCall>>
streams == <<reader, queue, written>>
notifier == <<pending, draining>>
vars == <<state, lifecycle, runner, publishing, streams, notifier>>

Outcome == {"nil", "canceled", "error"}   \* "error" is also a recovered panic
RunnerPhase == {"none", "running", "ended"} \cup Outcome
ReaderPhase == {"idle", "attached", "fallback", "streaming", "leaving", "gone"}

TypeOK ==
    /\ state \in Snapshot
    /\ started \in BOOLEAN /\ closed \in BOOLEAN
    /\ parentDone \in BOOLEAN /\ cancelled \in BOOLEAN
    /\ runner \in [Modules -> RunnerPhase]
    /\ publishing \subseteq Modules
    /\ waiter \in {"none", "waiting", "done"}
    /\ doneCloses \in Nat
    /\ closeCall \in {"none", "waiting", "nil", "expired"}
    /\ reader \in [Readers -> ReaderPhase]
    /\ queue \in [Readers -> Snapshot \cup {None}]
    /\ written \in [Readers -> Snapshot \cup {None}]
    /\ pending \subseteq Readers
    /\ draining \in pending \cup {None}

Init ==
    /\ state = [m \in Modules |-> NoEntry]
    /\ started = FALSE /\ closed = FALSE
    /\ parentDone = FALSE /\ cancelled = FALSE
    /\ runner = [m \in Modules |-> "none"]
    /\ publishing = {}
    /\ waiter = "none"
    /\ doneCloses = 0
    /\ closeCall = "none"
    /\ reader = [r \in Readers |-> "idle"]
    /\ queue = [r \in Readers |-> None]
    /\ written = [r \in Readers |-> None]
    /\ pending = {}
    /\ draining = None

-----------------------------------------------------------------------------
(* The lock and notifyLocked. *)

LockFree == pending = {}

Registered == {m \in Modules : state[m].status # "absent"}

\* The keys of Runtime.subscribers.
Subscribed == {r \in Readers : reader[r] \notin {"idle", "gone"}}

\* Mutant: a subscriber whose channel is full is skipped.
NotifySkipsBusy == pending' = {r \in Subscribed : queue[r] = None} /\ UNCHANGED draining

\* notifyLocked starts: every subscriber is to get the new snapshot.
Notify == pending' = Subscribed /\ UNCHANGED draining

\* select { case <-ch: default: }
DrainSlot(r) ==
    /\ r \in pending /\ draining = None
    /\ draining' = r
    /\ queue' = [queue EXCEPT ![r] = None]
    /\ UNCHANGED <<state, lifecycle, runner, publishing, reader, written, pending>>

\* ch <- snapshotLocked(): it would block on a full channel.
FillSlot(r) ==
    /\ draining = r /\ queue[r] = None
    /\ queue' = [queue EXCEPT ![r] = state]
    /\ pending' = pending \ {r}
    /\ draining' = None
    /\ UNCHANGED <<state, lifecycle, runner, publishing, reader, written>>

-----------------------------------------------------------------------------
(* Register, Start, Close. *)

Register(m) ==
    /\ LockFree
    /\ ~started /\ ~closed
    /\ state[m].status = "absent"
    /\ state' = [state EXCEPT ![m].status = "registered"]
    /\ Notify
    /\ UNCHANGED <<lifecycle, runner, publishing, streams>>

Start ==
    /\ LockFree
    /\ ~started /\ ~closed /\ ~parentDone
    /\ started' = TRUE
    /\ state' = [m \in Modules |-> IF m \in Registered
                                   THEN [state[m] EXCEPT !.status = "running"]
                                   ELSE state[m]]
    /\ runner' = [m \in Modules |-> IF m \in Registered THEN "running" ELSE "none"]
    /\ waiter' = "waiting"
    /\ Notify
    /\ UNCHANGED <<closed, parentDone, cancelled, doneCloses, closeCall,
                   publishing, streams>>

CancelParent ==
    /\ ~parentDone
    /\ parentDone' = TRUE
    /\ cancelled' = (cancelled \/ started)
    /\ UNCHANGED <<state, started, closed, waiter, doneCloses, closeCall, runner,
                   publishing, streams, notifier>>

\* Mutant: Close before Start leaves done open.
CloseLeavesDoneOpen ==
    /\ LockFree
    /\ closeCall # "waiting"
    /\ closeCall' = "waiting"
    /\ closed' = TRUE
    /\ cancelled' = (cancelled \/ started)
    /\ UNCHANGED <<state, started, parentDone, waiter, doneCloses, runner,
                   publishing, streams, notifier>>

\* Close up to its wait; only the first call cancels, or closes done itself
\* when nothing was started.
Close ==
    /\ LockFree
    /\ closeCall # "waiting"
    /\ closeCall' = "waiting"
    /\ closed' = TRUE
    /\ IF closed THEN UNCHANGED <<cancelled, doneCloses>>
       ELSE IF started THEN cancelled' = TRUE /\ UNCHANGED doneCloses
       ELSE doneCloses' = doneCloses + 1 /\ UNCHANGED cancelled
    /\ UNCHANGED <<state, started, parentDone, waiter, runner, publishing, streams,
                   notifier>>

\* The select at the end of Close.
CloseReturns ==
    /\ closeCall = "waiting"
    /\ \/ doneCloses > 0 /\ closeCall' = "nil"
       \/ closeCall' = "expired"
    /\ UNCHANGED <<state, started, closed, parentDone, cancelled, waiter, doneCloses,
                   runner, publishing, streams, notifier>>

\* wg.Wait(); close(r.done): the last goroutine has also left notifyLocked.
CloseDone ==
    /\ waiter = "waiting"
    /\ LockFree
    /\ \A m \in Modules : runner[m] \in {"none", "ended"}
    /\ waiter' = "done"
    /\ doneCloses' = doneCloses + 1
    /\ UNCHANGED <<state, started, closed, parentDone, cancelled, closeCall,
                   runner, publishing, streams, notifier>>

-----------------------------------------------------------------------------
(* One module: Run, its end, and publish. *)

RunReturns(m) ==
    /\ runner[m] = "running"
    /\ \E outcome \in Outcome : runner' = [runner EXCEPT ![m] = outcome]
    /\ UNCHANGED <<state, lifecycle, publishing, streams, notifier>>

\* Mutant: the end of Run is recorded but not announced.
FinishSilently(m) ==
    /\ LockFree
    /\ runner[m] \in Outcome
    /\ state' = [state EXCEPT ![m].status =
                    IF runner[m] = "error" /\ ~cancelled THEN "failed" ELSE "stopped"]
    /\ runner' = [runner EXCEPT ![m] = "ended"]
    /\ UNCHANGED <<lifecycle, publishing, streams, notifier>>

\* The deferred function of run.
Finish(m) ==
    /\ LockFree
    /\ runner[m] \in Outcome
    /\ state' = [state EXCEPT ![m].status =
                    IF runner[m] = "error" /\ ~cancelled THEN "failed" ELSE "stopped"]
    /\ runner' = [runner EXCEPT ![m] = "ended"]
    /\ Notify
    /\ UNCHANGED <<lifecycle, publishing, streams>>

\* publish reads ctx.Err() and encodes the value before it takes the lock.
PublishBegin(m) ==
    /\ runner[m] # "none"
    /\ m \notin publishing
    /\ ~cancelled
    /\ state[m].data < MaxVersion
    /\ publishing' = publishing \cup {m}
    /\ UNCHANGED <<state, lifecycle, runner, streams, notifier>>

\* Mutant: a publication is refused after Close only, not after the end of Run.
PublishAfterRun(m) ==
    /\ LockFree
    /\ m \in publishing
    /\ publishing' = publishing \ {m}
    /\ IF closed
       THEN UNCHANGED <<state, notifier>>
       ELSE /\ state' = [state EXCEPT ![m].data = @ + 1]
            /\ Notify
    /\ UNCHANGED <<lifecycle, runner, streams>>

PublishCommit(m) ==
    /\ LockFree
    /\ m \in publishing
    /\ publishing' = publishing \ {m}
    /\ IF closed \/ state[m].status # "running"
       THEN UNCHANGED <<state, notifier>>
       ELSE /\ state' = [state EXCEPT ![m].data = @ + 1]
            /\ Notify
    /\ UNCHANGED <<lifecycle, runner, streams>>

-----------------------------------------------------------------------------
(* One subscription: Subscribe, the event stream that consumes it, and     *)
(* unsubscribe.                                                            *)

Subscribe(r) ==
    /\ LockFree
    /\ reader[r] = "idle"
    /\ reader' = [reader EXCEPT ![r] = "attached"]
    /\ queue' = [queue EXCEPT ![r] = state]
    /\ UNCHANGED <<state, lifecycle, runner, publishing, written, notifier>>

\* A receive that finds a snapshot: the initial select of the stream, or its loop.
Receive(r) ==
    /\ reader[r] \in {"attached", "streaming"}
    /\ queue[r] # None
    /\ written' = [written EXCEPT ![r] = queue[r]]
    /\ queue' = [queue EXCEPT ![r] = None]
    /\ reader' = [reader EXCEPT ![r] = "streaming"]
    /\ UNCHANGED <<state, lifecycle, runner, publishing, notifier>>

\* The initial select finds the channel empty: notifyLocked has just drained it.
MissInitial(r) ==
    /\ reader[r] = "attached"
    /\ queue[r] = None
    /\ reader' = [reader EXCEPT ![r] = "fallback"]
    /\ UNCHANGED <<state, lifecycle, runner, publishing, queue, written, notifier>>

\* initial = h.backend.Snapshot(), which waits for the lock.
ReadSnapshot(r) ==
    /\ LockFree
    /\ reader[r] = "fallback"
    /\ written' = [written EXCEPT ![r] = state]
    /\ reader' = [reader EXCEPT ![r] = "streaming"]
    /\ UNCHANGED <<state, lifecycle, runner, publishing, queue, notifier>>

\* The client disconnects or a write fails; unsubscribe is still to run.
Disconnect(r) ==
    /\ reader[r] \in {"attached", "streaming"}
    /\ reader' = [reader EXCEPT ![r] = "leaving"]
    /\ UNCHANGED <<state, lifecycle, runner, publishing, queue, written, notifier>>

\* delete(r.subscribers, id); close(ch)
Unsubscribe(r) ==
    /\ LockFree
    /\ reader[r] = "leaving"
    /\ reader' = [reader EXCEPT ![r] = "gone"]
    /\ queue' = [queue EXCEPT ![r] = None]
    /\ UNCHANGED <<state, lifecycle, runner, publishing, written, notifier>>

-----------------------------------------------------------------------------
Lifecycle == Start \/ CancelParent \/ Close \/ CloseReturns \/ CloseDone

Module(m) == Register(m) \/ RunReturns(m) \/ Finish(m) \/ PublishBegin(m) \/ PublishCommit(m)

Reader(r) == \/ DrainSlot(r) \/ FillSlot(r)
             \/ Subscribe(r) \/ Receive(r) \/ MissInitial(r) \/ ReadSnapshot(r)
             \/ Disconnect(r) \/ Unsubscribe(r)

Next == \/ Lifecycle
        \/ \E m \in Modules : Module(m)
        \/ \E r \in Readers : Reader(r)

(***************************************************************************)
(* Fairness, one condition per goroutine.  Every goroutine that holds the  *)
(* lock, or waits for it, goes on: publications are bounded, so the lock   *)
(* is contended finitely often and weak fairness is enough.  A module      *)
(* returns once its context is cancelled (the contract of pkg/module);     *)
(* until then it need not return, publish or be registered.  A stream that *)
(* is served goes on receiving, or leaves: its writes have a five second   *)
(* deadline.                                                               *)
(***************************************************************************)
Notifier == \E r \in Readers : DrainSlot(r) \/ FillSlot(r)

Consumer(r) == Receive(r) \/ MissInitial(r) \/ ReadSnapshot(r) \/ Unsubscribe(r)

Fairness ==
    /\ WF_vars(CloseDone)
    /\ WF_vars(Notifier)
    /\ \A m \in Modules : /\ WF_vars((cancelled /\ RunReturns(m)) \/ Finish(m))
                          /\ WF_vars(PublishCommit(m))
    /\ \A r \in Readers : WF_vars(Consumer(r))

Spec == Init /\ [][Next]_vars

FairSpec == Spec /\ Fairness
-----------------------------------------------------------------------------
(* Properties. *)

\* "Slow consumers lose intermediate updates, never the latest state": whenever
\* the lock is free, a live stream either has the current snapshot waiting in
\* its channel or has already written it.
LatestSnapshot ==
    LockFree => \A r \in Readers :
        /\ reader[r] \in {"attached", "fallback"} => queue[r] = state
        /\ reader[r] = "streaming" =>
              queue[r] = state \/ (queue[r] = None /\ written[r] = state)

\* done is closed once, by whichever of Close and the waiter started by Start
\* owns it; a second close of a Go channel panics.
DoneClosedOnce == doneCloses <= 1

\* After done is closed, and so after Close has returned nil, no module is
\* still inside Run or registered to be run, and no state ever changes again.
QuiescentAfterDone ==
    [][doneCloses > 0 => /\ UNCHANGED state
                         /\ \A m \in Modules : runner[m] \in {"none", "ended"}]_vars

\* The runtime and its streams implement the abstract feed: no stream goes back
\* to an older snapshot, whichever way it got its initial one, and a module's
\* state is frozen from the moment its Run has ended.
Feed == INSTANCE StateFeed WITH view <- written
ImplementsFeed == Feed!FeedSpec

\* Once Close has been called, done is eventually closed: no module, publisher
\* or subscriber can keep the runtime from shutting down.
CloseCompletes == closed ~> doneCloses > 0

\* Close waits for every Run: a Close always gets its answer, done is closed
\* for it exactly once, and nothing of the runtime moves after it.
ClosesForGood == []DoneClosedOnce /\ QuiescentAfterDone /\ CloseCompletes

\* Every stream that stays connected eventually writes the final state, even
\* if it was far behind.
StreamCatchesUp ==
    \A r \in Readers : reader[r] \in {"attached", "fallback", "streaming"}
                          ~> (written[r] = state \/ reader[r] \in {"leaving", "gone"})
=============================================================================
