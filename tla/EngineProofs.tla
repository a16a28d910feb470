----------------------------- MODULE EngineProofs -----------------------------
(***************************************************************************)
(* Proofs about Engine, for any set of modules and of readers.             *)
(*                                                                         *)
(* The inductive invariant IInv is the conjunction of TypeOK and four      *)
(* parts: where a module's goroutine is says what its status can be        *)
(* (RunInv), who may close done (ClosesInv), which readers are up to date  *)
(* while notifyLocked is under way (NotifyInv), and the order of what a    *)
(* reader has written, what waits in its channel and what is current       *)
(* (ViewInv).                                                              *)
(***************************************************************************)
EXTENDS Engine, TLAPS

RunInv ==
    \A m \in Modules :
        /\ ~started => runner[m] = "none" /\ state[m].status \in {"absent", "registered"}
        /\ started =>
              \/ runner[m] = "none" /\ state[m].status = "absent"
              \/ runner[m] \in Outcome \cup {"running"} /\ state[m].status = "running"
              \/ runner[m] = "ended" /\ state[m].status \in Terminal
        /\ m \in publishing => state[m].data < MaxVersion

ClosesInv ==
    /\ waiter = "none" <=> ~started
    /\ doneCloses = IF waiter = "done" \/ (closed /\ ~started) THEN 1 ELSE 0
    /\ waiter = "done" => \A m \in Modules : runner[m] \in {"none", "ended"}

\* Reader r has, or is about to be handed, the current snapshot.
UpToDate(r) ==
    /\ reader[r] \in {"attached", "fallback"} => queue[r] = state
    /\ reader[r] = "streaming" =>
          queue[r] = state \/ (queue[r] = None /\ written[r] = state)

NotifyInv == \A r \in Readers \ pending : UpToDate(r)

ViewInv ==
    \A r \in Readers :
        /\ queue[r] # None => Follows(queue[r], state)
        /\ written[r] # None => Follows(written[r], state)
        /\ queue[r] # None /\ written[r] # None => Follows(written[r], queue[r])

IInv == TypeOK /\ RunInv /\ ClosesInv /\ NotifyInv /\ ViewInv

-----------------------------------------------------------------------------
(* The lifecycle order. *)

\* Every status has a stage, and only the last one is terminal.
LEMMA StageType ==
    ASSUME NEW s \in Status
    PROVE  Stage(s) \in 0 .. 3 /\ (s \in Terminal <=> Stage(s) = 3)
BY DEF Stage, Status, Terminal

\* A snapshot follows itself.
LEMMA FollowsReflexive ==
    ASSUME NEW a \in Snapshot
    PROVE  Follows(a, a)
<1> SUFFICES ASSUME NEW m \in Modules PROVE ModuleFollows(a[m], a[m])
  BY DEF Follows
<1>1. a[m].status \in Status /\ a[m].data \in Nat
  BY MaxVersionAssumption DEF Snapshot, ModuleState
<1>2. Stage(a[m].status) \in 0 .. 3
  BY <1>1, StageType
<1> QED BY <1>1, <1>2 DEF ModuleFollows

\* A snapshot that follows a follower follows.
LEMMA FollowsTransitive ==
    ASSUME NEW a \in Snapshot, NEW b \in Snapshot, NEW c \in Snapshot,
           Follows(a, b), Follows(b, c)
    PROVE  Follows(a, c)
<1> SUFFICES ASSUME NEW m \in Modules PROVE ModuleFollows(a[m], c[m])
  BY DEF Follows
<1>1. ModuleFollows(a[m], b[m]) /\ ModuleFollows(b[m], c[m])
  BY DEF Follows
<1>2. /\ a[m].status \in Status /\ a[m].data \in Nat
      /\ b[m].status \in Status /\ b[m].data \in Nat
      /\ c[m].status \in Status /\ c[m].data \in Nat
  BY MaxVersionAssumption DEF Snapshot, ModuleState
<1>3. /\ Stage(a[m].status) \in 0 .. 3
      /\ Stage(b[m].status) \in 0 .. 3
      /\ Stage(c[m].status) \in 0 .. 3
  BY <1>2, StageType
<1> QED BY <1>1, <1>2, <1>3 DEF ModuleFollows

-----------------------------------------------------------------------------
(* How a step changes the authoritative state. *)

\* Every step moves the state forward and keeps its type.
LEMMA StepFollows ==
    ASSUME TypeOK, RunInv, [Next]_vars
    PROVE  state' \in Snapshot /\ Follows(state, state')
<1>0. state \in Snapshot /\ Follows(state, state)
  BY FollowsReflexive DEF TypeOK
<1>1. ASSUME NEW m \in Modules, Register(m) PROVE state' \in Snapshot /\ Follows(state, state')
  <2>1. state' \in Snapshot
    BY <1>0, <1>1 DEF Register, Snapshot, ModuleState, Status
  <2>2. ASSUME NEW n \in Modules PROVE ModuleFollows(state[n], state'[n])
    <3>1. CASE n = m
      BY <1>0, <1>1, <3>1, MaxVersionAssumption
         DEF Register, Snapshot, ModuleState, ModuleFollows, Stage, Terminal, Status
    <3>2. CASE n # m
      BY <1>0, <1>1, <3>2 DEF Register, Follows, Snapshot
    <3> QED BY <3>1, <3>2
  <2> QED BY <2>1, <2>2 DEF Follows
<1>2. ASSUME Start PROVE state' \in Snapshot /\ Follows(state, state')
  <2>1. state' \in Snapshot
    BY <1>0, <1>2 DEF Start, Snapshot, ModuleState, Status
  <2>2. ASSUME NEW n \in Modules PROVE ModuleFollows(state[n], state'[n])
    <3>1. CASE n \in Registered
      <4>1. state[n].status = "registered"
        BY <1>2, <3>1 DEF RunInv, Start, Registered
      <4> QED BY <1>0, <1>2, <3>1, <4>1, MaxVersionAssumption
             DEF Start, Snapshot, ModuleState, ModuleFollows, Stage, Terminal
    <3>2. CASE n \notin Registered
      BY <1>0, <1>2, <3>2 DEF Start, Follows
    <3> QED BY <3>1, <3>2
  <2> QED BY <2>1, <2>2 DEF Follows
<1>3. ASSUME NEW m \in Modules, Finish(m) PROVE state' \in Snapshot /\ Follows(state, state')
  <2>1. state' \in Snapshot
    BY <1>0, <1>3 DEF Finish, Snapshot, ModuleState, Status
  <2>2. ASSUME NEW n \in Modules PROVE ModuleFollows(state[n], state'[n])
    <3>1. CASE n = m
      <4>1. state[m].status = "running"
        BY <1>3 DEF RunInv, Finish, Outcome
      <4>2. state'[m].status \in Terminal /\ state'[m].data = state[m].data
        BY <1>0, <1>3 DEF Finish, Snapshot, ModuleState, Terminal
      <4> QED BY <1>0, <3>1, <4>1, <4>2, MaxVersionAssumption
             DEF Snapshot, ModuleState, ModuleFollows, Stage, Terminal
    <3>2. CASE n # m
      BY <1>0, <1>3, <3>2 DEF Finish, Follows, Snapshot
    <3> QED BY <3>1, <3>2
  <2> QED BY <2>1, <2>2 DEF Follows
<1>4. ASSUME NEW m \in Modules, PublishCommit(m) PROVE state' \in Snapshot /\ Follows(state, state')
  <2>1. CASE closed \/ state[m].status # "running"
    BY <1>0, <1>4, <2>1 DEF PublishCommit
  <2>2. CASE ~closed /\ state[m].status = "running"
    <3>1. state' = [state EXCEPT ![m].data = @ + 1] /\ state[m].data < MaxVersion
      BY <1>4, <2>2 DEF PublishCommit, RunInv
    <3>2. state[m].data + 1 \in 0 .. MaxVersion /\ state[m].data \in Nat
      BY <1>0, <3>1, MaxVersionAssumption DEF Snapshot, ModuleState
    <3>3. state' \in Snapshot
      BY <1>0, <3>1, <3>2 DEF Snapshot, ModuleState
    <3>4. ASSUME NEW n \in Modules PROVE ModuleFollows(state[n], state'[n])
      <4>1. CASE n = m
        BY <1>0, <2>2, <3>1, <3>2, <4>1
           DEF Snapshot, ModuleState, ModuleFollows, Stage, Terminal
      <4>2. CASE n # m
        BY <1>0, <3>1, <4>2 DEF Follows, Snapshot
      <4> QED BY <4>1, <4>2
    <3> QED BY <3>3, <3>4 DEF Follows
  <2> QED BY <2>1, <2>2
<1>5. ASSUME state' = state PROVE state' \in Snapshot /\ Follows(state, state')
  BY <1>0, <1>5
<1> QED BY <1>1, <1>2, <1>3, <1>4, <1>5
       DEF Next, Lifecycle, Module, Reader, vars, CancelParent, Close, CloseReturns,
           CloseDone, RunReturns, PublishBegin, DrainSlot, FillSlot, Subscribe, Receive,
           MissInitial, ReadSnapshot, Disconnect, Unsubscribe
-----------------------------------------------------------------------------
(* The parts of the inductive invariant. *)

\* The runtime starts in the invariant.
LEMMA InitInv == Init => IInv
<1> SUFFICES ASSUME Init PROVE IInv
  OBVIOUS
<1>1. state \in Snapshot
  BY MaxVersionAssumption DEF Init, Snapshot, ModuleState, NoEntry, Status
<1>2. TypeOK
  BY <1>1 DEF Init, TypeOK, RunnerPhase, Outcome, ReaderPhase
<1>3. RunInv /\ ClosesInv
  BY DEF Init, RunInv, ClosesInv, NoEntry
<1>4. NotifyInv /\ ViewInv
  BY DEF Init, NotifyInv, UpToDate, ViewInv
<1> QED BY <1>2, <1>3, <1>4 DEF IInv

\* Every step keeps the types.
LEMMA TypeStep ==
    ASSUME IInv, [Next]_vars
    PROVE  TypeOK'
<1> USE DEF TypeOK, lifecycle, streams, notifier, Notify
<1>0. TypeOK /\ RunInv /\ state' \in Snapshot
  BY StepFollows DEF IInv
<1>1. ASSUME NEW m \in Modules, Register(m) PROVE TypeOK'
  BY <1>0, <1>1 DEF Register, Subscribed, LockFree
<1>2. ASSUME Start PROVE TypeOK'
  BY <1>0, <1>2 DEF Start, Subscribed, LockFree, RunnerPhase
<1>3. CASE CancelParent \/ Close \/ CloseReturns \/ CloseDone
  <2>1. CASE CancelParent
    <3>1. parentDone' \in BOOLEAN /\ cancelled' \in BOOLEAN
      BY <2>1, Zenon DEF CancelParent
    <3> QED BY <1>0, <2>1, <3>1 DEF CancelParent
  <2>2. CASE Close
    <3>1. cancelled' \in BOOLEAN /\ closed' \in BOOLEAN
      BY <1>0, <2>2, Zenon DEF Close
    <3>2. doneCloses' \in Nat
      BY <1>0, <2>2 DEF Close
    <3>3. closeCall' = "waiting"
      BY <2>2 DEF Close
    <3>4. UNCHANGED <<state, started, parentDone, waiter, runner, publishing, streams,
                      notifier>>
      BY <2>2 DEF Close
    <3> HIDE DEF Close
    <3> QED BY <1>0, <3>1, <3>2, <3>3, <3>4
  <2>3. CASE CloseReturns \/ CloseDone
    BY <1>0, <2>3 DEF CloseReturns, CloseDone
  <2> QED BY <1>3, <2>1, <2>2, <2>3
<1>4. ASSUME NEW m \in Modules, Finish(m) PROVE TypeOK'
  BY <1>0, <1>4 DEF Finish, Subscribed, LockFree, RunnerPhase
<1>5. ASSUME NEW m \in Modules, RunReturns(m) PROVE TypeOK'
  BY <1>0, <1>5 DEF RunReturns, RunnerPhase
<1>6. ASSUME NEW m \in Modules, PublishBegin(m) \/ PublishCommit(m) PROVE TypeOK'
  BY <1>0, <1>6 DEF PublishBegin, PublishCommit, Subscribed, LockFree
<1>7. ASSUME NEW r \in Readers, DrainSlot(r) \/ FillSlot(r) PROVE TypeOK'
  BY <1>0, <1>7 DEF DrainSlot, FillSlot
<1>8. ASSUME NEW r \in Readers, Subscribe(r) \/ Receive(r) \/ MissInitial(r)
      PROVE  TypeOK'
  BY <1>0, <1>8 DEF Subscribe, Receive, MissInitial, ReaderPhase
<1>9. ASSUME NEW r \in Readers, ReadSnapshot(r) \/ Disconnect(r) \/ Unsubscribe(r)
      PROVE  TypeOK'
  BY <1>0, <1>9 DEF ReadSnapshot, Disconnect, Unsubscribe, ReaderPhase
<1>10. CASE UNCHANGED vars
  BY <1>0, <1>10 DEF vars
<1> QED BY <1>1, <1>2, <1>3, <1>4, <1>5, <1>6, <1>7, <1>8, <1>9, <1>10
       DEF Next, Lifecycle, Module, Reader

\* Every step keeps goroutines and statuses in step.
LEMMA RunStep ==
    ASSUME IInv, [Next]_vars
    PROVE  RunInv'
<1> USE DEF RunInv, lifecycle, streams, notifier, Outcome, Terminal
<1>0. TypeOK /\ RunInv /\ ClosesInv
  BY DEF IInv
<1>1. ASSUME NEW m \in Modules, Register(m) PROVE RunInv'
  BY <1>0, <1>1 DEF Register, TypeOK, Snapshot, ModuleState
<1>2. ASSUME Start PROVE RunInv'
  BY <1>0, <1>2 DEF Start, Registered, TypeOK, Snapshot, ModuleState
<1>3. CASE CancelParent \/ Close \/ CloseReturns \/ CloseDone
  BY <1>0, <1>3 DEF CancelParent, Close, CloseReturns, CloseDone
<1>4. ASSUME NEW m \in Modules, Finish(m) PROVE RunInv'
  BY <1>0, <1>4 DEF Finish, TypeOK, Snapshot, ModuleState
<1>5. ASSUME NEW m \in Modules, RunReturns(m) PROVE RunInv'
  BY <1>0, <1>5 DEF RunReturns, TypeOK
<1>6. ASSUME NEW m \in Modules, PublishBegin(m) PROVE RunInv'
  BY <1>0, <1>6 DEF PublishBegin
<1>7. ASSUME NEW m \in Modules, PublishCommit(m) PROVE RunInv'
  BY <1>0, <1>7 DEF PublishCommit, TypeOK, Snapshot, ModuleState
<1>8. ASSUME NEW r \in Readers, Reader(r) PROVE RunInv'
  BY <1>0, <1>8 DEF Reader, DrainSlot, FillSlot, Subscribe, Receive, MissInitial,
                    ReadSnapshot, Disconnect, Unsubscribe
<1>9. CASE UNCHANGED vars
  BY <1>0, <1>9 DEF vars
<1> QED BY <1>1, <1>2, <1>3, <1>4, <1>5, <1>6, <1>7, <1>8, <1>9
       DEF Next, Lifecycle, Module

\* Every step keeps the ownership of done.
LEMMA ClosesStep ==
    ASSUME IInv, [Next]_vars
    PROVE  ClosesInv'
<1> USE DEF ClosesInv, lifecycle, streams, notifier
<1>0. TypeOK /\ RunInv /\ ClosesInv
  BY DEF IInv
<1>1. CASE Start
  BY <1>0, <1>1 DEF Start
<1>2. CASE Close
  BY <1>0, <1>2 DEF Close
<1>3. CASE CloseDone
  BY <1>0, <1>3 DEF CloseDone
<1>4. CASE CancelParent \/ CloseReturns
  BY <1>0, <1>4 DEF CancelParent, CloseReturns
<1>5. ASSUME NEW m \in Modules, Finish(m) \/ RunReturns(m) PROVE ClosesInv'
  BY <1>0, <1>5 DEF Finish, RunReturns, Outcome, TypeOK
<1>6. ASSUME NEW m \in Modules, Register(m) \/ PublishBegin(m) \/ PublishCommit(m)
      PROVE  ClosesInv'
  BY <1>0, <1>6 DEF Register, PublishBegin, PublishCommit
<1>7. ASSUME NEW r \in Readers, Reader(r) PROVE ClosesInv'
  BY <1>0, <1>7 DEF Reader, DrainSlot, FillSlot, Subscribe, Receive, MissInitial,
                    ReadSnapshot, Disconnect, Unsubscribe
<1>8. CASE UNCHANGED vars
  BY <1>0, <1>8 DEF vars
<1> QED BY <1>1, <1>2, <1>3, <1>4, <1>5, <1>6, <1>7, <1>8 DEF Next, Lifecycle, Module
-----------------------------------------------------------------------------
(* Readers. *)

\* Every step keeps the readers that are not waiting to be notified up to date.
LEMMA NotifyStep ==
    ASSUME IInv, [Next]_vars
    PROVE  NotifyInv'
<1> USE DEF NotifyInv, UpToDate, lifecycle, streams, notifier
<1>0. TypeOK /\ NotifyInv
  BY DEF IInv
<1>1. ASSUME pending' = Subscribed, UNCHANGED streams PROVE NotifyInv'
  BY <1>0, <1>1 DEF Subscribed
<1>2. CASE \E m \in Modules : Register(m) \/ Finish(m)
  BY <1>1, <1>2 DEF Register, Finish, Notify
<1>3. CASE Start
  BY <1>1, <1>3 DEF Start, Notify
<1>4. ASSUME NEW m \in Modules, PublishCommit(m) PROVE NotifyInv'
  BY <1>0, <1>1, <1>4 DEF PublishCommit, Notify
<1>5. ASSUME UNCHANGED <<state, streams, notifier>> PROVE NotifyInv'
  BY <1>0, <1>5
<1>6. ASSUME NEW r \in Readers, DrainSlot(r) PROVE NotifyInv'
  BY <1>0, <1>6 DEF DrainSlot, TypeOK
<1>7. ASSUME NEW r \in Readers, FillSlot(r) PROVE NotifyInv'
  BY <1>0, <1>7 DEF FillSlot, TypeOK
<1>8. ASSUME NEW r \in Readers, Subscribe(r) PROVE NotifyInv'
  BY <1>0, <1>8 DEF Subscribe, TypeOK
<1>9. ASSUME NEW r \in Readers, Receive(r) PROVE NotifyInv'
  BY <1>0, <1>9 DEF Receive, TypeOK
<1>10. ASSUME NEW r \in Readers, MissInitial(r) PROVE NotifyInv'
  BY <1>0, <1>10, NoneAssumption DEF MissInitial, TypeOK
<1>11. ASSUME NEW r \in Readers, ReadSnapshot(r) \/ Disconnect(r) \/ Unsubscribe(r)
       PROVE  NotifyInv'
  BY <1>0, <1>11 DEF ReadSnapshot, Disconnect, Unsubscribe, TypeOK
<1> QED
  BY <1>2, <1>3, <1>4, <1>5, <1>6, <1>7, <1>8, <1>9, <1>10, <1>11
     DEF Next, Lifecycle, Module, Reader, vars, CancelParent, Close, CloseReturns,
         CloseDone, RunReturns, PublishBegin

\* Every step keeps what a reader has, and is about to get, in order.
LEMMA ViewStep ==
    ASSUME IInv, [Next]_vars
    PROVE  ViewInv'
<1> USE DEF ViewInv, lifecycle, streams, notifier
<1>0. TypeOK /\ ViewInv /\ state' \in Snapshot /\ Follows(state, state')
  BY StepFollows DEF IInv
<1>1. ASSUME UNCHANGED <<queue, written>> PROVE ViewInv'
  <2>1. ASSUME NEW s \in Snapshot, Follows(s, state) PROVE Follows(s, state')
    BY <1>0, <2>1, FollowsTransitive DEF TypeOK
  <2> QED BY <1>0, <1>1, <2>1 DEF TypeOK
<1>2. ASSUME NEW r \in Readers, DrainSlot(r) \/ Unsubscribe(r) PROVE ViewInv'
  BY <1>0, <1>2 DEF DrainSlot, Unsubscribe, TypeOK
<1>3. ASSUME NEW r \in Readers, FillSlot(r) \/ Subscribe(r) PROVE ViewInv'
  <2>1. UNCHANGED <<state, written>> /\ queue' = [queue EXCEPT ![r] = state]
    BY <1>3 DEF FillSlot, Subscribe
  <2>2. Follows(state, state)
    BY FollowsReflexive, <1>0 DEF TypeOK
  <2> QED BY <1>0, <2>1, <2>2 DEF TypeOK
<1>4. ASSUME NEW r \in Readers, Receive(r) PROVE ViewInv'
  BY <1>0, <1>4 DEF Receive, TypeOK
<1>5. ASSUME NEW r \in Readers, ReadSnapshot(r) PROVE ViewInv'
  <2>1. queue[r] = state /\ Follows(state, state)
    BY <1>0, <1>5, FollowsReflexive
       DEF ReadSnapshot, IInv, NotifyInv, UpToDate, LockFree, TypeOK
  <2> QED BY <1>0, <1>5, <2>1 DEF ReadSnapshot, TypeOK
<1> QED
  BY <1>1, <1>2, <1>3, <1>4, <1>5
     DEF Next, Lifecycle, Module, Reader, vars, CancelParent, Close, CloseReturns,
         CloseDone, RunReturns, PublishBegin, PublishCommit, Register, Start, Finish,
         MissInitial, Disconnect

-----------------------------------------------------------------------------
(* Theorems. *)

\* The strengthened invariant holds throughout.
THEOREM Invariant == Spec => []IInv
<1>1. IInv /\ [Next]_vars => IInv'
  BY TypeStep, RunStep, ClosesStep, NotifyStep, ViewStep DEF IInv
<1> QED BY InitInv, <1>1, PTL DEF Spec

\* Type correctness of the runtime and its streams.
THEOREM TypeCorrect == Spec => []TypeOK
<1>1. IInv => TypeOK
  BY DEF IInv
<1> QED BY Invariant, <1>1, PTL

\* Slow consumers never lose the latest state (the comment on Subscribe).
THEOREM LatestSnapshotKept == Spec => []LatestSnapshot
<1>1. IInv => LatestSnapshot
  BY DEF IInv, NotifyInv, UpToDate, LatestSnapshot, LockFree
<1> QED BY Invariant, <1>1, PTL

\* No order of Register, Start, Close and module exits closes done twice.
THEOREM DoneOnce == Spec => []DoneClosedOnce
<1>1. IInv => DoneClosedOnce
  BY DEF IInv, ClosesInv, DoneClosedOnce
<1> QED BY Invariant, <1>1, PTL

\* Once done is closed no module runs and no state changes.
THEOREM Quiescence == Spec => QuiescentAfterDone
<1>1. IInv /\ [Next]_vars =>
        [doneCloses > 0 => /\ UNCHANGED state
                           /\ \A m \in Modules : runner[m] \in {"none", "ended"}]_vars
  <2> SUFFICES ASSUME IInv, Next, doneCloses > 0
               PROVE  /\ UNCHANGED state
                      /\ \A m \in Modules : runner[m] \in {"none", "ended"}
    OBVIOUS
  <2>1. waiter = "done" \/ (closed /\ ~started)
    BY DEF IInv, ClosesInv
  <2>2. \A m \in Modules : runner[m] \in {"none", "ended"}
    BY <2>1 DEF IInv, ClosesInv, RunInv
  <2>3. started \/ closed
    BY <2>1 DEF IInv, ClosesInv
  <2>4. \A m \in Modules : state[m].status # "running"
    BY <2>2 DEF IInv, RunInv, Outcome, Terminal
  <2>5. ASSUME NEW m \in Modules, Module(m) PROVE UNCHANGED state
    BY <2>2, <2>3, <2>4, <2>5
       DEF Module, Register, RunReturns, Finish, PublishBegin, PublishCommit, Outcome
  <2>6. ASSUME Lifecycle PROVE UNCHANGED state
    BY <2>3, <2>6 DEF Lifecycle, Start, CancelParent, Close, CloseReturns, CloseDone
  <2>7. ASSUME NEW r \in Readers, Reader(r) PROVE UNCHANGED state
    BY <2>7 DEF Reader, DrainSlot, FillSlot, Subscribe, Receive, MissInitial,
                ReadSnapshot, Disconnect, Unsubscribe
  <2> QED BY <2>2, <2>5, <2>6, <2>7 DEF Next
<1> QED BY Invariant, <1>1, PTL DEF Spec, QuiescentAfterDone

-----------------------------------------------------------------------------
(* The runtime implements the abstract feed, with view <- written. *)

\* Every step of the runtime is a step of the feed or leaves it unchanged.
LEMMA StepImplementsFeed ==
    ASSUME IInv, [Next]_vars
    PROVE  [Feed!FeedNext]_(Feed!feedVars)
<1> USE DEF Feed!FeedNext, Feed!feedVars, lifecycle, streams, notifier
<1>0. TypeOK /\ ViewInv /\ state' \in Snapshot /\ Follows(state, state')
  BY StepFollows DEF IInv
<1>a. /\ Feed!Snapshot = Snapshot
      /\ \A a, b : Feed!Follows(a, b) <=> Follows(a, b)
  BY DEF Feed!Snapshot, Snapshot, Feed!ModuleState, ModuleState, Feed!Status, Status,
         Feed!Follows, Follows, Feed!ModuleFollows, ModuleFollows, Feed!Stage, Stage,
         Feed!Terminal, Terminal
<1>1. ASSUME UNCHANGED written PROVE Feed!Advance
  BY <1>0, <1>1, <1>a DEF Feed!Advance
<1>2. ASSUME NEW r \in Readers, Receive(r) PROVE Feed!Show(r)
  <2>1. /\ queue[r] \in Snapshot /\ Follows(queue[r], state)
        /\ written[r] # None => Follows(written[r], queue[r])
    BY <1>0, <1>2 DEF Receive, TypeOK, ViewInv
  <2> QED BY <1>2, <1>a, <2>1 DEF Receive, Feed!Show
<1>3. ASSUME NEW r \in Readers, ReadSnapshot(r) PROVE Feed!Show(r)
  <2>1. /\ state \in Snapshot /\ Follows(state, state)
        /\ written[r] # None => Follows(written[r], state)
    BY <1>0, FollowsReflexive DEF TypeOK, ViewInv
  <2> QED BY <1>3, <1>a, <2>1 DEF ReadSnapshot, Feed!Show
<1>4. CASE UNCHANGED <<state, written>>
  BY <1>4
<1> QED
  BY <1>1, <1>2, <1>3, <1>4
     DEF Next, Lifecycle, Module, Reader, vars, CancelParent, Close, CloseReturns,
         CloseDone, RunReturns, PublishBegin, PublishCommit, Register, Start, Finish,
         DrainSlot, FillSlot, Subscribe, MissInitial, Disconnect, Unsubscribe

\* Readers only move forward, and only to states the runtime has reached.
THEOREM RefinesFeed == Spec => ImplementsFeed
<1>1. Init => Feed!FeedInit
  BY DEF Init, Feed!FeedInit, NoEntry, Feed!NoEntry
<1>2. IInv /\ [Next]_vars => [Feed!FeedNext]_(Feed!feedVars)
  BY StepImplementsFeed
<1> QED BY Invariant, <1>1, <1>2, PTL DEF Spec, ImplementsFeed, Feed!FeedSpec
=============================================================================
