----------------------------- MODULE DesktopProofs ----------------------------
(***************************************************************************)
(* For any processes, controls and bounds: mutual exclusion by named       *)
(* mutexes, and a tray that runs its own server and no other.              *)
(*                                                                         *)
(* OneOwner is inductive together with HandleInv: whoever holds a control  *)
(* has a handle to its mutex, so that a process that created the mutex, and *)
(* did not just open it, found no holder.                                  *)
(*                                                                         *)
(* TrayInControl is not inductive.  SInv adds what the tray's thread knows *)
(* at each point of start and stopWithin (ThreadInv, ServersInv), how the  *)
(* starts relate to the retries that were counted (BudgetInv), and whose   *)
(* events can be set (EventInv).                                           *)
(***************************************************************************)
EXTENDS Desktop, TLAPS

HandleType ==
    /\ phase \in [Processes -> Phase]
    /\ held \in [Processes -> Nat]
    /\ mutex \in [Names -> SUBSET Processes]

\* Between two controls: the one being taken, or given back, exists.
BetweenInv ==
    \A p \in Processes :
        /\ held[p] <= Len(LocksOf[p])
        /\ phase[p] \in {"opening", "refused"} => held[p] < Len(LocksOf[p])
        /\ phase[p] = "closing" => held[p] > 0

HandleInv == \A p \in Processes, n \in Names : Holds(p, n) => p \in mutex[n]

IInv == HandleType /\ BetweenInv /\ HandleInv /\ OneOwner

-----------------------------------------------------------------------------
\* The controls of a process have different names.
LEMMA LocksDiffer ==
    ASSUME NEW p \in Processes
    PROVE  /\ LocksOf[p] \in Seq(Names)
           /\ Len(LocksOf[p]) \in Nat
           /\ \A i \in 1 .. Len(LocksOf[p]) : LocksOf[p][i] \in Names
           /\ \A i, j \in 1 .. Len(LocksOf[p]) : LocksOf[p][i] = LocksOf[p][j] => i = j
<1>1. LocksOf[p] \in Seq(Names)
  BY DesktopAssumption
<1>2. DOMAIN LocksOf[p] = 1 .. Len(LocksOf[p])
  BY <1>1
<1> QED
  BY <1>1, <1>2, DesktopAssumption

\* Nothing is held at first.
LEMMA InitInv == Init => IInv
<1> SUFFICES ASSUME Init PROVE IInv
  OBVIOUS
<1>1. HandleType
  BY DEF Init, HandleType, Phase
<1>2. BetweenInv
  BY LocksDiffer DEF Init, BetweenInv
<1>3. \A p \in Processes, n \in Names : ~Holds(p, n)
  BY DEF Init, Holds
<1> QED
  BY <1>1, <1>2, <1>3 DEF IInv, HandleInv, OneOwner

\* A step that touches no control and no mutex keeps the invariant.
LEMMA Untouched ==
    ASSUME IInv, UNCHANGED <<phase, held, mutex>>
    PROVE  IInv'
BY DEF IInv, HandleType, BetweenInv, HandleInv, OneOwner, Holds, Upcoming

\* So does a process that goes on, or starts, with the controls it has.
LEMMA Goes ==
    ASSUME IInv, NEW p \in Processes, NEW w \in Phase \ {"opening"},
           Goto(p, w), UNCHANGED <<held, mutex>>,
           w = "refused" => phase[p] = "opening",
           w = "closing" => held[p] > 0
    PROVE  IInv'
<1> USE DEF IInv
<1>1. \A q \in Processes : phase'[q] = IF q = p THEN w ELSE phase[q]
  BY DEF Goto, HandleType
<1>2. HandleType'
  BY DEF Goto, HandleType
<1>3. BetweenInv'
  BY <1>1 DEF BetweenInv, Phase
<1>4. \A q \in Processes, n \in Names : Holds(q, n)' => Holds(q, n)
  BY <1>1 DEF Holds, Upcoming
<1> QED
  BY <1>2, <1>3, <1>4 DEF HandleInv, OneOwner

\* A process that ends loses its controls together with its handles.
LEMMA Dies ==
    ASSUME IInv, NEW D, NEW G, Terminate(D, G)
    PROVE  IInv'
<1> USE DEF IInv
<1>1. \A q \in Processes : /\ phase'[q] = IF q \in D THEN "absent" ELSE phase[q]
                           /\ held'[q] = IF q \in D THEN 0 ELSE held[q]
  BY DEF Terminate
<1>2. \A n \in Names : mutex'[n] = mutex[n] \ D
  BY DEF Terminate
<1>3. HandleType'
  BY DEF Terminate, HandleType, Phase
<1>4. BetweenInv'
  BY <1>1, LocksDiffer DEF BetweenInv
<1>5. \A q \in Processes, n \in Names : Holds(q, n)' => q \notin D /\ Holds(q, n)
  BY <1>1 DEF Holds, Upcoming
<1> QED
  BY <1>2, <1>3, <1>4, <1>5 DEF HandleInv, OneOwner

-----------------------------------------------------------------------------
\* The steps of monitorControl and of its cleanup keep the invariant.
LEMMA ControlStep ==
    ASSUME IInv, NEW p \in Processes,
           CreateMutex(p) \/ CreateEvent(p) \/ CloseRefused(p) \/ CloseMutex(p)
    PROVE  IInv'
<1> USE DEF IInv
<1> DEFINE u == Upcoming(p)
<1>0. phase[p] \in {"starting", "opening", "refused"} /\ held[p] < Len(LocksOf[p]) =>
          /\ u \in Names
          /\ \A i \in 1 .. held[p] : LocksOf[p][i] # u
  BY LocksDiffer DEF Upcoming, HandleType
<1>1. ASSUME CreateMutex(p) PROVE IInv'
  <2>1. /\ phase[p] = "starting" /\ held[p] < Len(LocksOf[p]) /\ held' = held
        /\ u \in Names
    BY <1>0, <1>1 DEF CreateMutex
  <2>2. \A n \in Names : mutex'[n] = IF n = u THEN mutex[n] \cup {p} ELSE mutex[n]
    BY <1>1, <2>1 DEF CreateMutex, HandleType
  <2>3. \A q \in Processes : phase'[q] = IF q # p THEN phase[q]
                                         ELSE IF mutex[u] = {} THEN "opening" ELSE "refused"
    BY <1>1 DEF CreateMutex, Goto, HandleType
  <2>4. HandleType'
    BY <1>1, <2>1 DEF CreateMutex, Goto, HandleType, Phase
  <2>5. BetweenInv'
    BY <2>1, <2>3 DEF BetweenInv
  <2>6. \A q \in Processes, n \in Names :
            Holds(q, n)' => Holds(q, n) \/ (q = p /\ n = u /\ mutex[u] = {})
    BY <2>1, <2>3 DEF Holds, Upcoming
  <2>7. HandleInv'
    BY <2>2, <2>6 DEF HandleInv
  <2>8. OneOwner'
    BY <2>1, <2>6 DEF OneOwner, HandleInv
  <2> QED
    BY <2>4, <2>5, <2>7, <2>8
<1>2. ASSUME CreateEvent(p) PROVE IInv'
  <2>1. ASSUME OpenEvent(p, u), held' = [held EXCEPT ![p] = @ + 1], Goto(p, "starting")
        PROVE  IInv'
    <3>1. phase[p] = "opening" /\ mutex' = mutex /\ held[p] < Len(LocksOf[p])
      BY <1>2, <2>1 DEF CreateEvent, OpenEvent, BetweenInv
    <3>2. \A q \in Processes : /\ phase'[q] = IF q = p THEN "starting" ELSE phase[q]
                               /\ held'[q] = IF q = p THEN held[q] + 1 ELSE held[q]
      BY <2>1 DEF Goto, HandleType
    <3>3. HandleType'
      BY <2>1, <3>1 DEF Goto, HandleType, Phase
    <3>4. BetweenInv'
      BY <3>1, <3>2, LocksDiffer DEF BetweenInv, HandleType
    <3>5. \A q \in Processes, n \in Names : Holds(q, n)' => Holds(q, n)
      BY <3>1, <3>2 DEF Holds, Upcoming, HandleType
    <3> QED
      BY <3>1, <3>3, <3>4, <3>5 DEF HandleInv, OneOwner
  <2>2. ASSUME Goto(p, "refused"), UNCHANGED <<held, kernel>> PROVE IInv'
    <3>1. phase[p] = "opening" /\ UNCHANGED <<held, mutex>>
      BY <1>2, <2>2 DEF CreateEvent, kernel
    <3> QED
      BY <2>2, <3>1, Goes DEF Phase
  <2> QED
    BY <1>2, <2>1, <2>2 DEF CreateEvent
<1>3. ASSUME CloseRefused(p) PROVE IInv'
  <2>1. /\ phase[p] = "refused" /\ held' = held /\ held[p] < Len(LocksOf[p])
        /\ u \in Names
    BY <1>0, <1>3 DEF CloseRefused, BetweenInv
  <2>2. \A n \in Names : mutex'[n] = IF n = u THEN mutex[n] \ {p} ELSE mutex[n]
    BY <1>3, <2>1 DEF CloseRefused, HandleType
  <2>3. \A q \in Processes : phase'[q] = IF q = p THEN "leaving" ELSE phase[q]
    BY <1>3 DEF CloseRefused, Goto, HandleType
  <2>4. HandleType'
    BY <1>3, <2>1 DEF CloseRefused, Goto, HandleType, Phase
  <2>5. BetweenInv'
    BY <2>1, <2>3 DEF BetweenInv
  <2>6. \A q \in Processes, n \in Names : Holds(q, n)' => Holds(q, n) /\ ~(q = p /\ n = u)
    BY <1>0, <2>1, <2>3 DEF Holds, Upcoming
  <2> QED
    BY <2>2, <2>4, <2>5, <2>6 DEF HandleInv, OneOwner
<1>4. ASSUME CloseMutex(p) PROVE IInv'
  <2> DEFINE l == Last(p)
  <2>1. phase[p] = "closing" /\ held[p] > 0 /\ held[p] <= Len(LocksOf[p])
    BY <1>4 DEF CloseMutex, BetweenInv
  <2>2. l \in Names /\ \A i \in 1 .. held[p] - 1 : LocksOf[p][i] # l
    <3>1. /\ held[p] \in 1 .. Len(LocksOf[p])
          /\ \A i \in 1 .. held[p] - 1 : i \in 1 .. Len(LocksOf[p]) /\ i # held[p]
      BY <2>1, LocksDiffer DEF HandleType
    <3> QED
      BY <3>1, LocksDiffer DEF Last
  <2>3. \A n \in Names : mutex'[n] = IF n = l THEN mutex[n] \ {p} ELSE mutex[n]
    BY <1>4, <2>2 DEF CloseMutex, HandleType
  <2>4. \A q \in Processes : /\ phase'[q] = IF q = p THEN "leaving" ELSE phase[q]
                             /\ held'[q] = IF q = p THEN held[q] - 1 ELSE held[q]
    BY <1>4 DEF CloseMutex, Goto, HandleType
  <2>5. HandleType'
    BY <1>4, <2>1, <2>2 DEF CloseMutex, Goto, HandleType, Phase
  <2>6. BetweenInv'
    BY <2>1, <2>4, LocksDiffer DEF BetweenInv, HandleType
  <2>7. \A q \in Processes, n \in Names : Holds(q, n)' => Holds(q, n) /\ ~(q = p /\ n = l)
    BY <2>1, <2>2, <2>4 DEF Holds, Upcoming, HandleType
  <2> QED
    BY <2>3, <2>5, <2>6, <2>7 DEF HandleInv, OneOwner
<1> QED
  BY <1>1, <1>2, <1>3, <1>4

\* Every other step of a process.
LEMMA ProcessStep ==
    ASSUME IInv, NEW p \in Processes,
           Process(p) \/ Fails(p) \/ Crash(p) \/ StartByHand(p) \/ Interrupt(p)
    PROVE  IInv'
<1>1. ASSUME Serve(p) \/ Shutdown(p) \/ CloseEvent(p) \/ Exit(p) \/ Fails(p) \/ StartByHand(p)
      PROVE  IInv'
  <2>1. \E w \in Phase \ {"opening", "refused"} :
            Goto(p, w) /\ (w = "closing" => held[p] > 0)
    BY <1>1 DEF Serve, Shutdown, CloseEvent, Exit, Fails, StartByHand, Phase
  <2>2. UNCHANGED <<held, mutex>>
    BY <1>1 DEF Serve, Shutdown, CloseEvent, Exit, Fails, StartByHand, kernel
  <2> QED
    BY <2>1, <2>2, Goes
<1>2. ASSUME Crash(p) PROVE IInv'
  BY <1>2, Dies DEF Crash
<1>3. ASSUME Interrupt(p) \/ \E n \in Names : Watch(p, n) PROVE IInv'
  BY <1>3, Untouched DEF Interrupt, Watch, kernel
<1> QED
  BY <1>1, <1>2, <1>3, ControlStep DEF Process

\* What the tray and the stop commands do keeps the invariant: they create processes, end
\* them, or leave them alone.
LEMMA TrayStep ==
    ASSUME IInv,
           \/ \E k \in Commands : Command(k)
           \/ Supervise \/ Reap \/ MenuStart \/ MenuStop \/ Quit \/ TrayCrash
    PROVE  IInv'
<1>1. ASSUME NEW by, NEW tries, NEW count, Launch(by, tries, count) PROVE IInv'
  <2>1. UNCHANGED <<held, mutex>>
    BY <1>1 DEF Launch, kernel
  <2>2. CASE UNCHANGED phase
    BY <2>1, <2>2, Untouched
  <2>3. ASSUME NEW c \in Children, Goto(c, "starting") PROVE IInv'
    BY <2>1, <2>3, Goes DEF Processes, Phase
  <2> QED
    BY <1>1, <2>2, <2>3 DEF Launch
<1>2. ASSUME NEW D, NEW G, Terminate(D, G) PROVE IInv'
  BY <1>2, Dies
<1>3. ASSUME UNCHANGED <<servers, mutex>> PROVE IInv'
  BY <1>3, Untouched DEF servers
<1>4. Boot \/ TickRetries \/ MenuStart => IInv'
  BY <1>1, <1>3 DEF Boot, TickRetries, MenuStart, kernel
<1>5. Assign \/ StopTimeout \/ CloseJob \/ TrayCrash => IInv'
  BY <1>2, <1>3 DEF Assign, StopTimeout, CloseJob, TrayCrash, TrayEnds, kernel
<1>6. TickExited \/ StopDone \/ Reap \/ MenuStop \/ Quit => IInv'
  BY <1>3 DEF TickExited, StopDone, Reap, MenuStop, Quit, Stop, kernel
<1>7. OpenControl \/ SetControl \/ CloseControl => IInv'
  BY <1>3 DEF OpenControl, SetControl, CloseControl, Signals, OpenEvent, kernel
<1>8. ASSUME NEW k \in Commands, Command(k) PROVE IInv'
  BY <1>3, <1>8 DEF Command, CommandOpens, CommandSets, CommandCloses, Step, OpenEvent, kernel
<1> QED
  BY <1>4, <1>5, <1>6, <1>7, <1>8 DEF Supervise

\* Every step keeps the invariant.
LEMMA OwnerStep == IInv /\ [Next]_vars => IInv'
<1> SUFFICES ASSUME IInv, [Next]_vars PROVE IInv'
  OBVIOUS
<1>1. CASE UNCHANGED vars
  BY <1>1, Untouched DEF vars, kernel, servers
<1>2. CASE Next
  BY <1>2, ProcessStep, TrayStep DEF Next
<1> QED
  BY <1>1, <1>2

\* monitorControl (control_windows.go) admits one process at a time under each name, however
\* many servers and monitors the tray and the user start, stop and kill: one process owns
\* the server's control, and one drives the displays.
THEOREM Exclusion == Spec => []OneOwner
<1>1. IInv => OneOwner
  BY DEF IInv
<1> QED
  BY InitInv, OwnerStep, <1>1, PTL DEF Spec

-----------------------------------------------------------------------------
(* The tray: what it runs, how often, and whom it stops. *)

\* Where stopWithin waits for a server to end.
Stopping == {"opening", "setting", "closing", "waiting", "reaping"}

\* What the tray's thread knows wherever it is: the process it is about to put into the job, or
\* the one that it put there; that no server is wanted while one is being stopped.
ThreadInv ==
    /\ fresh # None <=> at = "assigning"
    /\ at \in {"boot", "assigning"} => cmd = None
    /\ at = "boot" => asked = "start"
    /\ at = "assigning" => wanted
    /\ at \in Stopping => cmd # None /\ ~wanted
    /\ cmd # None => cmd \in job
    /\ at = "loop" /\ asked = "stop" => cmd = None

\* A server that runs is one of the two; Wait returns when it has ended.
ServersInv ==
    /\ \A c \in Children : phase[c] = "absent" \/ c \in {cmd, fresh}
    /\ reaped => cmd # None /\ phase[cmd] = "absent"

\* The tray's view, until it has ended; then, that the job took its servers along.
TrayInv ==
    /\ wanted => asked = "start"
    /\ at # "ended" => ThreadInv /\ ServersInv
    /\ at = "ended" => \A c \in Children \ {fresh} : phase[c] = "absent"

\* One start more than there were retries; and not yet, while a retry is due.
BudgetInv ==
    /\ attempts <= retries + 1
    /\ retryAt => attempts <= retries

\* A process has the events of its own controls, and only stop commands, whom told remembers,
\* set those that are not the tray's "control".
EventInv ==
    /\ \A o \in Others, n \in Names :
           o \in event[n] => \E i \in DOMAIN LocksOf[o] : LocksOf[o][i] = n
    /\ signalled \subseteq told \cup {"control"}

SInv == TypeOK /\ TrayInv /\ BudgetInv /\ EventInv /\ TraySparesOthers

\* The bounds are numbers.
LEMMA Bounds == MaxRetries \in Nat /\ MaxOrders \in Nat /\ MaxStarts \in Nat /\ MaxFaults \in Nat
BY DesktopAssumption

\* A failure that the run still admits is counted.
LEMMA FaultCounted ==
    ASSUME Fault, faults \in 0 .. MaxFaults
    PROVE  faults' \in 0 .. MaxFaults
BY Bounds DEF Fault

\* Nothing runs at first.
LEMMA InitSupervised == Init => SInv
<1> SUFFICES ASSUME Init PROVE SInv
  OBVIOUS
<1>1. TypeOK
  <2>1. \A p \in Processes : held[p] = 0 /\ Len(LocksOf[p]) \in Nat
    BY LocksDiffer DEF Init
  <2>2. command \in [Commands -> [target : Names, at : {"idle", "opened", "set", "done"}]]
    BY DEF Init, Names
  <2>3. /\ phase \in [Processes -> Phase] /\ held \in [Processes -> Nat]
        /\ mutex \in [Names -> SUBSET Processes]
        /\ event \in [Names -> SUBSET (Processes \cup Commands \cup {Tray})]
    BY DEF Init, Phase
  <2>4. /\ 0 \in 0 .. MaxRetries /\ 0 \in 0 .. MaxOrders
        /\ 0 \in 0 .. MaxStarts /\ 0 \in 0 .. MaxFaults
    BY Bounds
  <2>5. \A p \in Processes : held[p] <= Len(LocksOf[p])
    BY <2>1
  <2>6. /\ cancelled \subseteq Processes /\ signalled \subseteq Names
        /\ at \in At /\ task \in {"tick", "menu", "stop", "quit"}
        /\ fresh \in Children \cup {None} /\ cmd \in Children \cup {None}
        /\ reaped \in BOOLEAN /\ wanted \in BOOLEAN /\ retryAt \in BOOLEAN
        /\ job \subseteq Children /\ asked \in {"start", "stop", "error"}
        /\ attempts \in Nat /\ told \subseteq Names \cup {"interrupt"}
    BY DEF Init, At
  <2>7. /\ retries \in 0 .. MaxRetries /\ orders \in 0 .. MaxOrders
        /\ starts \in 0 .. MaxStarts /\ faults \in 0 .. MaxFaults
    BY <2>4 DEF Init
  <2> QED
    BY <2>2, <2>3, <2>5, <2>6, <2>7 DEF TypeOK
<1>2. TrayInv
  BY DEF Init, TrayInv, ThreadInv, ServersInv, Stopping, Processes
<1> QED
  BY <1>1, <1>2 DEF Init, SInv, BudgetInv, EventInv, TraySparesOthers

-----------------------------------------------------------------------------
(* Types. *)

\* What a process does keeps the types of the kernel's objects.
LEMMA ProcessTypes ==
    ASSUME TypeOK, BetweenInv, NEW p \in Processes,
           Process(p) \/ Fails(p) \/ Crash(p) \/ StartByHand(p) \/ Interrupt(p)
    PROVE  /\ cancelled' \subseteq Processes
           /\ event' \in [Names -> SUBSET (Processes \cup Commands \cup {Tray})]
           /\ signalled' \subseteq Names
           /\ told' \subseteq Names \cup {"interrupt"}
           /\ starts' \in 0 .. MaxStarts /\ faults' \in 0 .. MaxFaults
           /\ UNCHANGED <<child, thread, command, asked, attempts, orders>>
<1> USE DEF TypeOK
<1>1. ASSUME CreateMutex(p) \/ CloseRefused(p) \/ Serve(p) \/ Shutdown(p) \/ CloseMutex(p)
      PROVE  UNCHANGED <<cancelled, event, signalled, child, thread, command, ghosts, bounds>>
  BY <1>1 DEF CreateMutex, CloseRefused, Serve, Shutdown, CloseMutex, kernel
<1>2. ASSUME Exit(p) \/ \E n \in Names : Watch(p, n)
      PROVE  /\ cancelled' \subseteq Processes
             /\ UNCHANGED <<event, signalled, child, thread, command, ghosts, bounds>>
  BY <1>2 DEF Exit, Watch, kernel
<1>3. CASE CreateEvent(p)
  <2>1. CASE OpenEvent(p, Upcoming(p)) /\ UNCHANGED faults
    BY <1>3, <2>1 DEF CreateEvent, OpenEvent, ghosts
  <2>2. CASE Fault /\ UNCHANGED kernel
    BY <1>3, <2>2, FaultCounted DEF CreateEvent, kernel, ghosts
  <2> QED
    BY <1>3, <2>1, <2>2 DEF CreateEvent
<1>4. CASE CloseEvent(p)
  BY <1>4 DEF CloseEvent, CloseEvents, ghosts, bounds
<1>5. CASE Fails(p)
  BY <1>5, FaultCounted DEF Fails, kernel, ghosts
<1>6. CASE Crash(p)
  BY <1>6, FaultCounted DEF Crash, Terminate, CloseEvents, ghosts
<1>7. CASE StartByHand(p)
  BY <1>7, Bounds DEF StartByHand, kernel, ghosts
<1>8. CASE Interrupt(p)
  BY <1>8 DEF Interrupt, kernel, bounds
<1> QED
  BY <1>1, <1>2, <1>3, <1>4, <1>5, <1>6, <1>7, <1>8 DEF Process, ghosts, bounds

\* Neither do the stop commands disturb them.
LEMMA CommandTypes ==
    ASSUME TypeOK, NEW k \in Commands, Command(k)
    PROVE  /\ event' \in [Names -> SUBSET (Processes \cup Commands \cup {Tray})]
           /\ signalled' \subseteq Names
           /\ told' \subseteq Names \cup {"interrupt"}
           /\ command' \in [Commands -> [target : Names, at : {"idle", "opened", "set", "done"}]]
           /\ UNCHANGED <<servers, child, thread, asked, attempts, bounds>>
<1> USE DEF TypeOK
<1>1. command[k].target \in Names
  OBVIOUS
<1>2. ASSUME NEW from, NEW to \in {"idle", "opened", "set", "done"}, Step(k, from, to)
      PROVE  /\ command' \in [Commands -> [target : Names,
                                            at : {"idle", "opened", "set", "done"}]]
             /\ UNCHANGED <<servers, child, thread, asked, attempts, bounds>>
  BY <1>2 DEF Step
<1>3. CASE CommandOpens(k)
  BY <1>1, <1>2, <1>3 DEF CommandOpens, OpenEvent, kernel
<1>4. CASE CommandSets(k)
  BY <1>1, <1>2, <1>4 DEF CommandSets
<1>5. CASE CommandCloses(k)
  BY <1>1, <1>2, <1>5 DEF CommandCloses, CloseEvents
<1> QED
  BY <1>3, <1>4, <1>5 DEF Command

\* StartFailed and finish count the retries, up to the last.
LEMMA RetryCounts ==
    ASSUME NEW tries \in 0 .. MaxRetries, Retry(tries)
    PROVE  /\ retries' \in 0 .. MaxRetries /\ retryAt' \in BOOLEAN
           /\ retries' >= tries
           /\ retryAt' => retries' = tries + 1
<1>1. CASE tries < MaxRetries
  BY <1>1, Bounds DEF Retry
<1>2. CASE ~(tries < MaxRetries)
  <2>1. retries' = tries
    BY <1>2 DEF Retry
  <2>2. retryAt' = (tries < MaxRetries)
    BY DEF Retry
  <2>3. (tries < MaxRetries) = FALSE
    BY <1>2
  <2>4. retryAt' = FALSE
    BY <2>2, <2>3
  <2>5. tries \in Nat /\ tries >= tries
    BY Bounds
  <2> QED
    BY <2>1, <2>4, <2>5
<1> QED
  BY <1>1, <1>2

\* start keeps the types of trayChild.
LEMMA LaunchTypes ==
    ASSUME TypeOK, NEW by \in {"tick", "menu"}, NEW tries \in 0 .. MaxRetries, NEW count \in Nat,
           Launch(by, tries, count)
    PROVE  /\ at' \in At /\ task' \in {"tick", "menu", "stop", "quit"}
           /\ fresh' \in Children \cup {None} /\ job' \subseteq Children
           /\ wanted' = TRUE /\ retryAt' \in BOOLEAN
           /\ retries' \in 0 .. MaxRetries /\ attempts' \in Nat
           /\ faults' \in 0 .. MaxFaults
           /\ UNCHANGED <<held, cancelled, kernel, cmd, reaped, command, told, starts>>
<1>1. /\ wanted' = TRUE /\ attempts' = count + 1
      /\ UNCHANGED <<held, cancelled, kernel, cmd, reaped, command, told, starts>>
  BY DEF Launch
<1>2. ASSUME NEW c \in Children, fresh' = c, job' = job \ {c}, at' = "assigning", task' = by,
             retries' = tries, retryAt' = FALSE, UNCHANGED faults
      PROVE  /\ at' \in At /\ task' \in {"tick", "menu", "stop", "quit"}
             /\ fresh' \in Children \cup {None} /\ job' \subseteq Children
             /\ retryAt' \in BOOLEAN /\ retries' \in 0 .. MaxRetries /\ faults' \in 0 .. MaxFaults
  BY <1>2 DEF TypeOK, At
<1>3. ASSUME Fault, StartFailed(by, tries), at' = "loop", UNCHANGED <<fresh, job, task>>
      PROVE  /\ at' \in At /\ task' \in {"tick", "menu", "stop", "quit"}
             /\ fresh' \in Children \cup {None} /\ job' \subseteq Children
             /\ retryAt' \in BOOLEAN /\ retries' \in 0 .. MaxRetries /\ faults' \in 0 .. MaxFaults
  <2>1. retryAt' \in BOOLEAN /\ retries' \in 0 .. MaxRetries
    BY <1>3, RetryCounts DEF StartFailed
  <2> QED
    BY <1>3, <2>1, FaultCounted DEF TypeOK, At
<1>4. \/ \E c \in Children :
             /\ fresh' = c /\ job' = job \ {c} /\ at' = "assigning" /\ task' = by
             /\ retries' = tries /\ retryAt' = FALSE /\ UNCHANGED faults
      \/ Fault /\ StartFailed(by, tries) /\ at' = "loop" /\ UNCHANGED <<fresh, job, task>>
  BY DEF Launch
<1>5. count + 1 \in Nat
  OBVIOUS
<1> QED
  BY <1>1, <1>2, <1>3, <1>4, <1>5

\* A process that ends loses its handles.
LEMMA TerminateTypes ==
    ASSUME TypeOK, NEW D, NEW G, Terminate(D, G)
    PROVE  /\ cancelled' \subseteq Processes
           /\ event' \in [Names -> SUBSET (Processes \cup Commands \cup {Tray})]
           /\ signalled' \subseteq Names
BY DEF TypeOK, Terminate, CloseEvents

\* The tray's own steps keep the types.
LEMMA TrayTypes ==
    ASSUME TypeOK, TrayInv, IInv',
           Supervise \/ Reap \/ MenuStart \/ MenuStop \/ Quit \/ TrayCrash
    PROVE  TypeOK'
<1>0. /\ phase' \in [Processes -> Phase] /\ held' \in [Processes -> Nat]
      /\ \A p \in Processes : held'[p] <= Len(LocksOf[p])
      /\ mutex' \in [Names -> SUBSET Processes]
  BY DEF IInv, HandleType, BetweenInv
<1>1. ASSUME NEW by \in {"tick", "menu"}, NEW tries \in 0 .. MaxRetries, NEW count \in Nat,
             Launch(by, tries, count),
             asked' \in {"start", "stop", "error"}, orders' \in 0 .. MaxOrders
      PROVE  TypeOK'
  BY <1>0, <1>1, LaunchTypes DEF TypeOK, kernel
<1>2. ASSUME NEW D, NEW G, Terminate(D, G),
             at' \in At, task' = task, asked' \in {"start", "stop", "error"},
             faults' \in 0 .. MaxFaults, UNCHANGED <<command, attempts, told, orders, starts>>,
             UNCHANGED <<fresh, cmd, reaped, wanted, retries, retryAt, job>>
      PROVE  TypeOK'
  BY <1>0, <1>2, TerminateTypes DEF TypeOK
<1>3. ASSUME Finish, wanted' = wanted, at' \in At, task' = task,
             UNCHANGED <<servers, kernel, command, ghosts, bounds>>
      PROVE  TypeOK'
  <2>1. retries' \in 0 .. MaxRetries /\ retryAt' \in BOOLEAN
    BY <1>3, RetryCounts DEF Finish, TypeOK
  <2> QED
    BY <1>0, <1>3, <2>1 DEF Finish, TypeOK, servers, kernel, ghosts, bounds
<1>4. ASSUME NEW for \in {"stop", "quit"}, Stop(for), asked' = "stop",
             orders' \in 0 .. MaxOrders
      PROVE  TypeOK'
  <2>1. at' \in At /\ cmd' \in Children \cup {None} /\ reaped' \in BOOLEAN
    BY <1>4 DEF Stop, Return, TypeOK, At
  <2> QED
    BY <1>0, <1>4, <2>1 DEF Stop, TypeOK, servers, kernel
<1>5. Return => at' \in At
  BY DEF Return, At
<1>6. 0 \in 0 .. MaxRetries
  BY Bounds
<1>7. Order => orders' \in 0 .. MaxOrders
  BY Bounds DEF Order, TypeOK
<1>8. Boot => TypeOK'
  BY <1>1, <1>6 DEF Boot, TypeOK
<1>9. TickRetries => TypeOK'
  BY <1>1 DEF TickRetries, TypeOK
<1>10. ASSUME MenuStart PROVE TypeOK'
  <2>1. CASE Launch("menu", 0, 0)
    BY <1>1, <1>6, <1>7, <1>10, <2>1 DEF MenuStart
  <2>2. CASE /\ retries' = 0 /\ attempts' = 0
             /\ UNCHANGED <<servers, kernel, fresh, cmd, reaped, wanted, retryAt, job, thread,
                            command, told, starts, faults>>
    BY <1>0, <1>6, <1>7, <1>10, <2>2 DEF MenuStart, TypeOK, servers, kernel, thread
  <2> QED
    BY <1>10, <2>1, <2>2 DEF MenuStart
<1>11. ASSUME Assign PROVE TypeOK'
  <2>1. CASE /\ cmd' = fresh /\ reaped' = FALSE /\ job' = job \cup {fresh}
             /\ UNCHANGED <<servers, kernel, retries, retryAt, faults>>
    <3>1. fresh \in Children
      BY <1>11 DEF Assign, TypeOK, TrayInv, ThreadInv
    <3> QED
      BY <1>0, <1>11, <2>1, <3>1 DEF Assign, TypeOK, At, servers, kernel, ghosts
  <2>2. CASE /\ Fault /\ Terminate({fresh}, {fresh}) /\ StartFailed(task, retries)
             /\ UNCHANGED <<cmd, reaped, job>>
    <3>1. retries' \in 0 .. MaxRetries /\ retryAt' \in BOOLEAN
      BY <2>2, RetryCounts DEF StartFailed, TypeOK
    <3>2. faults' \in 0 .. MaxFaults
      BY <2>2, FaultCounted DEF TypeOK
    <3> QED
      BY <1>0, <1>11, <2>2, <3>1, <3>2, TerminateTypes DEF Assign, TypeOK, At, ghosts
  <2> QED
    BY <1>11, <2>1, <2>2 DEF Assign
<1>12. TickExited => TypeOK'
  BY <1>3 DEF TickExited, TypeOK, thread
<1>13. StopDone => TypeOK'
  BY <1>3, <1>5 DEF StopDone
<1>14. Reap => TypeOK'
  BY <1>0 DEF Reap, TypeOK, servers, kernel, thread, ghosts, bounds
<1>15. MenuStop \/ Quit => TypeOK'
  BY <1>4, <1>7 DEF MenuStop, Quit, TypeOK
<1>16. ASSUME OpenControl \/ SetControl \/ CloseControl PROVE TypeOK'
  <2>1. event' \in [Names -> SUBSET (Processes \cup Commands \cup {Tray})]
    BY <1>16 DEF OpenControl, SetControl, CloseControl, OpenEvent, CloseEvents, kernel, TypeOK
  <2>2. signalled' \subseteq Names
    BY <1>16 DEF OpenControl, SetControl, CloseControl, OpenEvent, CloseEvents, kernel, TypeOK,
                 Names
  <2>3. at' \in At /\ UNCHANGED <<servers, child, task, command, ghosts, bounds>>
    BY <1>16 DEF OpenControl, SetControl, CloseControl, Signals, At
  <2> QED
    BY <1>0, <2>1, <2>2, <2>3 DEF TypeOK, servers, child, ghosts, bounds
<1>17. ASSUME StopTimeout PROVE TypeOK'
  <2>1. CASE Terminate({cmd}, {cmd}) /\ at' = "reaping" /\ UNCHANGED <<asked, faults>>
    BY <1>2, <1>17, <2>1 DEF StopTimeout, TypeOK, At, child
  <2>2. CASE Fault /\ Return /\ asked' = "error" /\ UNCHANGED <<servers, kernel>>
    BY <1>0, <1>5, <1>17, <2>2, FaultCounted DEF StopTimeout, TypeOK, child, servers, kernel
  <2> QED
    BY <1>17, <2>1, <2>2 DEF StopTimeout
<1>18. CloseJob \/ TrayCrash => TypeOK'
  BY <1>2, FaultCounted DEF CloseJob, TrayCrash, TrayEnds, TypeOK, At, child, ghosts
<1> QED
  BY <1>8, <1>9, <1>10, <1>11, <1>12, <1>13, <1>14, <1>15, <1>16, <1>17, <1>18 DEF Supervise

\* Every step keeps the types.
LEMMA TypeStep == IInv /\ TypeOK /\ TrayInv /\ [Next]_vars => TypeOK'
<1> SUFFICES ASSUME IInv, TypeOK, TrayInv, [Next]_vars PROVE TypeOK'
  OBVIOUS
<1>0. IInv'
  BY OwnerStep
<1>1. /\ phase' \in [Processes -> Phase] /\ held' \in [Processes -> Nat]
      /\ \A p \in Processes : held'[p] <= Len(LocksOf[p])
      /\ mutex' \in [Names -> SUBSET Processes]
  BY <1>0 DEF IInv, HandleType, BetweenInv
<1>2. CASE UNCHANGED vars
  BY <1>2 DEF TypeOK, vars, kernel, servers, child, thread, ghosts, bounds
<1>3. ASSUME NEW p \in Processes,
             Process(p) \/ Fails(p) \/ Crash(p) \/ StartByHand(p) \/ Interrupt(p)
      PROVE  TypeOK'
  BY <1>1, <1>3, ProcessTypes DEF TypeOK, IInv, child, thread
<1>4. ASSUME NEW k \in Commands, Command(k) PROVE TypeOK'
  BY <1>1, <1>4, CommandTypes DEF TypeOK, servers, child, thread, bounds
<1> QED
  BY <1>0, <1>2, <1>3, <1>4, TrayTypes DEF Next

-----------------------------------------------------------------------------
(* The tray and its servers. *)

\* A server of the tray starts by no other hand: what other processes and the end of one do
\* leaves the absent ones absent.
LEMMA StaysAbsent ==
    ASSUME TypeOK,
           \/ \E p \in Processes :
                  Process(p) \/ Fails(p) \/ Crash(p) \/ StartByHand(p) \/ Interrupt(p)
           \/ \E D, G : Terminate(D, G)
    PROVE  \A c \in Children : phase[c] = "absent" => phase'[c] = "absent"
<1> SUFFICES ASSUME NEW c \in Children, phase[c] = "absent" PROVE phase'[c] = "absent"
  OBVIOUS
<1>1. c \in Processes /\ c \notin Others
  BY DesktopAssumption DEF Processes
<1>2. ASSUME NEW p \in Processes, NEW w, Goto(p, w), p # c \/ w = "absent"
      PROVE  phase'[c] = "absent"
  BY <1>1, <1>2 DEF Goto, TypeOK
<1>3. ASSUME NEW D, NEW G, Terminate(D, G) PROVE phase'[c] = "absent"
  BY <1>1, <1>3 DEF Terminate
<1>4. ASSUME NEW p \in Processes,
             Process(p) \/ Fails(p) \/ Crash(p) \/ StartByHand(p) \/ Interrupt(p)
      PROVE  phase'[c] = "absent"
  <2>1. CASE \/ CreateMutex(p) \/ CreateEvent(p) \/ CloseRefused(p) \/ Serve(p) \/ Shutdown(p)
             \/ CloseEvent(p) \/ CloseMutex(p) \/ Fails(p)
    <3>1. p # c
      BY <2>1 DEF CreateMutex, CreateEvent, CloseRefused, Serve, Shutdown, CloseEvent, CloseMutex,
                  Fails
    <3>2. \E w : Goto(p, w)
      BY <2>1 DEF CreateMutex, CreateEvent, CloseRefused, Serve, Shutdown, CloseEvent, CloseMutex,
                  Fails
    <3> QED
      BY <1>2, <3>1, <3>2
  <2>2. CASE Exit(p)
    BY <1>2, <2>2 DEF Exit
  <2>3. CASE Interrupt(p) \/ \E n \in Names : Watch(p, n)
    BY <2>3 DEF Interrupt, Watch
  <2>4. CASE Crash(p)
    BY <1>3, <2>4 DEF Crash
  <2>5. CASE StartByHand(p)
    BY <1>1, <1>2, <2>5 DEF StartByHand
  <2> QED
    BY <1>4, <2>1, <2>2, <2>3, <2>4, <2>5 DEF Process
<1> QED
  BY <1>3, <1>4

\* What does not start a server of the tray leaves its view true.
LEMMA Bystander ==
    ASSUME TypeOK, TrayInv, UNCHANGED <<child, at, asked>>,
           \A c \in Children : phase[c] = "absent" => phase'[c] = "absent"
    PROVE  TrayInv'
BY DEF TypeOK, TrayInv, ThreadInv, ServersInv, child

\* start is called when there is no server, and leaves one at most.
LEMMA LaunchTray ==
    ASSUME TypeOK, TrayInv, at \in {"boot", "loop"}, asked' = "start",
           NEW by, NEW tries, NEW count, Launch(by, tries, count)
    PROVE  TrayInv'
<1>1. cmd = None /\ fresh = None /\ \A c \in Children : phase[c] = "absent"
  BY DesktopAssumption DEF Launch, TypeOK, TrayInv, ThreadInv, ServersInv
<1>2. wanted' = TRUE /\ cmd' = None /\ reaped' = reaped /\ ~reaped
  BY <1>1 DEF Launch, TrayInv, ThreadInv, ServersInv
<1>3. ASSUME NEW c \in Children, Goto(c, "starting"), fresh' = c, at' = "assigning"
      PROVE  TrayInv'
  <2>1. \A d \in Children : d = c \/ phase'[d] = "absent"
    BY <1>1, <1>3 DEF Goto, TypeOK, Processes
  <2>2. fresh' # None
    BY <1>3, DesktopAssumption
  <2> QED
    BY <1>2, <1>3, <2>1, <2>2 DEF TrayInv, ThreadInv, ServersInv, Stopping
<1>4. ASSUME at' = "loop", UNCHANGED <<phase, fresh>> PROVE TrayInv'
  BY <1>1, <1>2, <1>4 DEF TrayInv, ThreadInv, ServersInv, Stopping
<1> QED
  BY <1>3, <1>4 DEF Launch

\* Return leads back to the loop, or to the end.
LEMMA Returns == Return => at' \in {"loop", "ending"}
BY DEF Return

\* The tray's steps keep its view true.
LEMMA TrayViews ==
    ASSUME TypeOK, TrayInv,
           Supervise \/ Reap \/ MenuStart \/ MenuStop \/ Quit \/ TrayCrash
    PROVE  TrayInv'
<1> USE DEF TrayInv, ThreadInv, ServersInv
<1>1. ASSUME Boot \/ TickRetries PROVE TrayInv'
  BY <1>1, LaunchTray DEF Boot, TickRetries
<1>2. ASSUME MenuStart PROVE TrayInv'
  <2>1. at = "loop" /\ asked' = "start"
    BY <1>2 DEF MenuStart, Order
  <2>2. CASE Launch("menu", 0, 0)
    BY <2>1, <2>2, LaunchTray
  <2>3. CASE UNCHANGED <<servers, kernel, fresh, cmd, reaped, wanted, retryAt, job, thread,
                         command, told, starts, faults>>
    BY <2>1, <2>3 DEF servers, thread, Stopping
  <2> QED
    BY <1>2, <2>2, <2>3 DEF MenuStart
<1>3. ASSUME Assign PROVE TrayInv'
  <2>1. /\ at = "assigning" /\ at' = "loop" /\ fresh' = None /\ wanted' = wanted
        /\ asked' = asked /\ wanted /\ asked = "start" /\ cmd = None /\ fresh \in Children
    BY <1>3 DEF Assign, ghosts, TypeOK
  <2>2. CASE /\ cmd' = fresh /\ reaped' = FALSE /\ job' = job \cup {fresh}
             /\ UNCHANGED <<servers, kernel, retries, retryAt, faults>>
    BY <2>1, <2>2 DEF servers, Stopping
  <2>3. CASE Terminate({fresh}, {fresh}) /\ UNCHANGED <<cmd, reaped, job>>
    <3>1. \A c \in Children : phase'[c] = "absent"
      BY <2>1, <2>3, DesktopAssumption DEF Terminate, Processes
    <3> QED
      BY <2>1, <2>3, <3>1 DEF Stopping
  <2> QED
    BY <1>3, <2>2, <2>3 DEF Assign
<1>4. ASSUME Finish, wanted' = wanted, asked' = asked, phase' = phase, reaped,
             at \notin {"boot", "assigning", "ended"}, at' \in {"loop", "ending"}
      PROVE  TrayInv'
  <2>1. \A c \in Children : phase[c] = "absent"
    BY <1>4, DesktopAssumption
  <2>2. fresh' = None /\ cmd' = None /\ reaped' = FALSE
    BY <1>4 DEF Finish
  <2> QED
    BY <1>4, <2>1, <2>2 DEF Stopping
<1>5. TickExited => TrayInv'
  BY <1>4 DEF TickExited, servers, thread, ghosts
<1>6. StopDone => TrayInv'
  BY <1>4, Returns DEF StopDone, servers, ghosts
<1>7. Reap => TrayInv'
  BY DEF Reap, servers, thread, ghosts
<1>8. ASSUME MenuStop \/ Quit PROVE TrayInv'
  <2>1. /\ at = "loop" /\ asked' = "stop" /\ wanted' = FALSE
        /\ UNCHANGED <<phase, fresh, job>> /\ fresh = None
    BY <1>8 DEF MenuStop, Quit, Order, Stop, servers
  <2>2. CASE reaped
    <3>1. cmd' = None /\ reaped' = FALSE /\ at' \in {"loop", "ending"}
      BY <1>8, <2>2, Returns DEF MenuStop, Quit, Stop
    <3> QED
      BY <2>1, <2>2, <3>1 DEF Stopping
  <2>3. CASE ~reaped
    <3>1. UNCHANGED <<cmd, reaped>>
      BY <1>8, <2>3 DEF MenuStop, Quit, Stop
    <3>2. IF cmd = None THEN at' \in {"loop", "ending"} ELSE at' = "opening"
      BY <1>8, <2>3, Returns DEF MenuStop, Quit, Stop
    <3> QED
      BY <2>1, <2>3, <3>1, <3>2 DEF Stopping
  <2> QED
    BY <2>2, <2>3
<1>9. ASSUME OpenControl \/ SetControl \/ CloseControl PROVE TrayInv'
  <2>1. at \in Stopping /\ at' \in Stopping /\ UNCHANGED <<phase, child, asked>>
    BY <1>9 DEF OpenControl, SetControl, CloseControl, Signals, servers, ghosts, Stopping
  <2> QED
    BY <2>1 DEF child, Stopping
<1>10. ASSUME StopTimeout PROVE TrayInv'
  <2>1. at = "waiting" /\ UNCHANGED child
    BY <1>10 DEF StopTimeout
  <2>2. CASE Terminate({cmd}, {cmd}) /\ at' = "reaping" /\ UNCHANGED <<asked, faults>>
    <3>1. \A c \in Children : phase[c] = "absent" => phase'[c] = "absent"
      BY <2>2, StaysAbsent
    <3> QED
      BY <2>1, <2>2, <3>1 DEF child, Stopping, TypeOK
  <2>3. CASE Return /\ asked' = "error" /\ UNCHANGED <<servers, kernel>>
    BY <2>1, <2>3, Returns DEF child, servers, Stopping
  <2> QED
    BY <1>10, <2>2, <2>3 DEF StopTimeout
<1>11. ASSUME TrayEnds, at # "ended" PROVE TrayInv'
  <2>1. \A c \in Children \ {fresh} : phase'[c] = "absent"
    BY <1>11, DesktopAssumption DEF TrayEnds, Terminate, Processes
  <2> QED
    BY <1>11, <2>1 DEF TrayEnds, child, ghosts
<1>12. CloseJob \/ TrayCrash => TrayInv'
  BY <1>11 DEF CloseJob, TrayCrash
<1> QED
  BY <1>1, <1>2, <1>3, <1>5, <1>6, <1>7, <1>8, <1>9, <1>10, <1>12 DEF Supervise

\* So do all steps.
LEMMA ViewStep == TypeOK /\ TrayInv /\ [Next]_vars => TrayInv'
<1> SUFFICES ASSUME TypeOK, TrayInv, [Next]_vars PROVE TrayInv'
  OBVIOUS
<1>1. ASSUME UNCHANGED <<servers, child, thread, asked>> PROVE TrayInv'
  BY <1>1 DEF servers, child, thread, TrayInv, ThreadInv, ServersInv
<1>2. CASE UNCHANGED vars
  BY <1>1, <1>2 DEF vars, ghosts
<1>3. ASSUME NEW p \in Processes,
             Process(p) \/ Fails(p) \/ Crash(p) \/ StartByHand(p) \/ Interrupt(p)
      PROVE  TrayInv'
  <2>1. UNCHANGED <<child, at, asked>>
    BY <1>3 DEF Process, CreateMutex, CreateEvent, CloseRefused, Serve, Shutdown, CloseEvent,
                CloseMutex, Exit, Watch, Fails, Crash, StartByHand, Interrupt, thread, ghosts
  <2> QED
    BY <1>3, <2>1, StaysAbsent, Bystander
<1>4. ASSUME NEW k \in Commands, Command(k) PROVE TrayInv'
  BY <1>1, <1>4, CommandTypes
<1> QED
  BY <1>2, <1>3, <1>4, TrayViews DEF Next

-----------------------------------------------------------------------------
(* The budget of retries, and the processes of others. *)

\* StartFailed and finish: a retry that becomes due was counted.
LEMMA RetryBudgets ==
    ASSUME NEW tries \in 0 .. MaxRetries, NEW count \in Nat, count <= tries + 1, Retry(tries)
    PROVE  count <= retries' + 1 /\ (retryAt' => count <= retries')
BY RetryCounts, Bounds

\* A start spends a retry that was due, or the first attempt of a new budget.
LEMMA LaunchBudgets ==
    ASSUME NEW by, NEW tries \in 0 .. MaxRetries, NEW count \in Nat, count <= tries,
           Launch(by, tries, count)
    PROVE  BudgetInv'
<1>1. attempts' = count + 1 /\ count + 1 <= tries + 1
  BY Bounds DEF Launch
<1>2. ASSUME retries' = tries, retryAt' = FALSE PROVE BudgetInv'
  BY <1>1, <1>2 DEF BudgetInv
<1>3. ASSUME StartFailed(by, tries) PROVE BudgetInv'
  <2>1. CASE by = "menu"
    BY <1>2, <1>3, <2>1 DEF StartFailed
  <2>2. CASE by # "menu"
    BY <1>1, <1>3, <2>2, RetryBudgets DEF StartFailed, BudgetInv
  <2> QED
    BY <2>1, <2>2
<1> QED
  BY <1>2, <1>3 DEF Launch

\* Whatever stops, exits and failing starts come in between.
LEMMA BudgetStep == TypeOK /\ BudgetInv /\ [Next]_vars => BudgetInv'
<1> SUFFICES ASSUME TypeOK, BudgetInv, [Next]_vars PROVE BudgetInv'
  OBVIOUS
<1>1. retries \in 0 .. MaxRetries /\ attempts \in Nat /\ attempts <= retries + 1
  BY DEF TypeOK, BudgetInv
<1>2. ASSUME UNCHANGED <<retries, retryAt, attempts>> PROVE BudgetInv'
  BY <1>2 DEF BudgetInv
<1>3. CASE UNCHANGED vars
  BY <1>2, <1>3 DEF vars, child, ghosts
<1>4. ASSUME NEW p \in Processes,
             Process(p) \/ Fails(p) \/ Crash(p) \/ StartByHand(p) \/ Interrupt(p)
      PROVE  BudgetInv'
  BY <1>2, <1>4 DEF Process, CreateMutex, CreateEvent, CloseRefused, Serve, Shutdown, CloseEvent,
        CloseMutex, Exit, Watch, Fails, Crash, StartByHand, Interrupt, child, ghosts
<1>5. ASSUME NEW k \in Commands, Command(k) PROVE BudgetInv'
  BY <1>2, <1>5, CommandTypes DEF child
<1>6. Boot => BudgetInv'
  BY LaunchBudgets, Bounds DEF Boot
<1>7. TickRetries => BudgetInv'
  BY <1>1, LaunchBudgets DEF TickRetries, BudgetInv
<1>8. ASSUME MenuStart PROVE BudgetInv'
  <2>1. CASE Launch("menu", 0, 0)
    BY <2>1, LaunchBudgets, Bounds
  <2>2. CASE retries' = 0 /\ attempts' = 0
    BY <2>2 DEF BudgetInv
  <2> QED
    BY <1>8, <2>1, <2>2 DEF MenuStart
<1>9. ASSUME Assign PROVE BudgetInv'
  <2>1. attempts' = attempts
    BY <1>9 DEF Assign, ghosts
  <2>2. CASE UNCHANGED <<retries, retryAt>>
    BY <1>2, <2>1, <2>2
  <2>3. CASE StartFailed(task, retries)
    <3>1. CASE retries' = retries /\ retryAt' = FALSE
      BY <1>1, <2>1, <3>1 DEF BudgetInv
    <3>2. CASE Retry(retries)
      BY <1>1, <2>1, <3>2, RetryBudgets DEF BudgetInv
    <3> QED
      BY <2>3, <3>1, <3>2 DEF StartFailed
  <2> QED
    BY <1>9, <2>2, <2>3 DEF Assign
<1>10. ASSUME Finish, attempts' = attempts PROVE BudgetInv'
  <2>1. CASE Retry(retries)
    BY <1>1, <1>10, <2>1, RetryBudgets DEF BudgetInv
  <2>2. CASE UNCHANGED <<retries, retryAt>>
    BY <1>2, <1>10, <2>2
  <2> QED
    BY <1>10, <2>1, <2>2 DEF Finish
<1>11. TickExited \/ StopDone => BudgetInv'
  BY <1>10 DEF TickExited, StopDone, ghosts
<1>12. ASSUME MenuStop \/ Quit PROVE BudgetInv'
  <2>1. retryAt' = FALSE /\ UNCHANGED <<retries, attempts>>
    BY <1>12 DEF MenuStop, Quit, Stop
  <2> QED
    BY <1>1, <2>1 DEF BudgetInv
<1>13. Reap \/ OpenControl \/ SetControl \/ CloseControl \/ StopTimeout \/ CloseJob \/ TrayCrash
           => BudgetInv'
  BY <1>2 DEF Reap, OpenControl, SetControl, CloseControl, Signals, StopTimeout, CloseJob,
              TrayCrash, TrayEnds, child, ghosts
<1> QED
  BY <1>3, <1>4, <1>5, <1>6, <1>7, <1>8, <1>9, <1>11, <1>12, <1>13 DEF Next, Supervise

\* Handles that are closed, and signals that go with them, change nothing about the rest.
LEMMA ClosedEvents ==
    ASSUME TypeOK, EventInv, told \subseteq told',
           \A n \in Names : event'[n] \subseteq event[n], signalled' \subseteq signalled
    PROVE  EventInv'
BY DEF EventInv

\* Nor does an event that somebody opens who is no process of others, or is one that has it
\* among its controls.
LEMMA OpenedEvent ==
    ASSUME TypeOK, EventInv, told' = told, NEW x, NEW n, OpenEvent(x, n),
           x \in Others => \E i \in DOMAIN LocksOf[x] : LocksOf[x][i] = n
    PROVE  EventInv'
<1>1. signalled' = signalled
  BY DEF OpenEvent
<1>2. \A m \in Names : event'[m] = IF m = n THEN event[m] \cup {x} ELSE event[m]
  BY DEF OpenEvent, TypeOK
<1>3. signalled' \subseteq told' \cup {"control"}
  BY <1>1 DEF EventInv
<1>4. ASSUME NEW o \in Others, NEW m \in Names, o \in event'[m]
      PROVE  \E i \in DOMAIN LocksOf[o] : LocksOf[o][i] = m
  <2>1. CASE o \in event[m]
    BY <2>1 DEF EventInv
  <2>2. CASE o \notin event[m]
    BY <1>2, <1>4, <2>2
  <2> QED
    BY <2>1, <2>2
<1> QED
  BY <1>3, <1>4 DEF EventInv

\* The end of a process closes its handles, and those alone.
LEMMA TerminateEvents ==
    ASSUME TypeOK, NEW D, NEW G, Terminate(D, G)
    PROVE  (\A n \in Names : event'[n] \subseteq event[n]) /\ signalled' \subseteq signalled
           /\ cancelled' \subseteq cancelled
BY DEF Terminate, CloseEvents, TypeOK

\* Events and their signals, over every step.
LEMMA EventStep == IInv /\ TypeOK /\ EventInv /\ [Next]_vars => EventInv'
<1> SUFFICES ASSUME IInv, TypeOK, EventInv, [Next]_vars PROVE EventInv'
  OBVIOUS
<1>1. ASSUME UNCHANGED <<event, signalled>>, told \subseteq told' PROVE EventInv'
  BY <1>1, ClosedEvents
<1>2. ASSUME NEW G, NEW N, CloseEvents(G, N), told' = told PROVE EventInv'
  <2>1. (\A n \in Names : event'[n] \subseteq event[n]) /\ signalled' \subseteq signalled
    BY <1>2 DEF CloseEvents, TypeOK
  <2> QED
    BY <1>2, <2>1, ClosedEvents
<1>3. ASSUME NEW D, NEW G, Terminate(D, G), told' = told PROVE EventInv'
  BY <1>3, TerminateEvents, ClosedEvents
<1>4. CASE UNCHANGED vars
  BY <1>1, <1>4 DEF vars, kernel, ghosts
<1>5. ASSUME NEW p \in Processes,
             Process(p) \/ Fails(p) \/ Crash(p) \/ StartByHand(p) \/ Interrupt(p)
      PROVE  EventInv'
  <2>1. CASE CreateEvent(p)
    <3>1. /\ held[p] + 1 \in 1 .. Len(LocksOf[p]) /\ 1 .. Len(LocksOf[p]) = DOMAIN LocksOf[p]
      BY <2>1, LocksDiffer DEF CreateEvent, IInv, HandleType, BetweenInv
    <3>2. CASE OpenEvent(p, Upcoming(p))
      BY <2>1, <3>1, <3>2, OpenedEvent DEF CreateEvent, Upcoming, ghosts
    <3>3. CASE UNCHANGED kernel
      BY <1>1, <2>1, <3>3 DEF CreateEvent, kernel, ghosts
    <3> QED
      BY <2>1, <3>2, <3>3 DEF CreateEvent
  <2>2. CASE CloseEvent(p)
    BY <1>2, <2>2 DEF CloseEvent, ghosts
  <2>3. CASE Crash(p)
    BY <1>3, <2>3 DEF Crash, ghosts
  <2>4. CASE \/ CreateMutex(p) \/ CloseRefused(p) \/ Serve(p) \/ Shutdown(p) \/ CloseMutex(p)
             \/ Exit(p) \/ Fails(p) \/ StartByHand(p) \/ Interrupt(p)
             \/ \E n \in Names : Watch(p, n)
    BY <1>1, <2>4 DEF CreateMutex, CloseRefused, Serve, Shutdown, CloseMutex, Exit, Fails,
          StartByHand, Interrupt, Watch, kernel, ghosts
  <2> QED
    BY <1>5, <2>1, <2>2, <2>3, <2>4 DEF Process
<1>6. ASSUME NEW k \in Commands, Command(k) PROVE EventInv'
  <2>1. k \notin Others
    BY DesktopAssumption DEF Processes
  <2>2. CASE CommandOpens(k)
    BY <1>1, <2>1, <2>2, OpenedEvent DEF CommandOpens, kernel
  <2>3. CASE CommandSets(k)
    BY <2>3 DEF CommandSets, EventInv
  <2>4. CASE CommandCloses(k)
    BY <1>2, <2>4 DEF CommandCloses
  <2> QED
    BY <1>6, <2>2, <2>3, <2>4 DEF Command
<1>7. ASSUME Boot \/ TickRetries \/ MenuStart PROVE EventInv'
  BY <1>1, <1>7 DEF Boot, TickRetries, MenuStart, Launch, kernel
<1>8. ASSUME Assign PROVE EventInv'
  BY <1>1, <1>3, <1>8 DEF Assign, kernel, ghosts
<1>9. ASSUME StopTimeout \/ CloseJob \/ TrayCrash PROVE EventInv'
  BY <1>1, <1>3, <1>9 DEF StopTimeout, CloseJob, TrayCrash, TrayEnds, kernel, ghosts
<1>10. ASSUME TickExited \/ StopDone \/ Reap \/ MenuStop \/ Quit PROVE EventInv'
  BY <1>1, <1>10 DEF TickExited, StopDone, Reap, MenuStop, Quit, Stop, kernel, ghosts
<1>11. CASE OpenControl
  <2>1. Tray \notin Others /\ told' = told
    BY <1>11, DesktopAssumption DEF Processes, OpenControl, Signals, ghosts
  <2> QED
    BY <1>1, <1>11, <2>1, OpenedEvent DEF OpenControl, kernel
<1>12. CASE SetControl
  BY <1>12 DEF SetControl, Signals, EventInv, ghosts
<1>13. CASE CloseControl
  BY <1>2, <1>13 DEF CloseControl, Signals, ghosts
<1> QED
  BY <1>4, <1>5, <1>6, <1>7, <1>8, <1>9, <1>10, <1>11, <1>12, <1>13 DEF Next, Supervise

\* A process of others is cancelled by Ctrl+C, or by an event of its own, which is none that
\* the tray sets.
LEMMA SparesStep == TypeOK /\ EventInv /\ TraySparesOthers /\ [Next]_vars => TraySparesOthers'
<1> SUFFICES ASSUME TypeOK, EventInv, TraySparesOthers, [Next]_vars PROVE TraySparesOthers'
  OBVIOUS
<1>1. ASSUME cancelled' \subseteq cancelled, told \subseteq told' PROVE TraySparesOthers'
  BY <1>1 DEF TraySparesOthers
<1>2. CASE UNCHANGED vars
  BY <1>1, <1>2 DEF vars, servers, ghosts
<1>3. ASSUME NEW p \in Processes,
             Process(p) \/ Fails(p) \/ Crash(p) \/ StartByHand(p) \/ Interrupt(p)
      PROVE  TraySparesOthers'
  <2>1. ASSUME NEW n \in Names, Watch(p, n) PROVE TraySparesOthers'
    <3>1. p \in event[n] /\ n \in signalled /\ cancelled' = cancelled \cup {p} /\ told' = told
      BY <2>1 DEF Watch, ghosts
    <3>2. CASE p \in Others
      <4>1. PICK i \in DOMAIN LocksOf[p] : LocksOf[p][i] = n
        BY <3>1, <3>2 DEF EventInv
      <4>2. n # "control"
        BY <3>2, <4>1, DesktopAssumption
      <4>3. n \in told
        BY <3>1, <4>2 DEF EventInv
      <4> QED
        BY <3>1, <4>1, <4>3 DEF TraySparesOthers
    <3>3. CASE p \notin Others
      BY <3>1, <3>3 DEF TraySparesOthers
    <3> QED
      BY <3>2, <3>3
  <2>2. CASE Interrupt(p)
    BY <2>2 DEF Interrupt, TraySparesOthers
  <2>3. CASE Crash(p)
    BY <1>1, <2>3, TerminateEvents DEF Crash, ghosts
  <2>4. CASE \/ CreateMutex(p) \/ CreateEvent(p) \/ CloseRefused(p) \/ Serve(p) \/ Shutdown(p)
             \/ CloseEvent(p) \/ CloseMutex(p) \/ Exit(p) \/ Fails(p) \/ StartByHand(p)
    BY <1>1, <2>4 DEF CreateMutex, CreateEvent, CloseRefused, Serve, Shutdown, CloseEvent,
          CloseMutex, Exit, Fails, StartByHand, ghosts
  <2> QED
    BY <1>3, <2>1, <2>2, <2>3, <2>4 DEF Process
<1>4. ASSUME NEW k \in Commands, Command(k) PROVE TraySparesOthers'
  <2>1. cancelled' = cancelled
    BY <1>4, CommandTypes DEF servers
  <2>2. told \subseteq told'
    BY <1>4 DEF Command, CommandOpens, CommandSets, CommandCloses
  <2> QED
    BY <1>1, <2>1, <2>2
<1>5. ASSUME Supervise \/ Reap \/ MenuStart \/ MenuStop \/ Quit \/ TrayCrash
      PROVE  TraySparesOthers'
  <2>1. told' = told
    BY <1>5 DEF Supervise, Boot, TickRetries, MenuStart, Launch, Assign, TickExited, OpenControl,
          SetControl, CloseControl, Signals, StopDone, StopTimeout, CloseJob, TrayEnds, Reap,
          MenuStop, Quit, Stop, TrayCrash, ghosts
  <2>2. CASE UNCHANGED cancelled
    BY <1>1, <2>1, <2>2
  <2>3. ASSUME NEW D, NEW G, Terminate(D, G) PROVE TraySparesOthers'
    BY <1>1, <2>1, <2>3, TerminateEvents
  <2>4. CASE Assign \/ StopTimeout \/ CloseJob \/ TrayCrash
    BY <2>2, <2>3, <2>4 DEF Assign, StopTimeout, CloseJob, TrayCrash, TrayEnds, servers
  <2>5. CASE \/ Boot \/ TickRetries \/ MenuStart \/ TickExited \/ OpenControl \/ SetControl
             \/ CloseControl \/ StopDone \/ Reap \/ MenuStop \/ Quit
    BY <2>2, <2>5 DEF Boot, TickRetries, MenuStart, Launch, TickExited, OpenControl, SetControl,
          CloseControl, Signals, StopDone, Reap, MenuStop, Quit, Stop, servers
  <2> QED
    BY <1>5, <2>4, <2>5 DEF Supervise
<1> QED
  BY <1>2, <1>3, <1>4, <1>5 DEF Next

\* The invariant states the property: nothing of the tray runs that is not wanted, and its
\* starts stay within the budget.
LEMMA InControl == SInv => TrayInControl
<1> SUFFICES ASSUME SInv PROVE TrayInControl
  OBVIOUS
<1>1. TypeOK /\ TrayInv /\ BudgetInv /\ TraySparesOthers
  BY DEF SInv
<1>2. RetryBudget
  BY <1>1, Bounds DEF TypeOK, BudgetInv, RetryBudget
<1>3. NoUnwantedServer
  BY <1>1, DesktopAssumption DEF TrayInv, ThreadInv, ServersInv, NoUnwantedServer
<1> QED
  BY <1>1, <1>2, <1>3 DEF TrayInControl

\* However long the session: the tray (cmd/jonsbo/tray_windows.go) keeps track of the server it
\* started, leaves none behind when it stops or ends, retries no more often than the user's last
\* Start allows, and stops no process that was started by hand.
THEOREM TrayKeepsControl == Spec => []TrayInControl
<1>1. Init => IInv /\ SInv
  BY InitInv, InitSupervised
<1>2. IInv /\ SInv /\ [Next]_vars => (IInv /\ SInv)'
  BY OwnerStep, TypeStep, ViewStep, BudgetStep, EventStep, SparesStep DEF SInv
<1> QED
  BY <1>1, <1>2, InControl, PTL DEF Spec
=============================================================================
