-------------------------------- MODULE Desktop -------------------------------
(***************************************************************************)
(* The processes of one desktop session: the tray that supervises a server *)
(* of its own (cmd/jonsbo/tray_windows.go), servers and monitors that are  *)
(* started by hand, and the stop command.  They meet in named mutexes and  *)
(* manual-reset events (control_windows.go) and in the tray's job object   *)
(* (internal/tray/job_windows.go).                                         *)
(*                                                                         *)
(* A kernel object lives as long as some handle to it is open: whoever     *)
(* creates a mutex that exists gets a handle to the same one, a stop       *)
(* command's handle keeps an event alive, signalled or not, after its      *)
(* process has gone, and a process that ends closes what it held.          *)
(***************************************************************************)
EXTENDS Naturals, Sequences, FiniteSets

CONSTANTS Children,     \* processes that the tray may start
          Others,       \* servers and monitors started by hand
          Commands,     \* calls of "jonsbo stop"
          Tray, None,
          LocksOf,      \* per process: the controls it takes, in order
          MaxRetries,   \* 3: the delays of RetryDelay
          MaxOrders,    \* bound: choices of Start or Stop in the menu
          MaxStarts,    \* bound: starts by hand
          MaxFaults     \* bound: failing calls and processes that crash

Processes == Children \cup Others
Names == {"server", "control", "display"}

ASSUME DesktopAssumption ==
    /\ LocksOf \in [Processes -> Seq(Names)]
    /\ \A p \in Processes : \A i, j \in DOMAIN LocksOf[p] :
           LocksOf[p][i] = LocksOf[p][j] => i = j
    /\ \A o \in Others : \A i \in DOMAIN LocksOf[o] : LocksOf[o][i] # "control"
    /\ Children \cap Others = {}
    /\ None \notin Children
    /\ Tray \notin Processes /\ Commands \cap (Processes \cup {Tray}) = {}
    /\ {MaxRetries, MaxOrders, MaxStarts, MaxFaults} \subseteq Nat

VARIABLES
    phase,      \* per process: where it is
    held,       \* per process: how many of its controls it holds
    cancelled,  \* processes whose context is cancelled
    mutex,      \* per name: the processes with a handle to the mutex
    event,      \* per name: who has a handle to the stop event
    signalled,  \* the names whose event is set
    at, task,   \* where the tray's thread is, and for what
    fresh,      \* the process that start has created
    cmd,        \* trayChild.cmd
    reaped,     \* Wait has returned and done has its value
    wanted, retries, retryAt,   \* of trayChild; retryAt: it is not zero
    job,        \* the processes in the tray's job object
    command,    \* per stop command: its target and where it is
    asked,      \* ghost: what the user last asked of the tray
    attempts,   \* ghost: servers started since
    told,       \* ghost: names that stop commands have signalled, and Ctrl+C
    orders, starts, faults   \* bounds

kernel == <<mutex, event, signalled>>
servers == <<phase, held, cancelled>>
child == <<fresh, cmd, reaped, wanted, retries, retryAt, job>>
thread == <<at, task>>
ghosts == <<asked, attempts, told>>
bounds == <<orders, starts, faults>>
vars == <<kernel, servers, child, thread, command, ghosts, bounds>>

Phase == {"absent", "starting", "opening", "refused", "serving", "leaving", "closing"}
At == {"boot", "loop", "assigning", "opening", "setting", "closing", "waiting", "reaping",
       "ending", "ended"}

TypeOK ==
    /\ phase \in [Processes -> Phase]
    /\ held \in [Processes -> Nat]
    /\ \A p \in Processes : held[p] <= Len(LocksOf[p])
    /\ cancelled \subseteq Processes
    /\ mutex \in [Names -> SUBSET Processes]
    /\ event \in [Names -> SUBSET (Processes \cup Commands \cup {Tray})]
    /\ signalled \subseteq Names
    /\ at \in At /\ task \in {"tick", "menu", "stop", "quit"}
    /\ fresh \in Children \cup {None} /\ cmd \in Children \cup {None}
    /\ reaped \in BOOLEAN /\ wanted \in BOOLEAN /\ retryAt \in BOOLEAN
    /\ retries \in 0 .. MaxRetries
    /\ job \subseteq Children
    /\ command \in [Commands -> [target : Names, at : {"idle", "opened", "set", "done"}]]
    /\ asked \in {"start", "stop", "error"}
    /\ attempts \in Nat
    /\ told \subseteq Names \cup {"interrupt"}
    /\ orders \in 0 .. MaxOrders /\ starts \in 0 .. MaxStarts /\ faults \in 0 .. MaxFaults

\* tray: its own control is held, and the first start is under way.
Init ==
    /\ phase = [p \in Processes |-> "absent"]
    /\ held = [p \in Processes |-> 0]
    /\ cancelled = {}
    /\ mutex = [n \in Names |-> {}]
    /\ event = [n \in Names |-> {}]
    /\ signalled = {}
    /\ at = "boot" /\ task = "tick"
    /\ fresh = None /\ cmd = None
    /\ reaped = FALSE /\ wanted = FALSE /\ retryAt = FALSE
    /\ retries = 0
    /\ job = {}
    /\ command \in [Commands -> [target : {"server", "display"}, at : {"idle"}]]
    /\ asked = "start" /\ attempts = 0 /\ told = {}
    /\ orders = 0 /\ starts = 0 /\ faults = 0

Fault == faults < MaxFaults /\ faults' = faults + 1

-----------------------------------------------------------------------------
(* Handles. *)

OpenEvent(x, n) ==
    /\ event' = [event EXCEPT ![n] = @ \cup {x}]
    /\ UNCHANGED <<mutex, signalled>>

\* An event that nobody holds is gone, and its signal with it.
CloseEvents(gone, names) ==
    /\ event' = [n \in Names |-> IF n \in names THEN event[n] \ gone ELSE event[n]]
    /\ signalled' = {n \in signalled : event'[n] # {}}

\* Processes end, whether they like it or not; whoever is in gone loses its handles.
Terminate(dead, gone) ==
    /\ phase' = [p \in Processes |-> IF p \in dead THEN "absent" ELSE phase[p]]
    /\ held' = [p \in Processes |-> IF p \in dead THEN 0 ELSE held[p]]
    /\ cancelled' = cancelled \ dead
    /\ mutex' = [n \in Names |-> mutex[n] \ dead]
    /\ CloseEvents(gone, Names)

-----------------------------------------------------------------------------
(* monitorControl, and the commands that call it for each of their controls. *)

Upcoming(p) == LocksOf[p][held[p] + 1]
Last(p) == LocksOf[p][held[p]]

Goto(p, where) == phase' = [phase EXCEPT ![p] = where]

\* Mutant: the error of CreateMutexW is looked at only if there is no handle.
CreateMutexAny(p) ==
    /\ phase[p] = "starting" /\ held[p] < Len(LocksOf[p])
    /\ mutex' = [mutex EXCEPT ![Upcoming(p)] = @ \cup {p}]
    /\ Goto(p, "opening")
    /\ UNCHANGED <<held, cancelled, event, signalled, child, thread, command, ghosts, bounds>>

\* CreateMutexW; one that exists is opened, and the handle closed again.
CreateMutex(p) ==
    /\ phase[p] = "starting" /\ held[p] < Len(LocksOf[p])
    /\ mutex' = [mutex EXCEPT ![Upcoming(p)] = @ \cup {p}]
    /\ Goto(p, IF mutex[Upcoming(p)] = {} THEN "opening" ELSE "refused")
    /\ UNCHANGED <<held, cancelled, event, signalled, child, thread, command, ghosts, bounds>>

\* CreateEventW, which opens one that exists as it is.
CreateEvent(p) ==
    /\ phase[p] = "opening"
    /\ \/ /\ OpenEvent(p, Upcoming(p))
          /\ held' = [held EXCEPT ![p] = @ + 1]
          /\ Goto(p, "starting")
          /\ UNCHANGED faults
       \/ /\ Fault
          /\ Goto(p, "refused")
          /\ UNCHANGED <<held, kernel>>
    /\ UNCHANGED <<cancelled, child, thread, command, ghosts, orders, starts>>

CloseRefused(p) ==
    /\ phase[p] = "refused"
    /\ mutex' = [mutex EXCEPT ![Upcoming(p)] = @ \ {p}]
    /\ Goto(p, "leaving")
    /\ UNCHANGED <<held, cancelled, event, signalled, child, thread, command, ghosts, bounds>>

\* The goroutine that waits for the event, 100 ms at a time.
Watch(p, n) ==
    /\ p \in event[n] /\ n \in signalled /\ p \notin cancelled
    /\ cancelled' = cancelled \cup {p}
    /\ UNCHANGED <<phase, held, kernel, child, thread, command, ghosts, bounds>>

\* Everything is set up; Runtime.Start refuses a context that is cancelled.
Serve(p) ==
    /\ phase[p] = "starting" /\ held[p] = Len(LocksOf[p])
    /\ Goto(p, IF p \in cancelled THEN "leaving" ELSE "serving")
    /\ UNCHANGED <<held, cancelled, kernel, child, thread, command, ghosts, bounds>>

\* Any other step of the start fails, or the listener does later.
Fails(p) ==
    /\ phase[p] \in {"starting", "serving"}
    /\ Fault
    /\ Goto(p, "leaving")
    /\ UNCHANGED <<held, cancelled, kernel, child, thread, command, ghosts, orders, starts>>

\* The bounded shutdown of serve, or the end of Manager.Run.
Shutdown(p) ==
    /\ phase[p] = "serving" /\ p \in cancelled
    /\ Goto(p, "leaving")
    /\ UNCHANGED <<held, cancelled, kernel, child, thread, command, ghosts, bounds>>

\* cleanup, last control first: the event, then the mutex.
CloseEvent(p) ==
    /\ phase[p] = "leaving" /\ held[p] > 0
    /\ CloseEvents({p}, {Last(p)})
    /\ Goto(p, "closing")
    /\ UNCHANGED <<mutex, held, cancelled, child, thread, command, ghosts, bounds>>

CloseMutex(p) ==
    /\ phase[p] = "closing"
    /\ mutex' = [mutex EXCEPT ![Last(p)] = @ \ {p}]
    /\ held' = [held EXCEPT ![p] = @ - 1]
    /\ Goto(p, "leaving")
    /\ UNCHANGED <<cancelled, event, signalled, child, thread, command, ghosts, bounds>>

Exit(p) ==
    /\ phase[p] = "leaving" /\ held[p] = 0
    /\ Goto(p, "absent")
    /\ cancelled' = cancelled \ {p}
    /\ UNCHANGED <<held, kernel, child, thread, command, ghosts, bounds>>

\* The process crashes, or the user ends it.
Crash(p) ==
    /\ phase[p] # "absent"
    /\ Fault
    /\ Terminate({p}, {p})
    /\ UNCHANGED <<child, thread, command, ghosts, orders, starts>>

StartByHand(p) ==
    /\ p \in Others /\ phase[p] = "absent"
    /\ starts < MaxStarts /\ starts' = starts + 1
    /\ Goto(p, "starting")
    /\ UNCHANGED <<held, cancelled, kernel, child, thread, command, ghosts, orders, faults>>

\* Ctrl+C in the console of a process started by hand; between two calls of
\* monitorControl it makes no difference when it comes.
Interrupt(p) ==
    /\ p \in Others /\ phase[p] \in {"starting", "serving"} /\ p \notin cancelled
    /\ cancelled' = cancelled \cup {p}
    /\ told' = told \cup {"interrupt"}
    /\ UNCHANGED <<phase, held, kernel, child, thread, command, asked, attempts, bounds>>

-----------------------------------------------------------------------------
(* signalMonitorStop of a stop command. *)

Step(k, from, to) ==
    /\ command[k].at = from
    /\ command' = [command EXCEPT ![k].at = to]
    /\ UNCHANGED <<servers, child, thread, asked, attempts, bounds>>

CommandOpens(k) ==
    \/ event[command[k].target] # {} /\ OpenEvent(k, command[k].target)
       /\ Step(k, "idle", "opened") /\ UNCHANGED told
    \/ event[command[k].target] = {} /\ Step(k, "idle", "done") /\ UNCHANGED <<kernel, told>>

CommandSets(k) ==
    /\ Step(k, "opened", "set")
    /\ signalled' = signalled \cup {command[k].target}
    /\ told' = told \cup {command[k].target}
    /\ UNCHANGED <<mutex, event>>

CommandCloses(k) ==
    /\ Step(k, "set", "done")
    /\ CloseEvents({k}, {command[k].target})
    /\ UNCHANGED <<mutex, told>>

-----------------------------------------------------------------------------
(* trayChild.  Its methods run on the thread of the message loop, which does    *)
(* nothing else until they return.                                         *)

\* finish: when the server is wanted, a retry in 5, 10 or 20 seconds, or none.
Retry(tries) ==
    /\ retryAt' = (tries < MaxRetries)
    /\ retries' = IF tries < MaxRetries THEN tries + 1 ELSE tries

Finish ==
    /\ cmd' = None /\ reaped' = FALSE
    /\ IF wanted' THEN Retry(retries) ELSE UNCHANGED <<retries, retryAt>>
    /\ UNCHANGED <<fresh, job>>

\* The callers of start, other than the menu, give its error to finish.
StartFailed(by, tries) ==
    IF by = "menu" THEN retries' = tries /\ retryAt' = FALSE ELSE Retry(tries)

\* start, up to AssignChild.
Launch(by, tries, count) ==
    /\ cmd = None
    /\ wanted' = TRUE
    /\ attempts' = count + 1
    /\ \/ \E c \in Children :
              /\ phase[c] = "absent"
              /\ Goto(c, "starting")
              /\ fresh' = c /\ job' = job \ {c}
              /\ at' = "assigning" /\ task' = by
              /\ retries' = tries /\ retryAt' = FALSE
              /\ UNCHANGED faults
       \/ /\ Fault
          /\ StartFailed(by, tries)
          /\ at' = "loop"
          /\ UNCHANGED <<phase, fresh, job, task>>
    /\ UNCHANGED <<held, cancelled, kernel, cmd, reaped, command, told, starts>>

Boot ==
    /\ at = "boot"
    /\ Launch("tick", 0, 0)
    /\ UNCHANGED <<asked, orders>>

\* Mutant: the server is not put into the job.
AssignNothing ==
    /\ at = "assigning"
    /\ cmd' = fresh /\ fresh' = None /\ reaped' = FALSE
    /\ at' = "loop"
    /\ UNCHANGED <<servers, kernel, wanted, retries, retryAt, job, task, command, ghosts, bounds>>

\* AssignChild, and what start does after it.  Its Kill is taken to succeed: the Wait that
\* follows one that fails would last until that server ends by itself.
Assign ==
    /\ at = "assigning"
    /\ at' = "loop" /\ fresh' = None
    /\ \/ /\ cmd' = fresh /\ reaped' = FALSE
          /\ job' = job \cup {fresh}
          /\ UNCHANGED <<servers, kernel, retries, retryAt, faults>>
       \/ /\ Fault
          /\ Terminate({fresh}, {fresh})
          /\ StartFailed(task, retries)
          /\ UNCHANGED <<cmd, reaped, job>>
    /\ UNCHANGED <<wanted, task, command, ghosts, orders, starts>>

\* go func() { c.done <- cmd.Wait() }()
Reap ==
    /\ at # "ended" /\ cmd # None /\ ~reaped /\ phase[cmd] = "absent"
    /\ reaped' = TRUE
    /\ UNCHANGED <<servers, kernel, fresh, cmd, wanted, retries, retryAt, job, thread, command,
                   ghosts, bounds>>

\* tick, when the server has exited.
TickExited ==
    /\ at = "loop" /\ reaped
    /\ wanted' = wanted
    /\ Finish
    /\ UNCHANGED <<servers, kernel, thread, command, ghosts, bounds>>

\* tick, when the time of the retry has come.
TickRetries ==
    /\ at = "loop" /\ wanted /\ retryAt
    /\ Launch("tick", retries, attempts)
    /\ UNCHANGED <<asked, orders>>

Order == at = "loop" /\ orders < MaxOrders /\ orders' = orders + 1

\* "Start / retry displays": the budget of retries is renewed.
MenuStart ==
    /\ Order
    /\ asked' = "start"
    /\ \/ Launch("menu", 0, 0)
       \/ /\ cmd # None
          /\ retries' = 0 /\ attempts' = 0
          /\ UNCHANGED <<servers, kernel, fresh, cmd, reaped, wanted, retryAt, job, thread,
                         command, told, starts, faults>>

-----------------------------------------------------------------------------
(* stopWithin, for "Stop", and for the end of the tray. *)

Return == at' = IF task' = "quit" THEN "ending" ELSE "loop"

\* Mutant: the server remains wanted until it has exited.
StopKeepsWanted(for) ==
    /\ task' = for
    /\ retryAt' = FALSE
    /\ wanted' = wanted
    /\ IF cmd = None THEN Return /\ UNCHANGED <<fresh, cmd, reaped, retries, job>>
       ELSE at' = "opening" /\ UNCHANGED <<fresh, cmd, reaped, retries, job>>
    /\ UNCHANGED <<servers, kernel, command, attempts, told, starts, faults>>

Stop(for) ==
    /\ task' = for
    /\ wanted' = FALSE /\ retryAt' = FALSE
    /\ IF reaped
       THEN cmd' = None /\ reaped' = FALSE /\ Return
       ELSE /\ UNCHANGED <<cmd, reaped>>
            /\ IF cmd = None THEN Return ELSE at' = "opening"
    /\ UNCHANGED <<servers, kernel, fresh, retries, job, command, attempts, told, starts, faults>>

MenuStop == Order /\ asked' = "stop" /\ Stop("stop")

\* "Quit", WM_CLOSE, the end of the session, or "jonsbo stop --tray": the loop ends and
\* the deferred stop runs.
Quit == at = "loop" /\ asked' = "stop" /\ Stop("quit") /\ UNCHANGED orders

Signals(where, to) ==
    /\ at = where /\ at' = to
    /\ UNCHANGED <<servers, child, task, command, ghosts, bounds>>

\* signalMonitorStop, whose error is ignored: the server may not have its event yet.
OpenControl ==
    \/ event["control"] # {} /\ Signals("opening", "setting") /\ OpenEvent(Tray, "control")
    \/ event["control"] = {} /\ Signals("opening", "waiting") /\ UNCHANGED kernel

SetControl ==
    /\ Signals("setting", "closing")
    /\ signalled' = signalled \cup {"control"}
    /\ UNCHANGED <<mutex, event>>

CloseControl ==
    /\ Signals("closing", "waiting")
    /\ CloseEvents({Tray}, {"control"})
    /\ UNCHANGED mutex

\* The server exits in time, or after it was killed.
StopDone ==
    /\ at \in {"waiting", "reaping"} /\ reaped
    /\ wanted' = wanted /\ task' = task
    /\ Finish
    /\ Return
    /\ UNCHANGED <<servers, kernel, command, ghosts, bounds>>

\* Mutant: there is no timer.
StopTimeoutNever ==
    /\ at = "waiting" /\ reaped
    /\ Terminate({cmd}, {cmd})
    /\ at' = "reaping"
    /\ UNCHANGED <<child, task, command, ghosts, bounds>>

\* The timer fires: Kill, which may fail.
StopTimeout ==
    /\ at = "waiting"
    /\ task' = task
    /\ \/ /\ Terminate({cmd}, {cmd})
          /\ at' = "reaping"
          /\ UNCHANGED <<asked, faults>>
       \/ /\ Fault
          /\ Return
          /\ asked' = "error"
          /\ UNCHANGED <<servers, kernel>>
    /\ UNCHANGED <<child, command, attempts, told, orders, starts>>

\* The handle of the job is closed, and with it every process in it ends.
TrayEnds ==
    /\ Terminate(job, job \cup {Tray})
    /\ at' = "ended"
    /\ UNCHANGED <<child, task, command, ghosts, orders, starts>>

CloseJob == at = "ending" /\ TrayEnds /\ UNCHANGED faults

\* The tray crashes or is terminated at any point.
TrayCrash == at # "ended" /\ TrayEnds /\ Fault

-----------------------------------------------------------------------------
Process(p) ==
    \/ CreateMutex(p) \/ CreateEvent(p) \/ CloseRefused(p) \/ Serve(p) \/ Shutdown(p)
    \/ CloseEvent(p) \/ CloseMutex(p) \/ Exit(p)
    \/ \E n \in Names : Watch(p, n)

Command(k) == CommandOpens(k) \/ CommandSets(k) \/ CommandCloses(k)

\* What the tray does by itself.
Supervise ==
    \/ Boot \/ Assign \/ TickExited \/ TickRetries
    \/ OpenControl \/ SetControl \/ CloseControl \/ StopDone \/ StopTimeout \/ CloseJob

Next ==
    \/ \E p \in Processes : Process(p) \/ Fails(p) \/ Crash(p) \/ StartByHand(p) \/ Interrupt(p)
    \/ \E k \in Commands : Command(k)
    \/ Supervise \/ Reap \/ MenuStart \/ MenuStop \/ Quit \/ TrayCrash

Spec == Init /\ [][Next]_vars

\* The tray's thread and the goroutine that waits for the child go on; a server may hang.
FairSpec == Spec /\ WF_vars(Supervise) /\ WF_vars(Reap)

-----------------------------------------------------------------------------
(* Properties. *)

Holds(p, n) == \/ \E i \in 1 .. held[p] : LocksOf[p][i] = n
               \/ phase[p] = "opening" /\ Upcoming(p) = n

\* monitorControl admits one process at a time under each name, in whatever order
\* handles are opened and closed: one server answers, one process drives the displays.
OneOwner == \A n \in Names : \A p, q \in Processes : Holds(p, n) /\ Holds(q, n) => p = q

\* "Exiting stops the server owned by this tray process" (docs/windows-app.md), and so
\* does Stop: once it returned without an error, and after the tray has ended, no server of the
\* tray is left and none is started until the user asks for it; except one that was created
\* and not yet in the job when the tray crashed.  Until then it never loses track of one.
NoUnwantedServer ==
    /\ at # "ended" => \A c \in Children : phase[c] = "absent" \/ c \in {cmd, fresh}
    /\ at = "loop" /\ asked = "stop" => \A c \in Children : phase[c] = "absent"
    /\ at = "ended" => \A c \in Children \ {fresh} : phase[c] = "absent"
    /\ at = "assigning" => asked = "start"

\* A server that keeps failing is started once and retried three times for each Start, whatever
\* stops, exits and failing starts come in between.
RetryBudget == attempts <= MaxRetries + 1

\* "Only our unique stop event is ever signalled; never stop a standalone API": a process
\* started by hand is stopped by Ctrl+C or by a stop command for a control it holds.
TraySparesOthers ==
    \A o \in Others \cap cancelled :
        "interrupt" \in told \/ \E i \in DOMAIN LocksOf[o] : LocksOf[o][i] \in told

\* The tray runs its own server, that one only, and no more often than it was asked to.
TrayInControl == TypeOK /\ NoUnwantedServer /\ RetryBudget /\ TraySparesOthers

\* The message loop is never blocked for good: a server that hangs is killed.
LoopReturns == at \notin {"loop", "ended"} ~> at \in {"loop", "ended"}
=============================================================================
