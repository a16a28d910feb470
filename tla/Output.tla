-------------------------------- MODULE Output --------------------------------
(***************************************************************************)
(* The display manager of internal/output/manager.go: one worker per       *)
(* selected screen that renders its assigned view, sends it and records    *)
(* the result, while Assign replaces the assignment under the worker, and  *)
(* the farewell each worker shows before the driver is closed.             *)
(*                                                                         *)
(* Manager.mu only protects single reads and writes of a screen's state,   *)
(* so every critical section is one action and everything a worker does    *)
(* outside it (rendering, the preview file, the transfer) is a step of its *)
(* own that any Assign may precede or follow.                              *)
(***************************************************************************)
EXTENDS Naturals

CONSTANTS Screens,       \* the selected displays
          Assignments,   \* module, view and rotation: those that validate
          Configured,    \* each screen's configured or default assignment
          Previews,      \* TRUE when Options.PreviewDir is set
          LastFarewell,  \* index of the last farewell frame (12 in the code)
          MaxAssigns     \* bound: calls of Assign, per screen

ASSUME OutputAssumption == /\ Configured \in [Screens -> Assignments]
                           /\ Previews \in BOOLEAN
                           /\ LastFarewell \in Nat
                           /\ MaxAssigns \in [Screens -> Nat]

VARIABLES
    mode,        \* "idle", or the entry point that is running: "run", "once"
    cancelled,   \* the context given to it is cancelled
    driver,      \* "open", or "closed" after Run and Once have closed it
    assignment, status, succeeded, saved,   \* screen.state and screen.saved
    worker,      \* per screen: where its goroutine is
    frame,       \* per screen: the locals of send
    farewells,   \* per screen: farewell frames sent
    panel,       \* per screen: what the display shows
    files,       \* the preview files written
    assigns      \* per screen: the calls of Assign accepted so far

screenVars == <<assignment, status, succeeded, saved, assigns>>
vars == <<mode, cancelled, driver, screenVars, worker, frame, farewells, panel, files>>

ScreenStatus == {"waiting", "live", "error", "stopping", "stopped"}
Phase == {"none", "check", "rendering", "saving", "sending", "hung", "settling",
          "waiting", "leaving", "farewell", "marking", "done"}
Result == {"none", "ok", "error", "canceled"}

\* The locals of send: assignment, saved and err; round is the number of Assign
\* calls that preceded it.
Frame == [assignment : Assignments, saved : BOOLEAN, round : Nat,
          result : Result]

NoFrame == [result |-> "none"]

\* A display that was never written is blank, a failed transfer can leave it torn,
\* and a farewell replaces the view.
Blank == [kind |-> "blank"]
Torn == [kind |-> "torn"]
Goodbye(n) == [kind |-> "farewell", frame |-> n]
View == [kind : {"view"}, assignment : Assignments, round : Nat]

TypeOK ==
    /\ mode \in {"idle", "run", "once"}
    /\ cancelled \in BOOLEAN
    /\ driver \in {"open", "closed"}
    /\ assignment \in [Screens -> Assignments]
    /\ status \in [Screens -> ScreenStatus]
    /\ succeeded \in [Screens -> BOOLEAN]
    /\ saved \in [Screens -> BOOLEAN]
    /\ worker \in [Screens -> Phase]
    /\ frame \in [Screens -> Frame \cup {NoFrame}]
    /\ farewells \in [Screens -> 0 .. LastFarewell + 1]
    /\ panel \in [Screens -> View \cup {Blank, Torn} \cup {Goodbye(n) : n \in 0 .. LastFarewell}]
    /\ files \subseteq Screens \X Assignments
    /\ assigns \in [Screens -> Nat]

\* New.
Init ==
    /\ mode = "idle"
    /\ cancelled = FALSE
    /\ driver = "open"
    /\ assignment = Configured
    /\ status = [s \in Screens |-> "waiting"]
    /\ succeeded = [s \in Screens |-> FALSE]
    /\ saved = [s \in Screens |-> FALSE]
    /\ worker = [s \in Screens |-> "none"]
    /\ frame = [s \in Screens |-> NoFrame]
    /\ farewells = [s \in Screens |-> 0]
    /\ panel = [s \in Screens |-> Blank]
    /\ files = {}
    /\ assigns = [s \in Screens |-> 0]

-----------------------------------------------------------------------------
(* Entry points. *)

\* An accepted Assign; the view was validated before the lock was taken.
Assign(s) ==
    /\ assigns[s] < MaxAssigns[s]
    /\ \E a \in Assignments : assignment' = [assignment EXCEPT ![s] = a]
    /\ status' = [status EXCEPT ![s] = "waiting"]
    /\ saved' = [saved EXCEPT ![s] = FALSE]
    /\ assigns' = [assigns EXCEPT ![s] = @ + 1]
    /\ UNCHANGED <<mode, cancelled, driver, succeeded, worker, frame, farewells, panel, files>>

\* Run and Once start a worker per screen; the commands call one of them, once.
StartWorkers ==
    /\ mode = "idle"
    /\ mode' \in {"run", "once"}
    /\ worker' = [s \in Screens |-> "check"]
    /\ UNCHANGED <<cancelled, driver, screenVars, frame, farewells, panel, files>>

Cancel ==
    /\ ~cancelled
    /\ cancelled' = TRUE
    /\ UNCHANGED <<mode, driver, screenVars, worker, frame, farewells, panel, files>>

\* wg.Wait() and the driver's Close.
CloseDriver ==
    /\ driver = "open"
    /\ mode # "idle"
    /\ \A s \in Screens : worker[s] = "done"
    /\ driver' = "closed"
    /\ UNCHANGED <<mode, cancelled, screenVars, worker, frame, farewells, panel, files>>

-----------------------------------------------------------------------------
(* One refresh: send. *)

Goto(s, phase) == worker' = [worker EXCEPT ![s] = phase]

\* The error a failing step of send reports.
Failure == {"error"} \cup (IF cancelled THEN {"canceled"} ELSE {})

\* The head of send; Run checks its context first, Once does not.
BeginSend(s) ==
    /\ worker[s] = "check"
    /\ mode = "run" => ~cancelled
    /\ frame' = [frame EXCEPT ![s] = [assignment |-> assignment[s], saved |-> saved[s],
                                      round |-> assigns[s], result |-> "none"]]
    /\ Goto(s, "rendering")
    /\ UNCHANGED <<mode, cancelled, driver, screenVars, farewells, panel, files>>

Fails(s) ==
    /\ \E e \in Failure : frame' = [frame EXCEPT ![s].result = e]
    /\ Goto(s, "settling")

\* source.Frame
Render(s) ==
    /\ worker[s] = "rendering"
    /\ \/ /\ Goto(s, IF Previews /\ ~frame[s].saved THEN "saving" ELSE "sending")
          /\ UNCHANGED frame
       \/ Fails(s)
    /\ UNCHANGED <<mode, cancelled, driver, screenVars, farewells, panel, files>>

SavePreview(s) ==
    /\ worker[s] = "saving"
    /\ \/ /\ files' = files \cup {<<s, frame[s].assignment>>}
          /\ Goto(s, "sending")
          /\ UNCHANGED frame
       \/ Fails(s) /\ UNCHANGED files
    /\ UNCHANGED <<mode, cancelled, driver, screenVars, farewells, panel>>

\* Mutant: one transfer at a time for all displays.
SendExclusive(s) ==
    /\ worker[s] = "sending"
    /\ \A t \in Screens : worker[t] # "hung"
    /\ \/ /\ panel' = [panel EXCEPT ![s] = [kind |-> "view",
                                            assignment |-> frame[s].assignment,
                                            round |-> frame[s].round]]
          /\ frame' = [frame EXCEPT ![s].result = "ok"]
          /\ Goto(s, "settling")
       \/ /\ panel' = [panel EXCEPT ![s] = Torn]
          /\ Goto(s, "hung")
          /\ UNCHANGED frame
    /\ UNCHANGED <<mode, cancelled, driver, screenVars, farewells, files>>

\* driver.Send: acknowledged, failed before or during the transfer, or a native
\* call that does not return.
Send(s) ==
    /\ worker[s] = "sending"
    /\ \/ /\ panel' = [panel EXCEPT ![s] = [kind |-> "view",
                                            assignment |-> frame[s].assignment,
                                            round |-> frame[s].round]]
          /\ frame' = [frame EXCEPT ![s].result = "ok"]
          /\ Goto(s, "settling")
       \/ /\ panel' \in {panel, [panel EXCEPT ![s] = Torn]}
          /\ Fails(s)
       \/ /\ panel' = [panel EXCEPT ![s] = Torn]
          /\ Goto(s, "hung")
          /\ UNCHANGED frame
    /\ UNCHANGED <<mode, cancelled, driver, screenVars, farewells, files>>

\* Mutant: the result is recorded whatever the screen is assigned to now.
SettleAlways(s) ==
    /\ worker[s] = "settling"
    /\ IF frame[s].result = "ok"
       THEN /\ status' = [status EXCEPT ![s] = "live"]
            /\ succeeded' = [succeeded EXCEPT ![s] = TRUE]
            /\ saved' = [saved EXCEPT ![s] = TRUE]
       ELSE /\ status' = [status EXCEPT ![s] = "error"]
            /\ UNCHANGED <<succeeded, saved>>
    /\ frame' = [frame EXCEPT ![s] = NoFrame]
    /\ Goto(s, IF mode = "run" THEN "waiting" ELSE "done")
    /\ UNCHANGED <<mode, cancelled, driver, assignment, assigns, farewells, panel, files>>

\* send's deferred function: record the result unless the screen was reassigned.
Settle(s) ==
    /\ worker[s] = "settling"
    /\ IF assignment[s] # frame[s].assignment \/ frame[s].result = "canceled"
       THEN UNCHANGED <<status, succeeded, saved>>
       ELSE IF frame[s].result = "ok"
       THEN /\ status' = [status EXCEPT ![s] = "live"]
            /\ succeeded' = [succeeded EXCEPT ![s] = TRUE]
            /\ saved' = [saved EXCEPT ![s] = TRUE]
       ELSE /\ status' = [status EXCEPT ![s] = "error"]
            /\ UNCHANGED <<succeeded, saved>>
    /\ frame' = [frame EXCEPT ![s] = NoFrame]
    /\ Goto(s, IF mode = "run" THEN "waiting" ELSE "done")
    /\ UNCHANGED <<mode, cancelled, driver, assignment, assigns, farewells, panel, files>>

Tick(s) ==
    /\ worker[s] = "waiting"
    /\ Goto(s, "check")
    /\ UNCHANGED <<mode, cancelled, driver, screenVars, frame, farewells, panel, files>>

\* Mutant: the context is only looked at while waiting for the next refresh.
LeaveFromWait(s) ==
    /\ mode = "run" /\ cancelled
    /\ worker[s] = "waiting"
    /\ Goto(s, "leaving")
    /\ UNCHANGED <<mode, cancelled, driver, screenVars, frame, farewells, panel, files>>

\* The worker's loop returns.
Leave(s) ==
    /\ mode = "run" /\ cancelled
    /\ worker[s] \in {"check", "waiting"}
    /\ Goto(s, "leaving")
    /\ UNCHANGED <<mode, cancelled, driver, screenVars, frame, farewells, panel, files>>

-----------------------------------------------------------------------------
(* The farewell of one worker. *)

\* Only a screen that has been live is said goodbye to.
FarewellBegin(s) ==
    /\ worker[s] = "leaving"
    /\ Goto(s, IF succeeded[s] THEN "farewell" ELSE "done")
    /\ UNCHANGED <<mode, cancelled, driver, screenVars, frame, farewells, panel, files>>

\* Mutant: the first farewell frame is not announced.
FarewellFrameSilent(s) ==
    /\ worker[s] = "farewell"
    /\ farewells[s] <= LastFarewell
    /\ \/ /\ panel' = [panel EXCEPT ![s] = Goodbye(farewells[s])]
          /\ farewells' = [farewells EXCEPT ![s] = @ + 1]
          /\ UNCHANGED worker
       \/ /\ Goto(s, "done")
          /\ UNCHANGED <<panel, farewells>>
    /\ UNCHANGED <<mode, cancelled, driver, screenVars, frame, files>>

\* One farewell frame; the view may not support it, and the send may fail or hang.
FarewellFrame(s) ==
    /\ worker[s] = "farewell"
    /\ farewells[s] <= LastFarewell
    /\ \/ /\ panel' = [panel EXCEPT ![s] = Goodbye(farewells[s])]
          /\ farewells' = [farewells EXCEPT ![s] = @ + 1]
          /\ Goto(s, IF farewells[s] = 0 THEN "marking" ELSE "farewell")
       \/ /\ panel' \in {panel, [panel EXCEPT ![s] = Torn]}
          /\ Goto(s, "done")
          /\ UNCHANGED farewells
       \/ /\ panel' = [panel EXCEPT ![s] = Torn]
          /\ Goto(s, "hung")
          /\ UNCHANGED farewells
    /\ UNCHANGED <<mode, cancelled, driver, screenVars, frame, files>>

\* The two seconds are over after a frame, be it the last one: no status follows.
FarewellCut(s) ==
    /\ worker[s] = "farewell"
    /\ farewells[s] > 0
    /\ Goto(s, "done")
    /\ UNCHANGED <<mode, cancelled, driver, screenVars, frame, farewells, panel, files>>

\* farewellStatus, which does not look at the assignment.
FarewellStatus(s) ==
    /\ \/ /\ worker[s] = "marking"
          /\ status' = [status EXCEPT ![s] = "stopping"]
          /\ Goto(s, "farewell")
       \/ /\ worker[s] = "farewell" /\ farewells[s] > LastFarewell
          /\ status' = [status EXCEPT ![s] = "stopped"]
          /\ Goto(s, "done")
    /\ UNCHANGED <<mode, cancelled, driver, assignment, succeeded, saved, assigns,
                   frame, farewells, panel, files>>

-----------------------------------------------------------------------------
Refresh(s) == BeginSend(s) \/ Render(s) \/ SavePreview(s) \/ Send(s) \/ Settle(s)

Farewell(s) == FarewellBegin(s) \/ FarewellFrame(s) \/ FarewellCut(s) \/ FarewellStatus(s)

Worker(s) == Refresh(s) \/ Tick(s) \/ Leave(s) \/ Farewell(s)

Next == \/ StartWorkers \/ Cancel \/ CloseDriver
        \/ \E s \in Screens : Assign(s) \/ Worker(s)

\* Workers are goroutines that only stop in a native call that hangs; nobody has
\* to assign, start or cancel.
Fairness == WF_vars(CloseDriver) /\ \A s \in Screens : WF_vars(Worker(s))

Spec == Init /\ [][Next]_vars

FairSpec == Spec /\ Fairness

-----------------------------------------------------------------------------
(* Properties. *)

\* Until cancellation, and between two transfers, the status describes the
\* assignment the screen has now: a live screen shows that assignment, whatever
\* was reassigned while its frame was in flight.
LiveShowsAssignment ==
    ~cancelled => \A s \in Screens :
        status[s] = "live" /\ worker[s] \in {"check", "rendering", "saving", "waiting"} =>
            panel[s].kind = "view" /\ panel[s].assignment = assignment[s]

\* A frame already in flight is not confirmation of a later Assign
\* (manager.go:193-194, docs/architecture.md): a screen is live only on a frame
\* that was begun after its latest Assign.
LiveConfirmsLatestAssign ==
    \A s \in Screens :
        status[s] = "live" /\ worker[s] \in {"check", "rendering", "saving", "waiting"} =>
            panel[s].round = assigns[s]

\* saved suppresses the preview only once the preview of the present assignment
\* has been written.
SavedHasPreview ==
    Previews => \A s \in Screens : saved[s] => <<s, assignment[s]>> \in files

\* What a screen is said to show is on its panel, and on disk as its preview,
\* although both are settled after the lock was given up for the transfer.
ScreenTellsTruth == LiveShowsAssignment /\ SavedHasPreview

\* "Close is called after the manager's workers finish": no worker is still
\* sending, not even a farewell, when the driver is closed, and no screen is
\* written afterwards.
DriverOutlivesWorkers ==
    [][driver = "closed" => UNCHANGED <<worker, panel>>]_vars

\* A farewell is reported for what it is: "stopped" only on a panel that shows
\* its last frame, and once the worker has left no panel that shows any is
\* reported live or in error, in whatever order Assign, the frames and the two
\* statuses come. One that was cut short may stay "stopping".
FarewellReported ==
    \A s \in Screens :
        /\ status[s] = "stopped" => panel[s] = Goodbye(LastFarewell)
        /\ worker[s] = "done" /\ panel[s].kind = "farewell" =>
              status[s] \notin {"live", "error"}

\* "A slow screen does not block another": an assignment is confirmed or its
\* error reported, unless the output is cancelled or this very screen hangs.
AssignmentSettles ==
    \A s \in Screens :
        mode = "run" /\ status[s] = "waiting"
            ~> (status[s] # "waiting" \/ cancelled \/ worker[s] = "hung")

\* After cancellation every worker leaves and the driver is closed, unless a
\* native call hangs (the command layer bounds that wait).
OutputStops ==
    mode # "idle" /\ cancelled
        ~> (driver = "closed" \/ \E s \in Screens : worker[s] = "hung")

\* The output ends, and in order: the driver is always closed in the end, and
\* never under a worker that still sends.
EndsInOrder == DriverOutlivesWorkers /\ OutputStops
=============================================================================
