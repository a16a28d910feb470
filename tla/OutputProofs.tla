----------------------------- MODULE OutputProofs -----------------------------
(***************************************************************************)
(* Proofs about Output, for any set of displays and of assignments.        *)
(*                                                                         *)
(* FlightInv is what makes a refresh safe against Assign: while a frame is *)
(* in flight the screen can only be live if it is still assigned what the  *)
(* frame was begun for, because Assign resets the status.  LoopInv says    *)
(* what a live screen shows, PreviewInv which preview files exist,         *)
(* ShutdownInv that the workers are gone once the driver is closed, and    *)
(* FarewellInv how a farewell and the statuses that report it follow each  *)
(* other, with an Assign between any two.                                  *)
(*                                                                         *)
(* The second part is about USBDriver, which the workers send through.    *)
(* That Open adds a handle to none and that Transfer closes the only one   *)
(* follows from where the call is, which is DriverCallInv; DriverClosedInv *)
(* is what Close leaves.                                                   *)
(*                                                                         *)
(* The third part is about Display, the frame transactions on the wire,    *)
(* for any number of pixel writes and any limits of the reads.  FanInv     *)
(* says that a fan's frame starts from empty queues and an empty memory,   *)
(* and that its last write comes with the last step; PumpInv that only the *)
(* reply to its last command can be taken for the end of a pump's frame;   *)
(* CyclopsInv that the start of a frame lies between the commands of       *)
(* earlier frames and its own pixels.                                      *)
(***************************************************************************)
EXTENDS Output, USBDriver, Display, SequenceTheorems, TLAPS

InFlight == {"rendering", "saving", "sending", "settling"}

\* The panel of s shows assignment a.
Shows(s, a) == panel[s].kind = "view" /\ panel[s].assignment = a

FlightInv ==
    \A s \in Screens :
        /\ worker[s] \in InFlight => frame[s] \in Frame
        /\ worker[s] \in InFlight /\ status[s] = "live" =>
              frame[s].assignment = assignment[s]
        /\ worker[s] = "settling" /\ frame[s].result = "ok" =>
              Shows(s, frame[s].assignment)
        /\ worker[s] = "settling" /\ ~cancelled => frame[s].result \in {"ok", "error"}

LoopInv ==
    \A s \in Screens :
        /\ worker[s] = "none" <=> mode = "idle"
        /\ worker[s] = "none" => status[s] # "live"
        /\ worker[s] \in {"leaving", "farewell", "marking"} => cancelled
        /\ ~cancelled /\ status[s] = "live"
           /\ worker[s] \in {"check", "rendering", "saving", "sending", "waiting"} =>
              Shows(s, assignment[s])

PreviewInv ==
    Previews => \A s \in Screens :
        /\ saved[s] => <<s, assignment[s]>> \in files
        /\ worker[s] \in InFlight /\ frame[s].saved => <<s, frame[s].assignment>> \in files
        /\ worker[s] = "sending" \/ (worker[s] = "settling" /\ frame[s].result = "ok") =>
              <<s, frame[s].assignment>> \in files

ShutdownInv ==
    driver = "closed" => mode # "idle" /\ \A s \in Screens : worker[s] = "done"

\* A farewell on the panel, its frames and the two statuses that report it.
FarewellInv ==
    \A s \in Screens :
        /\ farewells[s] > 0 => worker[s] \in {"farewell", "marking", "done", "hung"}
        /\ panel[s].kind = "farewell" => farewells[s] > 0
        /\ worker[s] \in {"farewell", "marking"} /\ farewells[s] > 0 =>
              panel[s] = Goodbye(farewells[s] - 1)
        /\ status[s] = "stopped" => worker[s] = "done" /\ panel[s] = Goodbye(LastFarewell)
        /\ worker[s] \in {"farewell", "done"} /\ panel[s].kind = "farewell" =>
              status[s] \notin {"live", "error"}

IInv == TypeOK /\ FlightInv /\ LoopInv /\ PreviewInv /\ ShutdownInv /\ FarewellInv

-----------------------------------------------------------------------------
\* The manager starts in the invariant.
LEMMA InitInv == Init => IInv
<1> SUFFICES ASSUME Init PROVE IInv
  OBVIOUS
<1>5. succeeded \in [Screens -> BOOLEAN] /\ saved \in [Screens -> BOOLEAN]
  BY Zenon DEF Init
<1>6. cancelled \in BOOLEAN
  BY Zenon DEF Init
<1>1. TypeOK
  BY <1>5, <1>6, OutputAssumption DEF Init, TypeOK, ScreenStatus, Phase
<1>2. FlightInv /\ LoopInv /\ ShutdownInv
  BY DEF Init, FlightInv, LoopInv, ShutdownInv, InFlight
<1>3. \A s \in Screens : worker[s] = "none"
  BY DEF Init
<1>4. \A s \in Screens : ~saved[s]
  BY Zenon DEF Init
<1>7. PreviewInv
  BY <1>3, <1>4 DEF PreviewInv, InFlight
<1>8. FarewellInv
  <2>1. /\ farewells = [s \in Screens |-> 0] /\ panel = [s \in Screens |-> Blank]
        /\ status = [s \in Screens |-> "waiting"] /\ worker = [s \in Screens |-> "none"]
    BY DEF Init
  <2>2. \A s \in Screens : /\ farewells[s] = 0 /\ panel[s].kind = "blank"
                           /\ status[s] = "waiting" /\ worker[s] = "none"
    BY <2>1 DEF Blank
  <2>3. ASSUME NEW s \in Screens PROVE ~(farewells[s] > 0)
    <3>1. farewells[s] = 0
      BY <2>2
    <3>2. ~(0 > 0)
      OBVIOUS
    <3> QED BY <3>1, <3>2, Zenon
  <2> QED BY <2>2, <2>3, Zenon DEF FarewellInv
<1> QED BY <1>1, <1>2, <1>7, <1>8 DEF IInv

\* A failing step of send reports an error, or a cancellation if there was one.
LEMMA FailsFrame ==
    ASSUME NEW s \in Screens, TypeOK, frame[s] \in Frame, Fails(s)
    PROVE  \E e \in {"error", "canceled"} :
               /\ e = "canceled" => cancelled
               /\ frame' = [frame EXCEPT ![s] = [frame[s] EXCEPT !.result = e]]
               /\ frame'[s] \in Frame
               /\ frame'[s].result = e
               /\ frame'[s].assignment = frame[s].assignment
               /\ frame'[s].saved = frame[s].saved
<1>1. PICK e \in Failure : frame' = [frame EXCEPT ![s].result = e]
  BY DEF Fails
<1>2. e \in {"error", "canceled"} /\ (e = "canceled" => cancelled)
  BY <1>1 DEF Failure
<1>3. frame' = [frame EXCEPT ![s] = [frame[s] EXCEPT !.result = e]]
  BY <1>1
<1>4. frame'[s] = [frame[s] EXCEPT !.result = e]
  BY <1>3 DEF TypeOK
<1>5. frame'[s] \in Frame /\ frame'[s].result = e
  BY <1>2, <1>4 DEF Frame, Result
<1>6. frame'[s].assignment = frame[s].assignment /\ frame'[s].saved = frame[s].saved
  BY <1>4 DEF Frame
<1> QED BY <1>2, <1>3, <1>5, <1>6

\* Every step keeps the types.
LEMMA TypeStep ==
    ASSUME IInv, [Next]_vars
    PROVE  TypeOK'
<1> USE DEF TypeOK, screenVars, Goto, Phase, ScreenStatus
<1>0. TypeOK /\ FlightInv
  BY DEF IInv
<1>1. ASSUME NEW s \in Screens, Assign(s) PROVE TypeOK'
  BY <1>0, <1>1, OutputAssumption DEF Assign
<1>2. CASE StartWorkers \/ Cancel \/ CloseDriver
  BY <1>0, <1>2 DEF StartWorkers, Cancel, CloseDriver
<1>3. ASSUME NEW s \in Screens, BeginSend(s) PROVE TypeOK'
  BY <1>0, <1>3 DEF BeginSend, Frame, Result
<1>4. ASSUME NEW s \in Screens, Render(s) PROVE TypeOK'
  <2>1. frame[s] \in Frame
    BY <1>0, <1>4 DEF Render, FlightInv, InFlight
  <2>2. CASE Fails(s)
    BY <1>0, <1>4, <2>1, <2>2, FailsFrame DEF Render, Fails
  <2>3. CASE ~Fails(s)
    BY <1>0, <1>4, <2>3 DEF Render
  <2> QED BY <2>2, <2>3
<1>5. ASSUME NEW s \in Screens, SavePreview(s) PROVE TypeOK'
  <2>1. frame[s] \in Frame /\ frame[s].assignment \in Assignments
    BY <1>0, <1>5 DEF SavePreview, FlightInv, InFlight, Frame
  <2>2. CASE Fails(s) /\ UNCHANGED files
    BY <1>0, <1>5, <2>1, <2>2, FailsFrame DEF SavePreview, Fails
  <2>3. CASE ~(Fails(s) /\ UNCHANGED files)
    BY <1>0, <1>5, <2>1, <2>3 DEF SavePreview
  <2> QED BY <2>2, <2>3
<1>6. ASSUME NEW s \in Screens, Send(s) PROVE TypeOK'
  <2>1. frame[s] \in Frame
    BY <1>0, <1>6 DEF Send, FlightInv, InFlight
  <2>2. CASE Fails(s) /\ panel' \in {panel, [panel EXCEPT ![s] = Torn]}
    BY <1>0, <1>6, <2>1, <2>2, FailsFrame DEF Send, Fails
  <2>3. CASE ~(Fails(s) /\ panel' \in {panel, [panel EXCEPT ![s] = Torn]})
    BY <1>0, <1>6, <2>1, <2>3 DEF Send, Frame, View, Result
  <2> QED BY <2>2, <2>3
<1>7. ASSUME NEW s \in Screens, Settle(s) PROVE TypeOK'
  BY <1>0, <1>7 DEF Settle
<1>8. ASSUME NEW s \in Screens, Tick(s) \/ Leave(s) \/ FarewellBegin(s) \/ FarewellCut(s)
      PROVE TypeOK'
  BY <1>0, <1>8 DEF Tick, Leave, FarewellBegin, FarewellCut
<1>9. ASSUME NEW s \in Screens, FarewellFrame(s) \/ FarewellStatus(s) PROVE TypeOK'
  BY <1>0, <1>9, OutputAssumption DEF FarewellFrame, FarewellStatus
<1>10. CASE UNCHANGED vars
  BY <1>0, <1>10 DEF vars
<1> QED BY <1>1, <1>2, <1>3, <1>4, <1>5, <1>6, <1>7, <1>8, <1>9, <1>10
       DEF Next, Worker, Refresh, Farewell

-----------------------------------------------------------------------------
\* Every step keeps what is known of a frame in flight.
LEMMA FlightStep ==
    ASSUME IInv, [Next]_vars
    PROVE  FlightInv'
<1> USE DEF FlightInv, InFlight, Shows, screenVars, Goto
<1>0. TypeOK /\ FlightInv
  BY DEF IInv
<1>1. ASSUME NEW s \in Screens, Assign(s) PROVE FlightInv'
  BY <1>0, <1>1 DEF Assign, TypeOK
<1>2. CASE StartWorkers \/ CloseDriver
  BY <1>0, <1>2 DEF StartWorkers, CloseDriver, TypeOK
<1>3. CASE Cancel
  BY <1>0, <1>3 DEF Cancel
<1>4. ASSUME NEW s \in Screens, BeginSend(s) PROVE FlightInv'
  <2>1. frame'[s] \in Frame /\ frame'[s].assignment = assignment[s]
    BY <1>0, <1>4 DEF BeginSend, TypeOK, Frame, Result
  <2> QED BY <1>0, <1>4, <2>1 DEF BeginSend, TypeOK
<1>5. ASSUME NEW s \in Screens, frame[s] \in Frame, Fails(s), worker[s] \in InFlight,
             UNCHANGED <<status, assignment, cancelled>>,
             panel' \in {panel, [panel EXCEPT ![s] = Torn]}
      PROVE  FlightInv'
  <2>1. PICK e \in {"error", "canceled"} :
               /\ e = "canceled" => cancelled
               /\ frame' = [frame EXCEPT ![s] = [frame[s] EXCEPT !.result = e]]
               /\ frame'[s] \in Frame
               /\ frame'[s].result = e
               /\ frame'[s].assignment = frame[s].assignment
    BY <1>0, <1>5, FailsFrame
  <2>2. \A t \in Screens \ {s} :
            frame'[t] = frame[t] /\ worker'[t] = worker[t] /\ panel'[t] = panel[t]
    BY <1>0, <1>5, <2>1 DEF Fails, TypeOK
  <2>3. worker'[s] = "settling"
    BY <1>0, <1>5 DEF Fails, TypeOK
  <2> QED BY <1>0, <1>5, <2>1, <2>2, <2>3
<1>6. ASSUME NEW s \in Screens, Render(s) \/ SavePreview(s) PROVE FlightInv'
  <2>1. frame[s] \in Frame /\ worker[s] \in InFlight
    BY <1>0, <1>6 DEF Render, SavePreview
  <2>2. CASE Fails(s)
    BY <1>5, <1>6, <2>1, <2>2 DEF Render, SavePreview
  <2>3. CASE ~Fails(s)
    BY <1>0, <1>6, <2>1, <2>3 DEF Render, SavePreview, TypeOK
  <2> QED BY <2>2, <2>3
<1>7. ASSUME NEW s \in Screens, Send(s) PROVE FlightInv'
  <2>1. frame[s] \in Frame /\ worker[s] \in InFlight
    BY <1>0, <1>7 DEF Send
  <2>2. CASE Fails(s) /\ panel' \in {panel, [panel EXCEPT ![s] = Torn]}
    BY <1>5, <1>7, <2>1, <2>2 DEF Send
  <2>3. CASE Goto(s, "hung") /\ UNCHANGED frame
    BY <1>0, <1>7, <2>1, <2>3 DEF Send, TypeOK
  <2>4. CASE /\ panel' = [panel EXCEPT ![s] = [kind |-> "view",
                                               assignment |-> frame[s].assignment,
                                               round |-> frame[s].round]]
             /\ frame' = [frame EXCEPT ![s].result = "ok"]
             /\ Goto(s, "settling")
    <3>1. /\ frame'[s] \in Frame /\ frame'[s].result = "ok"
          /\ frame'[s].assignment = frame[s].assignment
          /\ \A t \in Screens \ {s} : frame'[t] = frame[t]
      BY <1>0, <2>1, <2>4 DEF TypeOK, Frame, Result
    <3>2. /\ panel'[s].kind = "view" /\ panel'[s].assignment = frame[s].assignment
          /\ \A t \in Screens \ {s} : panel'[t] = panel[t]
      BY <1>0, <2>4 DEF TypeOK
    <3>3. /\ worker'[s] = "settling"
          /\ \A t \in Screens \ {s} : worker'[t] = worker[t]
      BY <1>0, <2>4 DEF TypeOK
    <3>4. UNCHANGED <<status, assignment, cancelled>>
      BY <1>7 DEF Send
    <3> QED BY <1>0, <2>1, <3>1, <3>2, <3>3, <3>4
  <2> QED BY <1>7, <2>2, <2>3, <2>4 DEF Send
<1>8. ASSUME NEW s \in Screens, Settle(s) PROVE FlightInv'
  BY <1>0, <1>8 DEF Settle, TypeOK
<1>9. ASSUME NEW s \in Screens, Tick(s) \/ Leave(s) \/ FarewellBegin(s) \/ FarewellCut(s)
      PROVE FlightInv'
  BY <1>0, <1>9 DEF Tick, Leave, FarewellBegin, FarewellCut, TypeOK
<1>10. ASSUME NEW s \in Screens, FarewellFrame(s) \/ FarewellStatus(s) PROVE FlightInv'
  BY <1>0, <1>10 DEF FarewellFrame, FarewellStatus, TypeOK
<1>11. CASE UNCHANGED vars
  BY <1>0, <1>11 DEF vars
<1> QED BY <1>1, <1>2, <1>3, <1>4, <1>6, <1>7, <1>8, <1>9, <1>10, <1>11
       DEF Next, Worker, Refresh, Farewell

\* Every step keeps what is known of a screen between two transfers.
LEMMA LoopStep ==
    ASSUME IInv, [Next]_vars
    PROVE  LoopInv'
<1> USE DEF LoopInv, Shows, screenVars, Goto
<1>0. TypeOK /\ FlightInv /\ LoopInv
  BY DEF IInv
<1>1. ASSUME NEW s \in Screens, Assign(s) PROVE LoopInv'
  BY <1>0, <1>1 DEF Assign, TypeOK
<1>2. CASE StartWorkers
  BY <1>0, <1>2 DEF StartWorkers, TypeOK
<1>3. CASE Cancel \/ CloseDriver
  BY <1>0, <1>3 DEF Cancel, CloseDriver
<1>4. ASSUME NEW s \in Screens, BeginSend(s) \/ Render(s) \/ SavePreview(s) PROVE LoopInv'
  BY <1>0, <1>4 DEF BeginSend, Render, SavePreview, Fails, TypeOK
<1>5. ASSUME NEW s \in Screens, Send(s) PROVE LoopInv'
  BY <1>0, <1>5 DEF Send, Fails, TypeOK
<1>6. ASSUME NEW s \in Screens, Settle(s) PROVE LoopInv'
  <2>1. worker[s] = "settling" /\ frame[s] \in Frame
    BY <1>0, <1>6 DEF Settle, FlightInv, InFlight
  <2>2. ~cancelled => frame[s].result \in {"ok", "error"}
    BY <1>0, <2>1 DEF FlightInv
  <2>3. frame[s].result = "ok" => Shows(s, frame[s].assignment)
    BY <1>0, <2>1 DEF FlightInv
  <2>4. status[s] = "live" => frame[s].assignment = assignment[s]
    BY <1>0, <2>1 DEF FlightInv, InFlight
  <2>5. ~cancelled /\ status'[s] = "live" => Shows(s, assignment[s])
    BY <1>0, <1>6, <2>2, <2>3, <2>4 DEF Settle, TypeOK
  <2> QED BY <1>0, <1>6, <2>1, <2>5 DEF Settle, TypeOK
<1>7. ASSUME NEW s \in Screens, Tick(s) \/ Leave(s) \/ FarewellBegin(s) \/ FarewellCut(s)
      PROVE LoopInv'
  BY <1>0, <1>7 DEF Tick, Leave, FarewellBegin, FarewellCut, TypeOK
<1>8. ASSUME NEW s \in Screens, FarewellFrame(s) \/ FarewellStatus(s) PROVE LoopInv'
  BY <1>0, <1>8 DEF FarewellFrame, FarewellStatus, TypeOK
<1>9. CASE UNCHANGED vars
  BY <1>0, <1>9 DEF vars
<1> QED BY <1>1, <1>2, <1>3, <1>4, <1>5, <1>6, <1>7, <1>8, <1>9
       DEF Next, Worker, Refresh, Farewell

\* Every step keeps what is known of the preview files.
LEMMA PreviewStep ==
    ASSUME IInv, [Next]_vars
    PROVE  PreviewInv'
<1> SUFFICES ASSUME Previews PROVE PreviewInv'
  BY DEF PreviewInv
<1> USE DEF PreviewInv, InFlight, screenVars, Goto
<1>0. TypeOK /\ FlightInv /\ PreviewInv
  BY DEF IInv
<1>1. ASSUME NEW s \in Screens, Assign(s) PROVE PreviewInv'
  <2>1. ~saved'[s]
    BY <1>0, <1>1, Zenon DEF Assign, TypeOK
  <2>2. \A t \in Screens \ {s} : assignment'[t] = assignment[t] /\ saved'[t] = saved[t]
    BY <1>0, <1>1 DEF Assign, TypeOK
  <2> QED BY <1>0, <1>1, <2>1, <2>2 DEF Assign
<1>2. CASE StartWorkers \/ Cancel \/ CloseDriver
  BY <1>0, <1>2 DEF StartWorkers, Cancel, CloseDriver, TypeOK
<1>3. ASSUME NEW s \in Screens, BeginSend(s) PROVE PreviewInv'
  <2>1. /\ frame'[s].saved = saved[s] /\ frame'[s].assignment = assignment[s]
        /\ \A t \in Screens \ {s} : frame'[t] = frame[t] /\ worker'[t] = worker[t]
        /\ worker'[s] = "rendering"
    BY <1>0, <1>3 DEF BeginSend, TypeOK
  <2> QED BY <1>0, <1>3, <2>1 DEF BeginSend, TypeOK
<1>4. ASSUME NEW s \in Screens, frame[s] \in Frame, Fails(s), worker[s] \in InFlight,
             UNCHANGED <<saved, assignment, files>>
      PROVE  PreviewInv'
  <2>1. PICK e \in {"error", "canceled"} :
               /\ frame' = [frame EXCEPT ![s] = [frame[s] EXCEPT !.result = e]]
               /\ frame'[s].result = e
               /\ frame'[s].assignment = frame[s].assignment
               /\ frame'[s].saved = frame[s].saved
    BY <1>0, <1>4, FailsFrame
  <2>2. \A t \in Screens \ {s} : frame'[t] = frame[t] /\ worker'[t] = worker[t]
    BY <1>0, <1>4, <2>1 DEF Fails, TypeOK
  <2>3. worker'[s] = "settling"
    BY <1>0, <1>4 DEF Fails, TypeOK
  <2> QED BY <1>0, <1>4, <2>1, <2>2, <2>3
<1>5. ASSUME NEW s \in Screens, Render(s) PROVE PreviewInv'
  <2>1. frame[s] \in Frame /\ worker[s] \in InFlight
    BY <1>0, <1>5 DEF Render, FlightInv
  <2>2. CASE Fails(s)
    BY <1>4, <1>5, <2>1, <2>2 DEF Render
  <2>3. CASE Goto(s, IF Previews /\ ~frame[s].saved THEN "saving" ELSE "sending")
             /\ UNCHANGED frame
    BY <1>0, <1>5, <2>1, <2>3 DEF Render, TypeOK
  <2> QED BY <1>5, <2>2, <2>3 DEF Render
<1>6. ASSUME NEW s \in Screens, SavePreview(s) PROVE PreviewInv'
  <2>1. frame[s] \in Frame /\ worker[s] \in InFlight
    BY <1>0, <1>6 DEF SavePreview, FlightInv
  <2>2. CASE Fails(s) /\ UNCHANGED files
    BY <1>4, <1>6, <2>1, <2>2 DEF SavePreview
  <2>3. CASE files' = files \cup {<<s, frame[s].assignment>>} /\ Goto(s, "sending")
             /\ UNCHANGED frame
    BY <1>0, <1>6, <2>1, <2>3 DEF SavePreview, TypeOK
  <2> QED BY <1>6, <2>2, <2>3 DEF SavePreview
<1>7. ASSUME NEW s \in Screens, Send(s) PROVE PreviewInv'
  <2>1. frame[s] \in Frame /\ worker[s] = "sending"
    BY <1>0, <1>7 DEF Send, FlightInv
  <2>2. CASE Fails(s)
    BY <1>4, <1>7, <2>1, <2>2 DEF Send
  <2>3. CASE Goto(s, "hung") /\ UNCHANGED frame
    BY <1>0, <1>7, <2>1, <2>3 DEF Send, TypeOK
  <2>4. CASE frame' = [frame EXCEPT ![s].result = "ok"] /\ Goto(s, "settling")
    <3>1. /\ frame'[s].assignment = frame[s].assignment
          /\ frame'[s].saved = frame[s].saved
          /\ \A t \in Screens \ {s} : frame'[t] = frame[t] /\ worker'[t] = worker[t]
      BY <1>0, <2>1, <2>4 DEF TypeOK, Frame
    <3>2. UNCHANGED <<saved, assignment, files>>
      BY <1>7 DEF Send
    <3> QED BY <1>0, <2>1, <3>1, <3>2
  <2> QED BY <1>7, <2>2, <2>3, <2>4 DEF Send
<1>8. ASSUME NEW s \in Screens, Settle(s) PROVE PreviewInv'
  <2>1. worker[s] = "settling"
    BY <1>8 DEF Settle
  <2>2. /\ \A t \in Screens \ {s} : frame'[t] = frame[t] /\ worker'[t] = worker[t]
        /\ worker'[s] \in {"waiting", "done"}
        /\ UNCHANGED <<assignment, files>>
    BY <1>0, <1>8 DEF Settle, TypeOK
  <2>3. \/ UNCHANGED saved
        \/ /\ frame[s].result = "ok" /\ assignment[s] = frame[s].assignment
           /\ saved' = [saved EXCEPT ![s] = TRUE]
    BY <1>8, Zenon DEF Settle
  <2>4. CASE UNCHANGED saved
    BY <1>0, <2>2, <2>4
  <2>5. CASE /\ frame[s].result = "ok" /\ assignment[s] = frame[s].assignment
             /\ saved' = [saved EXCEPT ![s] = TRUE]
    <3>1. <<s, assignment[s]>> \in files
      BY <1>0, <2>1, <2>5
    <3>2. \A t \in Screens \ {s} : saved'[t] = saved[t]
      BY <1>0, <2>5 DEF TypeOK
    <3> QED BY <1>0, <2>2, <3>1, <3>2
  <2> QED BY <2>3, <2>4, <2>5
<1>9. ASSUME NEW s \in Screens, Tick(s) \/ Leave(s) \/ FarewellBegin(s) \/ FarewellCut(s)
      PROVE PreviewInv'
  BY <1>0, <1>9 DEF Tick, Leave, FarewellBegin, FarewellCut, TypeOK
<1>10. ASSUME NEW s \in Screens, FarewellFrame(s) \/ FarewellStatus(s) PROVE PreviewInv'
  BY <1>0, <1>10 DEF FarewellFrame, FarewellStatus, TypeOK
<1>11. CASE UNCHANGED vars
  BY <1>0, <1>11 DEF vars
<1> QED BY <1>1, <1>2, <1>3, <1>5, <1>6, <1>7, <1>8, <1>9, <1>10, <1>11
       DEF Next, Worker, Refresh, Farewell

\* Once the driver is closed every worker is done, and a done worker has no step.
LEMMA ShutdownStep ==
    ASSUME IInv, [Next]_vars
    PROVE  /\ ShutdownInv'
           /\ driver = "closed" => UNCHANGED <<worker, panel>>
<1> USE DEF ShutdownInv, screenVars
<1>0. ShutdownInv
  BY DEF IInv
<1>1. CASE \E s \in Screens : Assign(s)
  BY <1>0, <1>1 DEF Assign
<1>2. CASE StartWorkers
  BY <1>0, <1>2 DEF StartWorkers
<1>3. CASE Cancel \/ CloseDriver
  BY <1>0, <1>3 DEF Cancel, CloseDriver
<1>4. ASSUME NEW s \in Screens, Worker(s)
      PROVE  driver # "closed" /\ driver' = driver
  <2>1. worker[s] # "done" /\ driver' = driver
    BY <1>4 DEF Worker, Refresh, Farewell, BeginSend, Render, SavePreview, Send, Settle,
                Tick, Leave, FarewellBegin, FarewellCut, FarewellFrame, FarewellStatus
  <2> QED BY <1>0, <2>1
<1>5. CASE UNCHANGED vars
  BY <1>0, <1>5 DEF vars
<1> QED BY <1>1, <1>2, <1>3, <1>4, <1>5 DEF Next

\* Every step keeps what is known of a farewell and of the statuses that report it.
LEMMA FarewellStep ==
    ASSUME IInv, [Next]_vars
    PROVE  FarewellInv'
<1> USE DEF FarewellInv, screenVars, Goto
<1>0. TypeOK /\ FlightInv /\ LoopInv /\ FarewellInv /\ LastFarewell \in Nat
  BY OutputAssumption DEF IInv
<1>1. ASSUME NEW s \in Screens, Assign(s) PROVE FarewellInv'
  BY <1>0, <1>1 DEF Assign, TypeOK
<1>2. CASE StartWorkers
  BY <1>0, <1>2 DEF StartWorkers, LoopInv
<1>3. CASE Cancel \/ CloseDriver
  BY <1>0, <1>3 DEF Cancel, CloseDriver
<1>4. ASSUME NEW s \in Screens, BeginSend(s) \/ Render(s) \/ SavePreview(s) PROVE FarewellInv'
  BY <1>0, <1>4 DEF BeginSend, Render, SavePreview, Fails, TypeOK
<1>5. ASSUME NEW s \in Screens, Send(s) PROVE FarewellInv'
  BY <1>0, <1>5 DEF Send, Fails, TypeOK, Torn
<1>6. ASSUME NEW s \in Screens, Settle(s) PROVE FarewellInv'
  BY <1>0, <1>6 DEF Settle, TypeOK
<1>7. ASSUME NEW s \in Screens, Tick(s) \/ Leave(s) \/ FarewellBegin(s) \/ FarewellCut(s)
      PROVE FarewellInv'
  BY <1>0, <1>7 DEF Tick, Leave, FarewellBegin, FarewellCut, TypeOK
<1>8. ASSUME NEW s \in Screens, FarewellFrame(s) PROVE FarewellInv'
  BY <1>0, <1>8 DEF FarewellFrame, TypeOK, Torn, Goodbye
<1>9. ASSUME NEW s \in Screens, FarewellStatus(s) PROVE FarewellInv'
  BY <1>0, <1>9 DEF FarewellStatus, TypeOK
<1>10. CASE UNCHANGED vars
  BY <1>0, <1>10 DEF vars
<1> QED BY <1>1, <1>2, <1>3, <1>4, <1>5, <1>6, <1>7, <1>8, <1>9, <1>10
       DEF Next, Worker, Refresh, Farewell

-----------------------------------------------------------------------------
\* The parts of the invariant hold of every state of every run.
THEOREM Invariant == Spec => []IInv
<1>1. IInv /\ [Next]_vars => IInv'
  BY TypeStep, FlightStep, LoopStep, PreviewStep, ShutdownStep, FarewellStep DEF IInv
<1> QED BY InitInv, <1>1, PTL DEF Spec

\* The types of the manager's state and of the workers' locals.
THEOREM TypeCorrect == Spec => []TypeOK
<1>1. IInv => TypeOK
  BY DEF IInv
<1> QED BY Invariant, <1>1, PTL

\* A live screen shows the assignment it has now, however Assign and the refreshes
\* of any number of displays interleave.
THEOREM LiveShows == Spec => []LiveShowsAssignment
<1>1. IInv => LiveShowsAssignment
  BY DEF IInv, LoopInv, LiveShowsAssignment, Shows
<1> QED BY Invariant, <1>1, PTL

\* No preview is skipped that was not written for the present assignment.
THEOREM PreviewKept == Spec => []SavedHasPreview
<1>1. IInv => SavedHasPreview
  BY DEF IInv, PreviewInv, SavedHasPreview
<1> QED BY Invariant, <1>1, PTL

\* A live screen shows its present assignment, and a preview is skipped only
\* once the one of that assignment is on disk.
THEOREM TellsTruth == Spec => []ScreenTellsTruth
<1> QED BY LiveShows, PreviewKept, PTL DEF ScreenTellsTruth

\* "stopped" is only said of a panel that shows the last farewell frame, and no worker
\* leaves a panel with any behind that is said to be live or in error.
THEOREM FarewellTold == Spec => []FarewellReported
<1>1. IInv => FarewellReported
  BY DEF IInv, FarewellInv, FarewellReported
<1> QED BY Invariant, <1>1, PTL

\* Nothing is sent, and no worker moves, once the driver is closed.
THEOREM ClosedLast == Spec => DriverOutlivesWorkers
<1>1. IInv /\ [Next]_vars => [driver = "closed" => UNCHANGED <<worker, panel>>]_vars
  BY ShutdownStep
<1> QED BY Invariant, <1>1, PTL DEF Spec, DriverOutlivesWorkers

-----------------------------------------------------------------------------
(* The USB driver. *)

\* Display d holds a native handle.
Held(d) == connection[d] \in {"open", "stale"}

\* A call that is still looking for its display holds nothing, one that transfers
\* has a connection, and a display other than a Cyclops keeps none between frames.
DriverCallInv ==
    \A d \in Displays :
        /\ handles[d] = IF Held(d) THEN 1 ELSE 0
        /\ call[d] \in {"discover", "acquire"} => ~Held(d)
        /\ call[d] = "transfer" => connection[d] # "nil"
        /\ d \notin Cyclops => connection[d] # "typed nil"
        /\ call[d] = "idle" /\ d \notin Cyclops => connection[d] = "nil"

\* Nothing is under way, and nothing held, once the driver is closed.
DriverClosedInv == closed => \A d \in Displays : call[d] = "idle" /\ connection[d] = "nil"

\* The inductive invariant of the driver.
DriverInv == DriverTypeOK /\ DriverCallInv /\ DriverClosedInv

-----------------------------------------------------------------------------
\* The driver starts without a handle.
LEMMA DriverStart == DriverInit => DriverInv
<1> SUFFICES ASSUME DriverInit PROVE DriverInv
  OBVIOUS
<1>1. closed \in BOOLEAN /\ crashed \in BOOLEAN /\ plugged \in [Displays -> BOOLEAN]
  BY Zenon DEF DriverInit
<1>2. DriverTypeOK
  BY <1>1, USBAssumption DEF DriverInit, DriverTypeOK, Connections
<1>3. \A d \in Displays : handles[d] = 0 /\ connection[d] = "nil" /\ call[d] = "idle"
  BY DEF DriverInit
<1>4. DriverCallInv
  BY <1>3 DEF DriverCallInv, Held
<1>5. DriverClosedInv
  BY <1>3 DEF DriverClosedInv
<1> QED BY <1>2, <1>4, <1>5 DEF DriverInv

\* Every step keeps types, handles and the closed driver.
LEMMA DriverStep == ASSUME DriverInv, [DriverNext]_driverVars PROVE DriverInv'
<1> USE USBAssumption
<1>0. DriverTypeOK /\ DriverCallInv /\ DriverClosedInv
  BY DEF DriverInv
<1>1. ASSUME NEW d \in Displays, Begin(d) PROVE DriverInv'
  <2>1. DriverTypeOK'
    BY <1>0, <1>1 DEF DriverTypeOK, Begin, Enter, Return, Fault
  <2>2. PICK p \in {"idle", "discover", "transfer"} :
               /\ call' = [call EXCEPT ![d] = p]
               /\ p = "discover" => connection[d] = "nil" \/ d \notin Cyclops
               /\ p = "transfer" => connection[d] # "nil"
    BY <1>1, Zenon DEF Begin, Enter, Return
  <2>3. call[d] = "idle" /\ ~closed /\ UNCHANGED <<connection, handles, closed>>
    BY <1>1 DEF Begin
  <2>4. d \notin Cyclops => connection[d] = "nil"
    BY <1>0, <2>3 DEF DriverCallInv
  <2>5. DriverCallInv' /\ DriverClosedInv'
    BY <1>0, <2>2, <2>3, <2>4 DEF DriverTypeOK, DriverCallInv, DriverClosedInv, Held
  <2> QED BY <2>1, <2>5 DEF DriverInv
<1>2. ASSUME NEW d \in Displays, Discover(d) PROVE DriverInv'
  <2>1. DriverTypeOK'
    BY <1>0, <1>2 DEF DriverTypeOK, Discover, Enter, Return, Fault
  <2>2. connection[d] = "nil" \/ d \in Cyclops
    BY <1>0, <1>2 DEF DriverCallInv, DriverTypeOK, Held, Connections, Discover
  <2>3. PICK p \in {"idle", "acquire"} : call' = [call EXCEPT ![d] = p]
    BY <1>2, Zenon DEF Discover, Enter, Return
  <2>4. call[d] = "discover" /\ UNCHANGED <<connection, handles, closed>>
    BY <1>2 DEF Discover
  <2>5. ~Held(d) /\ ~closed /\ (d \notin Cyclops => connection[d] = "nil")
    BY <1>0, <2>2, <2>4 DEF DriverCallInv, DriverClosedInv
  <2>6. DriverCallInv' /\ DriverClosedInv'
    BY <1>0, <2>3, <2>4, <2>5 DEF DriverTypeOK, DriverCallInv, DriverClosedInv, Held
  <2> QED BY <2>1, <2>6 DEF DriverInv
<1>3. ASSUME NEW d \in Displays, Open(d) PROVE DriverInv'
  <2>1. handles[d] = 0 /\ ~closed /\ ~closed'
    BY <1>0, <1>3 DEF DriverCallInv, DriverClosedInv, Open
  <2>2. PICK c \in Connections, n \in {0, 1}, p \in {"idle", "transfer"} :
               /\ connection' = [connection EXCEPT ![d] = c]
               /\ handles' = [handles EXCEPT ![d] = n]
               /\ call' = [call EXCEPT ![d] = p]
               /\ \/ c = "open" /\ n = 1 /\ p = "transfer"
                  \/ c = "nil" /\ n = 0 /\ p = "idle"
                  \/ c = "typed nil" /\ n = 0 /\ p = "idle" /\ d \in Cyclops
    <3>1. CASE /\ connection' = [connection EXCEPT ![d] = "open"]
               /\ handles' = [handles EXCEPT ![d] = @ + 1]
               /\ Enter(d, "transfer")
      <4>1. handles' = [handles EXCEPT ![d] = 1]
        BY <2>1, <3>1
      <4> QED BY <3>1, <4>1 DEF Enter, Connections
    <3>2. CASE OpenFailed(d) /\ Enter(d, "idle") /\ UNCHANGED handles
      <4>1. handles' = [handles EXCEPT ![d] = 0]
        BY <1>0, <2>1, <3>2 DEF DriverTypeOK
      <4> QED BY <3>2, <4>1 DEF OpenFailed, Enter, Connections
    <3> QED BY <1>3, <3>1, <3>2 DEF Open, Return
  <2>3. outcome' \in [Displays -> {"none", "ok", "error"}] /\ faults' \in 0 .. MaxFaults
    BY <1>0, <1>3 DEF DriverTypeOK, Open, Return, Fault
  <2>4. UNCHANGED <<opener, plugged, closed, crashed, plugs>>
    BY <1>3 DEF Open
  <2>5. DriverTypeOK'
    <3>0. n \in Nat
      OBVIOUS
    <3>1. connection' \in [Displays -> Connections] /\ handles' \in [Displays -> Nat]
      BY <1>0, <2>2, <3>0 DEF DriverTypeOK
    <3>2. call' \in [Displays -> {"idle", "discover", "acquire", "transfer"}]
      BY <1>0, <2>2 DEF DriverTypeOK
    <3>3. closed' \in BOOLEAN /\ crashed' \in BOOLEAN /\ plugged' \in [Displays -> BOOLEAN]
      BY <1>0, <2>4, Zenon DEF DriverTypeOK
    <3> QED BY <1>0, <2>3, <2>4, <3>1, <3>2, <3>3 DEF DriverTypeOK
  <2>6. DriverCallInv'
    BY <1>0, <2>2 DEF DriverTypeOK, DriverCallInv, Held
  <2> QED BY <2>1, <2>5, <2>6 DEF DriverInv, DriverClosedInv
<1>4. ASSUME NEW d \in Displays, Transfer(d) PROVE DriverInv'
  <2>1. handles[d] = 1 /\ connection[d] \in {"open", "stale"} /\ ~closed /\ ~closed'
    BY <1>0, <1>4
       DEF DriverTypeOK, Connections, DriverCallInv, DriverClosedInv, Held, Transfer
  <2>2. PICK c \in Connections, n \in {0, 1} :
               /\ connection' = [connection EXCEPT ![d] = c]
               /\ handles' = [handles EXCEPT ![d] = n]
               /\ call' = [call EXCEPT ![d] = "idle"]
               /\ \/ c \in {"open", "stale"} /\ n = 1 /\ d \in Cyclops
                  \/ c = "nil" /\ n = 0
    <3>1. CASE UNCHANGED <<connection, handles>> /\ d \in Cyclops /\ Enter(d, "idle")
      <4>1. connection' = [connection EXCEPT ![d] = connection[d]]
            /\ handles' = [handles EXCEPT ![d] = 1]
        BY <1>0, <2>1, <3>1 DEF DriverTypeOK
      <4> QED BY <2>1, <3>1, <4>1 DEF Enter, Connections
    <3>2. CASE CloseConnection(d) /\ Enter(d, "idle")
      <4>1. handles' = [handles EXCEPT ![d] = 0]
        BY <2>1, <3>2 DEF CloseConnection
      <4> QED BY <3>2, <4>1 DEF CloseConnection, Enter, Connections
    <3> QED BY <1>4, <3>1, <3>2 DEF Transfer, Return
  <2>3. outcome' \in [Displays -> {"none", "ok", "error"}] /\ faults' \in 0 .. MaxFaults
    <3>1. outcome' = [outcome EXCEPT ![d] = "ok"] \/ outcome' = [outcome EXCEPT ![d] = "error"]
      BY <1>4 DEF Transfer, Return
    <3>2. faults' = faults \/ (faults < MaxFaults /\ faults' = faults + 1)
      BY <1>4, Zenon DEF Transfer, Fault
    <3>3. faults' \in 0 .. MaxFaults
      BY <1>0, <3>2 DEF DriverTypeOK
    <3> QED BY <1>0, <3>1, <3>3 DEF DriverTypeOK
  <2>4. UNCHANGED <<opener, plugged, closed, crashed, plugs>>
    BY <1>4 DEF Transfer
  <2>5. DriverTypeOK'
    <3>0. n \in Nat
      OBVIOUS
    <3>1. connection' \in [Displays -> Connections] /\ handles' \in [Displays -> Nat]
      BY <1>0, <2>2, <3>0 DEF DriverTypeOK
    <3>2. call' \in [Displays -> {"idle", "discover", "acquire", "transfer"}]
      BY <1>0, <2>2 DEF DriverTypeOK
    <3>3. closed' \in BOOLEAN /\ crashed' \in BOOLEAN /\ plugged' \in [Displays -> BOOLEAN]
      BY <1>0, <2>4, Zenon DEF DriverTypeOK
    <3> QED BY <1>0, <2>3, <2>4, <3>1, <3>2, <3>3 DEF DriverTypeOK
  <2>6. DriverCallInv'
    BY <1>0, <2>2 DEF DriverTypeOK, DriverCallInv, Held
  <2> QED BY <2>1, <2>5, <2>6 DEF DriverInv, DriverClosedInv
<1>5. CASE (\E d \in Displays : TransferNil(d)) \/ CloseNil
  <2>1. /\ UNCHANGED <<opener, call, connection, handles, plugged, outcome, closed, faults, plugs>>
        /\ crashed' = TRUE
    BY <1>5 DEF TransferNil, CloseNil, Crash
  <2> QED BY <1>0, <2>1 DEF DriverInv, DriverTypeOK, DriverCallInv, DriverClosedInv, Held
<1>6. CASE Close
  <2>1. \A d \in Displays : connection[d] \in {"nil", "open", "stale"} /\ call[d] = "idle"
    BY <1>0, <1>6 DEF DriverTypeOK, Connections, Close
  <2>2. handles' = [d \in Displays |-> 0]
    <3>1. \A d \in Displays : (IF connection[d] = "nil" THEN handles[d] ELSE handles[d] - 1) = 0
      <4> SUFFICES ASSUME NEW d \in Displays
                   PROVE  (IF connection[d] = "nil" THEN handles[d] ELSE handles[d] - 1) = 0
        OBVIOUS
      <4>1. CASE connection[d] = "nil"
        BY <1>0, <4>1 DEF DriverCallInv, Held
      <4>2. CASE connection[d] # "nil"
        <5>1. handles[d] = 1
          BY <1>0, <2>1, <4>2 DEF DriverCallInv, Held
        <5> QED BY <4>2, <5>1
      <4> QED BY <4>1, <4>2
    <3> QED BY <1>6, <3>1 DEF Close
  <2>3. DriverTypeOK'
    <3>1. plugged' \in [Displays -> BOOLEAN] /\ closed' \in BOOLEAN /\ crashed' \in BOOLEAN
      BY <1>0, <1>6, Zenon DEF DriverTypeOK, Close
    <3>2. connection' \in [Displays -> Connections] /\ handles' \in [Displays -> Nat]
      <4>1. connection' = [d \in Displays |-> "nil"] /\ "nil" \in Connections /\ 0 \in Nat
        BY <1>6 DEF Close, Connections
      <4> QED BY <2>2, <4>1, Zenon
    <3>3. UNCHANGED <<opener, call, outcome, faults, plugs>>
      BY <1>6 DEF Close
    <3> QED BY <1>0, <3>1, <3>2, <3>3 DEF DriverTypeOK
  <2>4. DriverCallInv' /\ DriverClosedInv'
    BY <1>0, <1>6, <2>1, <2>2 DEF DriverCallInv, DriverClosedInv, Held, Close
  <2> QED BY <2>3, <2>4 DEF DriverInv
<1>7. ASSUME NEW d \in Displays, Unplug(d) PROVE DriverInv'
  <2>1. plugged' \in [Displays -> BOOLEAN]
    BY <1>0, <1>7, Zenon DEF DriverTypeOK, Unplug
  <2>2. plugs' \in [Displays -> 0 .. MaxPlugs]
    BY <1>0, <1>7 DEF DriverTypeOK, Unplug
  <2>3. connection' \in [Displays -> Connections]
    BY <1>0, <1>7 DEF DriverTypeOK, Unplug, Connections
  <2>4. DriverTypeOK'
    BY <1>0, <1>7, <2>1, <2>2, <2>3 DEF DriverTypeOK, Unplug
  <2>5. DriverCallInv' /\ DriverClosedInv'
    BY <1>0, <1>7 DEF DriverTypeOK, DriverCallInv, DriverClosedInv, Held, Unplug, Connections
  <2> QED BY <2>4, <2>5 DEF DriverInv
<1>8. ASSUME NEW d \in Displays, Plug(d) PROVE DriverInv'
  <2>1. plugged' \in [Displays -> BOOLEAN]
    BY <1>0, <1>8, Zenon DEF DriverTypeOK, Plug
  <2> QED BY <1>0, <1>8, <2>1
     DEF DriverInv, DriverTypeOK, DriverCallInv, DriverClosedInv, Held, Plug
<1>9. CASE UNCHANGED driverVars
  BY <1>0, <1>9 DEF DriverInv, DriverTypeOK, DriverCallInv, DriverClosedInv, Held, driverVars
<1> QED BY <1>1, <1>2, <1>3, <1>4, <1>5, <1>6, <1>7, <1>8, <1>9 DEF DriverNext, SendFrame

-----------------------------------------------------------------------------
\* Types, handles and the closed driver, in every state.
THEOREM DriverInvariant == DriverSpec => []DriverInv
BY DriverStart, DriverStep, PTL DEF DriverSpec

\* The driver's variables keep their types: no handle is closed twice.
THEOREM DriverTypes == DriverSpec => []DriverTypeOK
<1>1. DriverInv => DriverTypeOK
  BY DEF DriverInv
<1> QED BY DriverInvariant, <1>1, PTL

\* No handle is leaked, whatever fails and whichever cables are pulled.
THEOREM HandlesKept == DriverSpec => []HandlesOwned
<1>1. DriverInv => HandlesOwned
  BY DEF DriverInv, DriverCallInv, DriverClosedInv, Held, HandlesOwned
<1> QED BY DriverInvariant, <1>1, PTL

-----------------------------------------------------------------------------
(* The display protocol. *)

\* Every command or reply of a queue has the tag.
AllFrom(queue, tag) == \A i \in 1 .. Len(queue) : queue[i].from = tag

\* The codes of a queue are among these.
Codes(queue, codes) == \A i \in 1 .. Len(queue) : queue[i].code \in codes

\* The firmware holds pixel writes of one frame, or of none.
Keeps(tag) == \A i \in 1 .. Len(memory) : memory[i] = tag

\* What was counted has not reached its limit.
CountInv ==
    /\ step = 0 \/ At("write") => reads = 0 /\ empties = 0
    /\ At("drain") => reads < DrainLimit /\ empties = 0
    /\ At("await") => reads < ReadLimit /\ empties < EmptyLimit

\* A fan's frame starts from an empty endpoint and an empty memory: the drain leaves the
\* one, the awaited reset the other.
FanInv ==
    /\ screen \in Tag
    /\ Codes(inbox, {"stop", "reset", "pixels"})
    /\ \E tag \in Tag :
          Keeps(tag) /\ \A i \in 1 .. Len(inbox) : inbox[i].code = "pixels" => inbox[i].from = tag
    /\ step \in 1 .. 4 => Keeps("old")
    /\ step = 1 => AllFrom(inbox, "old")
    /\ step \in 2 .. 3 => outbox = <<>> /\ Codes(inbox, {"stop"})
    /\ step = 4 =>
          /\ Codes(inbox, {"stop", "reset"})
          /\ \A i \in 1 .. Len(inbox) : inbox[i].code = "reset" => i = Len(inbox)
          /\ outbox = <<>> \/ (Len(outbox) = 1 /\ inbox = <<>> /\ memory = <<>>)
    /\ step > 4 =>
          /\ Keeps("mine") /\ AllFrom(inbox, "mine") /\ Codes(inbox, {"pixels"})
          /\ Len(inbox) + Len(memory) <= step - 5
          /\ \/ outbox = <<>>
             \/ /\ step = Chunks + 5 /\ Len(outbox) = 1 /\ inbox = <<>> /\ memory = <<>>
                /\ outbox[1].code = "pixels" => screen = "mine"
    /\ step = 0 /\ result = "ok" => inbox = <<>> /\ screen = "mine"

\* The image of a pump's frame is its last command, and the reply to it comes when the
\* firmware has taken everything.
PumpInv ==
    /\ screen # "mixed"
    /\ Codes(inbox, {"mode", "clear", "image"})
    /\ step > 0 =>
          /\ \A i \in 1 .. Len(inbox) :
                inbox[i].code = "image" /\ inbox[i].from = "mine" => step = 6 /\ i = Len(inbox)
          /\ \A i \in 1 .. Len(outbox) :
                outbox[i].code = "image" /\ outbox[i].from = "mine" =>
                    step = 6 /\ inbox = <<>> /\ screen = "mine"
    /\ step = 0 /\ result = "ok" => inbox = <<>> /\ screen = "mine"

\* The first k commands are of earlier frames; after them come the start and the pixels of
\* this one, or only pixels when the firmware has taken the start.
Cut(k) ==
    /\ \A i \in 1 .. Len(inbox) : inbox[i].from = IF i <= k THEN "old" ELSE "mine"
    /\ \/ k = 0 /\ Keeps("mine") /\ Codes(inbox, {"pixels"})
       \/ /\ Keeps("old")
          /\ IF k = Len(inbox) THEN step <= 1 ELSE inbox[k + 1].code = "start"
          /\ \A i \in 1 .. Len(inbox) : i > k + 1 => inbox[i].code = "pixels"

CyclopsInv ==
    /\ screen \in Tag
    /\ Codes(inbox, {"start", "pixels"})
    /\ \E k \in 0 .. Len(inbox) : Cut(k)
    /\ step = 1 => Keeps("old") /\ AllFrom(inbox, "old")

FrameInv ==
    /\ FrameTypeOK /\ CountInv
    /\ kind = "fan" => FanInv
    /\ kind = "pump" => PumpInv
    /\ kind = "cyclops" => CyclopsInv

-----------------------------------------------------------------------------
\* The parameters, one by one.
LEMMA DisplayParameters ==
    /\ Kinds \subseteq {"fan", "pump", "cyclops"}
    /\ Chunks \in Nat \ {0} /\ ReadLimit \in Nat \ {0} /\ DrainLimit \in Nat \ {0}
    /\ EmptyLimit \in Nat \ {0} /\ Buffer \in Nat \ {0}
    /\ Leftovers \in Nat /\ MaxGlitches \in Nat
BY DisplayAssumption

\* What taking the head of a queue leaves.
LEMMA HeadTaken ==
    ASSUME NEW S, NEW q \in Seq(S), q # <<>>
    PROVE  /\ Len(q) \in Nat \ {0} /\ Head(q) = q[1] /\ q[1] \in S
           /\ Tail(q) \in Seq(S) /\ Len(Tail(q)) = Len(q) - 1
           /\ \A i \in 1 .. Len(q) - 1 : Tail(q)[i] = q[i + 1]
           /\ Tail(q) = <<>> <=> Len(q) = 1
<1>1. Len(q) \in Nat \ {0} /\ Head(q) = q[1] /\ q[1] \in S
  BY LenProperties, HeadTailProperties
<1>2. /\ Tail(q) \in Seq(S) /\ Len(Tail(q)) = Len(q) - 1
      /\ \A i \in 1 .. Len(Tail(q)) : Tail(q)[i] = q[i + 1]
  BY HeadTailProperties
<1>3. Tail(q) = <<>> <=> Len(Tail(q)) = 0
  BY <1>2, EmptySeq
<1> QED BY <1>1, <1>2, <1>3

\* What appending to a queue makes.
LEMMA Appended ==
    ASSUME NEW S, NEW q \in Seq(S), NEW e \in S
    PROVE  /\ Len(q) \in Nat
           /\ Append(q, e) \in Seq(S) /\ Len(Append(q, e)) = Len(q) + 1
           /\ Append(q, e) # <<>>
           /\ \A i \in 1 .. Len(q) : Append(q, e)[i] = q[i]
           /\ Append(q, e)[Len(q) + 1] = e
BY AppendProperties

\* The pixel writes of a frame.
LEMMA PixelWrites ==
    LET S == {Drain, Put("stop"), Put("reset"), Expect("reset"), Put("pixels"), Expect("pixels"),
              Put("start")}
    IN  /\ Pixels \in Seq(S) /\ Len(Pixels) = Chunks
        /\ \A i \in 1 .. Chunks : Pixels[i] = Put("pixels")
BY DisplayParameters DEF Pixels

\* Two sequences, one after the other.
LEMMA Joined ==
    ASSUME NEW S, NEW p \in Seq(S), NEW q \in Seq(S)
    PROVE  /\ Len(p) \in Nat /\ Len(q) \in Nat /\ Len(p \o q) = Len(p) + Len(q)
           /\ \A i \in 1 .. Len(p) : (p \o q)[i] = p[i]
           /\ \A i \in 1 .. Len(q) : (p \o q)[Len(p) + i] = q[i]
<1>1. /\ p \o q \in Seq(S) /\ Len(p \o q) = Len(p) + Len(q)
      /\ \A i \in 1 .. Len(p) + Len(q) :
            (p \o q)[i] = IF i <= Len(p) THEN p[i] ELSE q[i - Len(p)]
  BY ConcatProperties
<1>2. Len(p) \in Nat /\ Len(q) \in Nat
  BY LenProperties
<1> DEFINE m == Len(p)
           n == Len(q)
           joined == p \o q
<1> HIDE DEF m, n, joined
<1>3. \A i \in 1 .. m + n : joined[i] = IF i <= m THEN p[i] ELSE q[i - m]
  BY <1>1 DEF m, n, joined
<1>4. m \in Nat /\ n \in Nat
  BY <1>2 DEF m, n
<1>5. ASSUME NEW i \in 1 .. n
      PROVE  joined[m + i] = q[i]
  <2>1. m + i \in 1 .. m + n /\ ~(m + i <= m) /\ m + i - m = i
    BY <1>4
  <2> QED BY <1>3, <1>4, <2>1
<1>6. ASSUME NEW i \in 1 .. m
      PROVE  joined[i] = p[i]
  <2>1. i \in 1 .. m + n /\ i <= m
    BY <1>4
  <2> QED BY <1>3, <2>1
<1> QED BY <1>1, <1>2, <1>5, <1>6 DEF m, n, joined

\* The steps of a fan's frame.
LEMMA FanScript ==
    LET script == Script("fan")
    IN  /\ Len(script) = Chunks + 5
        /\ script[1] = Drain /\ script[2] = Put("stop") /\ script[3] = Put("reset")
        /\ script[4] = Expect("reset") /\ script[Chunks + 5] = Expect("pixels")
        /\ \A i \in 5 .. Chunks + 4 : script[i] = Put("pixels")
<1> DEFINE S == {Drain, Put("stop"), Put("reset"), Expect("reset"), Put("pixels"),
                 Expect("pixels"), Put("start")}
           first == <<Drain, Put("stop"), Put("reset"), Expect("reset")>>
           last == <<Expect("pixels")>>
           most == first \o Pixels
           script == most \o last
<1>1. first \in Seq(S) /\ Len(first) = 4 /\ last \in Seq(S) /\ Len(last) = 1
  OBVIOUS
<1>2. /\ first[1] = Drain /\ first[2] = Put("stop") /\ first[3] = Put("reset")
      /\ first[4] = Expect("reset") /\ last[1] = Expect("pixels")
  OBVIOUS
<1>3. Pixels \in Seq(S) /\ Len(Pixels) = Chunks /\ \A i \in 1 .. Chunks : Pixels[i] = Put("pixels")
  BY PixelWrites
<1>4. Chunks \in Nat \ {0}
  BY DisplayParameters
<1>5. Script("fan") = script
  BY DEF Script
<1> HIDE DEF S, first, last, most, script
<1>6. /\ most \in Seq(S) /\ Len(most) = Len(first) + Len(Pixels)
      /\ \A i \in 1 .. Len(first) : most[i] = first[i]
      /\ \A i \in 1 .. Len(Pixels) : most[Len(first) + i] = Pixels[i]
  <2>1. first \in Seq(S) /\ Pixels \in Seq(S)
    BY <1>1, <1>3
  <2>2. most \in Seq(S)
    BY <2>1, ConcatProperties DEF most
  <2>3. /\ Len(first \o Pixels) = Len(first) + Len(Pixels)
        /\ \A i \in 1 .. Len(first) : (first \o Pixels)[i] = first[i]
        /\ \A i \in 1 .. Len(Pixels) : (first \o Pixels)[Len(first) + i] = Pixels[i]
    BY <2>1, Joined
  <2> QED BY <2>2, <2>3 DEF most
<1>7. /\ Len(script) = Len(most) + Len(last)
      /\ \A i \in 1 .. Len(most) : script[i] = most[i]
      /\ \A i \in 1 .. Len(last) : script[Len(most) + i] = last[i]
  <2>1. most \in Seq(S) /\ last \in Seq(S)
    BY <1>1, <1>6
  <2>2. /\ Len(most \o last) = Len(most) + Len(last)
        /\ \A i \in 1 .. Len(most) : (most \o last)[i] = most[i]
        /\ \A i \in 1 .. Len(last) : (most \o last)[Len(most) + i] = last[i]
    BY <2>1, Joined
  <2> QED BY <2>2 DEF script
<1>8. script[Chunks + 5] = last[1] /\ Len(script) = Chunks + 5
  <2>1. Len(most) = Chunks + 4 /\ 1 \in 1 .. Len(last) /\ Len(most) + 1 = Chunks + 5
    BY <1>1, <1>3, <1>4, <1>6
  <2> QED BY <1>1, <1>7, <2>1
<1>9. script[1] = first[1] /\ script[2] = first[2] /\ script[3] = first[3] /\ script[4] = first[4]
  <2>1. \A i \in {1, 2, 3, 4} : i \in 1 .. Len(first) /\ i \in 1 .. Len(most)
    BY <1>1, <1>3, <1>4, <1>6
  <2> QED BY <1>6, <1>7, <2>1
<1>10. ASSUME NEW i \in 5 .. Chunks + 4
       PROVE  script[i] = Put("pixels")
  <2>1. i \in 1 .. Len(most) /\ i - 4 \in 1 .. Len(Pixels) /\ Len(first) + (i - 4) = i
    BY <1>1, <1>3, <1>4, <1>6
  <2>2. most[Len(first) + (i - 4)] = Pixels[i - 4] /\ Pixels[i - 4] = Put("pixels")
    BY <1>3, <1>6, <2>1
  <2> QED BY <1>7, <2>1, <2>2
<1> QED BY <1>2, <1>5, <1>8, <1>9, <1>10

\* The steps of a Cyclops's frame.
LEMMA CyclopsScript ==
    LET script == Script("cyclops")
    IN  /\ Len(script) = Chunks + 1
        /\ script[1] = Put("start")
        /\ \A i \in 2 .. Chunks + 1 : script[i] = Put("pixels")
<1> DEFINE S == {Drain, Put("stop"), Put("reset"), Expect("reset"), Put("pixels"),
                 Expect("pixels"), Put("start")}
           first == <<Put("start")>>
           script == first \o Pixels
<1>1. first \in Seq(S) /\ Len(first) = 1 /\ first[1] = Put("start")
  OBVIOUS
<1>2. Pixels \in Seq(S) /\ Len(Pixels) = Chunks /\ \A i \in 1 .. Chunks : Pixels[i] = Put("pixels")
  BY PixelWrites
<1>3. Chunks \in Nat \ {0}
  BY DisplayParameters
<1>4. Script("cyclops") = script
  BY DEF Script
<1> HIDE DEF S, first, script
<1>5. /\ Len(script) = Len(first) + Len(Pixels)
      /\ \A i \in 1 .. Len(first) : script[i] = first[i]
      /\ \A i \in 1 .. Len(Pixels) : script[Len(first) + i] = Pixels[i]
  <2>1. first \in Seq(S) /\ Pixels \in Seq(S)
    BY <1>1, <1>2
  <2>2. /\ Len(first \o Pixels) = Len(first) + Len(Pixels)
        /\ \A i \in 1 .. Len(first) : (first \o Pixels)[i] = first[i]
        /\ \A i \in 1 .. Len(Pixels) : (first \o Pixels)[Len(first) + i] = Pixels[i]
    BY <2>1, Joined
  <2> QED BY <2>2 DEF script
<1>6. Len(script) = Chunks + 1 /\ script[1] = first[1]
  BY <1>1, <1>2, <1>3, <1>5
<1>7. ASSUME NEW i \in 2 .. Chunks + 1
      PROVE  script[i] = Put("pixels")
  <2>1. i - 1 \in 1 .. Len(Pixels) /\ Len(first) + (i - 1) = i
    BY <1>1, <1>2, <1>3
  <2>2. script[Len(first) + (i - 1)] = Pixels[i - 1] /\ Pixels[i - 1] = Put("pixels")
    BY <1>2, <1>5, <2>1
  <2> QED BY <2>1, <2>2
<1> QED BY <1>1, <1>4, <1>6, <1>7

\* Where a host is in its frame, and what it writes or waits for there.
Place ==
    /\ kind = "fan" =>
          /\ Len(Script(kind)) = Chunks + 5
          /\ At("drain") <=> step = 1
          /\ At("write") <=> step \in 2 .. 3 \/ step \in 5 .. Chunks + 4
          /\ At("await") <=> step \in {4, Chunks + 5}
          /\ step = 2 => Wanted = "stop"
          /\ step \in 3 .. 4 => Wanted = "reset"
          /\ step > 4 => Wanted = "pixels"
    /\ kind = "pump" =>
          /\ Len(Script(kind)) = 6
          /\ ~At("drain")
          /\ At("write") <=> step \in {1, 3, 5}
          /\ At("await") <=> step \in {2, 4, 6}
          /\ step \in 1 .. 2 => Wanted = "mode"
          /\ step \in 3 .. 4 => Wanted = "clear"
          /\ step \in 5 .. 6 => Wanted = "image"
    /\ kind = "cyclops" =>
          /\ Len(Script(kind)) = Chunks + 1
          /\ ~At("drain") /\ ~At("await")
          /\ At("write") <=> step > 0
          /\ step = 1 => Wanted = "start"
          /\ step > 1 => Wanted = "pixels"

\* Each step of a script is what Script says there.
LEMMA Places ==
    ASSUME kind \in Kinds, step \in 0 .. Len(Script(kind))
    PROVE  Place /\ Len(Script(kind)) \in Nat /\ step \in Nat
<1> USE DEF At, Wanted, Drain, Put, Expect, Place
<1>0. Chunks \in Nat \ {0}
  BY DisplayParameters
<1>1. CASE kind = "fan"
  <2>1. step \in 0 .. Chunks + 5
    BY <1>1, FanScript
  <2>2. \A i \in 5 .. Chunks + 4 : Script(kind)[i] = Put("pixels")
    BY <1>1, FanScript
  <2>3. CASE step \in 0 .. 4
    BY <1>0, <1>1, <2>1, <2>3, FanScript
  <2>4. CASE step \in 5 .. Chunks + 4
    BY <1>0, <1>1, <2>1, <2>2, <2>4, FanScript
  <2>5. CASE step = Chunks + 5
    BY <1>0, <1>1, <2>1, <2>5, FanScript
  <2> QED BY <1>0, <2>1, <2>3, <2>4, <2>5
<1>2. CASE kind = "pump"
  <2>1. Script(kind) = <<Put("mode"), Expect("mode"), Put("clear"), Expect("clear"),
                         Put("image"), Expect("image")>>
    BY <1>2 DEF Script
  <2>2. Len(Script(kind)) = 6 /\ step \in 0 .. 6
    BY <2>1
  <2> QED BY <1>2, <2>1, <2>2
<1>3. CASE kind = "cyclops"
  <2>1. step \in 0 .. Chunks + 1
    BY <1>3, CyclopsScript
  <2> QED BY <1>3, <2>1, CyclopsScript, DisplayParameters
<1> QED BY <1>1, <1>2, <1>3, DisplayParameters

\* Where a host is, for a state of the invariant.
LEMMA Placed ==
    ASSUME FrameInv
    PROVE  Place /\ Len(Script(kind)) \in Nat /\ step \in Nat /\ step <= Len(Script(kind))
           /\ kind \in {"fan", "pump", "cyclops"}
<1>1. kind \in Kinds /\ step \in 0 .. Len(Script(kind))
  BY DEF FrameInv, FrameTypeOK
<1>2. Place /\ Len(Script(kind)) \in Nat /\ step \in Nat
  BY <1>1, Places
<1> QED BY <1>1, <1>2, DisplayParameters

\* The invariant holds of a device before the first frame.
LEMMA FrameStart == FrameInit => FrameInv
<1> SUFFICES ASSUME FrameInit
             PROVE  FrameInv
  OBVIOUS
<1>1. step = 0 /\ kind \in Kinds /\ inbox = <<>> /\ screen = "old" /\ result = "none"
  BY DEF FrameInit
<1>2. Len(Script(kind)) \in Nat
  <2>1. CASE kind = "fan"
    BY <2>1, FanScript, DisplayParameters
  <2>2. CASE kind = "pump"
    BY <2>2 DEF Script
  <2>3. CASE kind = "cyclops"
    BY <2>3, CyclopsScript, DisplayParameters
  <2> QED BY <1>1, <2>1, <2>2, <2>3, DisplayParameters
<1>3. Place
  BY <1>1, <1>2, Places
<1>4. memory \in Seq(Tag) /\ Len(memory) < Chunks /\ Keeps("old")
  <2>1. memory = <<>> \/ (memory = <<"old">> /\ Chunks > 1)
    BY DEF FrameInit
  <2>2. CASE memory = <<>>
    BY <2>2, DisplayParameters DEF Keeps
  <2>3. CASE memory = <<"old">> /\ Chunks > 1
    <3>1. <<"old">> \in Seq(Tag) /\ Len(<<"old">>) = 1 /\ <<"old">>[1] = "old"
      BY DEF Tag
    <3> QED BY <2>3, <3>1, DisplayParameters DEF Keeps
  <2> QED BY <2>1, <2>2, <2>3
<1>5. outbox \in Seq(Reply)
  <2>1. Queued(kind) \subseteq Reply
    BY DEF Queued, Reply, Tag
  <2>2. PICK n \in 0 .. Leftovers : outbox \in [1 .. n -> Queued(kind)]
    BY DEF FrameInit
  <2>3. outbox \in [1 .. n -> Reply]
    BY <2>1, <2>2
  <2> QED BY <2>2, <2>3, DisplayParameters, SeqDef
<1>6. FrameTypeOK
  BY <1>1, <1>2, <1>4, <1>5, DisplayParameters DEF FrameTypeOK, FrameInit
<1>7. CountInv
  BY <1>1 DEF CountInv, At, FrameInit
<1>8. FanInv
  BY <1>1, <1>4 DEF FanInv, Codes, Tag
<1>9. PumpInv
  BY <1>1 DEF PumpInv, Codes
<1>10. CyclopsInv
  <2>1. 0 \in 0 .. Len(inbox) /\ Cut(0)
    BY <1>1, <1>4 DEF Cut
  <2> QED BY <1>1, <2>1 DEF CyclopsInv, Codes, Tag
<1> QED BY <1>6, <1>7, <1>8, <1>9, <1>10 DEF FrameInv

\* The queues after ageing: as long, with the same codes, and all of earlier frames.
LEMMA Aged ==
    ASSUME NEW codes, NEW queue \in Seq([code : codes, from : Tag])
    PROVE  /\ Age(queue) \in Seq([code : codes, from : Tag])
           /\ Len(Age(queue)) = Len(queue) /\ Len(queue) \in Nat
           /\ \A i \in 1 .. Len(queue) : Age(queue)[i].code = queue[i].code
           /\ AllFrom(Age(queue), "old")
<1> DEFINE Element == [code : codes, from : Tag]
           n == Len(queue)
<1>1. n \in Nat /\ DOMAIN queue = 1 .. n /\ \A i \in 1 .. n : queue[i] \in Element
  BY LenProperties, ElementOfSeq
<1> HIDE DEF n
<1>2. \A i \in 1 .. n : [queue[i] EXCEPT !.from = "old"] \in Element
                        /\ [queue[i] EXCEPT !.from = "old"].code = queue[i].code
                        /\ [queue[i] EXCEPT !.from = "old"].from = "old"
  BY <1>1 DEF Tag
<1>3. Age(queue) = [i \in 1 .. n |-> [queue[i] EXCEPT !.from = "old"]]
  BY <1>1 DEF Age
<1>4. Age(queue) \in [1 .. n -> Element]
  BY <1>2, <1>3
<1> HIDE DEF Element
<1>5. Age(queue) \in Seq(Element) /\ Len(Age(queue)) = n
  <2>1. DOMAIN Age(queue) = 1 .. n /\ Age(queue) \in Seq(Element)
    BY <1>1, <1>4, SeqDef
  <2>2. Len(Age(queue)) \in Nat /\ DOMAIN Age(queue) = 1 .. Len(Age(queue))
    BY <2>1, LenProperties
  <2> QED BY <1>1, <2>1, <2>2
<1>6. \A i \in 1 .. n : Age(queue)[i].code = queue[i].code /\ Age(queue)[i].from = "old"
  BY <1>2, <1>3
<1> QED BY <1>1, <1>5, <1>6 DEF n, Element, AllFrom

\* The counts start again wherever a step is left.
LEMMA CountsRestart ==
    ASSUME reads' = 0, empties' = 0
    PROVE  CountInv' /\ reads' \in 0 .. ReadLimit + DrainLimit /\ empties' \in 0 .. EmptyLimit
BY DisplayParameters DEF CountInv

\* A frame that is given up leaves the queues as they are, except that a reply may have been
\* read.
LEMMA GivenUp ==
    ASSUME FrameInv, Fail, UNCHANGED <<kind, inbox, memory, screen>>
    PROVE  /\ kind' = "fan" => FanInv'
           /\ kind' = "pump" => PumpInv'
           /\ kind' = "cyclops" => CyclopsInv'
<1>1. step' = 0 /\ result' = "error" /\ UNCHANGED <<kind, inbox, memory, screen>>
  BY DEF Fail
<1>2. CASE kind = "fan"
  <2>1. FanInv
    BY <1>2 DEF FrameInv
  <2> QED BY <1>1, <1>2, <2>1 DEF FanInv, Keeps, Codes
<1>3. CASE kind = "pump"
  <2>1. PumpInv
    BY <1>3 DEF FrameInv
  <2> QED BY <1>1, <1>3, <2>1 DEF PumpInv, Codes
<1>4. CASE kind = "cyclops"
  <2>1. CyclopsInv
    BY <1>4 DEF FrameInv
  <2>2. PICK k \in 0 .. Len(inbox) : Cut(k)
    BY <2>1 DEF CyclopsInv
  <2>3. k \in 0 .. Len(inbox') /\ Cut(k)'
    BY <1>1, <2>2 DEF Cut, Keeps, Codes
  <2> QED BY <1>1, <1>4, <2>1, <2>3 DEF CyclopsInv, Codes
<1> QED BY <1>1, <1>2, <1>3, <1>4, Placed

-----------------------------------------------------------------------------
\* Send begins a frame.
LEMMA BeginStep == FrameInv /\ BeginFrame => FrameInv'
<1> SUFFICES ASSUME FrameInv, BeginFrame
             PROVE  FrameInv'
  OBVIOUS
<1>0. Place /\ Len(Script(kind)) \in Nat /\ step \in Nat /\ kind \in {"fan", "pump", "cyclops"}
  BY Placed
<1>1. /\ step' = 1 /\ UNCHANGED <<kind, result, glitches>>
      /\ screen' = IF screen = "mine" THEN "old" ELSE screen
      /\ reads' = 0 /\ empties' = 0
  BY DEF BeginFrame
<1>2. /\ inbox' \in Seq(Command) /\ Len(inbox') = Len(inbox) /\ Len(inbox) \in Nat
      /\ \A i \in 1 .. Len(inbox) : inbox'[i].code = inbox[i].code /\ inbox'[i].from = "old"
  <2>1. inbox \in Seq(Command) /\ inbox' = Age(inbox)
    BY DEF FrameInv, FrameTypeOK, BeginFrame
  <2> QED BY <2>1, Aged DEF Command, AllFrom
<1>3. /\ outbox' \in Seq(Reply) /\ Len(outbox') = Len(outbox) /\ Len(outbox) \in Nat
      /\ \A i \in 1 .. Len(outbox) : outbox'[i].from = "old"
  <2>1. outbox \in Seq(Reply) /\ outbox' = Age(outbox)
    BY DEF FrameInv, FrameTypeOK, BeginFrame
  <2> QED BY <2>1, Aged DEF Reply, AllFrom
<1>4. memory' \in Seq(Tag) /\ Len(memory') < Chunks /\ Keeps("old")'
  <2> DEFINE n == Len(memory)
  <2>1. n \in Nat /\ n < Chunks /\ DOMAIN memory = 1 .. n
    <3>1. memory \in Seq(Tag) /\ Len(memory) < Chunks
      BY DEF FrameInv, FrameTypeOK
    <3> QED BY <3>1, LenProperties
  <2>2. memory' = [i \in DOMAIN memory |-> "old"]
    BY DEF BeginFrame
  <2> HIDE DEF n
  <2>3. memory' = [i \in 1 .. n |-> "old"] /\ memory' \in [1 .. n -> Tag]
    BY <2>1, <2>2 DEF Tag
  <2>4. memory' \in Seq(Tag)
    BY <2>1, <2>3, SeqDef
  <2>5. Len(memory') = n
    <3>1. Len(memory') \in Nat /\ DOMAIN memory' = 1 .. Len(memory')
      BY <2>4, LenProperties
    <3> QED BY <2>1, <2>3, <3>1
  <2> QED BY <2>1, <2>3, <2>4, <2>5 DEF Keeps
<1>5. FrameTypeOK'
  <2>1. 1 \in 0 .. Len(Script(kind))
    BY <1>0, DisplayParameters DEF Place
  <2>2. FrameTypeOK
    BY DEF FrameInv
  <2> QED BY <1>1, <1>2, <1>3, <1>4, <2>1, <2>2, CountsRestart DEF FrameTypeOK
<1>6. CountInv'
  BY <1>1, CountsRestart
<1>7. CASE kind = "fan"
  <2>1. FanInv
    BY <1>7 DEF FrameInv
  <2>2. FanInv'
    BY <1>1, <1>2, <1>4, <2>1 DEF FanInv, Codes, AllFrom, Tag
  <2> QED BY <1>1, <1>5, <1>6, <1>7, <2>2 DEF FrameInv
<1>8. CASE kind = "pump"
  <2>1. PumpInv
    BY <1>8 DEF FrameInv
  <2>2. PumpInv'
    BY <1>1, <1>2, <1>3, <2>1 DEF PumpInv, Codes
  <2> QED BY <1>1, <1>5, <1>6, <1>8, <2>2 DEF FrameInv
<1>9. CASE kind = "cyclops"
  <2>1. CyclopsInv
    BY <1>9 DEF FrameInv
  <2>2. Len(inbox') \in 0 .. Len(inbox') /\ Cut(Len(inbox))'
    BY <1>1, <1>2, <1>4 DEF Cut
  <2>3. CyclopsInv'
    BY <1>1, <1>2, <1>4, <2>1, <2>2 DEF CyclopsInv, Codes, AllFrom, Tag
  <2> QED BY <1>1, <1>5, <1>6, <1>9, <2>3 DEF FrameInv
<1> QED BY <1>0, <1>7, <1>8, <1>9

\* What a write puts at the end of the queue.
LEMMA CommandWritten ==
    ASSUME FrameInv, At("write"), inbox' = Append(inbox, [code |-> Wanted, from |-> "mine"])
    PROVE  /\ inbox' \in Seq(Command) /\ Len(inbox) \in Nat /\ Len(inbox') = Len(inbox) + 1
           /\ \A i \in 1 .. Len(inbox) : inbox'[i] = inbox[i]
           /\ \A i \in 1 .. Len(inbox') :
                  \/ i \in 1 .. Len(inbox) /\ inbox'[i] = inbox[i]
                  \/ i = Len(inbox') /\ inbox'[i].code = Wanted /\ inbox'[i].from = "mine"
           /\ inbox'[Len(inbox')].code = Wanted /\ inbox'[Len(inbox')].from = "mine"
<1>1. inbox \in Seq(Command)
  BY DEF FrameInv, FrameTypeOK
<1>2. Wanted \in {"stop", "reset", "pixels", "mode", "clear", "image", "start"}
  <2>1. Place /\ step \in Nat /\ kind \in {"fan", "pump", "cyclops"}
    BY Placed
  <2> QED BY <2>1, DisplayParameters DEF Place
<1>3. [code |-> Wanted, from |-> "mine"] \in Command
  BY <1>2 DEF Command, Tag
<1>4. /\ inbox' \in Seq(Command) /\ Len(inbox) \in Nat /\ Len(inbox') = Len(inbox) + 1
      /\ \A i \in 1 .. Len(inbox) : inbox'[i] = inbox[i]
      /\ inbox'[Len(inbox) + 1] = [code |-> Wanted, from |-> "mine"]
  BY <1>1, <1>3, Appended
<1>5. inbox'[Len(inbox')].code = Wanted /\ inbox'[Len(inbox')].from = "mine"
  BY <1>4
<1>6. \A i \in 1 .. Len(inbox') : i \in 1 .. Len(inbox) \/ i = Len(inbox')
  BY <1>4
<1> QED BY <1>4, <1>5, <1>6

\* A write, or one that fails, adds to a fan's frame what is next in it.
LEMMA FanWrite ==
    ASSUME FrameInv, kind = "fan", At("write"), UNCHANGED <<kind, firmware, outbox>>,
           inbox' = Append(inbox, [code |-> Wanted, from |-> "mine"]), Advance \/ Fail
    PROVE  FanInv'
<1>0. Place /\ Len(Script(kind)) \in Nat /\ step \in Nat /\ Chunks \in Nat \ {0}
  BY Placed, DisplayParameters
<1>1. FanInv /\ UNCHANGED <<kind, memory, screen, outbox>>
  BY DEF FrameInv, firmware
<1>2. Len(memory) \in Nat
  <2>1. memory \in Seq(Tag)
    BY DEF FrameInv, FrameTypeOK
  <2> QED BY <2>1, LenProperties
<1>3. /\ step \in 2 .. 3 \/ step \in 5 .. Chunks + 4
      /\ Len(Script(kind)) = Chunks + 5
      /\ Wanted = IF step = 2 THEN "stop" ELSE IF step = 3 THEN "reset" ELSE "pixels"
  BY <1>0 DEF Place
<1>4. Len(inbox) \in Nat /\ Len(inbox') = Len(inbox) + 1
  BY CommandWritten
<1>5. step' = step + 1 \/ (step' = 0 /\ result' = "error")
  BY <1>0, <1>3 DEF Advance, Fail
<1>6. \A i \in 1 .. Len(inbox') :
          \/ i \in 1 .. Len(inbox) /\ inbox'[i] = inbox[i]
          \/ i = Len(inbox') /\ inbox'[i].code = Wanted /\ inbox'[i].from = "mine"
  BY CommandWritten
<1>7. Codes(inbox, {"stop", "reset", "pixels"})' /\ screen' \in Tag
  BY <1>1, <1>3, <1>6 DEF FanInv, Codes
<1>8. CASE step \in 2 .. 3
  <2>1. /\ \A i \in 1 .. Len(inbox) : inbox[i].code = "stop"
        /\ outbox' = <<>> /\ Keeps("old") /\ Keeps("old")'
    BY <1>1, <1>8 DEF FanInv, Codes, Keeps
  <2>2. \A i \in 1 .. Len(inbox') :
            inbox'[i].code \in {"stop", "reset"}
            /\ (inbox'[i].code = "reset" => i = Len(inbox') /\ step = 3)
    BY <1>3, <1>6, <1>8, <2>1
  <2>3. step' \in {0, 3, 4} /\ (step' = 3 => step = 2) /\ (step' = 0 => result' = "error")
    BY <1>5, <1>8
  <2>4. \A i \in 1 .. Len(inbox') : inbox'[i].code # "pixels"
    BY <2>2
  <2> QED BY <1>7, <2>1, <2>2, <2>3, <2>4 DEF FanInv, Codes, Tag
<1>9. CASE step \in 5 .. Chunks + 4
  <2>1. /\ \A i \in 1 .. Len(inbox) : inbox[i].code = "pixels" /\ inbox[i].from = "mine"
        /\ Keeps("mine") /\ Keeps("mine")' /\ outbox' = <<>>
        /\ Len(inbox) + Len(memory) <= step - 5
    BY <1>0, <1>1, <1>9 DEF FanInv, Codes, AllFrom, Keeps
  <2>2. \A i \in 1 .. Len(inbox') : inbox'[i].code = "pixels" /\ inbox'[i].from = "mine"
    BY <1>0, <1>3, <1>6, <1>9, <2>1
  <2>3. Len(inbox') + Len(memory') <= step + 1 - 5
    BY <1>1, <1>2, <1>4, <1>9, <2>1
  <2>4. step' > 4 \/ (step' = 0 /\ result' = "error")
    BY <1>0, <1>5, <1>9
  <2>5. CASE step' > 4
    <3>1. step' = step + 1 /\ step' \in Nat
      BY <1>0, <1>5, <2>5
    <3>2. ~(step' \in 1 .. 4) /\ step' # 0 /\ step' # 1 /\ ~(step' \in 2 .. 3) /\ step' # 4
      BY <2>5, <3>1
    <3>3. \E tag \in Tag :
             Keeps(tag)' /\ \A i \in 1 .. Len(inbox') :
                 inbox'[i].code = "pixels" => inbox'[i].from = tag
      BY <2>1, <2>2 DEF Tag
    <3>4. AllFrom(inbox, "mine")' /\ Codes(inbox, {"pixels"})'
      BY <2>2 DEF AllFrom, Codes
    <3>5. Len(inbox') + Len(memory') <= step' - 5
      BY <1>0, <2>3, <3>1
    <3> QED BY <1>7, <2>1, <3>2, <3>3, <3>4, <3>5 DEF FanInv
  <2>6. CASE step' = 0 /\ result' = "error"
    BY <1>7, <2>1, <2>2, <2>6 DEF FanInv, Tag
  <2> QED BY <2>4, <2>5, <2>6
<1> QED BY <1>3, <1>8, <1>9

\* A write, or one that fails, adds to a pump's frame what is next in it.
LEMMA PumpWrite ==
    ASSUME FrameInv, kind = "pump", At("write"), UNCHANGED <<kind, firmware, outbox>>,
           inbox' = Append(inbox, [code |-> Wanted, from |-> "mine"]), Advance \/ Fail
    PROVE  PumpInv'
<1>1. PumpInv /\ UNCHANGED <<kind, memory, screen, outbox>>
  BY DEF FrameInv, firmware
<1>2. /\ step \in {1, 3, 5} /\ Len(Script(kind)) = 6
      /\ Wanted = IF step = 1 THEN "mode" ELSE IF step = 3 THEN "clear" ELSE "image"
  <2>1. Place /\ step \in Nat
    BY Placed
  <2> QED BY <2>1 DEF Place
<1>3. step' = step + 1 \/ (step' = 0 /\ result' = "error")
  BY <1>2 DEF Advance, Fail
<1>4. \A i \in 1 .. Len(inbox') :
          \/ i \in 1 .. Len(inbox) /\ inbox'[i] = inbox[i]
          \/ i = Len(inbox') /\ inbox'[i].code = Wanted /\ inbox'[i].from = "mine"
  BY CommandWritten
<1>5. Codes(inbox, {"mode", "clear", "image"})' /\ screen' # "mixed"
  BY <1>1, <1>2, <1>4 DEF PumpInv, Codes
<1>6. CASE step' = step + 1
  <2>1. \A i \in 1 .. Len(inbox') :
            inbox'[i].code = "image" /\ inbox'[i].from = "mine" => step' = 6 /\ i = Len(inbox')
    BY <1>1, <1>2, <1>4, <1>6 DEF PumpInv
  <2>2. \A i \in 1 .. Len(outbox') : ~(outbox'[i].code = "image" /\ outbox'[i].from = "mine")
    BY <1>1, <1>2 DEF PumpInv
  <2> QED BY <1>2, <1>5, <1>6, <2>1, <2>2 DEF PumpInv
<1>7. CASE step' = 0 /\ result' = "error"
  BY <1>5, <1>7 DEF PumpInv
<1> QED BY <1>3, <1>6, <1>7

\* A write, or one that fails, adds to a Cyclops's frame what is next in it.
LEMMA CyclopsWrite ==
    ASSUME FrameInv, kind = "cyclops", At("write"), UNCHANGED <<kind, firmware, outbox>>,
           inbox' = Append(inbox, [code |-> Wanted, from |-> "mine"]), Advance \/ Fail
    PROVE  CyclopsInv'
<1>1. CyclopsInv /\ UNCHANGED <<kind, memory, screen, outbox>>
  BY DEF FrameInv, firmware
<1>2. /\ step \in Nat /\ step > 0 /\ step <= Len(Script(kind)) /\ Len(Script(kind)) \in Nat
      /\ Len(Script(kind)) > 1
      /\ Wanted = IF step = 1 THEN "start" ELSE "pixels"
  <2>1. Place /\ step \in Nat /\ Len(Script(kind)) \in Nat /\ step <= Len(Script(kind))
    BY Placed
  <2> QED BY <2>1, DisplayParameters DEF Place
<1>3. step' # 1
  BY <1>2 DEF Advance, Fail
<1>4. /\ Len(inbox) \in Nat /\ Len(inbox') = Len(inbox) + 1
      /\ \A i \in 1 .. Len(inbox) : inbox'[i] = inbox[i]
      /\ inbox'[Len(inbox')].code = Wanted /\ inbox'[Len(inbox')].from = "mine"
  BY CommandWritten
<1>5. \A i \in 1 .. Len(inbox') :
          \/ i \in 1 .. Len(inbox) /\ inbox'[i] = inbox[i]
          \/ i = Len(inbox') /\ inbox'[i].code = Wanted /\ inbox'[i].from = "mine"
  BY CommandWritten
<1>6. Codes(inbox, {"start", "pixels"})' /\ screen' \in Tag
  BY <1>1, <1>2, <1>5 DEF CyclopsInv, Codes
<1>7. \E k \in 0 .. Len(inbox') : Cut(k)'
  <2>1. CASE step = 1
    <3>1. Keeps("old")' /\ \A i \in 1 .. Len(inbox) : inbox[i].from = "old"
      BY <1>1, <2>1 DEF CyclopsInv, AllFrom, Keeps
    <3> DEFINE k == Len(inbox)
    <3>2. k \in 0 .. Len(inbox') /\ k # Len(inbox') /\ inbox'[k + 1].code = "start"
      BY <1>2, <1>4, <2>1
    <3>3. \A i \in 1 .. Len(inbox') : inbox'[i].from = IF i <= k THEN "old" ELSE "mine"
      BY <1>4, <1>5, <3>1
    <3>4. \A i \in 1 .. Len(inbox') : ~(i > k + 1)
      BY <1>4
    <3> HIDE DEF k
    <3> QED BY <3>1, <3>2, <3>3, <3>4 DEF Cut
  <2>2. CASE step # 1
    <3>1. PICK k \in 0 .. Len(inbox) : Cut(k)
      BY <1>1 DEF CyclopsInv
    <3>2. Wanted = "pixels" /\ ~(step <= 1) /\ k \in 0 .. Len(inbox')
      BY <1>2, <1>4, <2>2
    <3>3. \A i \in 1 .. Len(inbox') : inbox'[i].from = IF i <= k THEN "old" ELSE "mine"
      BY <1>4, <1>5, <3>1 DEF Cut
    <3>4. CASE k = 0 /\ Keeps("mine") /\ Codes(inbox, {"pixels"})
      <4>1. Keeps("mine")' /\ Codes(inbox, {"pixels"})'
        BY <1>1, <1>5, <3>2, <3>4 DEF Keeps, Codes
      <4> QED BY <3>2, <3>3, <3>4, <4>1 DEF Cut
    <3>5. CASE ~(k = 0 /\ Keeps("mine") /\ Codes(inbox, {"pixels"}))
      <4>1. /\ Keeps("old") /\ k # Len(inbox) /\ inbox[k + 1].code = "start"
            /\ \A i \in 1 .. Len(inbox) : i > k + 1 => inbox[i].code = "pixels"
        BY <3>1, <3>2, <3>5 DEF Cut
      <4>2. Keeps("old")' /\ k # Len(inbox') /\ inbox'[k + 1].code = "start"
        <5>1. k + 1 \in 1 .. Len(inbox)
          BY <1>4, <4>1
        <5> QED BY <1>1, <1>4, <4>1, <5>1 DEF Keeps
      <4>3. \A i \in 1 .. Len(inbox') : i > k + 1 => inbox'[i].code = "pixels"
        BY <1>5, <3>2, <4>1
      <4> QED BY <3>2, <3>3, <4>2, <4>3 DEF Cut
    <3> QED BY <3>4, <3>5
  <2> QED BY <2>1, <2>2
<1> QED BY <1>3, <1>6, <1>7 DEF CyclopsInv

\* A step that is advanced or given up is a step of the script, or none.
LEMMA StepType ==
    ASSUME FrameInv, Advance \/ Fail, kind' = kind
    PROVE  /\ step' \in 0 .. Len(Script(kind')) /\ reads' = 0 /\ empties' = 0
           /\ result' \in {"none", "ok", "error"} /\ CountInv'
           /\ reads' \in 0 .. ReadLimit + DrainLimit /\ empties' \in 0 .. EmptyLimit
<1>1. /\ step \in Nat /\ step <= Len(Script(kind)) /\ Len(Script(kind)) \in Nat
      /\ result \in {"none", "ok", "error"}
  BY Placed DEF FrameInv, FrameTypeOK
<1>2. reads' = 0 /\ empties' = 0
  BY DEF Advance, Fail
<1>3. step' \in 0 .. Len(Script(kind)) /\ result' \in {"none", "ok", "error"}
  BY <1>1 DEF Advance, Fail
<1> QED BY <1>2, <1>3, CountsRestart

\* The invariant, from its parts.
LEMMA FrameParts ==
    ASSUME FrameInv, FrameTypeOK', CountInv', kind' = kind,
           kind = "fan" => FanInv', kind = "pump" => PumpInv', kind = "cyclops" => CyclopsInv'
    PROVE  FrameInv'
BY DEF FrameInv

\* A write.
LEMMA WriteStep == FrameInv /\ Write => FrameInv'
<1> SUFFICES ASSUME FrameInv, Write
             PROVE  FrameInv'
  OBVIOUS
<1> DEFINE sent == Append(inbox, [code |-> Wanted, from |-> "mine"])
<1>1. /\ At("write") /\ UNCHANGED <<kind, firmware, outbox>>
      /\ \/ Advance /\ inbox' = sent /\ UNCHANGED glitches
         \/ Fail /\ Glitch /\ inbox' \in {inbox, sent}
  BY DEF Write
<1>2. kind' = kind /\ memory' = memory /\ screen' = screen /\ outbox' = outbox
  BY <1>1 DEF firmware
<1>3. FrameTypeOK'
  <2>1. inbox' \in Seq(Command)
    <3>1. CASE inbox' = sent
      BY <1>1, <3>1, CommandWritten
    <3>2. CASE inbox' = inbox
      BY <3>2 DEF FrameInv, FrameTypeOK
    <3> QED BY <1>1, <3>1, <3>2
  <2>2. glitches' \in 0 .. MaxGlitches
    BY <1>1, DisplayParameters DEF FrameInv, FrameTypeOK, Glitch
  <2>3. FrameTypeOK
    BY DEF FrameInv
  <2> HIDE DEF sent
  <2> QED BY <1>1, <1>2, <2>1, <2>2, <2>3, StepType DEF FrameTypeOK
<1>4. CountInv'
  BY <1>1, <1>2, StepType
<1>5. CASE inbox' = sent
  <2>1. Advance \/ Fail
    BY <1>1
  <2>2. kind = "fan" => FanInv'
    BY <1>1, <1>5, <2>1, FanWrite
  <2>3. kind = "pump" => PumpInv'
    BY <1>1, <1>5, <2>1, PumpWrite
  <2>4. kind = "cyclops" => CyclopsInv'
    BY <1>1, <1>5, <2>1, CyclopsWrite
  <2> QED BY <1>2, <1>3, <1>4, <2>2, <2>3, <2>4, FrameParts
<1>6. CASE Fail /\ inbox' = inbox
  <2>1. /\ kind = "fan" => FanInv'
        /\ kind = "pump" => PumpInv'
        /\ kind = "cyclops" => CyclopsInv'
    BY <1>2, <1>6, GivenUp
  <2> QED BY <1>2, <1>3, <1>4, <2>1, FrameParts
<1> QED BY <1>1, <1>5, <1>6

\* What a read takes out of the queue of replies.
LEMMA ReplyRead ==
    ASSUME FrameInv, outbox # <<>>, outbox' = Tail(outbox)
    PROVE  /\ outbox' \in Seq(Reply) /\ Len(outbox) \in Nat \ {0} /\ Len(outbox') = Len(outbox) - 1
           /\ Head(outbox) = outbox[1] /\ (outbox' = <<>> <=> Len(outbox) = 1)
           /\ \A i \in 1 .. Len(outbox') : outbox'[i] = outbox[i + 1] /\ i + 1 \in 1 .. Len(outbox)
<1>1. outbox \in Seq(Reply)
  BY DEF FrameInv, FrameTypeOK
<1>2. /\ Len(outbox) \in Nat \ {0} /\ Head(outbox) = outbox[1]
      /\ Tail(outbox) \in Seq(Reply) /\ Len(Tail(outbox)) = Len(outbox) - 1
      /\ \A i \in 1 .. Len(outbox) - 1 : Tail(outbox)[i] = outbox[i + 1]
      /\ Tail(outbox) = <<>> <=> Len(outbox) = 1
  BY <1>1, HeadTaken
<1> QED BY <1>2

\* A read of the drain.
LEMMA DrainStep == FrameInv /\ DrainRead => FrameInv'
<1> SUFFICES ASSUME FrameInv, DrainRead
             PROVE  FrameInv'
  OBVIOUS
<1>0. /\ Place /\ step \in Nat /\ kind \in {"fan", "pump", "cyclops"} /\ Chunks \in Nat \ {0}
      /\ DrainLimit \in Nat \ {0} /\ ReadLimit \in Nat \ {0}
  BY Placed, DisplayParameters
<1>1. At("drain") /\ UNCHANGED <<kind, inbox, memory, screen>>
  BY DEF DrainRead, firmware
<1>2. kind = "fan" /\ step = 1 /\ Len(Script(kind)) = Chunks + 5
  BY <1>0, <1>1 DEF Place
<1>3. FrameTypeOK /\ CountInv /\ FanInv
  BY <1>2 DEF FrameInv
<1>4. glitches' \in 0 .. MaxGlitches
  BY <1>3, DisplayParameters DEF FrameTypeOK, Glitch, DrainRead
<1>5. outbox' \in Seq(Reply)
  <2>1. CASE outbox # <<>> /\ outbox' = Tail(outbox)
    BY <2>1, ReplyRead
  <2> QED BY <1>3, <2>1 DEF DrainRead, FrameTypeOK
<1>6. \/ Fail
      \/ outbox = <<>> /\ inbox = <<>> /\ outbox' = outbox /\ Advance
      \/ reads + 1 # DrainLimit /\ reads' = reads + 1 /\ UNCHANGED <<step, empties, result>>
  BY DEF DrainRead
<1>7. CASE Fail
  <2>1. FanInv'
    BY <1>1, <1>2, <1>7, GivenUp
  <2>2. FrameTypeOK' /\ CountInv'
    BY <1>1, <1>3, <1>4, <1>5, <1>7, StepType DEF FrameTypeOK
  <2> QED BY <1>1, <1>2, <2>1, <2>2 DEF FrameInv
<1>8. CASE outbox = <<>> /\ inbox = <<>> /\ outbox' = outbox /\ Advance
  <2>1. step' = 2
    <3>1. 1 # Chunks + 5
      BY <1>0
    <3>2. step # Len(Script(kind))
      BY <1>2, <3>1, Zenon
    <3>3. step' = step + 1
      BY <1>8, <3>2, Zenon DEF Advance
    <3> QED BY <1>2, <3>3
  <2>2. FanInv'
    BY <1>1, <1>2, <1>3, <1>8, <2>1 DEF FanInv, Codes, Keeps, Tag
  <2>3. FrameTypeOK' /\ CountInv'
    BY <1>1, <1>3, <1>4, <1>5, <1>8, StepType DEF FrameTypeOK
  <2> QED BY <1>1, <1>2, <2>2, <2>3 DEF FrameInv
<1>9. CASE reads + 1 # DrainLimit /\ reads' = reads + 1 /\ UNCHANGED <<step, empties, result>>
  <2>1. reads \in Nat /\ reads < DrainLimit /\ empties = 0
    BY <1>1, <1>3 DEF CountInv, FrameTypeOK
  <2>2. reads' < DrainLimit /\ reads' \in 0 .. ReadLimit + DrainLimit
    BY <1>0, <1>9, <2>1
  <2>3. At("drain")' /\ ~At("write")' /\ ~At("await")'
    BY <1>1, <1>9 DEF At
  <2>4. CountInv'
    BY <1>2, <1>9, <2>1, <2>2, <2>3 DEF CountInv
  <2>5. FrameTypeOK'
    BY <1>1, <1>3, <1>4, <1>5, <1>9, <2>2 DEF FrameTypeOK
  <2>6. FanInv'
    BY <1>1, <1>2, <1>3, <1>9 DEF FanInv, Codes, AllFrom, Keeps
  <2> QED BY <1>1, <1>2, <2>4, <2>5, <2>6 DEF FrameInv
<1> QED BY <1>6, <1>7, <1>8, <1>9

\* A read that ends without a reply.
LEMMA TimeoutStep == FrameInv /\ AwaitTimeout => FrameInv'
<1> SUFFICES ASSUME FrameInv, AwaitTimeout
             PROVE  FrameInv'
  OBVIOUS
<1>1. Fail /\ UNCHANGED <<kind, inbox, memory, screen, outbox>>
  BY DEF AwaitTimeout, firmware
<1>2. FrameTypeOK' /\ CountInv'
  <2>1. FrameTypeOK
    BY DEF FrameInv
  <2>2. glitches' \in 0 .. MaxGlitches
    BY <2>1, DisplayParameters DEF AwaitTimeout, FrameTypeOK, Glitch
  <2> QED BY <1>1, <2>1, <2>2, StepType DEF FrameTypeOK
<1>3. /\ kind = "fan" => FanInv'
      /\ kind = "pump" => PumpInv'
      /\ kind = "cyclops" => CyclopsInv'
  BY <1>1, GivenUp
<1> QED BY <1>1, <1>2, <1>3, FrameParts

\* One read of a wait goes on to the next step, gives up, or stays and counts.
LEMMA AwaitOutcome ==
    ASSUME FrameInv, Await
    PROVE  \/ Advance /\ outbox[1].code = Wanted /\ (kind = "pump" => outbox[1].from = "mine")
           \/ Fail
           \/ /\ UNCHANGED <<step, result>> /\ CountInv'
              /\ reads' \in 0 .. ReadLimit + DrainLimit /\ empties' \in 0 .. EmptyLimit
<1>0. DrainLimit \in Nat \ {0} /\ ReadLimit \in Nat \ {0} /\ EmptyLimit \in Nat \ {0}
  BY DisplayParameters
<1>1. At("await") /\ kind' = kind /\ Head(outbox) = outbox[1]
  BY ReplyRead DEF Await
<1>2. reads \in Nat /\ reads < ReadLimit /\ empties \in Nat /\ empties < EmptyLimit
  BY <1>1 DEF FrameInv, CountInv, FrameTypeOK
<1>3. \/ Meaning(outbox[1]) = "accept" /\ Advance
      \/ Fail
      \/ empties + 1 # EmptyLimit /\ empties' = empties + 1 /\ UNCHANGED <<step, reads, result>>
      \/ reads + 1 # ReadLimit /\ reads' = reads + 1 /\ empties' = 0 /\ UNCHANGED <<step, result>>
  BY <1>1 DEF Await
<1>4. CASE Meaning(outbox[1]) = "accept" /\ Advance
  BY <1>4 DEF Meaning, Answers
<1>5. CASE empties + 1 # EmptyLimit /\ empties' = empties + 1 /\ UNCHANGED <<step, reads, result>>
  <2>1. At("await")' /\ ~At("write")' /\ ~At("drain")' /\ step' # 0
    BY <1>1, <1>5 DEF At
  <2>2. /\ empties' < EmptyLimit /\ empties' \in 0 .. EmptyLimit
        /\ reads' \in 0 .. ReadLimit + DrainLimit
    BY <1>0, <1>2, <1>5
  <2> QED BY <1>2, <1>5, <2>1, <2>2 DEF CountInv
<1>6. CASE /\ reads + 1 # ReadLimit /\ reads' = reads + 1 /\ empties' = 0
           /\ UNCHANGED <<step, result>>
  <2>1. At("await")' /\ ~At("write")' /\ ~At("drain")' /\ step' # 0
    BY <1>1, <1>6 DEF At
  <2>2. /\ reads' < ReadLimit /\ empties' < EmptyLimit
        /\ empties' \in 0 .. EmptyLimit /\ reads' \in 0 .. ReadLimit + DrainLimit
    BY <1>0, <1>2, <1>6
  <2> QED BY <1>6, <2>1, <2>2 DEF CountInv
<1> QED BY <1>3, <1>4, <1>5, <1>6

\* A read of a wait.
LEMMA AwaitStep == FrameInv /\ Await => FrameInv'
<1> SUFFICES ASSUME FrameInv, Await
             PROVE  FrameInv'
  OBVIOUS
<1>0. /\ Place /\ step \in Nat /\ kind \in {"fan", "pump", "cyclops"} /\ Chunks \in Nat \ {0}
  BY Placed, DisplayParameters
<1>1. /\ At("await") /\ outbox # <<>> /\ outbox' = Tail(outbox)
      /\ UNCHANGED <<kind, inbox, memory, screen, glitches>>
  BY DEF Await, firmware
<1>2. /\ outbox' \in Seq(Reply) /\ (outbox' = <<>> <=> Len(outbox) = 1)
      /\ \A i \in 1 .. Len(outbox') : outbox'[i] = outbox[i + 1] /\ i + 1 \in 1 .. Len(outbox)
      /\ 1 \in 1 .. Len(outbox)
  <2>1. Len(outbox) \in Nat \ {0}
    BY <1>1, ReplyRead
  <2> QED BY <1>1, <2>1, ReplyRead
<1>3. \/ Advance /\ outbox[1].code = Wanted /\ (kind = "pump" => outbox[1].from = "mine")
      \/ Fail
      \/ UNCHANGED <<step, result>>
  BY AwaitOutcome
<1>4. FrameTypeOK' /\ CountInv'
  <2>1. FrameTypeOK
    BY DEF FrameInv
  <2>2. CASE Advance \/ Fail
    BY <1>1, <1>2, <2>1, <2>2, StepType DEF FrameTypeOK
  <2>3. CASE /\ UNCHANGED <<step, result>> /\ CountInv'
             /\ reads' \in 0 .. ReadLimit + DrainLimit /\ empties' \in 0 .. EmptyLimit
    BY <1>1, <1>2, <2>1, <2>3 DEF FrameTypeOK
  <2> QED BY <2>2, <2>3, AwaitOutcome
<1>5. CASE Fail
  <2>1. /\ kind = "fan" => FanInv'
        /\ kind = "pump" => PumpInv'
        /\ kind = "cyclops" => CyclopsInv'
    BY <1>1, <1>5, GivenUp
  <2> QED BY <1>1, <1>4, <2>1, FrameParts
<1>6. CASE kind = "fan" /\ ~Fail
  <2>1. FanInv /\ step \in {4, Chunks + 5} /\ Len(Script(kind)) = Chunks + 5
    BY <1>0, <1>1, <1>6 DEF FrameInv, Place
  <2>2. Len(outbox) = 1 /\ inbox = <<>> /\ memory = <<>> /\ outbox' = <<>>
    BY <1>0, <1>1, <1>2, <2>1 DEF FanInv
  <2>3. /\ screen' \in Tag /\ inbox' = <<>> /\ memory' = <<>> /\ outbox' = <<>>
        /\ Len(inbox') = 0 /\ Len(memory') = 0
    BY <1>1, <2>1, <2>2 DEF FanInv
  <2>4. FanInv'
    <3>1. CASE step = 4
      <4>1. step' = 5 \/ step' = 4
        <5>1. 4 # Len(Script(kind))
          BY <1>0, <2>1
        <5> QED BY <1>3, <1>6, <3>1, <5>1 DEF Advance
      <4> QED BY <2>3, <4>1 DEF FanInv, Codes, AllFrom, Keeps, Tag
    <3>2. CASE step = Chunks + 5
      <4>1. Wanted = "pixels" /\ step > 4
        BY <1>0, <1>6, <3>2 DEF Place
      <4>2. outbox[1].code = "pixels" => screen' = "mine"
        BY <1>1, <2>1, <2>2, <4>1 DEF FanInv
      <4>3. CASE step' = step
        <5>1. Len(inbox') + Len(memory') <= step' - 5 /\ ~(step' \in 1 .. 4) /\ step' # 0
          BY <1>0, <2>3, <3>2, <4>3
        <5>2. step' > 4 /\ ~(step' \in 2 .. 3) /\ step' # 4 /\ step' # 1
          BY <1>0, <3>2, <4>3
        <5> QED BY <2>3, <5>1, <5>2 DEF FanInv, Codes, AllFrom, Keeps, Tag
      <4>4. CASE step' = 0 /\ outbox[1].code = "pixels"
        BY <2>3, <4>2, <4>4 DEF FanInv, Codes, AllFrom, Keeps, Tag
      <4>5. step' = step \/ (step' = 0 /\ outbox[1].code = "pixels")
        BY <1>3, <1>6, <2>1, <3>2, <4>1 DEF Advance
      <4> QED BY <4>3, <4>4, <4>5
    <3> QED BY <2>1, <3>1, <3>2
  <2> QED BY <1>1, <1>4, <1>6, <2>4, FrameParts
<1>7. CASE kind = "pump" /\ ~Fail
  <2>1. PumpInv /\ step \in {2, 4, 6} /\ Len(Script(kind)) = 6
    BY <1>0, <1>1, <1>7 DEF FrameInv, Place
  <2>2. /\ screen' # "mixed" /\ Codes(inbox, {"mode", "clear", "image"})'
    BY <1>1, <2>1 DEF PumpInv, Codes
  <2>3. \A i \in 1 .. Len(outbox') : outbox'[i].code = "image" /\ outbox'[i].from = "mine" =>
            step = 6 /\ inbox' = <<>> /\ screen' = "mine"
    BY <1>1, <1>2, <2>1 DEF PumpInv
  <2>4. \A i \in 1 .. Len(inbox') : inbox'[i].code = "image" /\ inbox'[i].from = "mine" =>
            step = 6 /\ i = Len(inbox')
    BY <1>1, <2>1 DEF PumpInv
  <2>5. CASE UNCHANGED <<step, result>>
    <3>1. PumpInv'
      BY <2>1, <2>2, <2>3, <2>4, <2>5 DEF PumpInv
    <3> QED BY <1>1, <1>4, <1>7, <3>1, FrameParts
  <2>6. CASE Advance /\ outbox[1].code = Wanted /\ outbox[1].from = "mine"
    <3>1. CASE step = 6
      <4>1. Wanted = "image" /\ step' = 0
        BY <1>0, <1>7, <2>1, <2>6, <3>1 DEF Place, Advance
      <4>2. inbox' = <<>> /\ screen' = "mine"
        BY <1>1, <1>2, <2>1, <2>6, <3>1, <4>1 DEF PumpInv
      <4>3. PumpInv'
        BY <2>2, <4>1, <4>2 DEF PumpInv
      <4> QED BY <1>1, <1>4, <1>7, <4>3, FrameParts
    <3>2. CASE step # 6
      <4>1. step' # 0
        BY <2>1, <2>6, <3>2 DEF Advance
      <4>2. PumpInv'
        BY <2>2, <2>3, <2>4, <3>2, <4>1 DEF PumpInv
      <4> QED BY <1>1, <1>4, <1>7, <4>2, FrameParts
    <3> QED BY <3>1, <3>2
  <2> QED BY <1>3, <1>7, <2>5, <2>6
<1>8. kind # "cyclops"
  BY <1>0, <1>1 DEF Place
<1> QED BY <1>0, <1>5, <1>6, <1>7, <1>8

-----------------------------------------------------------------------------
\* What the firmware takes out of the queue of commands.
LEMMA CommandTaken ==
    ASSUME FrameInv, inbox # <<>>, inbox' = Tail(inbox)
    PROVE  /\ inbox' \in Seq(Command) /\ Len(inbox) \in Nat \ {0} /\ Len(inbox') = Len(inbox) - 1
           /\ Len(inbox') \in Nat /\ Head(inbox) = inbox[1] /\ inbox[1] \in Command
           /\ 1 \in 1 .. Len(inbox) /\ (inbox' = <<>> <=> Len(inbox) = 1)
           /\ \A i \in 1 .. Len(inbox') : inbox'[i] = inbox[i + 1] /\ i + 1 \in 1 .. Len(inbox)
                                          /\ (i + 1 = Len(inbox) => i = Len(inbox'))
<1>1. inbox \in Seq(Command)
  BY DEF FrameInv, FrameTypeOK
<1>2. /\ Len(inbox) \in Nat \ {0} /\ Head(inbox) = inbox[1] /\ inbox[1] \in Command
      /\ Tail(inbox) \in Seq(Command) /\ Len(Tail(inbox)) = Len(inbox) - 1
      /\ \A i \in 1 .. Len(inbox) - 1 : Tail(inbox)[i] = inbox[i + 1]
      /\ Tail(inbox) = <<>> <=> Len(inbox) = 1
  BY <1>1, HeadTaken
<1> DEFINE n == Len(inbox)
<1>3. n \in Nat \ {0} /\ Len(inbox') = n - 1
  BY <1>2
<1> HIDE DEF n
<1>4. \A i \in 1 .. n - 1 : i + 1 \in 1 .. n /\ (i + 1 = n => i = n - 1)
  BY <1>3
<1>5. 1 \in 1 .. n /\ n - 1 \in Nat
  BY <1>3
<1> QED BY <1>2, <1>3, <1>4, <1>5 DEF n

\* What the firmware adds to the replies.
LEMMA ReplyAdded ==
    ASSUME FrameInv, NEW r \in Reply, outbox' = Append(outbox, r)
    PROVE  /\ outbox' \in Seq(Reply) /\ Len(outbox) \in Nat /\ Len(outbox') = Len(outbox) + 1
           /\ outbox'[Len(outbox')] = r
           /\ \A i \in 1 .. Len(outbox') : (i \in 1 .. Len(outbox) /\ outbox'[i] = outbox[i])
                                           \/ (i = Len(outbox') /\ outbox'[i] = r)
<1>1. outbox \in Seq(Reply)
  BY DEF FrameInv, FrameTypeOK
<1>2. /\ outbox' \in Seq(Reply) /\ Len(outbox) \in Nat /\ Len(outbox') = Len(outbox) + 1
      /\ \A i \in 1 .. Len(outbox) : outbox'[i] = outbox[i]
      /\ outbox'[Len(outbox) + 1] = r
  BY <1>1, Appended
<1>3. \A i \in 1 .. Len(outbox') : i \in 1 .. Len(outbox) \/ i = Len(outbox')
  BY <1>2
<1> QED BY <1>2, <1>3

\* One more pixel write of a frame the memory holds a part of: the memory grows, or the frame
\* is complete, and is shown or rejected.
LEMMA PixelsTaken ==
    ASSUME FrameInv, NEW tag \in Tag, Keeps(tag), TakePixels(tag), kind' = kind
    PROVE  /\ memory' \in Seq(Tag) /\ Len(memory') < Chunks /\ Keeps(tag)'
           /\ glitches' \in 0 .. MaxGlitches
           /\ \/ /\ Len(memory') = Len(memory) + 1
                 /\ UNCHANGED <<screen, outbox>>
              \/ /\ memory' = <<>> /\ Len(memory) + 1 = Chunks
                 /\ \/ /\ screen' = tag
                       /\ IF kind = "fan"
                          THEN outbox' = Append(outbox, [code |-> "pixels", from |-> tag])
                          ELSE outbox' = outbox
                    \/ /\ kind = "fan" /\ screen' = screen
                       /\ outbox' = Append(outbox, [code |-> "rejected", from |-> tag])
<1> DEFINE held == Append(memory, tag)
<1>0. Chunks \in Nat \ {0} /\ MaxGlitches \in Nat
  BY DisplayParameters
<1>1. memory \in Seq(Tag) /\ Len(memory) < Chunks /\ glitches \in 0 .. MaxGlitches
  BY DEF FrameInv, FrameTypeOK
<1>2. /\ Len(memory) \in Nat /\ held \in Seq(Tag) /\ Len(held) = Len(memory) + 1
      /\ \A i \in 1 .. Len(memory) : held[i] = memory[i]
      /\ held[Len(memory) + 1] = tag
  BY <1>1, Appended
<1>3. DOMAIN held = 1 .. Len(memory) + 1
  BY <1>2, LenProperties
<1>4. \A i \in 1 .. Len(memory) + 1 : held[i] = tag
  <2>1. \A i \in 1 .. Len(memory) + 1 : i \in 1 .. Len(memory) \/ i = Len(memory) + 1
    BY <1>2
  <2> QED BY <1>2, <2>1 DEF Keeps
<1>5. IF Len(held) < Chunks
      THEN memory' = held /\ UNCHANGED <<screen, outbox, glitches>>
      ELSE /\ memory' = <<>>
           /\ \/ /\ screen' = Shown({held[i] : i \in DOMAIN held})
                 /\ IF kind = "fan" THEN Answer("pixels", tag) ELSE UNCHANGED outbox
                 /\ UNCHANGED glitches
              \/ kind = "fan" /\ Answer("rejected", tag) /\ Glitch /\ UNCHANGED screen
  BY DEF TakePixels
<1> HIDE DEF held
<1>6. CASE Len(held) < Chunks
  <2>1. memory' = held /\ UNCHANGED <<screen, outbox, glitches>>
    BY <1>5, <1>6
  <2> QED BY <1>1, <1>2, <1>4, <1>6, <2>1 DEF Keeps
<1>7. CASE ~(Len(held) < Chunks)
  <2>1. memory' = <<>> /\ Len(memory) + 1 = Chunks
    BY <1>0, <1>1, <1>2, <1>5, <1>7
  <2>2. memory' \in Seq(Tag) /\ Len(memory') < Chunks /\ Keeps(tag)'
    BY <1>0, <2>1, EmptySeq DEF Keeps
  <2>3. {held[i] : i \in DOMAIN held} = {tag}
    <3>1. 1 \in DOMAIN held
      BY <1>2, <1>3
    <3> QED BY <1>3, <1>4, <3>1
  <2>4. Shown({tag}) = tag
    BY DEF Shown, Tag
  <2>5. glitches' \in 0 .. MaxGlitches
    BY <1>0, <1>1, <1>5, <1>7 DEF Glitch
  <2> QED BY <1>5, <1>7, <2>1, <2>2, <2>3, <2>4, <2>5 DEF Answer
<1> QED BY <1>6, <1>7

\* A fan that takes a command nothing comes of, or does not act on one.
LEMMA FanDropped ==
    ASSUME FrameInv, kind = "fan", inbox # <<>>, inbox' = Tail(inbox),
           UNCHANGED <<kind, host, firmware, outbox>>
    PROVE  FanInv'
<1>0. step \in Nat /\ Len(memory) \in Nat /\ Chunks \in Nat \ {0}
  <2>1. memory \in Seq(Tag)
    BY DEF FrameInv, FrameTypeOK
  <2> QED BY <2>1, Placed, LenProperties, DisplayParameters
<1>1. FanInv /\ UNCHANGED <<step, result, memory, screen, outbox>>
  BY DEF FrameInv, host, firmware
<1>2. /\ Len(inbox) \in Nat \ {0} /\ Len(inbox') = Len(inbox) - 1
      /\ \A i \in 1 .. Len(inbox') : inbox'[i] = inbox[i + 1] /\ i + 1 \in 1 .. Len(inbox)
                                     /\ (i + 1 = Len(inbox) => i = Len(inbox'))
  BY CommandTaken
<1>3. PICK tag \in Tag :
          Keeps(tag) /\ \A i \in 1 .. Len(inbox) : inbox[i].code = "pixels" => inbox[i].from = tag
  BY <1>1 DEF FanInv
<1>4. Keeps(tag)' /\ \A i \in 1 .. Len(inbox') : inbox'[i].code = "pixels" => inbox'[i].from = tag
  BY <1>1, <1>2, <1>3 DEF Keeps
<1>5. screen' \in Tag /\ Codes(inbox, {"stop", "reset", "pixels"})'
  BY <1>1, <1>2 DEF FanInv, Codes
<1>6. step' \in 1 .. 4 => Keeps("old")'
  BY <1>1 DEF FanInv, Keeps
<1>7. step' = 1 => AllFrom(inbox, "old")'
  BY <1>1, <1>2 DEF FanInv, AllFrom
<1>8. step' \in 2 .. 3 => outbox' = <<>> /\ Codes(inbox, {"stop"})'
  BY <1>1, <1>2 DEF FanInv, Codes
<1>9. step' = 4 =>
          /\ Codes(inbox, {"stop", "reset"})'
          /\ \A i \in 1 .. Len(inbox') : inbox'[i].code = "reset" => i = Len(inbox')
          /\ outbox' = <<>>
  <2> SUFFICES ASSUME step = 4
               PROVE  /\ Codes(inbox, {"stop", "reset"})'
                      /\ \A i \in 1 .. Len(inbox') :
                            inbox'[i].code = "reset" => i = Len(inbox')
                      /\ outbox' = <<>>
    BY <1>1
  <2>1. /\ Codes(inbox, {"stop", "reset"}) /\ outbox' = <<>>
        /\ \A i \in 1 .. Len(inbox) : inbox[i].code = "reset" => i = Len(inbox)
    BY <1>1 DEF FanInv
  <2>2. \A i \in 1 .. Len(inbox') : inbox'[i].code = "reset" => i + 1 = Len(inbox)
    BY <1>2, <2>1
  <2> QED BY <1>2, <2>1, <2>2 DEF Codes
<1>10. step' > 4 =>
          /\ Keeps("mine")' /\ AllFrom(inbox, "mine")' /\ Codes(inbox, {"pixels"})'
          /\ Len(inbox') + Len(memory') <= step' - 5 /\ outbox' = <<>>
  <2> SUFFICES ASSUME step > 4
               PROVE  /\ Keeps("mine")' /\ AllFrom(inbox, "mine")' /\ Codes(inbox, {"pixels"})'
                      /\ Len(inbox') + Len(memory') <= step' - 5 /\ outbox' = <<>>
    BY <1>1
  <2>1. /\ Keeps("mine") /\ AllFrom(inbox, "mine") /\ Codes(inbox, {"pixels"})
        /\ Len(inbox) + Len(memory) <= step - 5 /\ outbox = <<>>
    BY <1>1 DEF FanInv
  <2>2. Len(inbox') + Len(memory') <= step' - 5
    <3>1. \A a, b \in Nat : a + b <= step - 5 => (a - 1) + b <= step - 5
      BY <1>0
    <3>2. (Len(inbox) - 1) + Len(memory) <= step - 5
      BY <1>0, <1>2, <2>1, <3>1
    <3> QED BY <1>1, <1>2, <3>2
  <2>3. Keeps("mine")' /\ AllFrom(inbox, "mine")' /\ Codes(inbox, {"pixels"})'
    BY <1>1, <1>2, <2>1 DEF Keeps, AllFrom, Codes
  <2> QED BY <1>1, <2>1, <2>2, <2>3
<1>11. ~(step' = 0 /\ result' = "ok")
  BY <1>1 DEF FanInv
<1> QED BY <1>4, <1>5, <1>6, <1>7, <1>8, <1>9, <1>10, <1>11 DEF FanInv

\* A fan takes a reset.
LEMMA FanReset ==
    ASSUME FrameInv, kind = "fan", inbox # <<>>, inbox' = Tail(inbox), inbox[1].code = "reset",
           memory' = <<>>, Answer("reset", inbox[1].from), UNCHANGED <<kind, host, screen>>
    PROVE  FanInv' /\ outbox' \in Seq(Reply)
<1>1. FanInv /\ UNCHANGED <<step, result, screen>> /\ step \in Nat
  BY Placed DEF FrameInv, host
<1>2. /\ Len(inbox) \in Nat \ {0} /\ Len(inbox') = Len(inbox) - 1 /\ inbox[1] \in Command
      /\ \A i \in 1 .. Len(inbox') : inbox'[i] = inbox[i + 1] /\ i + 1 \in 1 .. Len(inbox)
      /\ 1 \in 1 .. Len(inbox) /\ (inbox' = <<>> <=> Len(inbox) = 1)
  BY CommandTaken
<1>3. outbox' \in Seq(Reply) /\ Len(outbox) \in Nat /\ Len(outbox') = Len(outbox) + 1
  <2>1. [code |-> "reset", from |-> inbox[1].from] \in Reply
    BY <1>2 DEF Command, Reply
  <2> QED BY <2>1, ReplyAdded DEF Answer
<1>4. Keeps("old")' /\ Keeps("mine")'
  BY DEF Keeps
<1>5. screen' \in Tag /\ Codes(inbox, {"stop", "reset", "pixels"})'
  BY <1>1, <1>2 DEF FanInv, Codes
<1>6. \E tag \in Tag :
          /\ Keeps(tag)'
          /\ \A i \in 1 .. Len(inbox') : inbox'[i].code = "pixels" => inbox'[i].from = tag
  <2>1. PICK tag \in Tag :
            \A i \in 1 .. Len(inbox) : inbox[i].code = "pixels" => inbox[i].from = tag
    BY <1>1 DEF FanInv
  <2>2. \A i \in 1 .. Len(inbox') : inbox'[i].code = "pixels" => inbox'[i].from = tag
    BY <1>2, <2>1
  <2> QED BY <1>4, <2>2 DEF Tag
<1>7. step' = 1 => AllFrom(inbox, "old")'
  BY <1>1, <1>2 DEF FanInv, AllFrom
<1>8. ~(step' \in 2 .. 3)
  BY <1>1, <1>2 DEF FanInv, Codes
<1>9. step' = 4 => inbox' = <<>> /\ Len(outbox') = 1 /\ Len(inbox') = 0
  <2> SUFFICES ASSUME step = 4
               PROVE  inbox' = <<>> /\ Len(outbox') = 1 /\ Len(inbox') = 0
    BY <1>1
  <2>1. Len(inbox) = 1 /\ outbox = <<>>
    BY <1>1, <1>2 DEF FanInv
  <2> QED BY <1>2, <1>3, <2>1
<1>10. ~(step' > 4)
  BY <1>1, <1>2 DEF FanInv, Codes
<1>11. ~(step' = 0 /\ result' = "ok")
  BY <1>1 DEF FanInv
<1> QED BY <1>3, <1>4, <1>5, <1>6, <1>7, <1>8, <1>9, <1>10, <1>11 DEF FanInv, Codes

\* A fan takes pixels.
LEMMA FanPixels ==
    ASSUME FrameInv, kind = "fan", inbox # <<>>, inbox' = Tail(inbox), inbox[1].code = "pixels",
           TakePixels(inbox[1].from), UNCHANGED <<kind, host>>
    PROVE  /\ FanInv' /\ outbox' \in Seq(Reply)
           /\ memory' \in Seq(Tag) /\ Len(memory') < Chunks /\ glitches' \in 0 .. MaxGlitches
<1>0. /\ step \in Nat /\ Len(memory) \in Nat /\ Chunks \in Nat \ {0} /\ step <= Chunks + 5
      /\ outbox \in Seq(Reply)
  <2>1. memory \in Seq(Tag) /\ outbox \in Seq(Reply)
    BY DEF FrameInv, FrameTypeOK
  <2>2. Place /\ step \in Nat /\ step <= Len(Script(kind))
    BY Placed
  <2> QED BY <2>1, <2>2, LenProperties, DisplayParameters DEF Place
<1>1. FanInv /\ UNCHANGED <<step, result>>
  BY DEF FrameInv, host
<1>2. /\ Len(inbox) \in Nat \ {0} /\ Len(inbox') = Len(inbox) - 1 /\ Len(inbox') \in Nat
      /\ \A i \in 1 .. Len(inbox') : inbox'[i] = inbox[i + 1] /\ i + 1 \in 1 .. Len(inbox)
      /\ 1 \in 1 .. Len(inbox) /\ (inbox' = <<>> <=> Len(inbox) = 1)
  BY CommandTaken
<1>3. PICK tag \in Tag :
          Keeps(tag) /\ \A i \in 1 .. Len(inbox) : inbox[i].code = "pixels" => inbox[i].from = tag
  BY <1>1 DEF FanInv
<1>4. inbox[1].from = tag
  BY <1>2, <1>3
<1>5. /\ memory' \in Seq(Tag) /\ Len(memory') < Chunks /\ Keeps(tag)'
      /\ glitches' \in 0 .. MaxGlitches
      /\ \/ /\ Len(memory') = Len(memory) + 1
            /\ UNCHANGED <<screen, outbox>>
         \/ /\ memory' = <<>> /\ Len(memory) + 1 = Chunks
            /\ \/ /\ screen' = tag
                  /\ outbox' = Append(outbox, [code |-> "pixels", from |-> tag])
               \/ /\ screen' = screen
                  /\ outbox' = Append(outbox, [code |-> "rejected", from |-> tag])
  BY <1>3, <1>4, PixelsTaken
<1>6. \/ Len(memory') = Len(memory) + 1 /\ UNCHANGED <<screen, outbox>>
      \/ /\ memory' = <<>> /\ Len(memory) + 1 = Chunks
         /\ outbox' \in Seq(Reply) /\ Len(outbox') = Len(outbox) + 1 /\ Len(outbox) \in Nat
         /\ \/ screen' = tag /\ outbox'[Len(outbox')].code = "pixels"
            \/ screen' = screen /\ outbox'[Len(outbox')].code = "rejected"
  <2>1. [code |-> "pixels", from |-> tag] \in Reply /\ [code |-> "rejected", from |-> tag] \in Reply
    BY DEF Reply
  <2>2. CASE outbox' = Append(outbox, [code |-> "pixels", from |-> tag])
    <3>1. /\ outbox' \in Seq(Reply) /\ Len(outbox') = Len(outbox) + 1 /\ Len(outbox) \in Nat
          /\ outbox'[Len(outbox')] = [code |-> "pixels", from |-> tag]
      BY <2>1, <2>2, ReplyAdded
    <3> QED BY <1>5, <2>2, <3>1
  <2>3. CASE outbox' = Append(outbox, [code |-> "rejected", from |-> tag])
    <3>1. /\ outbox' \in Seq(Reply) /\ Len(outbox') = Len(outbox) + 1 /\ Len(outbox) \in Nat
          /\ outbox'[Len(outbox')] = [code |-> "rejected", from |-> tag]
      BY <2>1, <2>3, ReplyAdded
    <3> QED BY <1>5, <2>3, <3>1
  <2> QED BY <1>5, <2>2, <2>3
<1>7. outbox' \in Seq(Reply) /\ screen' \in Tag
  BY <1>0, <1>1, <1>6 DEF FanInv
<1>8. Codes(inbox, {"stop", "reset", "pixels"})'
  BY <1>1, <1>2 DEF FanInv, Codes
<1>9. \A i \in 1 .. Len(inbox') : inbox'[i].code = "pixels" => inbox'[i].from = tag
  BY <1>2, <1>3
<1>10. ~(step' \in 2 .. 4)
  <2>1. step \in 2 .. 3 => FALSE
    BY <1>1, <1>2 DEF FanInv, Codes
  <2>2. step = 4 => FALSE
    BY <1>1, <1>2 DEF FanInv, Codes
  <2> QED BY <1>1, <2>1, <2>2
<1>11. step' = 1 => AllFrom(inbox, "old")' /\ Keeps("old")'
  <2>1. step = 1 => AllFrom(inbox, "old") /\ tag = "old"
    BY <1>1, <1>2, <1>4 DEF FanInv, AllFrom
  <2> QED BY <1>1, <1>2, <1>5, <2>1 DEF AllFrom
<1>12. step' > 4 =>
          /\ Keeps("mine")' /\ AllFrom(inbox, "mine")' /\ Codes(inbox, {"pixels"})'
          /\ Len(inbox') + Len(memory') <= step' - 5
          /\ \/ outbox' = <<>>
             \/ /\ step' = Chunks + 5 /\ Len(outbox') = 1 /\ inbox' = <<>> /\ memory' = <<>>
                /\ outbox'[1].code = "pixels" => screen' = "mine"
  <2> SUFFICES ASSUME step > 4
               PROVE  /\ Keeps("mine")' /\ AllFrom(inbox, "mine")' /\ Codes(inbox, {"pixels"})'
                      /\ Len(inbox') + Len(memory') <= step - 5
                      /\ \/ outbox' = <<>>
                         \/ /\ step = Chunks + 5 /\ Len(outbox') = 1 /\ inbox' = <<>>
                            /\ memory' = <<>>
                            /\ outbox'[1].code = "pixels" => screen' = "mine"
    BY <1>1
  <2>1. /\ AllFrom(inbox, "mine") /\ Codes(inbox, {"pixels"})
        /\ Len(inbox) + Len(memory) <= step - 5 /\ outbox = <<>>
    BY <1>1 DEF FanInv
  <2>2. tag = "mine"
    BY <1>2, <1>4, <2>1 DEF AllFrom
  <2>3. AllFrom(inbox, "mine")' /\ Codes(inbox, {"pixels"})'
    BY <1>2, <2>1 DEF AllFrom, Codes
  <2>4. CASE Len(memory') = Len(memory) + 1 /\ UNCHANGED <<screen, outbox>>
    BY <1>0, <1>2, <1>5, <2>1, <2>2, <2>3, <2>4
  <2>5. CASE /\ memory' = <<>> /\ Len(memory) + 1 = Chunks
             /\ Len(outbox') = Len(outbox) + 1
             /\ screen' = tag \/ outbox'[Len(outbox')].code = "rejected"
    <3>1. Len(memory') = 0 /\ Len(outbox') = 1
      BY <2>1, <2>5
    <3>2. step = Chunks + 5 /\ Len(inbox) = 1
      BY <1>0, <1>2, <2>1, <2>5
    <3>3. inbox' = <<>> /\ Len(inbox') + Len(memory') <= step - 5
      BY <1>0, <1>2, <3>1, <3>2
    <3> QED BY <1>5, <2>2, <2>3, <2>5, <3>1, <3>2, <3>3
  <2> QED BY <1>6, <2>4, <2>5
<1>13. ~(step' = 0 /\ result' = "ok")
  BY <1>1 DEF FanInv
<1>14. FanInv'
  <2>1. step' \in 1 .. 4 => step' = 1
    BY <1>0, <1>1, <1>10
  <2>2. ~(step' \in 2 .. 3) /\ step' # 4
    BY <1>10
  <2> QED BY <1>5, <1>7, <1>8, <1>9, <1>11, <1>12, <1>13, <2>1, <2>2 DEF FanInv
<1> QED BY <1>5, <1>7, <1>14

\* A pump takes a command.
LEMMA PumpTake ==
    ASSUME FrameInv, kind = "pump", Take
    PROVE  PumpInv' /\ outbox' \in Seq(Reply) /\ memory' = memory /\ glitches' \in 0 .. MaxGlitches
<1> DEFINE c == inbox[1]
           answer == [code |-> c.code, from |-> c.from]
           nothing == [code |-> "empty", from |-> c.from]
           refusal == [code |-> "rejected", from |-> c.from]
<1>0. outbox \in Seq(Reply) /\ glitches \in 0 .. MaxGlitches /\ MaxGlitches \in Nat
  BY DisplayParameters DEF FrameInv, FrameTypeOK
<1>1. PumpInv /\ UNCHANGED <<step, result>> /\ inbox # <<>> /\ inbox' = Tail(inbox)
  BY DEF FrameInv, Take, host
<1>2. /\ Len(inbox) \in Nat \ {0} /\ Len(inbox') = Len(inbox) - 1 /\ Head(inbox) = c
      /\ \A i \in 1 .. Len(inbox') : inbox'[i] = inbox[i + 1] /\ i + 1 \in 1 .. Len(inbox)
      /\ 1 \in 1 .. Len(inbox) /\ (inbox' = <<>> <=> Len(inbox) = 1) /\ c \in Command
  BY <1>1, CommandTaken
<1>3. c.code \in {"mode", "clear", "image"} /\ c.from \in Tag
  BY <1>1, <1>2 DEF PumpInv, Codes, Command
<1>4. /\ memory' = memory
      /\ \/ /\ screen' = IF c.code = "mode" THEN screen
                         ELSE IF c.code = "clear" THEN "blank" ELSE c.from
            /\ UNCHANGED glitches
            /\ outbox' = Append(outbox, answer) \/ outbox' = outbox \o <<answer, nothing>>
         \/ outbox' = Append(outbox, refusal) /\ Glitch /\ screen' = screen
  BY <1>2, <1>3 DEF Take, Answer
<1>5. answer \in Reply /\ nothing \in Reply /\ refusal \in Reply
  BY <1>3 DEF Reply
<1>6. /\ outbox' \in Seq(Reply)
      /\ \A i \in 1 .. Len(outbox') :
            \/ i \in 1 .. Len(outbox) /\ outbox'[i] = outbox[i]
            \/ outbox'[i].code \in {"empty", "rejected"}
            \/ outbox'[i] = answer /\ (c.code = "image" => screen' = c.from)
  <2>1. CASE outbox' = outbox \o <<answer, nothing>>
    <3> DEFINE more == <<answer, nothing>>
    <3>1. more \in Seq(Reply) /\ Len(more) = 2 /\ more[1] = answer /\ more[2] = nothing
      BY <1>5
    <3>2. nothing.code = "empty"
      OBVIOUS
    <3> HIDE DEF more, answer, nothing
    <3>3. outbox \o more \in Seq(Reply)
      BY <1>0, <3>1, ConcatProperties
    <3>4. /\ Len(outbox) \in Nat /\ Len(outbox \o more) = Len(outbox) + Len(more)
          /\ \A i \in 1 .. Len(outbox) : (outbox \o more)[i] = outbox[i]
          /\ \A i \in 1 .. Len(more) : (outbox \o more)[Len(outbox) + i] = more[i]
      <4>1. outbox \in Seq(Reply) /\ more \in Seq(Reply)
        BY <1>0, <3>1
      <4> QED BY <4>1, Joined
    <3>5. \A i \in 1 .. Len(outbox \o more) :
              i \in 1 .. Len(outbox) \/ i = Len(outbox) + 1 \/ i = Len(outbox) + 2
      BY <3>1, <3>4
    <3>6. (outbox \o more)[Len(outbox) + 1] = answer /\ (outbox \o more)[Len(outbox) + 2] = nothing
      <4>1. 1 \in 1 .. Len(more) /\ 2 \in 1 .. Len(more)
        BY <3>1
      <4> QED BY <3>1, <3>4, <4>1
    <3>7. c.code = "image" => screen' = c.from
      <4>1. CASE screen' = IF c.code = "mode" THEN screen
                           ELSE IF c.code = "clear" THEN "blank" ELSE c.from
        BY <4>1
      <4>2. CASE outbox' = Append(outbox, refusal)
        <5>1. Len(outbox') = Len(outbox) + 1
          BY <1>0, <1>5, <4>2, Appended
        <5> QED BY <2>1, <3>1, <3>4, <5>1 DEF more
      <4> QED BY <1>4, <4>1, <4>2
    <3> QED BY <2>1, <3>2, <3>3, <3>4, <3>5, <3>6, <3>7 DEF more
  <2>2. CASE outbox' = Append(outbox, answer)
    <3>1. c.code = "image" => screen' = c.from
      <4>1. CASE screen' = IF c.code = "mode" THEN screen
                           ELSE IF c.code = "clear" THEN "blank" ELSE c.from
        BY <4>1
      <4>2. CASE outbox' = Append(outbox, refusal)
        <5>1. outbox'[Len(outbox')] = answer /\ outbox'[Len(outbox')] = refusal
          BY <1>5, <2>2, <4>2, ReplyAdded
        <5> QED BY <1>3, <5>1
      <4> QED BY <1>4, <4>1, <4>2
    <3>2. /\ outbox' \in Seq(Reply)
          /\ \A i \in 1 .. Len(outbox') : (i \in 1 .. Len(outbox) /\ outbox'[i] = outbox[i])
                                          \/ (i = Len(outbox') /\ outbox'[i] = answer)
      BY <1>5, <2>2, ReplyAdded
    <3> HIDE DEF answer
    <3> QED BY <3>1, <3>2
  <2>3. CASE outbox' = Append(outbox, refusal)
    <3>1. /\ outbox' \in Seq(Reply)
          /\ \A i \in 1 .. Len(outbox') : (i \in 1 .. Len(outbox) /\ outbox'[i] = outbox[i])
                                          \/ (i = Len(outbox') /\ outbox'[i] = refusal)
      BY <1>5, <2>3, ReplyAdded
    <3>2. refusal.code = "rejected"
      OBVIOUS
    <3> HIDE DEF refusal
    <3> QED BY <3>1, <3>2
  <2> QED BY <1>4, <2>1, <2>2, <2>3
<1>7. screen' # "mixed"
  BY <1>1, <1>3, <1>4 DEF PumpInv, Tag
<1>8. Codes(inbox, {"mode", "clear", "image"})'
  BY <1>1, <1>2 DEF PumpInv, Codes
<1>9. ASSUME step > 0
      PROVE  /\ \A i \in 1 .. Len(inbox') : inbox'[i].code = "image" /\ inbox'[i].from = "mine" =>
                    step = 6 /\ i = Len(inbox')
             /\ \A i \in 1 .. Len(outbox') :
                    outbox'[i].code = "image" /\ outbox'[i].from = "mine" =>
                    step = 6 /\ inbox' = <<>> /\ screen' = "mine"
  <2>1. /\ \A i \in 1 .. Len(inbox) :
              inbox[i].code = "image" /\ inbox[i].from = "mine" => step = 6 /\ i = Len(inbox)
        /\ \A i \in 1 .. Len(outbox) : ~(outbox[i].code = "image" /\ outbox[i].from = "mine")
    BY <1>1, <1>9 DEF PumpInv
  <2>2. ASSUME NEW i \in 1 .. Len(inbox'), inbox'[i].code = "image", inbox'[i].from = "mine"
        PROVE  step = 6 /\ i = Len(inbox')
    <3>1. step = 6 /\ i + 1 = Len(inbox)
      BY <1>2, <2>1, <2>2
    <3> QED BY <1>2, <3>1
  <2>3. ASSUME NEW i \in 1 .. Len(outbox'), outbox'[i].code = "image", outbox'[i].from = "mine"
        PROVE  step = 6 /\ inbox' = <<>> /\ screen' = "mine"
    <3>1. outbox'[i] = answer /\ (c.code = "image" => screen' = c.from)
      BY <1>6, <2>1, <2>3
    <3>2. c.code = "image" /\ c.from = "mine"
      BY <2>3, <3>1
    <3>3. step = 6 /\ 1 = Len(inbox)
      BY <1>2, <2>1, <3>2
    <3> QED BY <1>2, <3>1, <3>2, <3>3
  <2> QED BY <2>2, <2>3
<1>10. ~(step = 0 /\ result = "ok")
  BY <1>1 DEF PumpInv
<1>11. glitches' \in 0 .. MaxGlitches
  BY <1>0, <1>4 DEF Glitch
<1>12. PumpInv'
  BY <1>1, <1>7, <1>8, <1>9, <1>10 DEF PumpInv
<1> QED BY <1>4, <1>6, <1>11, <1>12

\* A pump that does not act on a command.
LEMMA PumpDropped ==
    ASSUME FrameInv, kind = "pump", inbox # <<>>, inbox' = Tail(inbox),
           UNCHANGED <<kind, host, firmware, outbox>>
    PROVE  PumpInv'
<1>1. PumpInv /\ UNCHANGED <<step, result, screen, outbox>>
  BY DEF FrameInv, host, firmware
<1>2. /\ Len(inbox) \in Nat \ {0} /\ Len(inbox') = Len(inbox) - 1
      /\ \A i \in 1 .. Len(inbox') : inbox'[i] = inbox[i + 1] /\ i + 1 \in 1 .. Len(inbox)
                                     /\ (i + 1 = Len(inbox) => i = Len(inbox'))
  BY CommandTaken
<1>3. Codes(inbox, {"mode", "clear", "image"})' /\ screen' # "mixed"
  BY <1>1, <1>2 DEF PumpInv, Codes
<1>4. ASSUME step > 0, NEW i \in 1 .. Len(inbox'), inbox'[i].code = "image", inbox'[i].from = "mine"
      PROVE  step = 6 /\ i = Len(inbox')
  <2>1. step = 6 /\ i + 1 = Len(inbox)
    BY <1>1, <1>2, <1>4 DEF PumpInv
  <2> QED BY <1>2, <2>1
<1>5. step > 0 => \A i \in 1 .. Len(outbox') :
          ~(outbox'[i].code = "image" /\ outbox'[i].from = "mine")
  BY <1>1 DEF PumpInv
<1>6. ~(step = 0 /\ result = "ok")
  BY <1>1 DEF PumpInv
<1> QED BY <1>1, <1>3, <1>4, <1>5, <1>6 DEF PumpInv

\* A Cyclops takes a command: of an earlier frame, then the start of this one, then its pixels.
LEMMA CyclopsTake ==
    ASSUME FrameInv, kind = "cyclops", Take
    PROVE  /\ CyclopsInv' /\ outbox' = outbox /\ glitches' \in 0 .. MaxGlitches
           /\ memory' \in Seq(Tag) /\ Len(memory') < Chunks
<1> DEFINE c == inbox[1]
<1>0. /\ glitches \in 0 .. MaxGlitches /\ MaxGlitches \in Nat /\ Chunks \in Nat \ {0}
      /\ memory \in Seq(Tag) /\ Len(memory) < Chunks
  BY DisplayParameters DEF FrameInv, FrameTypeOK
<1>1. CyclopsInv /\ UNCHANGED <<kind, step, result>> /\ inbox # <<>> /\ inbox' = Tail(inbox)
  BY DEF FrameInv, Take, host
<1>2. /\ Len(inbox) \in Nat \ {0} /\ Len(inbox') = Len(inbox) - 1 /\ Head(inbox) = c
      /\ \A i \in 1 .. Len(inbox') : inbox'[i] = inbox[i + 1] /\ i + 1 \in 1 .. Len(inbox)
      /\ 1 \in 1 .. Len(inbox) /\ Len(inbox') \in Nat
  BY <1>1, CommandTaken
<1>3. c.code \in {"start", "pixels"}
  BY <1>1, <1>2 DEF CyclopsInv, Codes
<1>4. \/ c.code = "start" /\ memory' = <<>> /\ UNCHANGED <<screen, outbox, glitches>>
      \/ c.code = "pixels" /\ TakePixels(c.from)
  BY <1>2, <1>3 DEF Take
<1>5. Codes(inbox, {"start", "pixels"})'
  BY <1>1, <1>2 DEF CyclopsInv, Codes
<1>6. ASSUME NEW tag \in Tag, Keeps(tag), c.from = tag
      PROVE  /\ Keeps(tag)' /\ screen' \in Tag /\ outbox' = outbox /\ glitches' \in 0 .. MaxGlitches
             /\ memory' \in Seq(Tag) /\ Len(memory') < Chunks
  <2>1. screen \in Tag
    BY <1>1 DEF CyclopsInv
  <2>2. CASE c.code = "start" /\ memory' = <<>> /\ UNCHANGED <<screen, outbox, glitches>>
    BY <1>0, <2>1, <2>2 DEF Keeps
  <2>3. CASE c.code = "pixels" /\ TakePixels(c.from)
    <3>1. TakePixels(tag)
      BY <1>6, <2>3
    <3>2. /\ memory' \in Seq(Tag) /\ Len(memory') < Chunks /\ Keeps(tag)'
          /\ glitches' \in 0 .. MaxGlitches
          /\ \/ UNCHANGED <<screen, outbox>>
             \/ screen' = tag /\ outbox' = outbox
      BY <1>1, <1>6, <3>1, PixelsTaken
    <3> QED BY <2>1, <3>2
  <2> QED BY <1>4, <2>2, <2>3
<1>7. PICK k \in 0 .. Len(inbox) : Cut(k)
  BY <1>1 DEF CyclopsInv
<1>8. c.from = IF 1 <= k THEN "old" ELSE "mine"
  BY <1>2, <1>7 DEF Cut
<1>9. CASE k = 0
  <2>1. ~(1 <= k) /\ c.from = "mine"
    BY <1>8, <1>9
  <2>2. step # 1
    BY <1>1, <1>2, <2>1 DEF CyclopsInv, AllFrom
  <2>3. \A i \in 1 .. Len(inbox') : inbox'[i].from = "mine"
    <3>1. \A i \in 1 .. Len(inbox) : inbox[i].from = "mine"
      BY <1>2, <1>7, <1>9 DEF Cut
    <3> QED BY <1>2, <3>1
  <2>4. CASE Keeps("mine") /\ Codes(inbox, {"pixels"})
    <3>1. /\ Keeps("mine")' /\ screen' \in Tag /\ outbox' = outbox /\ glitches' \in 0 .. MaxGlitches
          /\ memory' \in Seq(Tag) /\ Len(memory') < Chunks
      BY <1>6, <2>1, <2>4 DEF Tag
    <3>2. Codes(inbox, {"pixels"})'
      BY <1>2, <2>4 DEF Codes
    <3>3. Cut(0)' /\ 0 \in 0 .. Len(inbox')
      BY <1>2, <2>3, <3>1, <3>2 DEF Cut
    <3> QED BY <1>1, <1>5, <2>2, <3>1, <3>3 DEF CyclopsInv
  <2>5. CASE ~(Keeps("mine") /\ Codes(inbox, {"pixels"}))
    <3>1. c.code = "start" /\ \A i \in 1 .. Len(inbox) : i > 1 => inbox[i].code = "pixels"
      BY <1>2, <1>7, <1>9, <2>5 DEF Cut
    <3>2. memory' = <<>> /\ UNCHANGED <<screen, outbox, glitches>>
      BY <1>4, <3>1
    <3>3. Codes(inbox, {"pixels"})'
      <4>1. \A i \in 1 .. Len(inbox') : i + 1 > 1
        BY <1>2
      <4> QED BY <1>2, <3>1, <4>1 DEF Codes
    <3>4. Keeps("mine")'
      BY <3>2 DEF Keeps
    <3>5. Cut(0)' /\ 0 \in 0 .. Len(inbox')
      BY <1>2, <2>3, <3>3, <3>4 DEF Cut
    <3>6. screen' \in Tag /\ memory' \in Seq(Tag) /\ Len(memory') < Chunks
      BY <1>0, <1>1, <3>2 DEF CyclopsInv
    <3> QED BY <1>0, <1>1, <1>5, <2>2, <3>2, <3>5, <3>6 DEF CyclopsInv
  <2> QED BY <2>4, <2>5
<1>10. CASE k # 0
  <2>1. k \in Nat /\ 1 <= k /\ c.from = "old" /\ k - 1 \in 0 .. Len(inbox')
    BY <1>2, <1>7, <1>8, <1>10
  <2>2. /\ Keeps("old")
        /\ IF k = Len(inbox) THEN step <= 1 ELSE inbox[k + 1].code = "start"
        /\ \A i \in 1 .. Len(inbox) : i > k + 1 => inbox[i].code = "pixels"
    BY <1>7, <1>10 DEF Cut
  <2>3. /\ Keeps("old")' /\ screen' \in Tag /\ outbox' = outbox /\ glitches' \in 0 .. MaxGlitches
        /\ memory' \in Seq(Tag) /\ Len(memory') < Chunks
    BY <1>6, <2>1, <2>2 DEF Tag
  <2> DEFINE j == k - 1
  <2>4. \A i \in 1 .. Len(inbox') : inbox'[i].from = IF i <= j THEN "old" ELSE "mine"
    <3>1. \A i \in 1 .. Len(inbox') : inbox[i + 1].from = IF i + 1 <= k THEN "old" ELSE "mine"
      BY <1>2, <1>7 DEF Cut
    <3>2. \A i \in 1 .. Len(inbox') : i + 1 <= k <=> i <= j
      BY <1>2, <2>1
    <3> QED BY <1>2, <3>1, <3>2
  <2>5. IF j = Len(inbox') THEN step' <= 1 ELSE inbox'[j + 1].code = "start"
    <3>1. j = Len(inbox') <=> k = Len(inbox)
      BY <1>2, <2>1
    <3>2. CASE k = Len(inbox)
      BY <1>1, <2>2, <3>1, <3>2
    <3>3. CASE k # Len(inbox)
      <4>1. j + 1 \in 1 .. Len(inbox') /\ j + 1 = k
        BY <1>2, <1>7, <2>1, <3>3
      <4>2. inbox'[j + 1] = inbox[k + 1]
        BY <1>2, <4>1
      <4> QED BY <2>2, <3>1, <3>3, <4>2
    <3> QED BY <3>2, <3>3
  <2>6. \A i \in 1 .. Len(inbox') : i > j + 1 => inbox'[i].code = "pixels"
    <3>1. \A i \in 1 .. Len(inbox') : i > j + 1 => i + 1 > k + 1
      BY <1>2, <2>1
    <3> QED BY <1>2, <2>2, <3>1
  <2>7. step' = 1 => AllFrom(inbox, "old")'
    BY <1>1, <1>2 DEF CyclopsInv, AllFrom
  <2>8. j \in 0 .. Len(inbox')
    BY <2>1
  <2> HIDE DEF j
  <2>9. Cut(j)'
    BY <2>3, <2>4, <2>5, <2>6 DEF Cut
  <2> QED BY <1>5, <2>3, <2>7, <2>8, <2>9 DEF CyclopsInv
<1> QED BY <1>9, <1>10

\* The firmware takes a command.
LEMMA TakeStep == FrameInv /\ Take => FrameInv'
<1> SUFFICES ASSUME FrameInv, Take
             PROVE  FrameInv'
  OBVIOUS
<1>0. kind \in {"fan", "pump", "cyclops"} /\ FrameTypeOK /\ CountInv /\ Chunks \in Nat \ {0}
  BY Placed, DisplayParameters DEF FrameInv
<1>1. /\ inbox # <<>> /\ inbox' = Tail(inbox)
      /\ UNCHANGED <<kind, step, reads, empties, result>> /\ UNCHANGED <<kind, host>>
  BY DEF Take, host
<1>2. inbox' \in Seq(Command) /\ Head(inbox) = inbox[1] /\ 1 \in 1 .. Len(inbox)
  BY <1>1, CommandTaken
<1>3. CountInv'
  BY <1>0, <1>1 DEF CountInv, At
<1>4. ASSUME outbox' \in Seq(Reply), memory' \in Seq(Tag), Len(memory') < Chunks,
             glitches' \in 0 .. MaxGlitches, screen' \in {"mine", "old", "mixed", "blank"}
      PROVE  FrameTypeOK'
  BY <1>0, <1>1, <1>2, <1>4 DEF FrameTypeOK
<1>5. CASE kind = "fan"
  <2>1. inbox[1].code \in {"stop", "reset", "pixels"}
    BY <1>2, <1>5 DEF FrameInv, FanInv, Codes
  <2>2. \/ inbox[1].code = "stop" /\ UNCHANGED <<firmware, outbox, glitches>>
        \/ /\ inbox[1].code = "reset" /\ memory' = <<>> /\ Answer("reset", inbox[1].from)
           /\ UNCHANGED <<screen, glitches>>
        \/ inbox[1].code = "pixels" /\ TakePixels(inbox[1].from)
    BY <1>2, <2>1 DEF Take
  <2>3. CASE inbox[1].code = "stop" /\ UNCHANGED <<firmware, outbox, glitches>>
    <3>1. FanInv'
      BY <1>1, <1>5, <2>3, FanDropped
    <3>2. FrameTypeOK'
      BY <1>0, <1>1, <1>2, <2>3 DEF FrameTypeOK, firmware
    <3> QED BY <1>1, <1>3, <1>5, <3>1, <3>2, FrameParts
  <2>4. CASE /\ inbox[1].code = "reset" /\ memory' = <<>> /\ Answer("reset", inbox[1].from)
             /\ UNCHANGED <<screen, glitches>>
    <3>1. FanInv' /\ outbox' \in Seq(Reply)
      BY <1>1, <1>5, <2>4, FanReset
    <3>2. FrameTypeOK'
      <4>1. memory' \in Seq(Tag) /\ Len(memory') < Chunks
        BY <1>0, <2>4
      <4> QED BY <1>0, <1>4, <2>4, <3>1, <4>1 DEF FrameTypeOK
    <3> QED BY <1>1, <1>3, <1>5, <3>1, <3>2, FrameParts
  <2>5. CASE inbox[1].code = "pixels" /\ TakePixels(inbox[1].from)
    <3>1. /\ FanInv' /\ outbox' \in Seq(Reply)
          /\ memory' \in Seq(Tag) /\ Len(memory') < Chunks /\ glitches' \in 0 .. MaxGlitches
      BY <1>1, <1>5, <2>5, FanPixels
    <3>2. screen' \in {"mine", "old", "mixed", "blank"}
      BY <3>1 DEF FanInv, Tag
    <3>3. FrameTypeOK'
      BY <1>4, <3>1, <3>2
    <3> QED BY <1>1, <1>3, <1>5, <3>1, <3>3, FrameParts
  <2> QED BY <2>2, <2>3, <2>4, <2>5
<1>6. CASE kind = "pump"
  <2>1. /\ PumpInv' /\ outbox' \in Seq(Reply) /\ memory' = memory
        /\ glitches' \in 0 .. MaxGlitches
    BY <1>6, PumpTake
  <2>2. screen' \in {"mine", "old", "mixed", "blank"}
    <3>1. inbox[1].code \in {"mode", "clear", "image"} /\ inbox[1].from \in Tag
      <4>1. inbox[1] \in Command
        BY <1>1, CommandTaken
      <4> QED BY <1>2, <1>6, <4>1 DEF FrameInv, PumpInv, Codes, Command
    <3> QED BY <1>0, <1>2, <3>1 DEF Take, FrameTypeOK, Tag
  <2>3. FrameTypeOK'
    BY <1>0, <1>4, <2>1, <2>2 DEF FrameTypeOK
  <2> QED BY <1>1, <1>3, <1>6, <2>1, <2>3, FrameParts
<1>7. CASE kind = "cyclops"
  <2>1. /\ CyclopsInv' /\ outbox' = outbox /\ glitches' \in 0 .. MaxGlitches
        /\ memory' \in Seq(Tag) /\ Len(memory') < Chunks
    BY <1>7, CyclopsTake
  <2>2. screen' \in {"mine", "old", "mixed", "blank"}
    BY <2>1 DEF CyclopsInv, Tag
  <2>3. FrameTypeOK'
    BY <1>0, <1>4, <2>1, <2>2 DEF FrameTypeOK
  <2> QED BY <1>1, <1>3, <1>7, <2>1, <2>3, FrameParts
<1> QED BY <1>0, <1>5, <1>6, <1>7

\* The firmware does not act on a command.
LEMMA IgnoreStep == FrameInv /\ Ignore => FrameInv'
<1> SUFFICES ASSUME FrameInv, Ignore
             PROVE  FrameInv'
  OBVIOUS
<1>0. kind \in {"fan", "pump", "cyclops"} /\ FrameTypeOK /\ CountInv /\ MaxGlitches \in Nat
  BY Placed, DisplayParameters DEF FrameInv
<1>1. /\ inbox # <<>> /\ inbox' = Tail(inbox) /\ kind # "cyclops"
      /\ UNCHANGED <<kind, step, reads, empties, result, memory, screen, outbox>>
      /\ UNCHANGED <<kind, host, firmware, outbox>> /\ Glitch
  BY DEF Ignore, host, firmware
<1>2. CountInv'
  BY <1>0, <1>1 DEF CountInv, At
<1>3. FrameTypeOK'
  <2>1. inbox' \in Seq(Command)
    BY <1>1, CommandTaken
  <2> QED BY <1>0, <1>1, <2>1 DEF FrameTypeOK, Glitch
<1>4. kind = "fan" => FanInv'
  BY <1>1, FanDropped
<1>5. kind = "pump" => PumpInv'
  BY <1>1, PumpDropped
<1> QED BY <1>0, <1>1, <1>2, <1>3, <1>4, <1>5, FrameParts

\* Every step keeps the invariant.
LEMMA FrameStep == FrameInv /\ [FrameNext]_frameVars => FrameInv'
<1> SUFFICES ASSUME FrameInv, [FrameNext]_frameVars
             PROVE  FrameInv'
  OBVIOUS
<1>1. CASE UNCHANGED frameVars
  <2>1. /\ UNCHANGED <<kind, step, reads, empties, result, inbox, memory, screen, outbox>>
        /\ glitches' = glitches
    BY <1>1 DEF frameVars, host, firmware
  <2>2. FrameTypeOK' /\ CountInv'
    BY <2>1 DEF FrameInv, FrameTypeOK, CountInv, At
  <2>3. FanInv <=> FanInv'
    BY <2>1 DEF FanInv, Codes, AllFrom, Keeps
  <2>4. PumpInv <=> PumpInv'
    BY <2>1 DEF PumpInv, Codes
  <2>5. CyclopsInv <=> CyclopsInv'
    BY <2>1 DEF CyclopsInv, Cut, Codes, AllFrom, Keeps
  <2> QED BY <2>1, <2>2, <2>3, <2>4, <2>5 DEF FrameInv
<1> QED BY <1>1, BeginStep, WriteStep, DrainStep, AwaitStep, TimeoutStep, TakeStep, IgnoreStep
        DEF FrameNext, Host

\* The invariant implies what a transaction may claim of the panel.
LEMMA FrameImplies == FrameInv => FramesWhole
<1> SUFFICES ASSUME FrameInv
             PROVE  FramesWhole
  OBVIOUS
<1>1. kind \in {"fan", "pump", "cyclops"} /\ FrameTypeOK
  BY Placed DEF FrameInv
<1>2. AcknowledgedIsShown
  BY <1>1 DEF FrameInv, FanInv, PumpInv, AcknowledgedIsShown
<1>3. NeverMixed
  BY <1>1 DEF FrameInv, FanInv, PumpInv, CyclopsInv, NeverMixed, Tag
<1> QED BY <1>1, <1>2, <1>3 DEF FramesWhole

\* Whatever was left in the endpoint, and whichever writes and replies fail: an acknowledged
\* frame of a pump or a fan is the one its screen shows, and no screen mixes two frames.
THEOREM FramesAreWhole == FrameSpec => []FramesWhole
BY FrameStart, FrameStep, FrameImplies, PTL DEF FrameSpec
=============================================================================
