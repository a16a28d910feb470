----------------------------- MODULE ServerProofs -----------------------------
(***************************************************************************)
(* The shutdown of the server, for any clients, posts, capacities and      *)
(* parts that hang: serve gives its controls back only when the work they  *)
(* protect has ended or the five seconds are over, and these run out only  *)
(* on a client or a part that does not answer.                             *)
(*                                                                         *)
(* The first follows from StageInv, what serve has waited for when it is   *)
(* at each of its steps.  The second needs HandlerInv besides: at every    *)
(* place of a handler, what it waits for is known.                         *)
(*                                                                         *)
(* The slots: SlotInv says that the slots in use are as many as the        *)
(* handlers at a place that holds one.  A step moves one handler, which    *)
(* adds it to a finite set of users or removes it.                         *)
(*                                                                         *)
(* The intake: what each projector makes is WellMade, which the sink and   *)
(* the module refuse only for what explains it; IntakeInv says that all a  *)
(* handler holds is well made, and that its answer is about the next of it.*)
(***************************************************************************)
EXTENDS Server, FiniteSetTheorems, TLAPS

Fields == {"route", "at", "post", "batch", "taken", "answer"}

\* The places of a handler, the routes that lead to them, and what it makes of a post.
Placed(c, h) ==
    /\ DOMAIN h = Fields /\ h = [f \in Fields |-> h[f]]
    /\ h.at \in Places \cup {"idle"}
    /\ IF h.at = "idle" THEN h = Idle ELSE h.route \in Routes
    /\ h.at = "render" => h.route = "frame"
    /\ h.at = "reading" => h.route \in {"ai", "api", "editor"}
    /\ h.at = "call" => h.route \in {"ai", "api", "editor", "frame"}
    /\ c = Manager => h.at \in {"idle", "emit", "observe", "answered"}
    /\ h.post # Missing => h.post \in Posts /\ h.batch = Project(h.post).out

HandlerInv ==
    /\ client = [c \in Handlers |-> client[c]]
    /\ \A c \in Handlers : Placed(c, client[c])

Later == {"displays", "unwind", "closing"}

\* What has been started, what was waited for, and what is still held.
StageInv ==
    /\ held \in 0 .. 5 /\ part \in [Parts -> {"off", "running", "done"}]
    /\ main \in {"setup", "serving", "shutdown", "adapters", "displays", "unwind", "closing",
                 "exited"}
    /\ main = "setup" => (\A p \in Parts : part[p] = "off") /\ Quiet
    /\ main \in {"serving", "shutdown", "adapters", "displays"} =>
           held = 5 /\ \A p \in Parts \cap hung : part[p] = "running"
    /\ main # "serving" => ~listening
    /\ main \in {"shutdown", "adapters", "displays"} => cancelled
    /\ main \in {"adapters"} \cup Later => expired \/ Quiet
    /\ main \in Later => expired \/ part["adapters"] # "running"
    /\ main \in {"unwind", "closing"} => expired \/ part["displays"] # "running"

IInv == HandlerInv /\ StageInv

-----------------------------------------------------------------------------
\* An idle handler, and the fields of a new one.
LEMMA NewHandler ==
    ASSUME NEW route, NEW at
    PROVE  /\ DOMAIN Handler(route, at) = Fields
           /\ Handler(route, at) = [f \in Fields |-> Handler(route, at)[f]]
           /\ Handler(route, at).route = route /\ Handler(route, at).at = at
           /\ Handler(route, at).post = Missing
BY DEF Handler, Fields

\* Nothing runs at first.
LEMMA InitInv == Init => IInv
<1> SUFFICES ASSUME Init PROVE IInv
  OBVIOUS
<1>1. \A c \in Handlers : client[c] = Idle
  BY DEF Init
<1>2. HandlerInv
  BY <1>1, NewHandler DEF Init, HandlerInv, Placed, Idle
<1>3. StageInv
  BY <1>1 DEF Init, StageInv, Quiet, Handlers, Later, Parts
<1> QED
  BY <1>2, <1>3 DEF IInv

\* One handler moves.
LEMMA Moves ==
    ASSUME HandlerInv, NEW c \in Handlers, NEW h, Placed(c, h),
           client' = [client EXCEPT ![c] = h]
    PROVE  HandlerInv'
BY DEF HandlerInv, Placed, Idle, Handler

LEMMA GoesTo ==
    ASSUME HandlerInv, NEW c \in Handlers, NEW w \in Places, Goto(c, w), client[c].at # "idle",
           w = "render" => client[c].route = "frame",
           w = "reading" => client[c].route \in {"ai", "api", "editor"},
           w = "call" => client[c].route \in {"ai", "api", "editor", "frame"},
           c = Manager => w \in {"emit", "observe", "answered"}
    PROVE  HandlerInv'
<1> DEFINE h == [client[c] EXCEPT !.at = w]
<1>1. client' = [client EXCEPT ![c] = h]
  BY DEF Goto
<1>2. Placed(c, client[c])
  BY DEF HandlerInv
<1>3. /\ h.at = w /\ h.route = client[c].route /\ DOMAIN h = Fields /\ h = [f \in Fields |-> h[f]]
      /\ h.post = client[c].post /\ h.batch = client[c].batch
  BY <1>2 DEF Placed, Fields
<1>4. Placed(c, h)
  BY <1>2, <1>3 DEF Placed, Places
<1> HIDE DEF h
<1> QED
  BY <1>1, <1>4, Moves

LEMMA Ends ==
    ASSUME HandlerInv, NEW c \in Handlers, client' = [client EXCEPT ![c] = Idle]
    PROVE  HandlerInv'
<1>1. Placed(c, Idle)
  BY NewHandler DEF Placed, Idle
<1> QED
  BY <1>1, Moves

LEMMA Answers ==
    ASSUME HandlerInv, NEW c \in Handlers, NEW answer, Answer(c, answer), client[c].at # "idle"
    PROVE  HandlerInv'
<1> DEFINE h == [client[c] EXCEPT !.at = "answered", !.answer = answer]
<1>1. client' = [client EXCEPT ![c] = h]
  BY DEF Answer
<1>2. Placed(c, client[c])
  BY DEF HandlerInv
<1>3. /\ h.at = "answered" /\ h.route = client[c].route
      /\ DOMAIN h = Fields /\ h = [f \in Fields |-> h[f]]
      /\ h.post = client[c].post /\ h.batch = client[c].batch
  BY <1>2 DEF Placed, Fields
<1>4. Placed(c, h)
  BY <1>2, <1>3 DEF Placed, Places
<1> HIDE DEF h
<1> QED
  BY <1>1, <1>4, Moves

\* The steps of a handler keep the places.
LEMMA HandlerStep ==
    ASSUME HandlerInv, [Next]_vars
    PROVE  HandlerInv'
<1>1. ASSUME UNCHANGED client PROVE HandlerInv'
  BY <1>1 DEF HandlerInv, Placed, Idle, Handler
<1>2. ASSUME NEW c \in Clients, Request(c) PROVE HandlerInv'
  <2>1. c \in Handlers /\ c # Manager
    BY ServerAssumption DEF Handlers
  <2>2. PICK route \in Routes :
            \/ UNCHANGED client
            \/ client' = [client EXCEPT ![c] = Handler(route, "answered")]
            \/ client' = [client EXCEPT ![c] = Handler(route, FirstPlace[route])]
    BY <1>2 DEF Request
  <2>3. Placed(c, Handler(route, "answered")) /\ Placed(c, Handler(route, FirstPlace[route]))
    <3>1. FirstPlace[route] \in {"reading", "render", "subscribe"}
          /\ (FirstPlace[route] = "render" => route = "frame")
          /\ (FirstPlace[route] = "reading" => route \in {"ai", "api", "editor"})
      BY DEF FirstPlace, Routes
    <3> QED
      BY <2>1, <3>1, NewHandler DEF Placed, Places
  <2> QED
    BY <1>1, <2>1, <2>2, <2>3, Moves
<1>3. ASSUME NEW c \in Clients, Body(c) PROVE HandlerInv'
  <2>1. c \in Handlers /\ c # Manager /\ Placed(c, client[c])
    BY ServerAssumption DEF Handlers, HandlerInv
  <2>2. CASE Goto(c, "call")
    <3>1. client[c].at # "idle" /\ client[c].route \in {"ai", "api", "editor", "frame"}
      BY <1>3, <2>1 DEF Body, At, Placed
    <3> QED
      BY <2>1, <2>2, <3>1, GoesTo DEF Places
  <2>3. ASSUME NEW post \in Posts, NEW w \in {"emit", "answered"}, NEW answer,
               NEW batch, batch = Project(post).out,
               client' = [client EXCEPT ![c].post = post, ![c].batch = batch,
                                        ![c].at = w, ![c].answer = answer]
        PROVE  HandlerInv'
    <3> DEFINE h == [client[c] EXCEPT !.post = post, !.batch = batch, !.at = w, !.answer = answer]
    <3>1. client' = [client EXCEPT ![c] = h]
      BY <2>3
    <3>2. /\ h.at = w /\ DOMAIN h = Fields /\ h = [f \in Fields |-> h[f]]
          /\ h.post = post /\ h.batch = batch /\ h.route \in Routes
      BY <1>3, <2>1 DEF Body, At, Placed, Fields, Routes
    <3>3. Placed(c, h)
      BY <2>1, <2>3, <3>2 DEF Placed, Places
    <3> HIDE DEF h
    <3> QED
      BY <2>1, <3>1, <3>3, Moves
  <2>4. ASSUME NEW post \in Posts,
               client' = [client EXCEPT ![c].post = post, ![c].batch = Project(post).out,
                             ![c].at = IF Project(post).ok THEN "emit" ELSE "answered",
                             ![c].answer = IF Project(post).ok THEN "none" ELSE "malformed"]
        PROVE  HandlerInv'
    <3> DEFINE w == IF Project(post).ok THEN "emit" ELSE "answered"
               answer == IF Project(post).ok THEN "none" ELSE "malformed"
               batch == Project(post).out
    <3>1. w \in {"emit", "answered"}
      OBVIOUS
    <3>2. client' = [client EXCEPT ![c].post = post, ![c].batch = batch,
                                   ![c].at = w, ![c].answer = answer]
      BY <2>4
    <3>3. batch = Project(post).out
      OBVIOUS
    <3> HIDE DEF w, answer, batch
    <3> QED
      BY <2>3, <3>1, <3>2, <3>3
  <2>5. \/ Goto(c, "call")
        \/ \E post \in Posts :
              client' = [client EXCEPT ![c].post = post, ![c].batch = Project(post).out,
                             ![c].at = IF Project(post).ok THEN "emit" ELSE "answered",
                             ![c].answer = IF Project(post).ok THEN "none" ELSE "malformed"]
    BY <1>3, Zenon DEF Body
  <2> QED
    BY <2>2, <2>4, <2>5
<1>4. ASSUME NEW c \in Clients,
             Answered(c) \/ Broken(c) \/ Written(c) \/ Push(c) \/ StreamEnds(c) \/ HangUp(c)
      PROVE  HandlerInv'
  <2>1. c \in Handlers /\ c # Manager
    BY ServerAssumption DEF Handlers
  <2>2. CASE client' = [client EXCEPT ![c] = Idle]
    BY <2>1, <2>2, Ends
  <2>3. ASSUME NEW w \in {"stream", "writing"}, Goto(c, w), client[c].at # "idle"
        PROVE  HandlerInv'
    BY <2>1, <2>3, GoesTo DEF Places
  <2> QED
    BY <1>4, <2>2, <2>3 DEF Answered, Broken, Written, Push, StreamEnds, HangUp, Return, At
<1>5. ASSUME NEW c \in Handlers, Frame(c) \/ Subscribe(c) PROVE HandlerInv'
  <2>1. client[c].at = "render" => client[c].route = "frame"
    BY DEF HandlerInv, Placed
  <2>2. c # Manager
    BY <1>5 DEF HandlerInv, Placed, Frame, Subscribe, At
  <2>3. CASE client' = [client EXCEPT ![c] = Idle]
    BY <2>3, Ends
  <2>4. CASE Goto(c, "call") /\ client[c].at = "render"
    BY <2>1, <2>2, <2>4, GoesTo DEF Places
  <2>5. CASE Goto(c, "writing") /\ client[c].at # "idle"
    BY <2>2, <2>5, GoesTo DEF Places
  <2> QED
    BY <1>5, <2>3, <2>4, <2>5 DEF Frame, Subscribe, Return, At
<1>6. ASSUME NEW c \in Handlers, Call(c) PROVE HandlerInv'
  <2>1. client[c].at = "call" /\ Goto(c, "answered")
    BY <1>6 DEF Call, At
  <2> QED
    BY <2>1, GoesTo DEF Places
<1>7. ASSUME NEW c \in Handlers, Emit(c) PROVE HandlerInv'
  <2>0. client[c].at = "emit"
    BY <1>7 DEF Emit, At
  <2>1. ASSUME NEW answer, Answer(c, answer) PROVE HandlerInv'
    BY <2>0, <2>1, Answers
  <2>2. CASE Goto(c, "observe")
    BY <2>0, <2>2, GoesTo DEF Places
  <2> QED
    BY <1>7, <2>1, <2>2 DEF Emit
<1>8. ASSUME NEW c \in Handlers, Observe(c) PROVE HandlerInv'
  <2>0. client[c].at = "observe"
    BY <1>8 DEF Observe, At
  <2>1. ASSUME NEW answer, Answer(c, answer) PROVE HandlerInv'
    BY <2>0, <2>1, Answers
  <2>2. CASE client' = [client EXCEPT ![c].at = "emit", ![c].taken = @ + 1]
    <3> DEFINE h == [client[c] EXCEPT !.at = "emit", !.taken = @ + 1]
    <3>1. client' = [client EXCEPT ![c] = h]
      BY <2>2
    <3>2. Placed(c, client[c])
      BY DEF HandlerInv
    <3>3. /\ h.at = "emit" /\ DOMAIN h = Fields /\ h = [f \in Fields |-> h[f]]
          /\ h.post = client[c].post /\ h.batch = client[c].batch /\ h.route \in Routes
      BY <2>0, <3>2 DEF Placed, Fields
    <3>4. Placed(c, h)
      BY <3>2, <3>3 DEF Placed, Places
    <3> HIDE DEF h
    <3> QED
      BY <3>1, <3>4, Moves
  <2>3. \/ \E answer \in {"stopped", "invalid", "refused"} : Answer(c, answer)
        \/ client' = [client EXCEPT ![c].at = "emit", ![c].taken = @ + 1]
    BY <1>8 DEF Observe
  <2> QED
    BY <2>1, <2>2, <2>3
<1>9. ASSUME Round PROVE HandlerInv'
  <2>1. PICK said :
            client' = [client EXCEPT ![Manager] = [Handler("ai", "emit") EXCEPT !.batch = said]]
    BY <1>9, Zenon DEF Round
  <2> DEFINE h == [Handler("ai", "emit") EXCEPT !.batch = said]
  <2>2. /\ h.at = "emit" /\ h.route = "ai" /\ h.post = Missing
        /\ DOMAIN h = Fields /\ h = [f \in Fields |-> h[f]]
    BY DEF Handler, Fields
  <2>3. Placed(Manager, h)
    BY <2>2 DEF Placed, Places, Routes
  <2> HIDE DEF h
  <2>4. Manager \in Handlers
    BY DEF Handlers
  <2>5. client' = [client EXCEPT ![Manager] = h]
    BY <2>1 DEF h
  <2> QED
    BY <2>3, <2>4, <2>5, Moves
<1>10. CASE RoundOver
  BY <1>10, Ends DEF RoundOver, Handlers
<1>11. CASE Main \/ Cancel \/ ServeFails \/ Expire \/ ModulesEnd \/ \E p \in Parts : PartEnds(p)
  BY <1>1, <1>11 DEF Main, Acquire, SetupFails, Start, BeginShutdown, ShutdownOver, WaitAdapters,
     WaitDisplays, Release, CloseRuntime, Cancel, ServeFails, Expire, ModulesEnd, PartEnds
<1>12. CASE UNCHANGED vars
  BY <1>1, <1>12 DEF vars
<1> QED
  BY <1>2, <1>3, <1>4, <1>5, <1>6, <1>7, <1>8, <1>9, <1>10, <1>11, <1>12 DEF Next, Work

-----------------------------------------------------------------------------
\* Once nothing listens, idle clients stay idle: every step of one needs a
\* request, or a place that an idle handler has not.
LEMMA StaysQuiet ==
    ASSUME HandlerInv, Quiet, ~listening, [Next]_vars
    PROVE  Quiet'
<1>1. \A c \in Clients : client[c] = Idle /\ client[c].at = "idle"
  BY NewHandler DEF Quiet, Idle
<1>2. CASE UNCHANGED client
  BY <1>1, <1>2 DEF Quiet
<1>3. ASSUME NEW c \in Clients,
             \/ Request(c) \/ Body(c) \/ Answered(c) \/ Broken(c)
             \/ Written(c) \/ Push(c) \/ StreamEnds(c) \/ HangUp(c) \/ Work(c)
      PROVE  FALSE
  BY <1>1, <1>3 DEF Request, Body, Answered, Broken, Written, Push, StreamEnds, HangUp, Work,
     Frame, Call, Subscribe, Emit, Observe, At
<1>4. ASSUME \A c \in Clients : client'[c] = client[c] PROVE Quiet'
  BY <1>1, <1>4 DEF Quiet
<1>5. ASSUME NEW h, client' = [client EXCEPT ![Manager] = h] PROVE Quiet'
  BY <1>4, <1>5, ServerAssumption DEF HandlerInv, Handlers
<1>6. CASE Round
  <2>1. \E h : client' = [client EXCEPT ![Manager] = h]
    BY <1>6, Zenon DEF Round
  <2> QED
    BY <1>5, <2>1
<1>7. CASE RoundOver
  BY <1>5, <1>7 DEF RoundOver
<1>8. CASE Work(Manager)
  <2>1. CASE Frame(Manager) \/ Call(Manager) \/ Subscribe(Manager)
    BY <2>1 DEF Frame, Call, Subscribe, At, HandlerInv, Handlers, Placed
  <2>2. ASSUME NEW c \in Clients, Emit(Manager) \/ Observe(Manager) PROVE client'[c] = client[c]
    BY <2>2, ServerAssumption DEF Emit, Observe, Answer, Goto, HandlerInv, Handlers
  <2> QED
    BY <1>4, <1>8, <2>1, <2>2 DEF Work
<1>9. CASE Main \/ Cancel \/ ServeFails \/ Expire \/ ModulesEnd \/ \E p \in Parts : PartEnds(p)
  BY <1>2, <1>9 DEF Main, Acquire, SetupFails, Start, BeginShutdown, ShutdownOver, WaitAdapters,
     WaitDisplays, Release, CloseRuntime, Cancel, ServeFails, Expire, ModulesEnd, PartEnds
<1>10. CASE UNCHANGED vars
  BY <1>2, <1>10 DEF vars
<1> QED
  BY <1>3, <1>6, <1>7, <1>8, <1>9, <1>10 DEF Next, Handlers

\* No handler touches what serve keeps.
LEMMA HandlersSpareServe ==
    ASSUME NEW c \in Handlers,
           \/ Request(c) \/ Body(c) \/ Answered(c) \/ Broken(c)
           \/ Written(c) \/ Push(c) \/ StreamEnds(c) \/ HangUp(c) \/ Work(c)
           \/ Round \/ RoundOver
    PROVE  UNCHANGED <<service, part, hung>>
BY DEF Request, Body, Answered, Broken, Written, Push, StreamEnds, HangUp, Work, Frame, Call,
   Subscribe, Emit, Observe, Round, RoundOver

\* Every step of serve and of the parts keeps the stage.
LEMMA StageStep ==
    ASSUME HandlerInv, StageInv, [Next]_vars
    PROVE  StageInv'
<1> USE DEF StageInv, Later
<1>1. ~listening /\ Quiet => Quiet'
  BY StaysQuiet
<1>2. CASE UNCHANGED <<service, part, hung>>
  BY <1>1, <1>2 DEF service
<1>3. CASE Acquire
  BY <1>1, <1>3 DEF Acquire, Resources
<1>4. CASE SetupFails
  BY <1>1, <1>4 DEF SetupFails, Parts
<1>5. CASE Start
  BY <1>1, <1>5 DEF Start, Resources, Parts
<1>6. CASE Cancel
  BY <1>1, <1>6 DEF Cancel
<1>7. CASE ServeFails
  BY <1>1, <1>7 DEF ServeFails
<1>8. CASE BeginShutdown
  BY <1>1, <1>8 DEF BeginShutdown
<1>9. CASE ShutdownOver
  BY <1>1, <1>9 DEF ShutdownOver
<1>10. CASE Expire
  BY <1>1, <1>10 DEF Expire
<1>11. CASE WaitAdapters
  BY <1>1, <1>11 DEF WaitAdapters, Settled
<1>12. CASE WaitDisplays
  BY <1>1, <1>12 DEF WaitDisplays, Settled
<1>13. CASE Release
  BY <1>1, <1>13 DEF Release
<1>14. CASE CloseRuntime
  BY <1>1, <1>14 DEF CloseRuntime
<1>15. CASE ModulesEnd
  BY <1>1, <1>15 DEF ModulesEnd, service, Parts
<1>16. ASSUME NEW p \in Parts, PartEnds(p) PROVE StageInv'
  BY <1>1, <1>16 DEF PartEnds, PromptPart, service, Parts
<1>17. CASE UNCHANGED vars
  BY <1>2, <1>17 DEF vars
<1> QED
  BY <1>2, <1>3, <1>4, <1>5, <1>6, <1>7, <1>8, <1>9, <1>10, <1>11, <1>12, <1>13, <1>14, <1>15,
     <1>16, <1>17, HandlersSpareServe DEF Next, Main, Handlers

LEMMA Invariant == Spec => []IInv
<1>1. IInv /\ [Next]_vars => IInv'
  BY HandlerStep, StageStep DEF IInv
<1> QED
  BY InitInv, <1>1, PTL DEF Spec

\* serve waits for its handlers, the adapters and the displays before it gives back the
\* controls under which they work (serve_windows.go:261-294), unless its time runs out.
THEOREM WorkEndsFirst == Spec => []ControlsOutliveWork
<1>1. IInv => ControlsOutliveWork
  <2> SUFFICES ASSUME IInv, ~expired, main # "exited",
                      part["displays"] = "running" \/ part["adapters"] = "running" \/ ~Quiet
               PROVE  /\ part["displays"] = "running" => Holds("display")
                      /\ part["adapters"] = "running" \/ ~Quiet => Holds("server")
    BY DEF ControlsOutliveWork
  <2>1. main \in {"serving", "shutdown", "adapters", "displays"}
    BY DEF IInv, StageInv, Later, Parts
  <2>2. held = 5
    BY <2>1 DEF IInv, StageInv
  <2> QED
    BY <2>2 DEF Holds, Resources
<1> QED
  BY Invariant, <1>1, PTL

\* The five seconds end only on a part that hangs or on a slow client: whatever else a
\* handler or a part may wait for comes with the end of the context.
THEOREM ExpiryHasACause == Spec => NoNeedlessExpiry
<1>1. IInv /\ [Next]_vars /\ expired' /\ ~expired =>
          \/ \E p \in hung : part[p] = "running"
          \/ \E c \in Clients : client[c].at \in {"reading", "answered", "writing"}
  <2> SUFFICES ASSUME IInv, [Next]_vars, expired', ~expired,
                      ~\E p \in hung : part[p] = "running"
               PROVE  \E c \in Clients : client[c].at \in {"reading", "answered", "writing"}
    OBVIOUS
  <2>1. Expire
    BY HandlersSpareServe DEF Next, Main, Handlers, vars, service, Acquire, SetupFails, Start,
       BeginShutdown, ShutdownOver, WaitAdapters, WaitDisplays, Release, CloseRuntime, Cancel,
       ServeFails, ModulesEnd, PartEnds
  <2>2. main \in {"shutdown", "adapters", "displays"} /\ cancelled
        /\ \A p \in Parts : p \notin hung
    BY <2>1 DEF Expire, IInv, StageInv
  <2>3. Placed(Manager, client[Manager]) /\ ~PromptHandler(Manager)
    BY <2>1 DEF Expire, IInv, HandlerInv, Handlers
  <2>4. client[Manager] = Idle
    BY <2>2, <2>3 DEF Placed, PromptHandler, Parts
  <2>5. CASE main # "shutdown"
    BY <2>1, <2>2, <2>4, <2>5 DEF Expire, PromptMain, PromptPart, Settled, Parts
  <2>6. CASE main = "shutdown"
    <3>1. PICK c \in Clients : client[c] # Idle
      BY <2>1, <2>6 DEF Expire, PromptMain, Quiet
    <3>2. Placed(c, client[c]) /\ ~PromptHandler(c)
      BY <2>1 DEF Expire, IInv, HandlerInv, Handlers
    <3>3. client[c].at # "call"
      BY <2>2, <3>2 DEF Placed, PromptHandler, Behind, Parts
    <3> QED
      BY <2>2, <3>1, <3>2, <3>3 DEF Placed, PromptHandler, Places, Parts
  <2> QED
    BY <2>5, <2>6
<1>2. IInv /\ [Next]_vars => [expired' /\ ~expired =>
          \/ \E p \in hung : part[p] = "running"
          \/ \E c \in Clients : client[c].at \in {"reading", "answered", "writing"}]_vars
  BY <1>1
<1> QED
  BY Invariant, <1>2, PTL DEF Spec, NoNeedlessExpiry

-----------------------------------------------------------------------------
(* Slots. *)

\* The slots that a handler has taken and not given back.
Takes(h) ==
    IF h.at = "idle" THEN {}
    ELSE {PoolOf[h.route]} \cup
         (IF h.route = "frame" /\ h.at # "render" THEN {"renders"} ELSE {})

Users(p) == {c \in Clients : p \in Takes(client[c])}
Feeds == {c \in Clients : client[c].at \in {"stream", "writing"}}

\* Every slot that is taken has a user, and every feed a stream.
SlotInv ==
    /\ used \in [Pools -> Nat] /\ subscribers \in Nat
    /\ \A p \in Pools : used[p] <= Capacity[p] /\ used[p] = Cardinality(Users(p))
    /\ subscribers = Cardinality(Feeds)

\* A handler that is not idle is somewhere.
LEMMA Busy ==
    ASSUME HandlerInv, NEW c \in Handlers
    PROVE  (client[c] = Idle <=> client[c].at = "idle") /\ Idle.at = "idle"
BY NewHandler DEF HandlerInv, Placed, Idle

\* The users of a pool and the feeds are finite sets.
LEMMA Countable == (\A p : IsFiniteSet(Users(p))) /\ IsFiniteSet(Feeds)
<1>1. \A p : Users(p) \in SUBSET Clients
  BY DEF Users
<1>2. Feeds \in SUBSET Clients
  BY DEF Feeds
<1> QED
  BY <1>1, <1>2, ServerAssumption, FS_Subset

\* What the move of a client changes in the users of the pools, and in the feeds.
LEMMA UsersMove ==
    ASSUME HandlerInv, NEW c \in Clients, NEW h, client' = [client EXCEPT ![c] = h]
    PROVE  /\ \A p : Users(p)' = IF p \in Takes(h) THEN Users(p) \cup {c} ELSE Users(p) \ {c}
           /\ Feeds' = IF h.at \in {"stream", "writing"} THEN Feeds \cup {c} ELSE Feeds \ {c}
<1>1. \A d \in Clients : client'[d] = IF d = c THEN h ELSE client[d]
  BY DEF HandlerInv, Handlers
<1>2. ASSUME NEW p
      PROVE  Users(p)' = IF p \in Takes(h) THEN Users(p) \cup {c} ELSE Users(p) \ {c}
  <2>1. \A d \in Clients : Takes(client[d])' = IF d = c THEN Takes(h) ELSE Takes(client[d])
    BY <1>1 DEF Takes
  <2>2. Users(p)' = {d \in Clients : p \in Takes(client[d])'}
    BY DEF Users
  <2>3. Users(p) = {d \in Clients : p \in Takes(client[d])}
    BY DEF Users
  <2> QED
    BY <2>1, <2>2, <2>3
<1>3. Feeds' = IF h.at \in {"stream", "writing"} THEN Feeds \cup {c} ELSE Feeds \ {c}
  BY <1>1 DEF Feeds
<1> QED
  BY <1>2, <1>3

\* A client that keeps its slots.
LEMMA Keeps ==
    ASSUME HandlerInv, SlotInv, NEW c \in Clients, NEW h, client' = [client EXCEPT ![c] = h],
           Takes(h) = Takes(client[c]), used' = used,
           h.at \in {"stream", "writing"} <=> client[c].at \in {"stream", "writing"},
           subscribers' = subscribers
    PROVE  SlotInv'
<1>1. \A p : Users(p)' = Users(p)
  BY UsersMove DEF Users
<1>2. Feeds' = Feeds
  BY UsersMove DEF Feeds
<1> QED
  BY <1>1, <1>2 DEF SlotInv

\* One that takes another, of which there is one.
LEMMA TakesOne ==
    ASSUME HandlerInv, SlotInv, NEW c \in Clients, NEW h, client' = [client EXCEPT ![c] = h],
           NEW q \in Pools, q \notin Takes(client[c]), Takes(h) = Takes(client[c]) \cup {q},
           used[q] < Capacity[q], used' = [used EXCEPT ![q] = @ + 1],
           client[c].at \notin {"stream", "writing"}, h.at \notin {"stream", "writing"},
           subscribers' = subscribers
    PROVE  SlotInv'
<1>1. ASSUME NEW p PROVE Users(p)' = IF p = q THEN Users(p) \cup {c} ELSE Users(p)
  <2>1. Users(p)' = IF p \in Takes(h) THEN Users(p) \cup {c} ELSE Users(p) \ {c}
    BY UsersMove
  <2>2. c \in Users(p) <=> p \in Takes(client[c])
    BY DEF Users
  <2>3. p \in Takes(h) <=> p = q \/ p \in Takes(client[c])
    OBVIOUS
  <2> QED
    BY <2>1, <2>2, <2>3
<1>2. c \notin Users(q)
  BY DEF Users
<1>3. Cardinality(Users(q) \cup {c}) = Cardinality(Users(q)) + 1
  BY <1>2, Countable, FS_AddElement
<1>4. Feeds' = Feeds
  BY UsersMove DEF Feeds
<1>5. \A p \in Pools : used'[p] = IF p = q THEN used[q] + 1 ELSE used[p]
  BY DEF SlotInv
<1>6. used' \in [Pools -> Nat]
  BY DEF SlotInv
<1>7. ASSUME NEW p \in Pools
      PROVE  used'[p] <= Capacity[p] /\ used'[p] = Cardinality(Users(p)')
  <2>1. /\ used[p] \in Nat /\ used[p] <= Capacity[p] /\ used[p] = Cardinality(Users(p))
        /\ Capacity[p] \in Nat
    BY ServerAssumption DEF SlotInv
  <2>2. CASE p = q
    <3>1. Users(p)' = Users(q) \cup {c} /\ used'[p] = used[p] + 1
      BY <1>1, <1>5, <2>2
    <3>2. Cardinality(Users(p)') = used[p] + 1
      BY <1>3, <2>1, <2>2, <3>1
    <3> QED
      BY <2>1, <2>2, <3>1, <3>2
  <2>3. CASE p # q
    BY <1>1, <1>5, <2>1, <2>3
  <2> QED
    BY <2>2, <2>3
<1> QED
  BY <1>4, <1>6, <1>7 DEF SlotInv

\* One that ends gives all of them back, and the feed of a stream.
LEMMA GivesBack ==
    ASSUME HandlerInv, SlotInv, NEW c \in Clients, client' = [client EXCEPT ![c] = Idle],
           used' = [p \in Pools |-> IF p \in Takes(client[c]) THEN used[p] - 1 ELSE used[p]],
           subscribers' = IF client[c].at \in {"stream", "writing"} THEN subscribers - 1
                          ELSE subscribers
    PROVE  SlotInv'
<1>1. Takes(Idle) = {} /\ Idle.at = "idle"
  BY NewHandler DEF Takes, Idle
<1>2. \A p : Users(p)' = Users(p) \ {c}
  BY <1>1, UsersMove
<1>3. Feeds' = Feeds \ {c}
  BY <1>1, UsersMove
<1>4. \A p : Cardinality(Users(p) \ {c}) =
                 IF c \in Users(p) THEN Cardinality(Users(p)) - 1 ELSE Cardinality(Users(p))
  BY Countable, FS_RemoveElement
<1>5. Cardinality(Feeds \ {c}) = IF c \in Feeds THEN Cardinality(Feeds) - 1 ELSE Cardinality(Feeds)
  BY Countable, FS_RemoveElement
<1>6. subscribers' = Cardinality(Feeds')
  BY <1>3, <1>5 DEF SlotInv, Feeds
<1>7. \A p : IsFiniteSet(Users(p)') /\ Cardinality(Users(p)') \in Nat
  BY <1>2, Countable, FS_RemoveElement, FS_CardinalityType
<1>8. IsFiniteSet(Feeds') /\ Cardinality(Feeds') \in Nat
  BY <1>3, Countable, FS_RemoveElement, FS_CardinalityType
<1>9. ASSUME NEW p \in Pools
      PROVE  used'[p] = Cardinality(Users(p)') /\ used'[p] <= Capacity[p]
  <2>1. c \in Users(p) <=> p \in Takes(client[c])
    BY DEF Users
  <2>2. used'[p] = IF p \in Takes(client[c]) THEN used[p] - 1 ELSE used[p]
    OBVIOUS
  <2>3. used[p] \in Nat /\ used[p] <= Capacity[p] /\ used[p] = Cardinality(Users(p))
        /\ Capacity[p] \in Nat
    BY ServerAssumption DEF SlotInv
  <2>4. Cardinality(Users(p)') = IF c \in Users(p) THEN used[p] - 1 ELSE used[p]
    BY <1>2, <1>4, <2>3
  <2> QED
    BY <2>1, <2>2, <2>3, <2>4
<1>10. used' \in [Pools -> Nat]
  BY <1>7, <1>9
<1> QED
  BY <1>6, <1>8, <1>9, <1>10 DEF SlotInv

\* The manager takes none.
LEMMA ManagerTakesNone ==
    ASSUME HandlerInv, SlotInv, NEW h, client' = [client EXCEPT ![Manager] = h],
           UNCHANGED slots
    PROVE  SlotInv'
<1>1. \A c \in Clients : client'[c] = client[c]
  BY ServerAssumption DEF HandlerInv, Handlers
<1>2. \A p : Users(p)' = Users(p)
  BY <1>1 DEF Users, Takes
<1>3. Feeds' = Feeds
  BY <1>1 DEF Feeds
<1> QED
  BY <1>2, <1>3 DEF SlotInv, slots

\* What a handler holds follows from its route and its place.
LEMMA Holding ==
    ASSUME HandlerInv, NEW c \in Clients
    PROVE  /\ client[c] = Idle => Takes(client[c]) = {}
           /\ client[c].at # "idle" => /\ Takes(client[c]) = PoolsOf(c)
                                       /\ client[c].route \in Routes
           /\ client[c].at = "render" => Takes(client[c]) = {"requests"}
<1>1. c \in Handlers /\ Placed(c, client[c])
  BY DEF HandlerInv, Handlers
<1>2. client[c].at = "render" => client[c].route = "frame"
  BY <1>1 DEF Placed
<1>3. client[c].at # "idle" => client[c].route \in Routes
  BY <1>1 DEF Placed
<1>4. client[c].at = "render" => Takes(client[c]) = {"requests"}
  BY <1>2 DEF Takes, PoolOf
<1> QED
  BY <1>1, <1>3, <1>4, Busy DEF Takes, PoolsOf

\* A new request holds the slot of its route.
LEMMA NewHolding ==
    ASSUME NEW route \in Routes, NEW at \in {"answered", FirstPlace[route]},
           at = "answered" => route = "ai"
    PROVE  /\ PoolOf[route] \in Pools
           /\ Takes(Handler(route, at)) = {PoolOf[route]}
           /\ Handler(route, at).at \notin {"stream", "writing"}
BY NewHandler DEF Routes, FirstPlace, PoolOf, Pools, Takes

\* A client that goes on elsewhere with what it has.
LEMMA GoesOn ==
    ASSUME HandlerInv, SlotInv, NEW c \in Clients, NEW h, client' = [client EXCEPT ![c] = h],
           client[c].at # "idle", client[c].at # "render", h.at \notin {"idle", "render"},
           h.route = client[c].route, UNCHANGED slots,
           h.at \in {"stream", "writing"} <=> client[c].at \in {"stream", "writing"}
    PROVE  SlotInv'
<1>1. Takes(h) = Takes(client[c])
  BY DEF Takes
<1> QED
  BY <1>1, Keeps DEF slots

\* Every step keeps the account.
LEMMA SlotStep ==
    ASSUME HandlerInv, SlotInv, [Next]_vars
    PROVE  SlotInv'
<1>1. ASSUME UNCHANGED <<client, slots>> PROVE SlotInv'
  BY <1>1 DEF SlotInv, Users, Takes, Feeds, slots
<1>2. ASSUME NEW c \in Clients, Request(c) PROVE SlotInv'
  <2>1. PICK route \in Routes :
            \/ UNCHANGED <<used, client>>
            \/ /\ used[PoolOf[route]] < Capacity[PoolOf[route]]
               /\ used' = [used EXCEPT ![PoolOf[route]] = @ + 1]
               /\ client' = [client EXCEPT ![c] = Handler(route,
                      IF route = "ai" /\ part["adapters"] = "done" THEN "answered"
                      ELSE FirstPlace[route])]
    BY <1>2 DEF Request
  <2>2. client[c] = Idle /\ subscribers' = subscribers
    BY <1>2 DEF Request
  <2>3. Takes(client[c]) = {} /\ client[c].at = "idle"
    BY <2>2, Holding, NewHandler DEF Idle
  <2>4. CASE UNCHANGED <<used, client>>
    BY <1>1, <2>2, <2>4 DEF slots
  <2>5. ASSUME NEW at \in {"answered", FirstPlace[route]}, at = "answered" => route = "ai",
               used[PoolOf[route]] < Capacity[PoolOf[route]],
               used' = [used EXCEPT ![PoolOf[route]] = @ + 1],
               client' = [client EXCEPT ![c] = Handler(route, at)]
        PROVE  SlotInv'
    <3> DEFINE q == PoolOf[route]
               h == Handler(route, at)
    <3>1. q \in Pools /\ Takes(h) = Takes(client[c]) \cup {q} /\ h.at \notin {"stream", "writing"}
      BY <2>3, <2>5, NewHolding
    <3> HIDE DEF q, h
    <3>2. /\ used[q] < Capacity[q] /\ used' = [used EXCEPT ![q] = @ + 1]
          /\ client' = [client EXCEPT ![c] = h]
      BY <2>5 DEF q, h
    <3> QED
      BY <2>2, <2>3, <3>1, <3>2, TakesOne
  <2>6. ASSUME used[PoolOf[route]] < Capacity[PoolOf[route]],
               used' = [used EXCEPT ![PoolOf[route]] = @ + 1],
               client' = [client EXCEPT ![c] = Handler(route,
                      IF route = "ai" /\ part["adapters"] = "done" THEN "answered"
                      ELSE FirstPlace[route])]
        PROVE  SlotInv'
    <3>1. CASE route = "ai" /\ part["adapters"] = "done"
      BY <2>5, <2>6, <3>1
    <3>2. CASE ~(route = "ai" /\ part["adapters"] = "done")
      <4>1. client' = [client EXCEPT ![c] = Handler(route, FirstPlace[route])]
        BY <2>6, <3>2
      <4>2. FirstPlace[route] # "answered"
        BY DEF FirstPlace, Routes
      <4> QED
        BY <2>5, <2>6, <4>1, <4>2
    <3> QED
      BY <3>1, <3>2
  <2> QED
    BY <2>1, <2>4, <2>6
<1>3. ASSUME NEW c \in Clients, client' = [client EXCEPT ![c] = Idle], client[c].at # "idle",
             used' = [p \in Pools |-> IF p \in PoolsOf(c) THEN used[p] - 1 ELSE used[p]],
             subscribers' = IF client[c].at \in {"stream", "writing"} THEN subscribers - 1
                            ELSE subscribers
      PROVE  SlotInv'
  BY <1>3, Holding, GivesBack
<1>4. ASSUME NEW c \in Clients, NEW w \in Places \ {"render"}, Goto(c, w),
             client[c].at \notin {"idle", "render"}, UNCHANGED slots,
             w \in {"stream", "writing"} <=> client[c].at \in {"stream", "writing"}
      PROVE  SlotInv'
  <2> DEFINE h == [client[c] EXCEPT !.at = w]
  <2>1. DOMAIN client[c] = Fields
    BY DEF HandlerInv, Handlers, Placed
  <2>2. h.at = w /\ h.route = client[c].route /\ client' = [client EXCEPT ![c] = h]
    BY <1>4, <2>1 DEF Goto, Fields
  <2> HIDE DEF h
  <2> QED
    BY <1>4, <2>2, GoesOn DEF Places
<1>5. ASSUME NEW c \in Clients, NEW h, client' = [client EXCEPT ![c] = h], UNCHANGED slots,
             h.route = client[c].route, h.at \in {"emit", "answered"},
             client[c].at \in {"reading", "emit", "observe"}
      PROVE  SlotInv'
  BY <1>5, GoesOn
<1>6. ASSUME NEW c \in Clients, Body(c) PROVE SlotInv'
  <2>1. client[c].at = "reading" /\ UNCHANGED slots /\ DOMAIN client[c] = Fields
    BY <1>6 DEF Body, At, HandlerInv, Handlers, Placed
  <2>2. CASE Goto(c, "call")
    BY <1>4, <2>1, <2>2 DEF Places
  <2>3. ASSUME NEW post, NEW batch, NEW w \in {"emit", "answered"}, NEW answer,
               client' = [client EXCEPT ![c].post = post, ![c].batch = batch,
                                        ![c].at = w, ![c].answer = answer]
        PROVE  SlotInv'
    <3> DEFINE h == [client[c] EXCEPT !.post = post, !.batch = batch, !.at = w, !.answer = answer]
    <3>1. h.at = w /\ h.route = client[c].route /\ client' = [client EXCEPT ![c] = h]
      BY <2>1, <2>3 DEF Fields
    <3> HIDE DEF h
    <3> QED
      BY <1>5, <2>1, <2>3, <3>1
  <2>4. ASSUME NEW post \in Posts,
               client' = [client EXCEPT ![c].post = post, ![c].batch = Project(post).out,
                             ![c].at = IF Project(post).ok THEN "emit" ELSE "answered",
                             ![c].answer = IF Project(post).ok THEN "none" ELSE "malformed"]
        PROVE  SlotInv'
    <3> DEFINE w == IF Project(post).ok THEN "emit" ELSE "answered"
               answer == IF Project(post).ok THEN "none" ELSE "malformed"
               batch == Project(post).out
    <3>1. w \in {"emit", "answered"}
      OBVIOUS
    <3>2. client' = [client EXCEPT ![c].post = post, ![c].batch = batch,
                                   ![c].at = w, ![c].answer = answer]
      BY <2>4
    <3> HIDE DEF w, answer, batch
    <3> QED
      BY <2>3, <3>1, <3>2
  <2>5. \/ Goto(c, "call")
        \/ \E post \in Posts :
              client' = [client EXCEPT ![c].post = post, ![c].batch = Project(post).out,
                             ![c].at = IF Project(post).ok THEN "emit" ELSE "answered",
                             ![c].answer = IF Project(post).ok THEN "none" ELSE "malformed"]
    BY <1>6, Zenon DEF Body
  <2> QED
    BY <2>2, <2>4, <2>5
<1>7. ASSUME NEW c \in Clients, Answered(c) \/ Broken(c) \/ StreamEnds(c) \/ HangUp(c)
      PROVE  SlotInv'
  <2>1. Return(c, PoolsOf(c)) /\ client[c].at # "idle"
    BY <1>7 DEF Answered, Broken, StreamEnds, HangUp, At
  <2>2. subscribers' = IF client[c].at \in {"stream", "writing"} THEN subscribers - 1
                       ELSE subscribers
    BY <1>7 DEF Answered, Broken, StreamEnds, HangUp, At
  <2> QED
    BY <1>3, <2>1, <2>2 DEF Return
<1>8. ASSUME NEW c \in Clients, Written(c) \/ Push(c) PROVE SlotInv'
  BY <1>4, <1>8 DEF Written, Push, At, Places
<1>9. ASSUME NEW c \in Clients, Frame(c) PROVE SlotInv'
  <2>1. /\ client[c].at = "render" /\ subscribers' = subscribers
        /\ Takes(client[c]) = {"requests"} /\ DOMAIN client[c] = Fields
        /\ client[c].route = "frame"
    BY <1>9, Holding DEF Frame, At, HandlerInv, Handlers, Placed
  <2>2. CASE used["renders"] < Capacity["renders"]
    <3> DEFINE h == [client[c] EXCEPT !.at = "call"]
    <3>1. h.at = "call" /\ h.route = "frame" /\ client' = [client EXCEPT ![c] = h]
      BY <1>9, <2>1, <2>2 DEF Frame, Goto, Fields
    <3>2. used' = [used EXCEPT !["renders"] = @ + 1]
      BY <1>9, <2>2 DEF Frame
    <3> HIDE DEF h
    <3>3. Takes(h) = Takes(client[c]) \cup {"renders"} /\ "renders" \in Pools
      BY <2>1, <3>1 DEF Takes, PoolOf, Pools
    <3> QED
      BY <2>1, <2>2, <3>1, <3>2, <3>3, TakesOne
  <2>3. CASE ~(used["renders"] < Capacity["renders"])
    BY <1>3, <1>9, <2>1, <2>3 DEF Frame, Return
  <2> QED
    BY <2>2, <2>3
<1>10. ASSUME NEW c \in Clients, Call(c) PROVE SlotInv'
  BY <1>4, <1>10 DEF Call, At, Places
<1>11. ASSUME NEW c \in Clients, Subscribe(c) PROVE SlotInv'
  <2> DEFINE h == [client[c] EXCEPT !.at = "writing"]
  <2>1. client[c].at = "subscribe" /\ used' = used /\ subscribers' = subscribers + 1
    BY <1>11 DEF Subscribe, At
  <2>2. h.at = "writing" /\ h.route = client[c].route /\ client' = [client EXCEPT ![c] = h]
    BY <1>11 DEF Subscribe, Goto, HandlerInv, Handlers, Placed, Fields
  <2> HIDE DEF h
  <2>3. Takes(h) = Takes(client[c])
    BY <2>1, <2>2 DEF Takes
  <2>4. \A p : Users(p)' = Users(p)
    BY <2>2, <2>3, UsersMove DEF Users
  <2>5. Feeds' = Feeds \cup {c} /\ c \notin Feeds
    BY <2>1, <2>2, UsersMove DEF Feeds
  <2>6. Cardinality(Feeds') = subscribers + 1
    BY <2>5, Countable, FS_AddElement DEF SlotInv
  <2> QED
    BY <2>1, <2>4, <2>6 DEF SlotInv
<1>12. ASSUME NEW c \in Clients, Emit(c) \/ Observe(c) PROVE SlotInv'
  <2>1. /\ client[c].at \in {"emit", "observe"} /\ UNCHANGED slots /\ DOMAIN client[c] = Fields
    BY <1>12 DEF Emit, Observe, At, HandlerInv, Handlers, Placed
  <2>2. ASSUME NEW answer, Answer(c, answer) PROVE SlotInv'
    <3> DEFINE h == [client[c] EXCEPT !.at = "answered", !.answer = answer]
    <3>1. h.at = "answered" /\ h.route = client[c].route /\ client' = [client EXCEPT ![c] = h]
      BY <2>1, <2>2 DEF Answer, Fields
    <3> HIDE DEF h
    <3> QED
      BY <1>5, <2>1, <3>1
  <2>3. CASE Goto(c, "observe")
    BY <1>4, <2>1, <2>3 DEF Places
  <2>4. CASE client' = [client EXCEPT ![c].at = "emit", ![c].taken = @ + 1]
    <3> DEFINE h == [client[c] EXCEPT !.at = "emit", !.taken = @ + 1]
    <3>1. h.at = "emit" /\ h.route = client[c].route /\ client' = [client EXCEPT ![c] = h]
      BY <2>1, <2>4 DEF Fields
    <3> HIDE DEF h
    <3> QED
      BY <1>5, <2>1, <3>1
  <2>5. \/ \E answer \in {"accepted", "stopped", "unsendable", "invalid", "refused"} :
              Answer(c, answer)
        \/ Goto(c, "observe")
        \/ client' = [client EXCEPT ![c].at = "emit", ![c].taken = @ + 1]
    BY <1>12 DEF Emit, Observe
  <2> QED
    BY <2>2, <2>3, <2>4, <2>5
<1>13. ASSUME Round \/ RoundOver \/ Work(Manager) PROVE SlotInv'
  <2>1. Manager \in Handlers /\ client[Manager].at \in {"idle", "emit", "observe", "answered"}
    BY DEF HandlerInv, Handlers, Placed
  <2>2. UNCHANGED slots
    BY <1>13, <2>1 DEF Round, RoundOver, Work, Frame, Call, Subscribe, Emit, Observe, At, slots
  <2>3. \E h : client' = [client EXCEPT ![Manager] = h]
    <3>1. CASE Round
      BY <3>1, Zenon DEF Round
    <3>2. CASE RoundOver
      BY <3>2, Zenon DEF RoundOver
    <3>3. CASE Emit(Manager) \/ Observe(Manager)
      <4>1. \A d \in Handlers \ {Manager} : client'[d] = client[d]
        BY <3>3 DEF Emit, Observe, Answer, Goto, HandlerInv
      <4>2. client' = [d \in Handlers |-> client'[d]]
        BY <3>3 DEF Emit, Observe, Answer, Goto, HandlerInv
      <4>3. client' = [client EXCEPT ![Manager] = client'[Manager]]
        BY <4>1, <4>2 DEF HandlerInv
      <4> QED
        BY <4>3
    <3> QED
      BY <1>13, <2>1, <3>1, <3>2, <3>3 DEF Work, Frame, Call, Subscribe, At
  <2> QED
    BY <2>2, <2>3, ManagerTakesNone
<1>14. CASE Main \/ Cancel \/ ServeFails \/ Expire \/ ModulesEnd \/ \E p \in Parts : PartEnds(p)
  BY <1>1, <1>14 DEF Main, Acquire, SetupFails, Start, BeginShutdown, ShutdownOver, WaitAdapters,
     WaitDisplays, Release, CloseRuntime, Cancel, ServeFails, Expire, ModulesEnd, PartEnds
<1>15. CASE UNCHANGED vars
  BY <1>1, <1>15 DEF vars
<1> QED
  BY <1>2, <1>6, <1>7, <1>8, <1>9, <1>10, <1>11, <1>12, <1>13, <1>14, <1>15 DEF Next, Work, Handlers

\* Nothing is taken at first.
LEMMA InitSlots == Init => SlotInv
<1> SUFFICES ASSUME Init PROVE SlotInv
  OBVIOUS
<1>1. \A c \in Clients : client[c] = Idle /\ client[c].at = "idle"
  BY NewHandler DEF Init, Handlers, Idle
<1>2. (\A p : Users(p) = {}) /\ Feeds = {}
  BY <1>1 DEF Users, Takes, Feeds
<1>3. /\ used \in [Pools -> Nat] /\ \A p \in Pools : used[p] = 0 /\ 0 <= Capacity[p]
      /\ subscribers = 0
  BY ServerAssumption DEF Init
<1> QED
  BY <1>2, <1>3, FS_EmptySet DEF SlotInv

\* The bounds are numbers.
LEMMA Bounds == MaxCalls \in Nat /\ MaxFaults \in Nat
BY ServerAssumption

Counters == calls \in 0 .. MaxCalls /\ faults \in 0 .. MaxFaults
Switches == hung \in Hangs /\ cancelled \in BOOLEAN /\ expired \in BOOLEAN /\ listening \in BOOLEAN

\* What is counted stays within its bound, and a switch has two positions.
LEMMA CounterStep ==
    ASSUME Counters, Switches, [Next]_vars
    PROVE  Counters' /\ Switches'
<1> USE DEF Counters, Switches
<1>1. CASE UNCHANGED <<hung, calls, faults, cancelled, expired, listening>>
  BY <1>1
<1>2. ASSUME calls < MaxCalls, calls' = calls + 1, UNCHANGED <<service, hung, faults>>
      PROVE  Counters' /\ Switches'
  BY <1>2, Bounds DEF service
<1>3. ASSUME faults < MaxFaults, faults' = faults + 1 PROVE faults' \in 0 .. MaxFaults
  BY <1>3, Bounds
<1>4. ASSUME NEW c \in Clients,
             \/ Request(c) \/ Body(c) \/ Answered(c) \/ Broken(c)
             \/ Written(c) \/ Push(c) \/ StreamEnds(c) \/ HangUp(c)
      PROVE  Counters' /\ Switches'
  BY <1>1, <1>2, <1>4 DEF Request, Body, Answered, Broken, Written, Push, StreamEnds, HangUp,
     service
<1>5. ASSUME NEW c \in Handlers, Work(c) PROVE Counters' /\ Switches'
  BY <1>1, <1>5 DEF Work, Frame, Call, Subscribe, Emit, Observe, service
<1>6. CASE SetupFails \/ ServeFails
  BY <1>3, <1>6 DEF SetupFails, ServeFails
<1>7. CASE \/ Acquire \/ Start \/ BeginShutdown \/ ShutdownOver \/ WaitAdapters \/ WaitDisplays
           \/ Release \/ CloseRuntime \/ Cancel \/ Expire
  BY <1>7 DEF Acquire, Start, BeginShutdown, ShutdownOver, WaitAdapters, WaitDisplays, Release,
     CloseRuntime, Cancel, Expire
<1>8. CASE Round
  <2>1. calls < MaxCalls /\ calls' = calls + 1 /\ UNCHANGED <<service, hung, faults>>
    BY <1>8, Zenon DEF Round
  <2> QED
    BY <1>2, <2>1
<1>9. CASE RoundOver \/ ModulesEnd \/ \E p \in Parts : PartEnds(p)
  BY <1>1, <1>9 DEF RoundOver, ModulesEnd, PartEnds, service
<1>10. CASE UNCHANGED vars
  BY <1>1, <1>10 DEF vars, service
<1> QED
  BY <1>4, <1>5, <1>6, <1>7, <1>8, <1>9, <1>10 DEF Next, Main

\* However requests come and end (api.go:207-263, 395): a pool is as full as there are
\* handlers that hold a slot of it, never beyond its capacity, and there are as many open feeds
\* as streams.
THEOREM SlotsComeBack == Spec => []SlotsSound
<1>1. Init => SlotInv /\ Counters /\ Switches
  <2>1. 0 \in 0 .. MaxCalls /\ 0 \in 0 .. MaxFaults
    BY Bounds
  <2> QED
    BY <2>1, InitSlots DEF Init, Counters, Switches
<1>2. Counters /\ Switches /\ [Next]_vars => (Counters /\ Switches)'
  BY CounterStep
<1>3. IInv /\ SlotInv /\ Counters /\ Switches => SlotsSound
  <2> SUFFICES ASSUME IInv, SlotInv, Counters, Switches PROVE SlotsSound
    OBVIOUS
  <2>1. \A c \in Clients : client[c] # Idle <=> client[c].at # "idle"
    BY Busy DEF IInv, Handlers
  <2>2. \A p : Users(p) = {c \in Clients : client[c] # Idle /\ p \in PoolsOf(c)}
    BY <2>1 DEF Users, Takes, PoolsOf
  <2>3. SlotsAccounted
    BY <2>2 DEF SlotInv, SlotsAccounted, Feeds
  <2>4. \A c \in Handlers : client[c] = Idle \/ client[c].at \in Places
    BY DEF IInv, HandlerInv, Placed
  <2>5. TypeOK
    BY <2>4 DEF IInv, StageInv, SlotInv, Counters, Switches, TypeOK, Resources
  <2> QED
    BY <2>3, <2>5 DEF SlotsSound
<1>4. IInv /\ SlotInv /\ [Next]_vars => SlotInv'
  BY SlotStep DEF IInv
<1> QED
  BY Invariant, <1>1, <1>2, <1>3, <1>4, PTL DEF Spec

-----------------------------------------------------------------------------
\* What is a number, or a percentage, stays one.
LEMMA ReadTwice ==
    ASSUME NEW v
    PROVE  Number(Number(v)) = Number(v) /\ Percent(Percent(v)) = Percent(v)
BY ProjectionAssumption DEF Number, Percent

\* The selection of a status line, field by field.
LEMMA Selected ==
    ASSUME NEW m, Message(m)
    PROVE  LET n == NativeMetadata("statusline", m)
           IN  /\ n.session = m.session /\ n.process = Missing
               /\ n.model = m.model /\ n.title = m.title
               /\ n.size = Number(m.size) /\ n.percent = Percent(m.percent)
               /\ \A f \in {"input", "read", "write"} : n.usage[f] = Number(m.usage[f])
               /\ \A w \in DOMAIN Windows : /\ n.limits[w].percent = Percent(m.limits[w].percent)
                                            /\ n.limits[w].resets = Number(m.limits[w].resets)
BY DEF Message, NativeMetadata

\* What the server makes of the selection is what it would make of the message.
LEMMA SelectionSuffices ==
    ASSUME NEW m, Message(m)
    PROVE  StatusLine(NativeMetadata("statusline", m))
               = [i \in DOMAIN StatusLine(m) |-> [StatusLine(m)[i] EXCEPT !.process = Missing]]
<1> DEFINE n == NativeMetadata("statusline", m)
<1>1. n.session = m.session /\ n.process = Missing /\ n.model = m.model /\ n.title = m.title
  BY Selected
<1>2. Number(n.size) = Number(m.size) /\ Percent(n.percent) = Percent(m.percent)
  BY Selected, ReadTwice
<1>3. Used(n.usage) = Used(m.usage)
  BY Selected, ReadTwice DEF Used
<1>4. StatusQuotas(n) = StatusQuotas(m)
  <2>1. \A w \in DOMAIN Windows : /\ Percent(n.limits[w].percent) = Percent(m.limits[w].percent)
                                  /\ Number(n.limits[w].resets) = Number(m.limits[w].resets)
    BY Selected, ReadTwice
  <2> HIDE DEF n
  <2> QED
    BY <2>1 DEF StatusQuotas
<1> HIDE DEF n
<1>5. StatusLine(n) = [i \in DOMAIN StatusLine(m) |-> [StatusLine(m)[i] EXCEPT !.process = Missing]]
  <2> DEFINE source == "claude-statusline"
             O(x, process) ==
                 [Base("claude", source, x.session) EXCEPT
                     !.kind = "context", !.process = process, !.model = x.model, !.title = x.title,
                     !.context = [limit |-> Number(x.size), percent |-> Percent(x.percent),
                                  used |-> Used(x.usage)]]
             Q(x) == [Base("claude", source, x.session) EXCEPT
                         !.kind = "quota", !.quotas = StatusQuotas(x)]
  <2>1. ASSUME NEW x
        PROVE  StatusLine(x) = IF StatusQuotas(x) = {} THEN <<O(x, x.process)>>
                               ELSE <<O(x, x.process), Q(x)>>
    <3>1. Q(x).quotas = StatusQuotas(x)
      BY DEF Base
    <3> QED
      BY <3>1 DEF StatusLine
  <2>2. O(n, n.process) = O(m, Missing)
    BY <1>1, <1>2, <1>3
  <2>3. O(m, Missing) = [O(m, m.process) EXCEPT !.process = Missing]
    BY ZenonT(30) DEF Base
  <2>4. Q(n) = Q(m)
    BY <1>1, <1>4
  <2>5. Q(m) = [Q(m) EXCEPT !.process = Missing]
    <3>1. Q(m).process = Missing /\ Q(m) = [f \in DOMAIN Q(m) |-> Q(m)[f]]
      BY DEF Base
    <3> HIDE DEF Q
    <3> QED
      BY <3>1
  <2> HIDE DEF O, Q
  <2>6. CASE StatusQuotas(m) = {}
    BY <1>4, <2>1, <2>2, <2>3, <2>6
  <2>7. CASE StatusQuotas(m) # {}
    BY <1>4, <2>1, <2>2, <2>3, <2>4, <2>5, <2>7
  <2> QED
    BY <2>6, <2>7
<1> QED
  BY <1>5 DEF n

\* The helper sends what the server needs: the selection of NativeMetadata loses no
\* observation and none of its fields, but for the process of a status line.
THEOREM SelectionKept == Spec => []ObserverLosesNothing
<1>1. IInv => ObserverLosesNothing
  <2> SUFFICES ASSUME IInv, NEW c \in Clients, client[c].post # Missing,
                      client[c].post.mode \in {"hook", "statusline"}
               PROVE  LET post == client[c].post
                          whole == ProjectNative(post.provider, post.mode, post.body).out
                      IN  client[c].batch =
                              IF post.mode = "hook" THEN whole
                              ELSE [i \in DOMAIN whole |-> [whole[i] EXCEPT !.process = Missing]]
    BY DEF ObserverLosesNothing
  <2> DEFINE post == client[c].post
             m == post.body
             n == Sent(post)
  <2>1. post \in Posts /\ client[c].batch = Project(post).out
    BY DEF IInv, HandlerInv, Placed, Handlers
  <2>2. Message(m)
    BY <2>1, PostsAssumption
  <2>3. Project(post) = ProjectNative(post.provider, post.mode, n)
    BY DEF Project
  <2>4. CASE post.mode = "hook"
    BY <2>1, <2>3, <2>4 DEF Sent, NativeMetadata
  <2>5. CASE post.mode = "statusline" /\ ~ProjectNative(post.provider, post.mode, m).ok
    <3>1. n = m
      BY <2>5 DEF Sent
    <3>2. ProjectNative(post.provider, post.mode, m).out = <<>>
      BY <2>5 DEF ProjectNative, Projected, Error
    <3> QED
      BY <2>1, <2>3, <2>5, <3>1, <3>2
  <2>6. CASE post.mode = "statusline" /\ ProjectNative(post.provider, post.mode, m).ok
    <3>1. n = NativeMetadata("statusline", m) /\ n.session = m.session
      BY <2>2, <2>6, Selected DEF Sent
    <3>2. m.session # Missing /\ post.provider = "claude"
      BY <2>6 DEF ProjectNative, Error
    <3>3. /\ ProjectNative(post.provider, post.mode, m).out = StatusLine(m)
          /\ ProjectNative(post.provider, post.mode, n).out = StatusLine(n)
      BY <2>6, <3>1, <3>2 DEF ProjectNative, Projected, Native
    <3>4. StatusLine(n) = [i \in DOMAIN StatusLine(m) |->
                             [StatusLine(m)[i] EXCEPT !.process = Missing]]
      BY <2>2, <3>1, SelectionSuffices
    <3> QED
      BY <2>1, <2>3, <2>6, <3>3, <3>4
  <2> QED
    BY <2>4, <2>5, <2>6
<1> QED
  BY Invariant, <1>1, PTL

-----------------------------------------------------------------------------
\* A quota and days that validate has nothing against, but for its limits.
WellMadeQuota(q) ==
    /\ q.length \in Nat \ {0} /\ q.percent \in 0 .. 100
    /\ q.window \in Nat \cup {Missing} /\ q.resets \in Int \cup {Missing}

WellMadeDays(daily) ==
    /\ Cardinality(daily) <= MaxDays
    /\ \A d, e \in daily : /\ d.tokens \in Nat /\ d.date \in Int
                           /\ d.date >= 1 - MaxDays /\ d.date <= 1
                           /\ d.date = e.date => d = e

\* What every projector sees to.
WellMade(o) ==
    /\ o.kind \in {"account", "session", "usage", "quota", "context"}
    /\ o.provider \in Native /\ o.source \in SourcesOf[o.provider]
    /\ o.activity \in {"none", "running", "waiting", "idle", "completed", "unknown"}
    /\ o.age \in Int /\ o.age >= -1 /\ o.age <= MaxDays * Day /\ o.plan \in Nat
    /\ o.kind = "account" => /\ o.connection # "none" /\ o.source # "browser" /\ o.account # Missing
    /\ o.kind \in {"session", "context"} => o.session # Missing
    /\ o.kind = "usage" => o.tokens # Missing \/ o.daily # {}
    /\ o.tokens # Missing => o.kind = "usage" /\ o.request # Missing /\ o.tokens \in [Counts -> Nat]
    /\ o.context # Missing => /\ o.context.limit \in Nat \cup {Missing}
                              /\ o.context.used \in Nat \cup {Missing}
                              /\ o.context.percent \in 0 .. 100 \cup {Missing}
    /\ IsFiniteSet(o.quotas) /\ \A q \in o.quotas : WellMadeQuota(q)
    /\ WellMadeDays(o.daily)

\* The limits are numbers.
LEMMA Limits ==
    /\ MaxTokens \in Nat /\ LastSecond \in Nat /\ FirstSecond \in Int
    /\ MaxRecords \in Nat /\ MaxQuotas \in Nat
    /\ MaxText \in Nat /\ MaxDays \in Nat /\ Day \in Nat /\ MaxDays * Day \in Nat
    /\ Missing \notin Int
<1>1. MaxDays \in Nat /\ Day \in Nat
  BY ProjectionAssumption
<1>2. MaxDays * Day \in Nat
  BY <1>1
<1> QED
  BY <1>2, ProjectionAssumption

\* The module's calendar.
LEMMA Calendar ==
    ASSUME NEW clock \in Clocks
    PROVE  /\ Oldest(clock) \in Int /\ LocalTomorrow(clock) \in Int
           /\ \A k \in Int : k >= 1 - MaxDays => k * Day >= clock.time - Oldest(clock) - Day
<1>1. /\ clock.time \in 0 .. Day /\ clock.offset \in -Day .. Day /\ clock.gained \in -Day .. Day
      /\ MaxDays \in Nat /\ Day \in Nat \ {0} /\ MaxDays * Day \in Nat
  BY Limits, ClocksAssumption, ProjectionAssumption
<1>2. Oldest(clock) \in Int
  BY <1>1 DEF Oldest
<1>3. LocalTomorrow(clock) \in Int
  BY <1>1 DEF LocalTomorrow
<1>4. ASSUME NEW k \in Int, k >= 1 - MaxDays
      PROVE  k * Day >= clock.time - Oldest(clock) - Day
  <2>1. k * Day >= (1 - MaxDays) * Day
    <3>1. \A i \in Nat : i * Day \in Nat
      BY <1>1
    <3>2. (k - (1 - MaxDays)) * Day >= 0
      BY <1>1, <1>4, <3>1
    <3> QED
      BY <1>1, <3>2
  <2>2. (1 - MaxDays) * Day = Day - MaxDays * Day
    BY <1>1
  <2> DEFINE span == MaxDays * Day
  <2>3. k * Day >= Day - span /\ Oldest(clock) = span - clock.gained /\ k * Day \in Int
    BY <1>1, <2>1, <2>2 DEF Oldest
  <2>4. span \in Nat
    BY <1>1
  <2> DEFINE date == k * Day
  <2> HIDE DEF span, date
  <2>5. date >= Day - span /\ date \in Int
    BY <2>3 DEF date
  <2>6. date >= clock.time - (span - clock.gained) - Day
    BY <1>1, <2>4, <2>5
  <2> QED
    BY <2>3, <2>6 DEF date
<1> QED
  BY <1>2, <1>3, <1>4

\* What is well made is refused only for what explains it.
LEMMA WellMadeIsFit ==
    ASSUME NEW o, WellMade(o)
    PROVE  /\ ~Sendable(o) => Explained(o)
           /\ \A later \in 0 .. 1, clock \in Clocks : ~Valid(o, later, clock) => Explained(o)
<1>1. ~Sendable(o) => Explained(o)
  BY Limits DEF Sendable, Explained, WellMade, WellMadeQuota
<1>2. ASSUME NEW later \in 0 .. 1, NEW clock \in Clocks, ~Explained(o) PROVE Valid(o, later, clock)
  <2>1. Oldest(clock) \in Int /\ LocalTomorrow(clock) \in Int
    BY Calendar
  <2>2. o.age + later >= -5 /\ o.age + later <= Oldest(clock)
    <3>1. ~(o.age >= Oldest(clock)) /\ o.age \in Int /\ o.age >= -1
      BY <1>2 DEF WellMade, Explained
    <3> QED
      BY <2>1, <3>1
  <2>3. o.plan <= MaxText /\ Cardinality(o.quotas) <= MaxQuotas /\ Cardinality(o.daily) <= MaxDays
    <3>1. Cardinality(o.quotas) \in Nat
      BY FS_CardinalityType DEF WellMade
    <3> QED
      BY <1>2, <3>1, Limits DEF WellMade, WellMadeDays, Explained
  <2>4. /\ o.kind = "account" => /\ o.connection # "none" /\ o.source # "browser"
                                 /\ o.connection = "connected" => o.account # Missing
        /\ o.kind \in {"session", "context"} => o.session # Missing
        /\ o.kind = "usage" => o.tokens # Missing \/ o.daily # {}
    BY DEF WellMade
  <2>5. o.tokens # Missing => /\ o.kind = "usage" /\ o.request # Missing
                              /\ \A f \in DOMAIN o.tokens : o.tokens[f] >= 0
    BY DEF WellMade
  <2>6. o.context # Missing => /\ o.context.limit = Missing \/ o.context.limit > 0
                               /\ o.context.used = Missing \/ o.context.used >= 0
                               /\ o.context.percent = Missing \/ o.context.percent \in 0 .. 100
    BY <1>2 DEF WellMade, Explained
  <2>7. ASSUME NEW q \in o.quotas
        PROVE  /\ q.length \in 1 .. MaxText
               /\ q.percent = Missing \/ q.percent \in 0 .. 100
               /\ q.window = Missing \/ q.window > 0
    BY <1>2, Limits DEF WellMade, WellMadeQuota, Explained
  <2>8. ASSUME NEW d \in o.daily, NEW e \in o.daily
        PROVE  /\ d.tokens >= 0 /\ d.date = e.date => d = e
               /\ d.date * Day >= clock.time - Oldest(clock) - Day
               /\ d.date <= LocalTomorrow(clock)
    <3>1. /\ d.tokens \in Nat /\ d.date \in Int /\ d.date >= 1 - MaxDays
          /\ d.date = e.date => d = e
      BY DEF WellMade, WellMadeDays
    <3>2. ~(d.date > LocalTomorrow(clock))
      BY <1>2 DEF Explained
    <3>3. d.date * Day >= clock.time - Oldest(clock) - Day
      BY <3>1, Calendar
    <3>4. d.date <= LocalTomorrow(clock)
      BY <2>1, <3>1, <3>2
    <3> QED
      BY <3>1, <3>3, <3>4
  <2>9. /\ o.kind \in {"account", "session", "usage", "quota", "context", "disconnect"}
        /\ o.provider \in Native /\ o.source \in SourcesOf[o.provider]
        /\ o.activity \in {"none", "running", "waiting", "idle", "completed", "unknown"}
    BY DEF WellMade
  <2> QED
    BY <2>2, <2>3, <2>4, <2>5, <2>6, <2>7, <2>8, <2>9, Zenon DEF Valid
<1> QED
  BY <1>1, <1>2

\* Of what is read of a JSON value.
LEMMA ReadValue ==
    ASSUME NEW v
    PROVE  /\ Number(v) \in Nat \cup {Missing} /\ Number(v) \in Int \cup {Missing}
           /\ Percent(v) \in 0 .. 100 \cup {Missing} /\ Val(Number(v)) \in Nat
BY Limits DEF Number, Percent, Val

\* An observation that is made now, of no days.
LEMMA Made ==
    ASSUME NEW o, NEW provider \in Native, o.provider = provider, o.source \in SourcesOf[provider],
           o.kind \in {"account", "session", "usage", "quota", "context"},
           o.activity \in {"none", "running", "waiting", "idle", "completed", "unknown"},
           o.age = 0, o.plan \in Nat, o.tokens = Missing,
           o.kind = "account" => /\ o.connection # "none" /\ o.source # "browser"
                                 /\ o.account # Missing,
           o.kind \in {"session", "context"} => o.session # Missing,
           o.kind = "usage" => o.daily # {},
           o.context # Missing => /\ o.context.limit \in Nat \cup {Missing}
                                  /\ o.context.used \in Nat \cup {Missing}
                                  /\ o.context.percent \in 0 .. 100 \cup {Missing},
           \/ o.quotas = {}
           \/ IsFiniteSet(o.quotas) /\ \A q \in o.quotas : WellMadeQuota(q),
           o.daily = {} \/ WellMadeDays(o.daily)
    PROVE  WellMade(o)
<1>1. WellMadeDays(o.daily)
  <2>1. WellMadeDays({})
    <3>1. Cardinality({}) = 0
      BY FS_EmptySet
    <3> QED
      BY <3>1, Limits DEF WellMadeDays
  <2> QED
    BY <2>1
<1>2. IsFiniteSet(o.quotas) /\ \A q \in o.quotas : WellMadeQuota(q)
  BY FS_EmptySet
<1>3. o.age \in Int /\ o.age >= -1 /\ o.age <= MaxDays * Day
  <2> DEFINE span == MaxDays * Day
  <2>1. span \in Nat
    BY Limits
  <2> HIDE DEF span
  <2>2. o.age \in Int /\ o.age >= -1 /\ o.age <= span
    BY <2>1
  <2> QED
    BY <2>2 DEF span
<1> QED
  BY <1>1, <1>2, <1>3, Zenon DEF WellMade

\* The observations of a hook.
LEMMA HookWellMade ==
    ASSUME NEW provider \in Native, NEW m, m.session # Missing
    PROVE  /\ Len(Hook(provider, m)) \in Nat
           /\ \A i \in 1 .. Len(Hook(provider, m)) : WellMade(Hook(provider, m)[i])
<1> DEFINE source == IF provider = "claude" THEN "claude-hook" ELSE "codex-hook"
           o == [Base(provider, source, m.session) EXCEPT
                    !.kind = "session", !.process = m.process, !.model = m.model,
                    !.activity = Activity(m.event)]
           blank == [Base(provider, source, m.session) EXCEPT
                        !.kind = "context",
                        !.context = [limit |-> Missing, percent |-> Missing, used |-> Missing]]
<1>1. Hook(provider, m) = IF o.activity = Missing THEN <<>>
                          ELSE IF o.activity = "unknown" THEN <<o, blank>> ELSE <<o>>
  BY Zenon DEF Hook
<1>2. source \in SourcesOf[provider]
  BY DEF Native, SourcesOf
<1>3. o.activity # Missing => WellMade(o)
  <2>1. o.activity \in {"idle", "completed", "running", "waiting", "unknown", Missing}
    BY DEF Base, Activity
  <2>2. /\ o.provider = provider /\ o.source = source /\ o.kind = "session" /\ o.age = 0
        /\ o.plan = 0 /\ o.tokens = Missing /\ o.session = m.session /\ o.context = Missing
        /\ o.quotas = {} /\ o.daily = {}
    BY DEF Base
  <2> HIDE DEF o, source
  <2> QED
    BY <1>2, <2>1, <2>2, Made
<1>4. WellMade(blank)
  <2>1. /\ blank.provider = provider /\ blank.source = source /\ blank.kind = "context"
        /\ blank.age = 0 /\ blank.plan = 0 /\ blank.tokens = Missing
        /\ blank.session = m.session /\ blank.quotas = {} /\ blank.daily = {}
        /\ blank.activity = "none" /\ blank.context.limit = Missing
        /\ blank.context.used = Missing /\ blank.context.percent = Missing
    BY DEF Base
  <2> HIDE DEF blank, source
  <2> QED
    BY <1>2, <2>1, Made
<1> HIDE DEF o, blank
<1> QED
  BY <1>1, <1>3, <1>4

\* The observations of a status line.
LEMMA StatusLineWellMade ==
    ASSUME NEW m, m.session # Missing
    PROVE  /\ Len(StatusLine(m)) \in Nat
           /\ \A i \in 1 .. Len(StatusLine(m)) : WellMade(StatusLine(m)[i])
<1> DEFINE source == "claude-statusline"
           o == [Base("claude", source, m.session) EXCEPT
                    !.kind = "context", !.process = m.process, !.model = m.model,
                    !.title = m.title,
                    !.context = [limit |-> Number(m.size), percent |-> Percent(m.percent),
                                 used |-> Used(m.usage)]]
           q == [Base("claude", source, m.session) EXCEPT
                    !.kind = "quota", !.quotas = StatusQuotas(m)]
<1>1. StatusLine(m) = IF q.quotas = {} THEN <<o>> ELSE <<o, q>>
  BY Zenon DEF StatusLine
<1>2. "claude" \in Native /\ source \in SourcesOf["claude"]
  BY DEF Native, SourcesOf
<1>3. WellMade(o)
  <2>1. /\ o.provider = "claude" /\ o.source = source /\ o.kind = "context" /\ o.age = 0
        /\ o.plan = 0 /\ o.tokens = Missing /\ o.session = m.session /\ o.quotas = {}
        /\ o.daily = {} /\ o.activity = "none" /\ o.context.limit = Number(m.size)
        /\ o.context.percent = Percent(m.percent) /\ o.context.used = Used(m.usage)
    BY DEF Base
  <2>2. Used(m.usage) \in Nat \cup {Missing}
    BY ReadValue DEF Used
  <2> HIDE DEF o, source
  <2> QED
    BY <1>2, <2>1, <2>2, ReadValue, Made
<1>4. WellMade(q)
  <2>1. /\ q.provider = "claude" /\ q.source = source /\ q.kind = "quota" /\ q.age = 0
        /\ q.plan = 0 /\ q.tokens = Missing /\ q.context = Missing
        /\ q.quotas = StatusQuotas(m) /\ q.daily = {} /\ q.activity = "none"
    BY DEF Base
  <2> DEFINE known == {v \in DOMAIN Windows : Percent(m.limits[v].percent) # Missing}
             Of(w) == Quota(w, LengthOf[w], Percent(m.limits[w].percent), Windows[w],
                            Number(m.limits[w].resets))
  <2>2. StatusQuotas(m) = {Of(w) : w \in known}
    BY DEF StatusQuotas
  <2>3. known \subseteq {"five_hour", "seven_day"}
    BY DEF Windows
  <2>4. IsFiniteSet(StatusQuotas(m))
    <3>1. StatusQuotas(m) \subseteq {Of("five_hour")} \cup {Of("seven_day")}
      BY <2>2, <2>3
    <3> HIDE DEF Of, known
    <3>2. IsFiniteSet({Of("five_hour")} \cup {Of("seven_day")})
      BY FS_Singleton, FS_Union
    <3> QED
      BY <3>1, <3>2, FS_Subset
  <2>5. ASSUME NEW w \in known PROVE WellMadeQuota(Of(w))
    <3> DEFINE x == m.limits[w].percent
               y == m.limits[w].resets
    <3>1. w \in {"five_hour", "seven_day"} /\ Percent(x) # Missing
      BY <2>3
    <3> HIDE DEF x, y
    <3>2. WellMadeQuota(Quota(w, LengthOf[w], Percent(x), Windows[w], Number(y)))
      BY <3>1, ReadValue DEF WellMadeQuota, Quota, LengthOf, Windows
    <3> QED
      BY <3>2 DEF x, y
  <2> HIDE DEF q, source, Of, known
  <2>6. \A x \in q.quotas : WellMadeQuota(x)
    BY <2>1, <2>2, <2>5
  <2> QED
    BY <1>2, <2>1, <2>4, <2>6, Made
<1> HIDE DEF o, q
<1> QED
  BY <1>1, <1>3, <1>4

\* Of a finite set of numbers, each place up to the last has an element.
LEMMA Ranked ==
    ASSUME NEW S, IsFiniteSet(S), S \subseteq Int, NEW k \in 1 .. Cardinality(S)
    PROVE  \E i \in S : Cardinality({j \in S : j <= i}) = k
<1> DEFINE Upto(i) == {j \in S : j <= i}
           n == Cardinality(S)
           rank == [i \in S |-> Cardinality(Upto(i))]
<1>1. n \in Nat
  BY FS_CardinalityType
<1>2. ASSUME NEW i \in S
      PROVE  IsFiniteSet(Upto(i)) /\ Cardinality(Upto(i)) \in 1 .. n
  <2>1. Upto(i) \in SUBSET S /\ i \in Upto(i)
    OBVIOUS
  <2> HIDE DEF Upto
  <2>2. IsFiniteSet(Upto(i)) /\ Cardinality(Upto(i)) <= n
    BY <2>1, FS_Subset
  <2>3. Cardinality(Upto(i)) \in Nat /\ Cardinality(Upto(i)) # 0
    BY <2>1, <2>2, FS_CardinalityType, FS_EmptySet
  <2> QED
    BY <1>1, <2>2, <2>3
<1>3. ASSUME NEW i \in S, NEW j \in S, i < j PROVE rank[i] # rank[j]
  <2>1. Upto(i) \in SUBSET Upto(j) /\ j \in Upto(j) /\ j \notin Upto(i)
    <3>1. i \in Int /\ j \in Int /\ i < j /\ \A x \in S : x \in Int
      BY <1>3
    <3>2. j <= j /\ ~(j <= i) /\ \A x \in S : x <= i => x <= j
      BY <3>1
    <3> QED
      BY <3>2
  <2> HIDE DEF Upto
  <2>2. Cardinality(Upto(j)) # Cardinality(Upto(i))
    BY <1>2, <2>1, FS_Subset
  <2> QED
    BY <2>2
<1>4. rank \in [S -> 1 .. n]
  <2> HIDE DEF Upto, n
  <2> QED
    BY <1>2
<1> HIDE DEF rank
<1>5. \A i, j \in S : rank[i] = rank[j] => i = j
  <2>1. \A i, j \in S : i < j \/ j < i \/ i = j
    OBVIOUS
  <2> QED
    BY <1>3, <2>1
<1>6. rank \in Injection(S, 1 .. n)
  BY <1>4, <1>5 DEF Injection, IsInjective
<1>7. IsFiniteSet(1 .. n) /\ Cardinality(1 .. n) = n
  BY <1>1, FS_Interval
<1>8. rank \in Surjection(S, 1 .. n)
  BY <1>6, <1>7, FS_Injection
<1>9. PICK i \in S : rank[i] = k
  BY <1>8 DEF Surjection
<1> QED
  BY <1>9 DEF rank

\* Of the usage that telemetry reports.
LEMMA TelemetryWellMade ==
    ASSUME NEW provider, NEW m, Telemetry(m)
    PROVE  /\ Len(ProjectOTLP(provider, m).out) \in Nat
           /\ \A i \in 1 .. Len(ProjectOTLP(provider, m).out) :
                  WellMade(ProjectOTLP(provider, m).out[i])
<1> DEFINE usable == {i \in DOMAIN m.records : Usable(provider, m.records[i])}
           rank == [i \in usable |-> Cardinality({j \in usable : j <= i})]
           source == IF provider = "claude" THEN "claude-otel" ELSE "codex-otel"
           Usage(r) == [Base(provider, source, r.session) EXCEPT
                           !.kind = "usage", !.age = r.age, !.request = r.request,
                           !.model = r.model, !.tokens = Tokens(provider, r)]
           chosen == [k \in 1 .. Cardinality(usable) |->
                          Usage(m.records[CHOOSE i \in usable : rank[i] = k])]
<1>1. \/ ProjectOTLP(provider, m).out = <<>>
      \/ provider \in Native /\ ProjectOTLP(provider, m).out = chosen
  BY DEF ProjectOTLP, Error, Projected
<1>2. IsFiniteSet(usable) /\ usable \subseteq Int
  <2>1. DOMAIN m.records = 1 .. Len(m.records) /\ Len(m.records) \in Nat
    BY DEF Telemetry, Listed
  <2>2. IsFiniteSet(1 .. Len(m.records))
    BY <2>1, FS_Interval
  <2> QED
    BY <2>1, <2>2, FS_Subset
<1>3. ASSUME provider \in Native, NEW i \in usable PROVE WellMade(Usage(m.records[i]))
  <2> DEFINE r == m.records[i]
             o == Usage(r)
             tokens == Tokens(provider, r)
             span == MaxDays * Day
  <2>1. /\ o.provider = provider /\ o.source = source /\ o.kind = "usage" /\ o.age = r.age
        /\ o.plan = 0 /\ o.tokens = tokens /\ o.request = r.request /\ o.context = Missing
        /\ o.quotas = {} /\ o.daily = {} /\ o.activity = "none"
    BY DEF Base
  <2>2. r.request # Missing /\ r.age \in Int /\ r.age >= -1 /\ r.age <= span
    BY DEF Usable, Telemetry
  <2>3. source \in SourcesOf[provider]
    BY <1>3 DEF Native, SourcesOf
  <2>4. tokens \in [Counts -> Nat]
    BY ReadValue DEF Tokens, Counts
  <2>5. tokens # Missing
    BY <2>4, ProjectionAssumption
  <2>6. IsFiniteSet({}) /\ WellMadeDays({})
    <3>1. Cardinality({}) = 0 /\ IsFiniteSet({})
      BY FS_EmptySet
    <3> QED
      BY <3>1, Limits DEF WellMadeDays
  <2> HIDE DEF o, r, source, tokens
  <2>7. /\ o.kind \in {"account", "session", "usage", "quota", "context"}
        /\ o.activity \in {"none", "running", "waiting", "idle", "completed", "unknown"}
        /\ o.kind # "account" /\ o.kind \notin {"session", "context"} /\ o.plan \in Nat
    BY <2>1
  <2>8. IsFiniteSet(o.quotas) /\ (\A q \in o.quotas : WellMadeQuota(q)) /\ WellMadeDays(o.daily)
    BY <2>1, <2>6
  <2>9. /\ o.provider \in Native /\ o.source \in SourcesOf[o.provider]
        /\ o.age \in Int /\ o.age >= -1 /\ o.age <= MaxDays * Day
        /\ o.tokens # Missing /\ o.tokens \in [Counts -> Nat] /\ o.request # Missing
        /\ o.context = Missing /\ o.kind = "usage"
    BY <1>3, <2>1, <2>2, <2>3, <2>4, <2>5
  <2> HIDE DEF span
  <2>10. WellMade(o)
    BY <2>7, <2>8, <2>9, Zenon DEF WellMade
  <2> QED
    BY <2>10 DEF o, r
<1>4. ASSUME provider \in Native, NEW k \in 1 .. Cardinality(usable) PROVE WellMade(chosen[k])
  <2>1. PICK i \in usable : Cardinality({j \in usable : j <= i}) = k
    BY <1>2, Ranked
  <2> DEFINE at == CHOOSE j \in usable : rank[j] = k
  <2> HIDE DEF usable
  <2>2. rank[i] = k
    BY <2>1
  <2> HIDE DEF rank
  <2>3. at \in usable
    BY <2>2
  <2>4. chosen[k] = Usage(m.records[at])
    OBVIOUS
  <2> HIDE DEF at, Usage
  <2> QED
    BY <1>3, <1>4, <2>3, <2>4
<1>5. Cardinality(usable) \in Nat
  BY <1>2, FS_CardinalityType
<1>6. Len(chosen) = Cardinality(usable)
  <2> HIDE DEF usable, rank, Usage
  <2> QED
    BY <1>5
<1> HIDE DEF chosen
<1> QED
  BY <1>1, <1>4, <1>5, <1>6

\* Of the tabs of a browser.
LEMMA BrowserWellMade ==
    ASSUME NEW m, Listed(m.events)
    PROVE  /\ Len(ProjectBrowser(m).out) \in Nat
           /\ \A i \in 1 .. Len(ProjectBrowser(m).out) : WellMade(ProjectBrowser(m).out[i])
<1> DEFINE events == m.events
           O(e) == [Base(e.provider, "browser", e.session) EXCEPT
                       !.kind = "session", !.title = e.title, !.model = e.model,
                       !.activity = BrowserActivity(e.activity)]
           all == [i \in DOMAIN events |-> O(events[i])]
           bad == \/ Len(events) \notin 1 .. MaxEvents
                  \/ \E i \in DOMAIN events :
                         events[i].provider \notin Native \/ events[i].session = Missing
<1>1. ProjectBrowser(m).out = IF bad THEN <<>> ELSE all
  BY DEF ProjectBrowser, Error, Projected
<1>2. Len(events) \in Nat /\ DOMAIN events = 1 .. Len(events)
  BY DEF Listed
<1>3. ASSUME NEW e, e.provider \in Native, e.session # Missing PROVE WellMade(O(e))
  <2> DEFINE o == O(e)
  <2>1. /\ o.provider = e.provider /\ o.source = "browser" /\ o.kind = "session" /\ o.age = 0
        /\ o.plan = 0 /\ o.tokens = Missing /\ o.session = e.session /\ o.context = Missing
        /\ o.quotas = {} /\ o.daily = {}
    BY DEF Base
  <2>2. o.activity \in {"running", "idle", "waiting", "completed", "unknown"}
    BY DEF Base, BrowserActivity
  <2>3. "browser" \in SourcesOf[e.provider]
    BY <1>3 DEF Native, SourcesOf
  <2> HIDE DEF o
  <2>4. WellMade(o)
    BY <1>3, <2>1, <2>2, <2>3, Made
  <2> QED
    BY <2>4 DEF o
<1> HIDE DEF events, O
<1>4. Len(all) = Len(events)
  BY <1>2
<1>5. ASSUME ~bad, NEW i \in 1 .. Len(events) PROVE WellMade(all[i])
  <2>1. all[i] = O(events[i]) /\ events[i].provider \in Native /\ events[i].session # Missing
    BY <1>2, <1>5
  <2> QED
    BY <1>3, <2>1
<1> HIDE DEF all, bad
<1> QED
  BY <1>1, <1>2, <1>4, <1>5

\* The account that a native client says it is signed in to.
LEMMA AccountWellMade ==
    ASSUME NEW provider \in Native, NEW m, m.plan \in Nat, ParseAccount(provider, m).out # <<>>
    PROVE  /\ Len(ParseAccount(provider, m).out) = 1
           /\ WellMade(ParseAccount(provider, m).out[1])
<1> DEFINE source == IF provider = "claude" THEN "claude-auth" ELSE "openai-app-server"
           o == [Base(provider, source, Missing) EXCEPT
                    !.kind = "account", !.account = m.id, !.mode = "subscription",
                    !.plan = m.plan, !.connection = "connected"]
<1>1. ParseAccount(provider, m).out = <<o>> /\ m.id # Missing
  BY DEF ParseAccount, Error, Projected
<1>2. source \in SourcesOf[provider] /\ source # "browser"
  BY DEF Native, SourcesOf
<1>3. /\ o.provider = provider /\ o.source = source /\ o.kind = "account" /\ o.age = 0
      /\ o.plan = m.plan /\ o.tokens = Missing /\ o.context = Missing /\ o.quotas = {}
      /\ o.daily = {} /\ o.activity = "none" /\ o.connection = "connected" /\ o.account = m.id
  BY DEF Base
<1> HIDE DEF o, source
<1>4. WellMade(o)
  BY <1>1, <1>2, <1>3, Made
<1> QED
  BY <1>1, <1>4

\* The rate limits that the Codex server reports.
LEMMA RateLimitsWellMade ==
    ASSUME NEW m, RateLimits(m), NEW account
    PROVE  /\ Len(ParseOpenAIQuotas(m, account).out) = 1
           /\ WellMade(ParseOpenAIQuotas(m, account).out[1])
<1> DEFINE single == [m.single EXCEPT !.length = LengthOf["codex"]]
           buckets == IF m.byID = {} THEN {single} ELSE m.byID
           names == {"primary", "secondary"}
           Seen(b, n) == [id |-> b.key, name |-> n, length |-> b.length + 1 + LengthOf[n],
                          of |-> b[n]]
           windows == {Seen(b, n) : b \in buckets, n \in names}
           known == {w \in windows : Percent(w.of.percent) # Missing}
           Of(w) == Quota(<<w.id, w.name>>, w.length, Percent(w.of.percent),
                          Number(w.of.window), Number(w.of.resets))
           quotas == {Of(w) : w \in known}
           o == [Base("openai", "openai-app-server", Missing) EXCEPT
                    !.kind = "quota", !.account = account, !.mode = "subscription",
                    !.quotas = quotas]
<1>1. ParseOpenAIQuotas(m, account).out = <<o>>
  <2>1. ParseOpenAIQuotas(m, account) = Projected(<<o>>)
    BY DEF ParseOpenAIQuotas
  <2> HIDE DEF o
  <2> QED
    BY <2>1 DEF Projected
<1>2. IsFiniteSet(buckets) /\ \A b \in buckets : b.length \in Nat
  <2>1. single.length = 5
    BY DEF RateLimits, LengthOf
  <2> HIDE DEF single
  <2>2. IsFiniteSet({single})
    BY FS_Singleton
  <2> QED
    BY <2>1, <2>2 DEF RateLimits
<1>3. IsFiniteSet(quotas)
  <2> DEFINE pairs == {p \in buckets \X names : Seen(p[1], p[2]) \in known}
             make == [p \in pairs |-> Of(Seen(p[1], p[2]))]
  <2>1. IsFiniteSet(pairs)
    <3>1. IsFiniteSet(names)
      <4>1. names = {"primary"} \cup {"secondary"}
        OBVIOUS
      <4> HIDE DEF names
      <4> QED
        BY <4>1, FS_Singleton, FS_Union
    <3>3. pairs \in SUBSET (buckets \X names)
      OBVIOUS
    <3> HIDE DEF buckets, names, pairs
    <3>2. IsFiniteSet(buckets \X names)
      BY <1>2, <3>1, FS_Product
    <3> QED
      BY <3>2, <3>3, FS_Subset
  <2>2. make \in Surjection(pairs, quotas)
    <3> HIDE DEF Seen, Of, buckets, names
    <3>1. ASSUME NEW q \in quotas PROVE \E p \in pairs : make[p] = q
      <4>1. PICK b \in buckets, n \in names : Seen(b, n) \in known /\ q = Of(Seen(b, n))
        OBVIOUS
      <4>2. <<b, n>> \in pairs /\ make[<<b, n>>] = q
        BY <4>1
      <4> QED
        BY <4>2
    <3>2. make \in [pairs -> quotas]
      OBVIOUS
    <3> HIDE DEF make, pairs, quotas
    <3> QED
      BY <3>1, <3>2 DEF Surjection
  <2> HIDE DEF make, pairs
  <2> QED
    BY <2>1, <2>2, FS_Surjection
<1>4. ASSUME NEW w \in known PROVE WellMadeQuota(Of(w))
  <2>1. PICK b \in buckets, n \in names : w = Seen(b, n)
    OBVIOUS
  <2>2. w.length \in Nat \ {0}
    BY <1>2, <2>1 DEF LengthOf
  <2> HIDE DEF known
  <2>3. Percent(w.of.percent) # Missing
    BY DEF known
  <2>4. WellMadeQuota(Of(w))
    BY <2>2, <2>3, ReadValue DEF WellMadeQuota, Quota
  <2> QED
    BY <2>4
<1>5. /\ o.provider = "openai" /\ o.source = "openai-app-server" /\ o.kind = "quota"
      /\ o.age = 0 /\ o.plan = 0 /\ o.tokens = Missing /\ o.context = Missing
      /\ o.quotas = quotas /\ o.daily = {} /\ o.activity = "none"
  BY DEF Base
<1>6. "openai" \in Native /\ "openai-app-server" \in SourcesOf["openai"]
  BY DEF Native, SourcesOf
<1> HIDE DEF o, Of, known
<1>7. \A q \in quotas : WellMadeQuota(q)
  BY <1>4
<1> HIDE DEF quotas
<1>8. WellMade(o)
  BY <1>3, <1>5, <1>6, <1>7, Made
<1> QED
  BY <1>1, <1>8

\* The windows that the native Claude client reports.
LEMMA ClaudeWellMade ==
    ASSUME NEW m, ClaudeLimits(m), NEW account, ParseClaudeQuotas(m, account).out # <<>>
    PROVE  /\ Len(ParseClaudeQuotas(m, account).out) = 1
           /\ WellMade(ParseClaudeQuotas(m, account).out[1])
<1> DEFINE known == {w \in m.limits : Percent(w.percent) # Missing}
           Of(w) == Quota(w.id, w.length, Percent(w.percent), w.window, w.resets)
           quotas == {Of(w) : w \in known}
           o == [Base("claude", "claude-native-usage", Missing) EXCEPT
                    !.kind = "quota", !.account = account, !.mode = "subscription",
                    !.quotas = quotas]
<1>1. ParseClaudeQuotas(m, account).out = <<o>>
  BY Zenon DEF ParseClaudeQuotas, Projected, Error
<1>2. IsFiniteSet(quotas)
  <2> DEFINE make == [w \in known |-> Of(w)]
  <2>1. IsFiniteSet(known)
    BY FS_Subset DEF ClaudeLimits
  <2>2. make \in Surjection(known, quotas)
    <3> HIDE DEF Of, known
    <3> QED
      BY DEF Surjection
  <2> HIDE DEF make, known
  <2> QED
    BY <2>1, <2>2, FS_Surjection
<1>3. ASSUME NEW w \in known PROVE WellMadeQuota(Of(w))
  <2>1. /\ w.length \in Nat \ {0} /\ w.window \in Nat /\ w.resets \in Int \cup {Missing}
        /\ Percent(w.percent) # Missing
    BY DEF ClaudeLimits
  <2> QED
    BY <2>1, ReadValue DEF WellMadeQuota, Quota
<1>4. /\ o.provider = "claude" /\ o.source = "claude-native-usage" /\ o.kind = "quota"
      /\ o.age = 0 /\ o.plan = 0 /\ o.tokens = Missing /\ o.context = Missing
      /\ o.quotas = quotas /\ o.daily = {} /\ o.activity = "none"
  BY DEF Base
<1>5. "claude" \in Native /\ "claude-native-usage" \in SourcesOf["claude"]
  BY DEF Native, SourcesOf
<1> HIDE DEF o, Of, known
<1>6. \A q \in quotas : WellMadeQuota(q)
  BY <1>3
<1> HIDE DEF quotas
<1>7. WellMade(o)
  BY <1>2, <1>4, <1>5, <1>6, Made
<1> QED
  BY <1>1, <1>7

\* The newest days of at most one more date than there are days to keep: when all of
\* them are there, the oldest is left out.
LEMMA NewestFit ==
    ASSUME NEW D,
           \A d \in D : /\ d.tokens \in Nat /\ d.date \in Int
                        /\ d.date >= 1 - MaxDays /\ d.date <= 1,
           \A d, e \in D : d.date = e.date => d = e
    PROVE  WellMadeDays(Newest(D))
<1> DEFINE dates == (1 - MaxDays) .. 1
           date == [d \in D |-> d.date]
           N == Newest(D)
<1>1. IsFiniteSet(dates) /\ Cardinality(dates) = MaxDays + 1
  <2>1. 1 - MaxDays \in Int /\ ~(1 - MaxDays > 1) /\ 1 - (1 - MaxDays) + 1 = MaxDays + 1
    BY Limits
  <2> QED
    BY <2>1, FS_Interval
<1>2. date \in Injection(D, dates)
  <2>1. \A d \in D : d.date \in dates
    BY Limits
  <2>2. date \in [D -> dates]
    BY <2>1
  <2> HIDE DEF dates
  <2> QED
    BY <2>2 DEF Injection, IsInjective
<1>3. /\ IsFiniteSet(D) /\ Cardinality(D) \in Nat /\ Cardinality(D) <= MaxDays + 1
      /\ Cardinality(D) = MaxDays + 1 => date \in Surjection(D, dates)
  <2> HIDE DEF date, dates
  <2> QED
    BY <1>1, <1>2, FS_Injection, FS_CardinalityType
<1>4. /\ N \in SUBSET D /\ IsFiniteSet(N) /\ Cardinality(N) \in Nat
      /\ Cardinality(N) <= Cardinality(D)
      /\ Cardinality(N) = Cardinality(D) => N = D
  <2>1. N \in SUBSET D
    BY DEF Newest
  <2> HIDE DEF N
  <2> QED
    BY <1>3, <2>1, FS_Subset, FS_CardinalityType
<1>5. Cardinality(D) = MaxDays + 1 => N # D
  <2> SUFFICES ASSUME Cardinality(D) = MaxDays + 1, N = D PROVE FALSE
    OBVIOUS
  <2>1. 1 - MaxDays \in dates
    BY Limits
  <2>2. PICK d \in D : date[d] = 1 - MaxDays
    BY <1>3, <2>1 DEF Surjection
  <2>3. d.date = 1 - MaxDays
    BY <2>2
  <2>4. {e \in D : e.date > d.date} = D \ {d}
    <3>1. ASSUME NEW e \in D PROVE e.date > d.date <=> e # d
      <4>1. e.date \in Int /\ d.date \in Int /\ e.date >= d.date /\ (e.date = d.date => e = d)
        BY <2>3
      <4> QED
        BY <4>1
    <3> QED
      BY <3>1, Zenon
  <2>5. Cardinality({e \in D : e.date > d.date}) = MaxDays
    <3> DEFINE rest == D \ {d}
    <3>1. Cardinality(rest) = Cardinality(D) - 1
      BY <1>3, FS_RemoveElement
    <3> HIDE DEF rest
    <3>2. Cardinality(rest) = MaxDays
      BY <3>1, Limits
    <3> QED
      BY <2>4, <3>2 DEF rest
  <2>6. d \notin N
    BY <2>5, Limits DEF Newest
  <2> QED
    BY <2>6
<1>6. Cardinality(N) <= MaxDays
  <2> DEFINE all == Cardinality(D)
             kept == Cardinality(N)
  <2>1. all \in Nat /\ all <= MaxDays + 1 /\ kept \in Nat /\ kept <= all
    BY <1>3, <1>4
  <2>2. all = MaxDays + 1 => kept # all
    BY <1>4, <1>5, Zenon
  <2> HIDE DEF all, kept
  <2>3. kept <= MaxDays
    BY <2>1, <2>2, Limits
  <2> QED
    BY <2>3 DEF kept
<1> QED
  BY <1>4, <1>6 DEF WellMadeDays

\* The daily usage that the Codex server reports, when there is any.
LEMMA DailyWellMade ==
    ASSUME NEW m, DailyBuckets(m), NEW account, Says(ParseOpenAIUsage(m, account).out[1])
    PROVE  /\ Len(ParseOpenAIUsage(m, account).out) = 1
           /\ WellMade(ParseOpenAIUsage(m, account).out[1])
<1> DEFINE days == m.buckets
           Good(i) == /\ days[i].date # Missing /\ Number(days[i].tokens) # Missing
                      /\ days[i].date >= 1 - MaxDays /\ days[i].date <= 1
           last == {i \in DOMAIN days : Good(i) /\ \A j \in DOMAIN days :
                                         Good(j) /\ j > i => days[j].date # days[i].date}
           DayOf(i) == [date |-> days[i].date, tokens |-> Number(days[i].tokens)]
           D == {DayOf(i) : i \in last}
           o == [Base("openai", "openai-app-server", Missing) EXCEPT
                    !.kind = "usage", !.account = account, !.mode = "subscription",
                    !.daily = Newest(D)]
<1>1. ParseOpenAIUsage(m, account).out = <<o>>
  <2>1. ParseOpenAIUsage(m, account) = Projected(<<o>>)
    BY DEF ParseOpenAIUsage
  <2> HIDE DEF o
  <2> QED
    BY <2>1 DEF Projected
<1>2. ASSUME NEW i \in last
      PROVE  /\ DayOf(i).tokens \in Nat /\ DayOf(i).date \in Int
             /\ DayOf(i).date >= 1 - MaxDays /\ DayOf(i).date <= 1
  BY ReadValue DEF DailyBuckets
<1>3. ASSUME NEW i \in last, NEW j \in last, DayOf(i).date = DayOf(j).date PROVE DayOf(i) = DayOf(j)
  <2>1. i \in Int /\ j \in Int
    BY DEF DailyBuckets, Listed
  <2>2. days[i].date = days[j].date
    BY <1>3
  <2>3. ~(i < j) /\ ~(j < i)
    BY <2>1, <2>2
  <2> QED
    BY <2>1, <2>3
<1> HIDE DEF last, DayOf
<1>4. WellMadeDays(Newest(D))
  <2>1. \A d \in D : /\ d.tokens \in Nat /\ d.date \in Int
                     /\ d.date >= 1 - MaxDays /\ d.date <= 1
    BY <1>2
  <2>2. \A d, e \in D : d.date = e.date => d = e
    BY <1>3
  <2> HIDE DEF D
  <2> QED
    BY <2>1, <2>2, NewestFit
<1>5. /\ o.provider = "openai" /\ o.source = "openai-app-server" /\ o.kind = "usage"
      /\ o.age = 0 /\ o.plan = 0 /\ o.tokens = Missing /\ o.context = Missing
      /\ o.quotas = {} /\ o.daily = Newest(D) /\ o.activity = "none"
  BY DEF Base
<1>6. "openai" \in Native /\ "openai-app-server" \in SourcesOf["openai"]
  BY DEF Native, SourcesOf
<1> HIDE DEF o, D
<1>7. o.daily # {}
  BY <1>1, <1>5 DEF Says
<1>8. WellMade(o)
  BY <1>4, <1>5, <1>6, <1>7, Made
<1> QED
  BY <1>1, <1>8

\* What a post says.
LEMMA PostWellMade ==
    ASSUME NEW post \in Posts
    PROVE  /\ Len(Project(post).out) \in Nat
           /\ \A i \in 1 .. Len(Project(post).out) : WellMade(Project(post).out[i])
<1>1. CASE post.mode = "otlp"
  <2>1. Project(post) = ProjectOTLP(post.provider, post.body)
    BY <1>1, Zenon DEF Project
  <2>2. Telemetry(post.body)
    BY <1>1, PostsAssumption
  <2> QED
    BY <2>1, <2>2, TelemetryWellMade
<1>2. CASE post.mode = "browser"
  <2>1. Project(post) = ProjectBrowser(post.body)
    BY <1>2 DEF Project
  <2>2. Listed(post.body.events)
    BY <1>2, PostsAssumption
  <2> QED
    BY <2>1, <2>2, BrowserWellMade
<1>3. CASE post.mode \notin {"otlp", "browser"}
  <2> DEFINE n == Sent(post)
  <2>1. Project(post) = ProjectNative(post.provider, post.mode, n)
    BY <1>3 DEF Project
  <2> HIDE DEF n
  <2>2. CASE Project(post).out = <<>>
    BY <2>2
  <2>3. CASE post.mode = "hook" /\ n.session # Missing
    <3>1. \/ Project(post).out = <<>>
          \/ post.provider \in Native /\ Project(post).out = Hook(post.provider, n)
      BY <2>1, <2>3 DEF ProjectNative, Projected, Error
    <3> QED
      BY <2>2, <2>3, <3>1, HookWellMade
  <2>4. CASE Project(post).out = StatusLine(n) /\ n.session # Missing
    BY <2>4, StatusLineWellMade
  <2>5. \/ Project(post).out = <<>>
        \/ post.mode = "hook" /\ n.session # Missing
        \/ Project(post).out = StatusLine(n) /\ n.session # Missing
    BY <2>1 DEF ProjectNative, Projected, Error
  <2> QED
    BY <2>2, <2>3, <2>4, <2>5
<1> QED
  BY <1>1, <1>2, <1>3

\* What a reading says.
LEMMA ReadingWellMade ==
    ASSUME NEW r \in Readings, Parse(r).out # <<>>, Says(Parse(r).out[1])
    PROVE  Len(Parse(r).out) = 1 /\ WellMade(Parse(r).out[1])
<1>1. CASE r.kind = "account"
  BY <1>1, ReadingsAssumption, AccountWellMade DEF Parse
<1>2. CASE r.kind = "usage"
  BY <1>2, ReadingsAssumption, DailyWellMade DEF Parse
<1>3. CASE r.kind = "quota" /\ r.provider = "openai"
  BY <1>3, ReadingsAssumption, RateLimitsWellMade DEF Parse
<1>4. CASE r.kind = "quota" /\ r.provider = "claude"
  BY <1>4, ReadingsAssumption, ClaudeWellMade DEF Parse
<1> QED
  BY <1>1, <1>2, <1>3, <1>4, ReadingsAssumption DEF Native

-----------------------------------------------------------------------------
\* What a handler has of its metadata: all of it is well made, and what it answers
\* with is about the next of it.
Sound(h) ==
    /\ Len(h.batch) \in Nat /\ \A i \in 1 .. Len(h.batch) : WellMade(h.batch[i])
    /\ h.taken \in 0 .. Len(h.batch)
    /\ h.at = "reading" => h.taken = 0
    /\ h.at = "observe" => h.taken < Len(h.batch)
    /\ h.answer # "none" => h.at = "answered"
    /\ h.answer \in {"invalid", "unsendable"} => Explained(h.batch[h.taken + 1])

IntakeInv == \A c \in Handlers : Sound(client[c])

\* One handler moves.
LEMMA SoundMove ==
    ASSUME HandlerInv, IntakeInv, NEW c \in Handlers, NEW h, Sound(h),
           client' = [client EXCEPT ![c] = h]
    PROVE  IntakeInv'
<1>1. \A d \in Handlers : client'[d] = IF d = c THEN h ELSE client[d]
  BY DEF HandlerInv
<1>2. \A d \in Handlers : Sound(client'[d])
  BY <1>1 DEF IntakeInv
<1> QED
  BY <1>2 DEF IntakeInv, Sound, Explained, WellMade, WellMadeQuota, WellMadeDays

\* A new handler has nothing yet.
LEMMA SoundNew ==
    ASSUME NEW route, NEW at, at # "observe"
    PROVE  Sound(Handler(route, at))
BY DEF Sound, Handler

\* A handler goes on, and has answered nothing.
LEMMA SoundGoes ==
    ASSUME HandlerInv, IntakeInv, NEW c \in Handlers, NEW w, Goto(c, w), w # "reading",
           client[c].at # "answered",
           w = "observe" => client[c].taken < Len(client[c].batch)
    PROVE  IntakeInv'
<1> DEFINE h == [client[c] EXCEPT !.at = w]
<1>1. client' = [client EXCEPT ![c] = h]
  BY DEF Goto
<1>2. DOMAIN client[c] = Fields
  BY DEF HandlerInv, Placed
<1>3. /\ h.at = w /\ h.batch = client[c].batch /\ h.taken = client[c].taken
      /\ h.answer = client[c].answer
  BY <1>2 DEF Fields
<1>4. Sound(h)
  <2>1. Sound(client[c])
    BY DEF IntakeInv
  <2> HIDE DEF h
  <2> QED
    BY <1>3, <2>1 DEF Sound
<1> HIDE DEF h
<1> QED
  BY <1>1, <1>4, SoundMove

\* An intake ends with an answer, which is explained when it refuses what is next.
LEMMA SoundAnswer ==
    ASSUME HandlerInv, IntakeInv, NEW c \in Handlers, NEW answer, Answer(c, answer),
           client[c].at # "reading",
           answer \in {"invalid", "unsendable"} => Explained(Upcoming(c))
    PROVE  IntakeInv'
<1> DEFINE h == [client[c] EXCEPT !.at = "answered", !.answer = answer]
<1>1. client' = [client EXCEPT ![c] = h]
  BY DEF Answer
<1>2. DOMAIN client[c] = Fields
  BY DEF HandlerInv, Placed
<1>3. /\ h.at = "answered" /\ h.batch = client[c].batch /\ h.taken = client[c].taken
      /\ h.answer = answer
  BY <1>2 DEF Fields
<1>4. Sound(h)
  <2>1. Sound(client[c])
    BY DEF IntakeInv
  <2> HIDE DEF h
  <2> QED
    BY <1>3, <2>1 DEF Sound, Upcoming
<1> HIDE DEF h
<1> QED
  BY <1>1, <1>4, SoundMove

\* What is next is well made.
LEMMA UpcomingFit ==
    ASSUME IntakeInv, NEW c \in Handlers, client[c].taken < Len(client[c].batch)
    PROVE  /\ ~Sendable(Upcoming(c)) => Explained(Upcoming(c))
           /\ \A later \in 0 .. 1, clock \in Clocks :
                 ~Valid(Upcoming(c), later, clock) => Explained(Upcoming(c))
<1>1. /\ Len(client[c].batch) \in Nat /\ client[c].taken \in 0 .. Len(client[c].batch)
      /\ \A i \in 1 .. Len(client[c].batch) : WellMade(client[c].batch[i])
  BY DEF IntakeInv, Sound
<1>2. WellMade(Upcoming(c))
  BY <1>1 DEF Upcoming
<1> QED
  BY <1>2, WellMadeIsFit

\* Every step keeps the intake sound.
LEMMA IntakeStep ==
    ASSUME HandlerInv, IntakeInv, [Next]_vars
    PROVE  IntakeInv'
<1>1. ASSUME UNCHANGED client PROVE IntakeInv'
  <2>1. \A c \in Handlers : Sound(client'[c])
    BY <1>1 DEF IntakeInv
  <2> QED
    BY <2>1 DEF IntakeInv, Sound, Explained, WellMade, WellMadeQuota, WellMadeDays
<1>2. ASSUME NEW c \in Handlers, client' = [client EXCEPT ![c] = Idle] PROVE IntakeInv'
  <2>1. Sound(Idle)
    BY SoundNew DEF Idle
  <2> QED
    BY <1>2, <2>1, SoundMove
<1>3. \A c \in Clients : c \in Handlers
  BY DEF Handlers
<1>4. ASSUME NEW c \in Clients, Request(c) PROVE IntakeInv'
  <2>1. PICK route \in Routes :
            \/ UNCHANGED client
            \/ client' = [client EXCEPT ![c] = Handler(route, "answered")]
            \/ client' = [client EXCEPT ![c] = Handler(route, FirstPlace[route])]
    BY <1>4 DEF Request
  <2>2. FirstPlace[route] # "observe"
    BY DEF FirstPlace, Routes
  <2>3. Sound(Handler(route, "answered")) /\ Sound(Handler(route, FirstPlace[route]))
    BY <2>2, SoundNew
  <2> QED
    BY <1>1, <1>3, <2>1, <2>3, SoundMove
<1>5. ASSUME NEW c \in Clients, Body(c) PROVE IntakeInv'
  <2>1. client[c].at = "reading" /\ DOMAIN client[c] = Fields /\ Sound(client[c])
    BY <1>3, <1>5 DEF Body, At, HandlerInv, Placed, IntakeInv
  <2>2. CASE Goto(c, "call")
    BY <1>3, <2>1, <2>2, SoundGoes
  <2>3. ASSUME NEW post \in Posts,
               client' = [client EXCEPT ![c].post = post, ![c].batch = Project(post).out,
                             ![c].at = IF Project(post).ok THEN "emit" ELSE "answered",
                             ![c].answer = IF Project(post).ok THEN "none" ELSE "malformed"]
        PROVE  IntakeInv'
    <3> DEFINE w == IF Project(post).ok THEN "emit" ELSE "answered"
               answer == IF Project(post).ok THEN "none" ELSE "malformed"
               batch == Project(post).out
               h == [client[c] EXCEPT !.post = post, !.batch = batch, !.at = w, !.answer = answer]
    <3>1. client' = [client EXCEPT ![c] = h]
      BY <2>3
    <3>2. /\ w \in {"emit", "answered"} /\ answer \in {"none", "malformed"}
          /\ answer # "none" => w = "answered"
      OBVIOUS
    <3>3. Len(batch) \in Nat /\ \A i \in 1 .. Len(batch) : WellMade(batch[i])
      BY PostWellMade
    <3> HIDE DEF w, answer, batch
    <3>4. h.at = w /\ h.answer = answer /\ h.batch = batch /\ h.taken = 0
      BY <2>1 DEF Fields, Sound
    <3> HIDE DEF h
    <3>5. Sound(h)
      BY <3>2, <3>3, <3>4 DEF Sound
    <3> QED
      BY <1>3, <3>1, <3>5, SoundMove
  <2>4. \/ Goto(c, "call")
        \/ \E post \in Posts :
              client' = [client EXCEPT ![c].post = post, ![c].batch = Project(post).out,
                             ![c].at = IF Project(post).ok THEN "emit" ELSE "answered",
                             ![c].answer = IF Project(post).ok THEN "none" ELSE "malformed"]
    BY <1>5, Zenon DEF Body
  <2> QED
    BY <2>2, <2>3, <2>4
<1>6. ASSUME NEW c \in Clients,
             Answered(c) \/ Broken(c) \/ Written(c) \/ Push(c) \/ StreamEnds(c) \/ HangUp(c)
      PROVE  IntakeInv'
  <2>1. CASE client' = [client EXCEPT ![c] = Idle]
    BY <1>2, <1>3, <2>1
  <2>2. ASSUME NEW w \in {"stream", "writing"}, Goto(c, w), client[c].at # "answered"
        PROVE  IntakeInv'
    BY <1>3, <2>2, SoundGoes
  <2> QED
    BY <1>6, <2>1, <2>2 DEF Answered, Broken, Written, Push, StreamEnds, HangUp, Return, At
<1>7. ASSUME NEW c \in Handlers, Frame(c) \/ Call(c) \/ Subscribe(c) PROVE IntakeInv'
  <2>1. CASE client' = [client EXCEPT ![c] = Idle]
    BY <1>2, <2>1
  <2>2. ASSUME NEW w \in {"call", "answered", "writing"}, Goto(c, w), client[c].at # "answered"
        PROVE  IntakeInv'
    BY <2>2, SoundGoes
  <2> QED
    BY <1>7, <2>1, <2>2 DEF Frame, Call, Subscribe, Return, At
<1>8. ASSUME NEW c \in Handlers, Emit(c) PROVE IntakeInv'
  <2>1. client[c].at = "emit" /\ Len(client[c].batch) \in Nat
        /\ client[c].taken \in 0 .. Len(client[c].batch)
    BY <1>8 DEF Emit, At, IntakeInv, Sound
  <2>2. \/ \E answer \in {"accepted", "stopped"} : Answer(c, answer)
        \/ /\ client[c].taken # Len(client[c].batch)
           /\ \/ ~Sendable(Upcoming(c)) /\ Answer(c, "unsendable")
              \/ Goto(c, "observe")
    BY <1>8 DEF Emit
  <2>3. client[c].taken # Len(client[c].batch) => client[c].taken < Len(client[c].batch)
    BY <2>1
  <2>4. ASSUME NEW answer \in {"accepted", "stopped"}, Answer(c, answer) PROVE IntakeInv'
    BY <2>1, <2>4, SoundAnswer
  <2>5. CASE /\ client[c].taken # Len(client[c].batch)
             /\ ~Sendable(Upcoming(c)) /\ Answer(c, "unsendable")
    BY <2>1, <2>3, <2>5, UpcomingFit, SoundAnswer
  <2>6. CASE client[c].taken # Len(client[c].batch) /\ Goto(c, "observe")
    BY <2>1, <2>3, <2>6, SoundGoes
  <2> QED
    BY <2>2, <2>4, <2>5, <2>6
<1>9. ASSUME NEW c \in Handlers, Observe(c) PROVE IntakeInv'
  <2>1. /\ client[c].at = "observe" /\ Len(client[c].batch) \in Nat /\ DOMAIN client[c] = Fields
        /\ client[c].taken \in 0 .. Len(client[c].batch)
        /\ client[c].taken < Len(client[c].batch) /\ Sound(client[c])
    BY <1>9 DEF Observe, At, IntakeInv, Sound, HandlerInv, Placed
  <2>2. \/ \E answer \in {"stopped", "refused"} : Answer(c, answer)
        \/ /\ \E later \in 0 .. 1, clock \in Clocks : ~Valid(Upcoming(c), later, clock)
           /\ Answer(c, "invalid")
        \/ client' = [client EXCEPT ![c].at = "emit", ![c].taken = @ + 1]
    BY <1>9 DEF Observe
  <2>3. ASSUME NEW answer \in {"stopped", "refused"}, Answer(c, answer) PROVE IntakeInv'
    BY <2>1, <2>3, SoundAnswer
  <2>4. CASE /\ \E later \in 0 .. 1, clock \in Clocks : ~Valid(Upcoming(c), later, clock)
             /\ Answer(c, "invalid")
    BY <2>1, <2>4, UpcomingFit, SoundAnswer
  <2>5. CASE client' = [client EXCEPT ![c].at = "emit", ![c].taken = @ + 1]
    <3> DEFINE h == [client[c] EXCEPT !.at = "emit", !.taken = @ + 1]
    <3>1. client' = [client EXCEPT ![c] = h]
      BY <2>5
    <3>2. /\ h.at = "emit" /\ h.batch = client[c].batch /\ h.taken = client[c].taken + 1
          /\ h.answer = client[c].answer
      BY <2>1 DEF Fields
    <3> HIDE DEF h
    <3>3. Sound(h)
      BY <2>1, <3>2 DEF Sound
    <3> QED
      BY <3>1, <3>3, SoundMove
  <2> QED
    BY <2>2, <2>3, <2>4, <2>5
<1>10. ASSUME Round PROVE IntakeInv'
  <2>1. PICK r \in Readings :
            /\ Parse(r).out # <<>> /\ Says(Parse(r).out[1])
            /\ client' = [client EXCEPT ![Manager] =
                              [Handler("ai", "emit") EXCEPT !.batch = Parse(r).out]]
    BY <1>10, Zenon DEF Round
  <2> DEFINE said == Parse(r).out
             h == [Handler("ai", "emit") EXCEPT !.batch = said]
  <2>2. Len(said) = 1 /\ WellMade(said[1])
    BY <2>1, ReadingWellMade
  <2>3. client' = [client EXCEPT ![Manager] = h]
    BY <2>1
  <2> HIDE DEF said
  <2>4. h.at = "emit" /\ h.batch = said /\ h.taken = 0 /\ h.answer = "none"
    BY DEF Handler
  <2> HIDE DEF h
  <2>5. Sound(h)
    <3>1. Len(h.batch) = 1 /\ WellMade(h.batch[1])
      BY <2>2, <2>4
    <3>2. Len(h.batch) \in Nat /\ \A i \in 1 .. Len(h.batch) : WellMade(h.batch[i])
      BY <3>1
    <3> QED
      BY <2>4, <3>1, <3>2 DEF Sound
  <2>6. Manager \in Handlers
    BY DEF Handlers
  <2> QED
    BY <2>3, <2>5, <2>6, SoundMove
<1>11. CASE RoundOver
  BY <1>2, <1>11 DEF RoundOver, Handlers
<1>12. CASE Main \/ Cancel \/ ServeFails \/ Expire \/ ModulesEnd \/ \E p \in Parts : PartEnds(p)
  BY <1>1, <1>12 DEF Main, Acquire, SetupFails, Start, BeginShutdown, ShutdownOver, WaitAdapters,
     WaitDisplays, Release, CloseRuntime, Cancel, ServeFails, Expire, ModulesEnd, PartEnds
<1>13. CASE UNCHANGED vars
  BY <1>1, <1>13 DEF vars
<1> QED
  BY <1>4, <1>5, <1>6, <1>7, <1>8, <1>9, <1>10, <1>11, <1>12, <1>13 DEF Next, Work

\* A projector hands on nothing that the module's test or the sink would refuse, but for
\* what it does not look at and for the local calendar that it does not use: whatever the
\* clients post, the native clients answer and the module's clock shows, a refusal has one
\* of the reasons listed (projection.go, claude_usage.go and validate).
THEOREM RefusalsAreExplained == Spec => []RefusalsExplained
<1>1. Init => IntakeInv
  <2> SUFFICES ASSUME Init PROVE IntakeInv
    OBVIOUS
  <2>1. \A c \in Handlers : client[c] = Idle
    BY DEF Init
  <2>2. Sound(Idle)
    BY SoundNew DEF Idle
  <2> QED
    BY <2>1, <2>2 DEF IntakeInv
<1>2. IInv /\ IntakeInv /\ [Next]_vars => IntakeInv'
  BY IntakeStep DEF IInv
<1>3. IntakeInv => RefusalsExplained
  BY DEF IntakeInv, Sound, RefusalsExplained, Upcoming
<1> QED
  BY Invariant, <1>1, <1>2, <1>3, PTL DEF Spec
=============================================================================
