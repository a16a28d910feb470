-------------------------------- MODULE Server --------------------------------
(***************************************************************************)
(* The server process: serve in cmd/jonsbo/serve_windows.go, which starts  *)
(* and stops the parts the other modules describe, the handlers of         *)
(* internal/api/api.go with their limited slots, and the intake of AI      *)
(* metadata from a request or a native client to the AI module.            *)
(*                                                                         *)
(* Every handler runs in a goroutine of its own, and so do the adapters,   *)
(* the display workers, the modules and serve itself, main.  All of them   *)
(* share one context.  What any of them calls may take longer than the     *)
(* five seconds that serve waits: such parts are in hung.  A client may    *)
(* take any time to send its body or to read its answer.                   *)
(*                                                                         *)
(* MaxCalls bounds the requests and the native readings, MaxFaults the     *)
(* steps of the start that fail and the server that fails to serve.        *)
(***************************************************************************)
EXTENDS Projection

CONSTANTS Clients, Manager,   \* HTTP clients, and the adapters' own goroutine
          Posters,    \* the clients that post metadata
          Posts,      \* metadata that clients may post
          Readings,   \* answers that native clients may give
          Capacity,   \* per pool: its slots
          Hangs,      \* the sets of parts that may hang together
          MaxCalls, MaxFaults

Pools == {"requests", "editor", "renders", "streams"}
Parts == {"adapters", "displays", "modules"}
Handlers == Clients \cup {Manager}
Routes == {"ai", "api", "editor", "frame", "events"}

ASSUME ServerAssumption ==
    /\ Manager \notin Clients /\ Posters \subseteq Clients /\ IsFiniteSet(Clients)
    /\ Capacity \in [Pools -> Nat \ {0}]
    /\ Hangs \subseteq SUBSET Parts
    /\ MaxCalls \in Nat /\ MaxFaults \in Nat

ASSUME PostsAssumption ==
    \A post \in Posts :
        /\ post.mode \in {"hook", "statusline"} => Message(post.body)
        /\ post.mode = "otlp" => Telemetry(post.body)
        /\ post.mode = "browser" => Listed(post.body.events)

ASSUME ReadingsAssumption ==
    \A r \in Readings :
        /\ r.provider \in Native /\ r.kind \in {"account", "quota", "usage"}
        /\ r.kind = "account" => r.body.plan \in Nat
        /\ r.kind = "usage" => DailyBuckets(r.body)
        /\ r.kind = "quota" /\ r.provider = "openai" => RateLimits(r.body)
        /\ r.kind = "quota" /\ r.provider = "claude" => ClaudeLimits(r.body)

VARIABLES
    main,        \* where serve is
    held,        \* how many of Resources its deferred calls have still to release
    cancelled,   \* the context is cancelled
    expired,     \* the five seconds of the shutdown are over
    listening,   \* requests are accepted
    part,        \* per part: off, running or done
    hung,        \* external: the parts that do not answer in time
    used,        \* per pool: the slots taken
    subscribers, \* state feeds that are open
    client,      \* per client: its handler; of the manager, what it takes in
    calls, faults

service == <<main, held, cancelled, expired, listening>>
slots == <<used, subscribers>>
vars == <<service, part, hung, slots, client, calls, faults>>

(* What serve takes, in order; it gives back in the opposite one. *)
Resources == <<"runtime", "server", "child", "display", "listener">>
Holds(r) == \E i \in 1 .. held : Resources[i] = r

Handler(route, at) ==
    [route |-> route, at |-> at, post |-> Missing, batch |-> <<>>, taken |-> 0, answer |-> "none"]
Idle == Handler("none", "idle")

Places == {"render", "subscribe", "stream", "writing", "reading", "call", "emit", "observe", "answered"}

TypeOK ==
    /\ main \in {"setup", "serving", "shutdown", "adapters", "displays", "unwind", "closing", "exited"}
    /\ held \in 0 .. Len(Resources)
    /\ cancelled \in BOOLEAN /\ expired \in BOOLEAN /\ listening \in BOOLEAN
    /\ part \in [Parts -> {"off", "running", "done"}] /\ hung \in Hangs
    /\ used \in [Pools -> Nat] /\ subscribers \in Nat
    /\ \A c \in Handlers : client[c] = Idle \/ client[c].at \in Places
    /\ calls \in 0 .. MaxCalls /\ faults \in 0 .. MaxFaults

Init ==
    /\ main = "setup" /\ held = 0
    /\ cancelled = FALSE /\ expired = FALSE /\ listening = FALSE
    /\ part = [p \in Parts |-> "off"] /\ hung \in Hangs
    /\ used = [p \in Pools |-> 0] /\ subscribers = 0
    /\ client = [c \in Handlers |-> Idle]
    /\ calls = 0 /\ faults = 0

Alive == main # "exited"
At(c, place) == Alive /\ client[c].at = place
Goto(c, place) == client' = [client EXCEPT ![c].at = place]

-----------------------------------------------------------------------------
(* Handlers *)

PoolOf == [ai |-> "requests", api |-> "requests", frame |-> "requests",
           editor |-> "editor", events |-> "streams"]
FirstPlace == [ai |-> "reading", api |-> "reading", editor |-> "reading",
               frame |-> "render", events |-> "subscribe"]

(* The parts that the calls behind a route go to. *)
Behind == [ai |-> "adapters", api |-> "modules", frame |-> "modules"]

(* A request that passed the host, origin and token checks: the select     *)
(* takes a slot, or answers 503, as do adapters that have stopped.  Web    *)
(* files take no slot and change nothing.                                  *)
Request(c) ==
    /\ Alive /\ listening /\ client[c] = Idle
    /\ calls < MaxCalls /\ calls' = calls + 1
    /\ \E route \in Routes :
           LET pool == PoolOf[route]
           IN  IF used[pool] < Capacity[pool]
               THEN /\ used' = [used EXCEPT ![pool] = @ + 1]
                    /\ client' = [client EXCEPT ![c] = Handler(route,
                           IF route = "ai" /\ part["adapters"] = "done" THEN "answered"
                           ELSE FirstPlace[route])]
               ELSE UNCHANGED <<used, client>>
    /\ UNCHANGED <<service, part, hung, subscribers, faults>>

(* The deferred releases of a handler. *)
Return(c, pools) ==
    /\ client' = [client EXCEPT ![c] = Idle]
    /\ used' = [p \in Pools |-> IF p \in pools THEN used[p] - 1 ELSE used[p]]
PoolsOf(c) ==
    {PoolOf[client[c].route]} \cup
        (IF client[c].route = "frame" /\ client[c].at # "render" THEN {"renders"} ELSE {})

\* Mutant: a busy renderer is answered before the request's slot is deferred.
FrameLeaks(c) ==
    /\ At(c, "render")
    /\ IF used["renders"] < Capacity["renders"]
       THEN used' = [used EXCEPT !["renders"] = @ + 1] /\ Goto(c, "call")
       ELSE Return(c, {})
    /\ UNCHANGED <<service, part, hung, subscribers, calls, faults>>

(* frame: a renderer's slot is taken too, or the answer is 503. *)
Frame(c) ==
    /\ At(c, "render")
    /\ IF used["renders"] < Capacity["renders"]
       THEN used' = [used EXCEPT !["renders"] = @ + 1] /\ Goto(c, "call")
       ELSE Return(c, PoolsOf(c))
    /\ UNCHANGED <<service, part, hung, subscribers, calls, faults>>

(* The call behind the route returns, with a result or an error. *)
Call(c) ==
    /\ At(c, "call")
    /\ client[c].route # "editor" => Behind[client[c].route] \notin hung
    /\ Goto(c, "answered")
    /\ UNCHANGED <<service, part, hung, slots, calls, faults>>

(* The client has read its answer. *)
Answered(c) ==
    /\ At(c, "answered")
    /\ Return(c, PoolsOf(c))
    /\ UNCHANGED <<service, part, hung, subscribers, calls, faults>>

(* A read or write deadline passes, the client hangs up, or serve has      *)
(* closed the connection.                                                  *)
Broken(c) ==
    /\ Alive /\ client[c].at \in {"reading", "answered", "writing", "emit"}
    /\ Return(c, PoolsOf(c))
    /\ subscribers' = IF client[c].at = "writing" THEN subscribers - 1 ELSE subscribers
    /\ UNCHANGED <<service, part, hung, calls, faults>>

(* events: Subscribe, and the first snapshot is written. *)
Subscribe(c) ==
    /\ At(c, "subscribe")
    /\ subscribers' = subscribers + 1
    /\ Goto(c, "writing")
    /\ UNCHANGED <<service, part, hung, used, calls, faults>>

(* The client has read what was written; the next update or heartbeat. *)
Written(c) ==
    /\ At(c, "writing")
    /\ Goto(c, "stream")
    /\ UNCHANGED <<service, part, hung, slots, calls, faults>>
Push(c) ==
    /\ At(c, "stream")
    /\ Goto(c, "writing")
    /\ UNCHANGED <<service, part, hung, slots, calls, faults>>

(* The stream ends with its context, with the runtime, or with its client. *)
StreamEnds(c) ==
    /\ At(c, "stream") /\ (cancelled \/ part["modules"] = "done")
    /\ Return(c, PoolsOf(c)) /\ subscribers' = subscribers - 1
    /\ UNCHANGED <<service, part, hung, calls, faults>>
HangUp(c) ==
    /\ At(c, "stream")
    /\ Return(c, PoolsOf(c)) /\ subscribers' = subscribers - 1
    /\ UNCHANGED <<service, part, hung, calls, faults>>

-----------------------------------------------------------------------------
(* Intake *)

(* What ingest makes of a post: hooks and status lines come as the         *)
(* observer helper selects them; it sends nothing that it cannot project,  *)
(* which only another client would post.                                   *)
Sent(post) ==
    IF ProjectNative(post.provider, post.mode, post.body).ok
    THEN NativeMetadata(post.mode, post.body)
    ELSE post.body
Project(post) ==
    IF post.mode = "otlp" THEN ProjectOTLP(post.provider, post.body)
    ELSE IF post.mode = "browser" THEN ProjectBrowser(post.body)
    ELSE ProjectNative(post.provider, post.mode, Sent(post))

Answer(c, answer) ==
    client' = [client EXCEPT ![c].at = "answered", ![c].answer = answer]

(* The body has come: of a post, all of it is projected before any is      *)
(* emitted; the other AI routes call the adapters.                         *)
Body(c) ==
    /\ At(c, "reading")
    /\ \/ Goto(c, "call")
       \/ /\ client[c].route = "ai" /\ c \in Posters
          /\ \E post \in Posts :
                 LET projected == Project(post)
                 IN  client' = [client EXCEPT
                         ![c].post = post, ![c].batch = projected.out,
                         ![c].at = IF projected.ok THEN "emit" ELSE "answered",
                         ![c].answer = IF projected.ok THEN "none" ELSE "malformed"]
    /\ UNCHANGED <<service, part, hung, slots, calls, faults>>

(* A round of the adapters reads an account, quotas or daily usage; a      *)
(* reading that says nothing is not emitted.                               *)
Parse(r) ==
    IF r.kind = "account" THEN ParseAccount(r.provider, r.body)
    ELSE IF r.kind = "usage" THEN ParseOpenAIUsage(r.body, r.account)
    ELSE IF r.provider = "openai" THEN ParseOpenAIQuotas(r.body, r.account)
    ELSE ParseClaudeQuotas(r.body, r.account)

\* An account always, quotas and daily usage when there are any.
Says(o) == o.kind = "account" \/ o.quotas # {} \/ o.daily # {}

Round ==
    /\ Alive /\ part["adapters"] = "running" /\ client[Manager] = Idle /\ ~cancelled
    /\ calls < MaxCalls /\ calls' = calls + 1
    /\ \E r \in Readings :
           LET said == Parse(r).out
           IN  /\ said # <<>> /\ Says(said[1])
               /\ client' = [client EXCEPT ![Manager] = [Handler("ai", "emit") EXCEPT !.batch = said]]
    /\ UNCHANGED <<service, part, hung, slots, faults>>

Upcoming(c) == client[c].batch[client[c].taken + 1]

(* emit, and the sink: an intake that has stopped, or an observation that  *)
(* cannot be written as JSON, ends the batch; else the module has it.      *)
Emit(c) ==
    /\ At(c, "emit")
    /\ IF client[c].taken = Len(client[c].batch) THEN Answer(c, "accepted")
       ELSE IF part["adapters"] = "done" THEN Answer(c, "stopped")
       ELSE IF ~Sendable(Upcoming(c)) THEN Answer(c, "unsendable")
       ELSE IF cancelled \/ part["modules"] # "running" THEN Answer(c, "stopped")
       ELSE Goto(c, "observe")
    /\ UNCHANGED <<service, part, hung, slots, calls, faults>>

(* Observe: the module is closed, finds the observation invalid, refuses   *)
(* it for what it knows (Subscriptions says when), or takes it.            *)
Observe(c) ==
    /\ At(c, "observe") /\ "modules" \notin hung
    /\ \E later \in 0 .. 1, clock \in Clocks :
           IF part["modules"] = "done" THEN Answer(c, "stopped")
           ELSE IF ~Valid(Upcoming(c), later, clock) THEN Answer(c, "invalid")
           ELSE \/ Answer(c, "refused")
                \/ client' = [client EXCEPT ![c].at = "emit", ![c].taken = @ + 1]
    /\ UNCHANGED <<service, part, hung, slots, calls, faults>>

(* The manager goes on after an observation that was taken or refused. *)
RoundOver ==
    /\ At(Manager, "answered")
    /\ client' = [client EXCEPT ![Manager] = Idle]
    /\ UNCHANGED <<service, part, hung, slots, calls, faults>>

-----------------------------------------------------------------------------
(* The parts that serve starts *)

(* Run of the adapters, between two rounds, or of the displays can end. *)
PromptPart(p) ==
    part[p] = "running" /\ cancelled /\ p \notin hung /\ (p = "adapters" => client[Manager] = Idle)

(* Run of the adapters or of the display manager returns. *)
PartEnds(p) ==
    /\ Alive /\ p # "modules" /\ PromptPart(p)
    /\ part' = [part EXCEPT ![p] = "done"]
    /\ UNCHANGED <<service, hung, slots, client, calls, faults>>

(* The modules end with their context, or are told to by Close. *)
ModulesEnd ==
    /\ Alive /\ part["modules"] = "running" /\ "modules" \notin hung
    /\ cancelled \/ main = "closing"
    /\ part' = [part EXCEPT !["modules"] = "done"]
    /\ UNCHANGED <<service, hung, slots, client, calls, faults>>

-----------------------------------------------------------------------------
(* serve *)

Acquire ==
    /\ main = "setup" /\ held < Len(Resources)
    /\ held' = held + 1
    /\ UNCHANGED <<main, cancelled, expired, listening, part, hung, slots, client, calls, faults>>

(* A step of the start fails: what is held is given back. *)
SetupFails ==
    /\ main = "setup" /\ faults < MaxFaults
    /\ main' = "unwind" /\ faults' = faults + 1
    /\ UNCHANGED <<held, cancelled, expired, listening, part, hung, slots, client, calls>>

(* Everything is held: the modules, the adapters, the server and the       *)
(* displays start.                                                         *)
Start ==
    /\ main = "setup" /\ held = Len(Resources)
    /\ main' = "serving" /\ listening' = TRUE
    /\ part' = [p \in Parts |-> "running"]
    /\ UNCHANGED <<held, cancelled, expired, hung, slots, client, calls, faults>>

(* An interrupt, the end of -duration, or a stop event of a control. *)
Cancel ==
    /\ held > 0 /\ main \in {"setup", "serving"} /\ ~cancelled
    /\ cancelled' = TRUE
    /\ UNCHANGED <<main, held, expired, listening, part, hung, slots, client, calls, faults>>

\* Mutant: the server fails and the context is left as it is.
ServeFailsUncancelled ==
    /\ main = "serving" /\ faults < MaxFaults /\ faults' = faults + 1
    /\ main' = "shutdown" /\ listening' = FALSE
    /\ UNCHANGED <<held, cancelled, expired, part, hung, slots, client, calls>>

(* Serve returns with an error: serve stops everything itself. *)
ServeFails ==
    /\ main = "serving" /\ faults < MaxFaults /\ faults' = faults + 1
    /\ main' = "shutdown" /\ listening' = FALSE /\ cancelled' = TRUE
    /\ UNCHANGED <<held, expired, part, hung, slots, client, calls>>

(* The context is done: Shutdown stops the listener. *)
BeginShutdown ==
    /\ main = "serving" /\ cancelled
    /\ main' = "shutdown" /\ listening' = FALSE
    /\ UNCHANGED <<held, cancelled, expired, part, hung, slots, client, calls, faults>>

Quiet == \A c \in Clients : client[c] = Idle
Settled(p) == part[p] # "running"

(* No request is left: stop, and the adapters are waited for. *)
ShutdownOver ==
    /\ main = "shutdown" /\ Quiet
    /\ main' = "adapters" /\ cancelled' = TRUE
    /\ UNCHANGED <<held, expired, listening, part, hung, slots, client, calls, faults>>

(* What goes on without a client and without a hung part. *)
PromptHandler(c) ==
    \/ client[c].at \in {"render", "subscribe", "emit"}
    \/ c = Manager /\ client[c].at = "answered"
    \/ client[c].at = "stream" /\ (cancelled \/ part["modules"] = "done")
    \/ client[c].at = "call" /\ (client[c].route = "editor" \/ Behind[client[c].route] \notin hung)
    \/ client[c].at = "observe" /\ "modules" \notin hung
PromptMain ==
    \/ main = "shutdown" /\ Quiet
    \/ main = "adapters" /\ Settled("adapters")
    \/ main = "displays" /\ Settled("displays")

(* The five seconds are over, which happens only when nothing prompt is    *)
(* left to happen; Shutdown gives up, and Close breaks the connections.    *)
Expire ==
    /\ main \in {"shutdown", "adapters", "displays"} /\ ~expired
    /\ ~PromptMain
    /\ \A c \in Handlers : ~PromptHandler(c)
    /\ ~PromptPart("adapters") /\ ~PromptPart("displays")
    /\ expired' = TRUE
    /\ IF main = "shutdown" THEN main' = "adapters" /\ cancelled' = TRUE
       ELSE UNCHANGED <<main, cancelled>>
    /\ UNCHANGED <<held, listening, part, hung, slots, client, calls, faults>>

WaitAdapters ==
    /\ main = "adapters" /\ (Settled("adapters") \/ expired)
    /\ main' = "displays"
    /\ UNCHANGED <<held, cancelled, expired, listening, part, hung, slots, client, calls, faults>>

\* Mutant: the displays are not waited for.
WaitNoDisplays ==
    /\ main = "displays"
    /\ main' = "unwind"
    /\ UNCHANGED <<held, cancelled, expired, listening, part, hung, slots, client, calls, faults>>

\* Mutant: the wait has no end but the displays'.
WaitDisplaysForever ==
    /\ main = "displays" /\ Settled("displays")
    /\ main' = "unwind"
    /\ UNCHANGED <<held, cancelled, expired, listening, part, hung, slots, client, calls, faults>>

WaitDisplays ==
    /\ main = "displays" /\ (Settled("displays") \/ expired)
    /\ main' = "unwind"
    /\ UNCHANGED <<held, cancelled, expired, listening, part, hung, slots, client, calls, faults>>

(* The deferred calls, the last one first: the listener, the display       *)
(* control, the child's, the server's, each of which cancels the context;  *)
(* and the runtime, which is closed.                                       *)
Release ==
    /\ main = "unwind"
    /\ IF held > 1 THEN held' = held - 1 /\ UNCHANGED main
       ELSE IF held = 1 THEN main' = "closing" /\ UNCHANGED held
       ELSE main' = "exited" /\ UNCHANGED held
    /\ cancelled' = TRUE
    /\ UNCHANGED <<expired, listening, part, hung, slots, client, calls, faults>>

(* closeRuntime: the modules have ended, or five more seconds are over;    *)
(* the process ends.                                                       *)
CloseRuntime ==
    /\ main = "closing" /\ (Settled("modules") \/ "modules" \in hung)
    /\ main' = "exited" /\ held' = 0
    /\ UNCHANGED <<cancelled, expired, listening, part, hung, slots, client, calls, faults>>

-----------------------------------------------------------------------------
(* Specification *)

Work(c) == Frame(c) \/ Call(c) \/ Subscribe(c) \/ Emit(c) \/ Observe(c)
Main ==
    \/ Acquire \/ SetupFails \/ Start \/ BeginShutdown \/ ShutdownOver \/ WaitAdapters
    \/ WaitDisplays \/ Release \/ CloseRuntime

Next ==
    \/ Main \/ Cancel \/ ServeFails \/ Expire
    \/ Round \/ RoundOver \/ ModulesEnd
    \/ \E p \in Parts : PartEnds(p)
    \/ \E c \in Clients :
           \/ Request(c) \/ Body(c) \/ Answered(c) \/ Broken(c)
           \/ Written(c) \/ Push(c) \/ StreamEnds(c) \/ HangUp(c)
    \/ \E c \in Handlers : Work(c)

(* Every goroutine is scheduled, every deadline passes, and the select of  *)
(* a stream, which chooses at random, takes the end of its context at      *)
(* last.  Nothing is assumed of the clients.                               *)
Fairness ==
    /\ WF_vars(Main) /\ WF_vars(Expire) /\ WF_vars(RoundOver) /\ WF_vars(ModulesEnd)
    /\ \A p \in Parts : WF_vars(PartEnds(p))
    /\ \A c \in Clients : WF_vars(Broken(c)) /\ SF_vars(StreamEnds(c))
    /\ \A c \in Handlers : WF_vars(Work(c))

Spec == Init /\ [][Next]_vars /\ Fairness

-----------------------------------------------------------------------------
(* Properties *)

(* A handler gives back each slot it took, and a stream its feed, however  *)
(* it ends: a pool is as full as there are handlers that use it, and the   *)
(* slots a frame holds at a time are of two pools (api.go:207-263, 395).   *)
SlotsAccounted ==
    /\ \A p \in Pools : used[p] <= Capacity[p]
    /\ \A p \in Pools :
           used[p] = Cardinality({c \in Clients : client[c] # Idle /\ p \in PoolsOf(c)})
    /\ subscribers = Cardinality({c \in Clients : client[c].at \in {"stream", "writing"}})

\* Every slot is of a known kind and belongs to a request that is being served,
\* so what a client holds and what the handler counts never drift apart.
SlotsSound == TypeOK /\ SlotsAccounted

(* The five seconds of the shutdown run out only on a part that hangs or   *)
(* on a client that is slow: no stream, handler, adapter or display waits  *)
(* for something that only the end of the process would bring              *)
(* (serve_windows.go:256-290).                                             *)
NoNeedlessExpiry ==
    [][expired' /\ ~expired =>
         \/ \E p \in hung : part[p] = "running"
         \/ \E c \in Clients : client[c].at \in {"reading", "answered", "writing"}]_vars

(* Another process that gets the display control finds no worker of this   *)
(* one at the panels, and one that gets the server control no handler or   *)
(* adapter at the AI module's file, unless the five seconds ran out.       *)
ControlsOutliveWork ==
    expired \/ main = "exited" \/
        /\ part["displays"] = "running" => Holds("display")
        /\ part["adapters"] = "running" \/ ~Quiet => Holds("server")

\* A limit, a window or a reset that the projector does not look at, a plan or an
\* identifier that is too long, too many windows; the age of a record that passed the
\* 35 days of the local calendar on its way, or before, as they are shorter than the
\* projector's when the clock was put forward; or a bucket of UTC's tomorrow that is
\* after tomorrow where the module is.
Explained(o) ==
    \/ o.context # Missing /\ o.context.limit = 0
    \/ \E q \in o.quotas : q.window = 0 \/ q.length > MaxText
    \/ \E q \in o.quotas :
           q.resets # Missing /\ (q.resets < FirstSecond \/ q.resets > LastSecond)
    \/ Cardinality(o.quotas) > MaxQuotas \/ o.plan > MaxText
    \/ \E clock \in Clocks : \/ o.age >= Oldest(clock)
                             \/ \E d \in o.daily : d.date > LocalTomorrow(clock)

(* What a projector makes, the sink and the module's test refuse only for  *)
(* what explains it: the two sides agree on everything else, on two clocks *)
(* and two calendars (projection.go and validate).                         *)
RefusalsExplained ==
    \A c \in Handlers :
        client[c].answer \in {"invalid", "unsendable"} => Explained(Upcoming(c))

(* The helper's selection loses nothing that the server would make of the  *)
(* message, but for the process of a status line (projection.go:462-497).  *)
ObserverLosesNothing ==
    \A c \in Clients :
        client[c].post # Missing /\ client[c].post.mode \in {"hook", "statusline"} =>
            LET whole == ProjectNative(client[c].post.provider, client[c].post.mode, client[c].post.body).out
            IN  client[c].batch = IF client[c].post.mode = "hook" THEN whole
                                  ELSE [i \in DOMAIN whole |-> [whole[i] EXCEPT !.process = Missing]]

(* A server that was told to stop ends, whatever hangs and whatever its    *)
(* clients do (serve_windows.go:256-294, closeRuntime).                    *)
ShutdownCompletes == cancelled ~> main = "exited"
=============================================================================
