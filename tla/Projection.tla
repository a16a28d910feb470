------------------------------ MODULE Projection ------------------------------
(***************************************************************************)
(* What native metadata becomes: the projectors of internal/aiadapters     *)
(* (projection.go, claude_usage.go and projectBrowser in manager.go), the  *)
(* selection the observer helper makes before it sends anything, and the   *)
(* test the AI module puts every observation to (validate in               *)
(* modules/aisubscriptions/module.go).                                     *)
(*                                                                         *)
(* A JSON number is an integer; Missing is a field that is absent or holds *)
(* no number.  An absent object is one whose fields are missing: obj gives *)
(* nil, and a nil map has no entries. A kind, an activity or a connection  *)
(* with no text is none. The ages of observations and the dates of daily   *)
(* buckets are relative to the clock of the projector; of plans and quota  *)
(* identifiers the length counts, and other texts are values that the      *)
(* projectors pass on, cut to what the module takes.                       *)
(* The limits of the code are parameters, to be small in an instance.      *)
(***************************************************************************)
EXTENDS Integers, Sequences, FiniteSets

CONSTANTS Missing,      \* nil: no number, no text, no object
          MaxTokens,    \* maxTokens
          FirstSecond,  \* the first second of year 0, and the last of year 9999: in
          LastSecond,   \* between a time can be written as JSON
          MaxRecords,   \* 256 records of a telemetry payload
          MaxEvents,    \* 64 events of a browser batch
          MaxQuotas,    \* 32 quota windows of an observation
          MaxText,      \* 128: the length of a plan and of a quota's identifier
          MaxDays,      \* historyDays
          Day,          \* ticks of a day, a tick being a minute
          Clocks        \* what the clock of the module may show, see Valid

\* What is counted of a request.
Counts == {"input", "output", "cached", "write", "reasoning", "total"}

ASSUME ProjectionAssumption ==
    /\ {MaxTokens, LastSecond, MaxRecords, MaxEvents, MaxQuotas, MaxText, MaxDays} \subseteq Nat
    /\ FirstSecond \in Int /\ Day \in Nat \ {0}
    /\ Missing \notin Int /\ Missing \notin [Counts -> Nat]

\* A clock has the time since midnight UTC of the day of the projector's reading, the
\* offset of the local zone to the east, and gained, by how much the clock was put
\* forward in the last 35 days (or, if negative, back).
ASSUME ClocksAssumption ==
    \A c \in Clocks : c.time \in 0 .. Day /\ c.offset \in -Day .. Day /\ c.gained \in -Day .. Day

Native == {"openai", "claude"}

-----------------------------------------------------------------------------
(* Fields. *)

\* Mutant: the lower bound is forgotten.
NumberSigned(v) == IF v \in -MaxTokens .. MaxTokens THEN v ELSE Missing

Number(v) == IF v \in 0 .. MaxTokens THEN v ELSE Missing

Percent(v) == IF v \in 0 .. 100 THEN v ELSE Missing

Val(v) == IF v = Missing THEN 0 ELSE v

\* base: an observation with the zero value in every other field.
Base(provider, source, session) ==
    [kind |-> "none", provider |-> provider, source |-> source, session |-> session,
     age |-> 0, mode |-> "unknown", account |-> Missing, plan |-> 0, connection |-> "none",
     process |-> Missing, request |-> Missing, title |-> Missing, model |-> Missing,
     activity |-> "none", context |-> Missing, quotas |-> {}, tokens |-> Missing, daily |-> {}]

\* A projector returns observations or an error.
Error == [ok |-> FALSE, out |-> <<>>]
Projected(out) == [ok |-> TRUE, out |-> out]

Quota(id, length, percent, window, resets) ==
    [id |-> id, length |-> length, percent |-> percent, window |-> window, resets |-> resets]

-----------------------------------------------------------------------------
(* Hooks and status lines. *)

Activity(event) ==
    IF event \in {"SessionStart", "Stop", "Interrupt"} THEN "idle"
    ELSE IF event = "SessionEnd" THEN "completed"
    ELSE IF event \in {"UserPromptSubmit", "PreToolUse", "PostToolUse", "SubagentStart"} THEN "running"
    ELSE IF event \in {"PermissionRequest", "Notification"} THEN "waiting"
    ELSE IF event \in {"PreCompact", "PostCompact"} THEN "unknown"
    ELSE Missing

Hook(provider, m) ==
    LET source == IF provider = "claude" THEN "claude-hook" ELSE "codex-hook"
        o == [Base(provider, source, m.session) EXCEPT
                 !.kind = "session", !.process = m.process, !.model = m.model,
                 !.activity = Activity(m.event)]
        blank == [Base(provider, source, m.session) EXCEPT
                     !.kind = "context",
                     !.context = [limit |-> Missing, percent |-> Missing, used |-> Missing]]
    IN  IF o.activity = Missing THEN <<>>
        ELSE IF o.activity = "unknown" THEN <<o, blank>>
        ELSE <<o>>

\* The tokens in a context, known when all of its parts are.
Used(usage) ==
    LET parts == {Number(usage.input), Number(usage.read), Number(usage.write)}
    IN  IF Missing \in parts THEN Missing
        ELSE Number(usage.input) + Number(usage.read) + Number(usage.write)

Windows == [five_hour |-> 300, seven_day |-> 10080]

\* How long the names are of which identifiers are made.
LengthOf == [five_hour |-> 9, seven_day |-> 9, codex |-> 5, primary |-> 7, secondary |-> 9]

StatusQuotas(m) ==
    {Quota(w, LengthOf[w], Percent(m.limits[w].percent), Windows[w], Number(m.limits[w].resets)) :
        w \in {v \in DOMAIN Windows : Percent(m.limits[v].percent) # Missing}}

StatusLine(m) ==
    LET source == "claude-statusline"
        o == [Base("claude", source, m.session) EXCEPT
                 !.kind = "context", !.process = m.process, !.model = m.model, !.title = m.title,
                 !.context = [limit |-> Number(m.size), percent |-> Percent(m.percent),
                              used |-> Used(m.usage)]]
        q == [Base("claude", source, m.session) EXCEPT !.kind = "quota", !.quotas = StatusQuotas(m)]
    IN  IF q.quotas = {} THEN <<o>> ELSE <<o, q>>

\* The fields of a message that any of this reads.
Message(m) ==
    /\ DOMAIN m = {"session", "process", "model", "title", "event",
                   "size", "percent", "usage", "limits"}
    /\ m = [f \in DOMAIN m |-> m[f]]
    /\ DOMAIN m.usage = {"input", "read", "write"}
    /\ DOMAIN m.limits = DOMAIN Windows
    /\ \A w \in DOMAIN Windows : DOMAIN m.limits[w] = {"percent", "resets"}

\* A payload that is no JSON object has no session either.
ProjectNative(provider, mode, m) ==
    IF provider \notin Native \/ m.session = Missing THEN Error
    ELSE IF mode = "hook" THEN Projected(Hook(provider, m))
    ELSE IF provider = "claude" THEN Projected(StatusLine(m))
    ELSE Error

\* Mutant: the write part of the context is not selected.
NativeMetadataPartial(mode, m) ==
    IF mode = "hook" THEN m
    ELSE [m EXCEPT !.process = Missing, !.size = Number(@), !.percent = Percent(@),
                   !.usage = [@ EXCEPT !.write = Missing]]

\* What the observer helper sends of a message that it could project: the
\* numbers as they are read, and of a status line not the process.
NativeMetadata(mode, m) ==
    IF mode = "hook" THEN m
    ELSE [m EXCEPT !.process = Missing, !.size = Number(@), !.percent = Percent(@),
                   !.usage = [f \in DOMAIN @ |-> Number(@[f])],
                   !.limits = [w \in DOMAIN @ |-> [percent |-> Percent(@[w].percent),
                                                   resets |-> Number(@[w].resets)]]]

-----------------------------------------------------------------------------
(* Telemetry. *)

RequestEvents == [claude |-> {"api_request", "claude_code.api_request"},
                  openai |-> {"codex.sse_event", "codex.api_request", "codex.request"}]

\* A record that counts: a request of the provider's, with some count, that
\* is at most a minute ahead and at most 35 days old.
Usable(provider, r) ==
    /\ r.session # Missing /\ r.request # Missing
    /\ r.event \in RequestEvents[provider]
    /\ \E f \in {"input", "output", "cached", "write", "total"} : Number(r[f]) # Missing
    /\ r.age >= -1 /\ r.age <= MaxDays * Day

Tokens(provider, r) ==
    LET sum == Val(Number(r.input)) + Val(Number(r.output))
        cache == Val(Number(r.cached)) + Val(Number(r.write))
    IN  [input |-> Val(Number(r.input)), output |-> Val(Number(r.output)),
         cached |-> Val(Number(r.cached)), write |-> Val(Number(r.write)),
         reasoning |-> Val(Number(r.reasoning)),
         total |-> IF Number(r.total) # Missing THEN Number(r.total)
                   ELSE IF provider = "claude" THEN sum + cache ELSE sum]

\* A list in a JSON text.
Listed(s) == Len(s) \in Nat /\ DOMAIN s = 1 .. Len(s)

Telemetry(m) == Listed(m.records) /\ \A i \in DOMAIN m.records : m.records[i].age \in Int

\* The observations are in the order of the records.  The payload is refused at the
\* record that comes after as many as may count.
ProjectOTLP(provider, m) ==
    LET usable == {i \in DOMAIN m.records : Usable(provider, m.records[i])}
        rank == [i \in usable |-> Cardinality({j \in usable : j <= i})]
        source == IF provider = "claude" THEN "claude-otel" ELSE "codex-otel"
        Usage(r) == [Base(provider, source, r.session) EXCEPT
                        !.kind = "usage", !.age = r.age, !.request = r.request,
                        !.model = r.model, !.tokens = Tokens(provider, r)]
    IN  IF \/ provider \notin Native
           \/ \E n \in DOMAIN m.records : Cardinality({i \in usable : i < n}) >= MaxRecords
        THEN Error
        ELSE Projected([k \in 1 .. Cardinality(usable) |->
                            Usage(m.records[CHOOSE i \in usable : rank[i] = k])])

-----------------------------------------------------------------------------
(* Browser batches. *)

BrowserActivity(activity) ==
    IF activity = "generating" THEN "running"
    ELSE IF activity \in {"running", "idle", "waiting", "completed"} THEN activity
    ELSE "unknown"

ProjectBrowser(m) ==
    LET events == m.events IN
    IF \/ Len(events) \notin 1 .. MaxEvents
       \/ \E i \in DOMAIN events : events[i].provider \notin Native \/ events[i].session = Missing
    THEN Error
    ELSE Projected([i \in DOMAIN events |->
            [Base(events[i].provider, "browser", events[i].session) EXCEPT
                !.kind = "session", !.title = events[i].title, !.model = events[i].model,
                !.activity = BrowserActivity(events[i].activity)]])

-----------------------------------------------------------------------------
(* What the native clients answer to the adapters. *)

\* parseClaudeAccount and parseOpenAIAccount: a signed-in subscription, with an identity.
ParseAccount(provider, m) ==
    LET source == IF provider = "claude" THEN "claude-auth" ELSE "openai-app-server"
    IN  IF ~m.subscription \/ m.id = Missing THEN Error
        ELSE Projected(<<[Base(provider, source, Missing) EXCEPT
                            !.kind = "account", !.account = m.id, !.mode = "subscription",
                            !.plan = m.plan, !.connection = "connected"]>>)

RateLimits(m) ==
    /\ IsFiniteSet(m.byID) /\ \A b \in m.byID : b.length \in Nat
    /\ "length" \in DOMAIN m.single

\* parseOpenAIQuotas: two windows of every bucket; the buckets by their
\* identifiers, or the single one of older clients as codex.
ParseOpenAIQuotas(m, account) ==
    LET buckets == IF m.byID = {} THEN {[m.single EXCEPT !.length = LengthOf["codex"]]} ELSE m.byID
        windows == {[id |-> b.key, name |-> n, length |-> b.length + 1 + LengthOf[n], of |-> b[n]] :
                        b \in buckets, n \in {"primary", "secondary"}}
        known == {w \in windows : Percent(w.of.percent) # Missing}
    IN  Projected(<<[Base("openai", "openai-app-server", Missing) EXCEPT
            !.kind = "quota", !.account = account, !.mode = "subscription",
            !.quotas = {Quota(<<w.id, w.name>>, w.length, Percent(w.of.percent),
                              Number(w.of.window), Number(w.of.resets)) : w \in known}]>>)

DailyBuckets(m) ==
    Listed(m.buckets) /\ \A i \in DOMAIN m.buckets : m.buckets[i].date \in Int \cup {Missing}

\* The last 35 dates.
Newest(daily) == {d \in daily : Cardinality({e \in daily : e.date > d.date}) < MaxDays}

\* parseOpenAIUsage: of a date that is reported twice the later count stands.
ParseOpenAIUsage(m, account) ==
    LET days == m.buckets
        Good(i) == /\ days[i].date # Missing /\ Number(days[i].tokens) # Missing
                   /\ days[i].date >= 1 - MaxDays /\ days[i].date <= 1
        last == {i \in DOMAIN days : Good(i) /\ \A j \in DOMAIN days :
                                      Good(j) /\ j > i => days[j].date # days[i].date}
    IN  Projected(<<[Base("openai", "openai-app-server", Missing) EXCEPT
            !.kind = "usage", !.account = account, !.mode = "subscription",
            !.daily = Newest({[date |-> days[i].date, tokens |-> Number(days[i].tokens)] : i \in last})]>>)

\* The limits have names and windows of the adapter's own; the resets are times.
ClaudeLimits(m) ==
    /\ IsFiniteSet(m.limits)
    /\ \A w \in m.limits : /\ w.length \in Nat \ {0} /\ w.window \in Nat
                           /\ w.resets \in Int \cup {Missing}

\* parseClaudeQuotas: a reset that is no time refuses the reading, unlike a
\* percentage that is no number, which drops its window.
ParseClaudeQuotas(m, account) ==
    LET known == {w \in m.limits : Percent(w.percent) # Missing}
    IN  IF ~m.available \/ known = {} \/ \E w \in known : w.malformed THEN Error
        ELSE Projected(<<[Base("claude", "claude-native-usage", Missing) EXCEPT
                !.kind = "quota", !.account = account, !.mode = "subscription",
                !.quotas = {Quota(w.id, w.length, Percent(w.percent), w.window, w.resets) :
                               w \in known}]>>)

-----------------------------------------------------------------------------
(* The module's side.                                                      *)

\* json.Marshal in the sink: a time has a year of four digits.
Sendable(o) ==
    \A q \in o.quotas : q.resets # Missing => q.resets >= FirstSecond /\ q.resets <= LastSecond

SourcesOf == [openai |-> {"openai-app-server", "codex-hook", "codex-otel", "browser"},
              claude |-> {"claude-auth", "claude-native-usage", "claude-hook",
                          "claude-statusline", "claude-otel", "browser"}]

\* How old an observation may be: 35 days of the local calendar (AddDate), of which one
\* is shorter when the clock is put forward.
Oldest(clock) == MaxDays * Day - clock.gained

\* The local date of a day from now, where the dates of buckets are UTC's.
LocalTomorrow(clock) == (clock.time + clock.offset + Day) \div Day

\* validate, when the module looks at the observation later than it was made.
Valid(o, later, clock) ==
    /\ o.kind \in {"account", "session", "usage", "quota", "context", "disconnect"}
    /\ o.provider \in Native /\ o.source \in SourcesOf[o.provider]
    /\ o.activity \in {"none", "running", "waiting", "idle", "completed", "unknown"}
    /\ o.age + later >= -5 /\ o.age + later <= Oldest(clock)
    /\ o.plan <= MaxText /\ Cardinality(o.quotas) <= MaxQuotas /\ Cardinality(o.daily) <= MaxDays
    /\ o.kind = "account" => /\ o.connection # "none" /\ o.source # "browser"
                             /\ o.connection = "connected" => o.account # Missing
    /\ o.kind \in {"session", "context"} => o.session # Missing
    /\ o.kind = "usage" => o.tokens # Missing \/ o.daily # {}
    /\ o.tokens # Missing => /\ o.kind = "usage" /\ o.request # Missing
                             /\ \A f \in DOMAIN o.tokens : o.tokens[f] >= 0
    /\ o.context # Missing => /\ o.context.limit = Missing \/ o.context.limit > 0
                              /\ o.context.used = Missing \/ o.context.used >= 0
                              /\ o.context.percent = Missing \/ o.context.percent \in 0 .. 100
    /\ \A q \in o.quotas : /\ q.length \in 1 .. MaxText
                           /\ q.percent = Missing \/ q.percent \in 0 .. 100
                           /\ q.window = Missing \/ q.window > 0
    /\ \A d, e \in o.daily : /\ d.tokens >= 0 /\ d.date = e.date => d = e
                             /\ d.date * Day >= clock.time - Oldest(clock) - Day
                             /\ d.date <= LocalTomorrow(clock)
=============================================================================
