----------------------------- MODULE Subscriptions ----------------------------
(***************************************************************************)
(* The AI subscriptions module of modules/aisubscriptions: observations    *)
(* that adapters and clients deliver late, out of order and more than      *)
(* once, the state they are folded into, and the file it is kept in.       *)
(*                                                                         *)
(* One provider, Claude: keys of different providers never meet, and       *)
(* Claude takes every path that OpenAI does.  Each request stands for one  *)
(* token.  Quotas, provider-day buckets, titles and models, which are      *)
(* replaced as a whole and only displayed, are left out.                   *)
(*                                                                         *)
(* Module.mu is held from the start of Observe to its return, so that only  *)
(* the clock, the feeds and the end of the process come between the steps. *)
(***************************************************************************)
EXTENDS Integers, FiniteSets

CONSTANTS Accounts,     \* account keys
          Sessions,     \* session identifiers
          Requests,     \* request identifiers that feeds report
          AccountOf,    \* per request: the account it is attributed to, or None
          SessionOf,    \* per request: its session
          ModeOf,       \* per request: the authentication mode its feed reports
          None,         \* no account, no time
          Unlinked,     \* no entry in Linked
          Day, Zone,    \* ticks of a day, and of the local time zone's offset
          HistoryDays,
          Threshold,    \* per source: ticks after which a session is stale
          MaxAccounts, MaxSessions, MaxDedup,
          Feeds,        \* the kinds of observations that some feed delivers
          MaxTime       \* bound: the clock

Owners == Accounts \cup {None}
Keys == Owners \X Sessions
Time == 0 .. MaxTime
Sources == {"browser", "native"}

Date(t) == (t + Zone) \div Day
Dates == {Date(t) : t \in Time}

Kinds == {"account", "session", "context", "usage", "disconnect"}
Mode == {"subscription", "unknown"}

ASSUME SubscriptionsAssumption ==
    /\ AccountOf \in [Requests -> Owners]
    /\ SessionOf \in [Requests -> Sessions]
    /\ ModeOf \in [Requests -> Mode \cup {"", "api"}]
    /\ Day \in Nat \ {0} /\ Zone \in Nat /\ HistoryDays \in Nat \ {0}
    /\ Threshold \in [Sources -> 0 .. HistoryDays * Day]
    /\ {MaxAccounts, MaxSessions, MaxDedup, MaxTime} \subseteq Nat
    /\ None \notin Accounts \cup Time
    /\ Unlinked \notin Owners
    /\ Feeds \subseteq Kinds
    /\ IsFiniteSet(Accounts) /\ IsFiniteSet(Sessions) /\ IsFiniteSet(Requests)

Account == [mode : Mode, updated : Time]
Session == [source : Sources, activity : {"running", "completed", "unknown"},
            at : Time, tokens : Nat]

Absent == [absent |-> TRUE]

\* diskState.
States == [accounts  : [Owners -> Account \cup {Absent}],
           linked    : Owners \cup {Unlinked},
           sessions  : [Keys -> Session \cup {Absent}],
           contextAt : [Keys -> Time \cup {None}],
           daily     : [Owners -> [Dates -> Nat]],
           local     : [Dates -> Nat],
           dedup     : [Requests -> Time \cup {None}],
           partial   : BOOLEAN]

Empty == [accounts  |-> [a \in Owners |-> Absent],
          linked    |-> Unlinked,
          sessions  |-> [k \in Keys |-> Absent],
          contextAt |-> [k \in Keys |-> None],
          daily     |-> [a \in Owners |-> [d \in Dates |-> 0]],
          local     |-> [d \in Dates |-> 0],
          dedup     |-> [r \in Requests |-> None],
          partial   |-> FALSE]

Known(s) == {a \in Owners : s.accounts[a] # Absent}
Present(s) == {k \in Keys : s.sessions[k] # Absent}
Tombstones(s) == {r \in Requests : s.dedup[r] # None}

VARIABLES
    now,       \* the clock
    disk,      \* state-v1.json, or what New makes of its absence
    memory,    \* Module.state
    pending,   \* the locals of an Observe that holds the lock, or Idle
    sent,      \* per request: when its feed first reported it, or None
    counted    \* ghost: requests whose report was accepted

vars == <<now, disk, memory, pending, sent, counted>>

Idle == [phase |-> "idle"]

\* next, what is observed, and whom it is attributed to.
Writes == [phase   : {"staged", "replaced"},
           next    : States,
           kind    : Kinds,
           owner   : Owners,
           request : Requests \cup {None},    \* a report of usage that is accepted
           closes  : Keys \cup {None}]        \* the session that a browser ends

TypeOK ==
    /\ now \in Time
    /\ disk \in States /\ memory \in States
    /\ pending = Idle \/ pending \in Writes
    /\ sent \in [Requests -> Time \cup {None}]
    /\ counted \subseteq Requests

Init ==
    /\ now = 0
    /\ disk = Empty /\ memory = Empty
    /\ pending = Idle
    /\ sent = [r \in Requests |-> None]
    /\ counted = {}

-----------------------------------------------------------------------------
(* Time. *)

\* time.Before is false against the zero time.
NotBefore(t, u) == u = None \/ t >= u

\* now.AddDate(0, 0, -historyDays).
Cutoff == now - HistoryDays * Day

\* dailyCutoff: today and the 34 days before it.
FirstDate == Date(now) - HistoryDays + 1

\* Mutant: the oldest of the days that are shown is dropped.
RecentLess(days) == [d \in Dates |-> IF d <= FirstDate THEN 0 ELSE days[d]]

Recent(days) == [d \in Dates |-> IF d < FirstDate THEN 0 ELSE days[d]]

-----------------------------------------------------------------------------
(* What an observation does to the state. *)

\* Mutant: the time of a session's context survives the session.
WithoutButContext(s, keys) ==
    [s EXCEPT !.sessions = [k \in Keys |-> IF k \in keys THEN Absent ELSE @[k]]]

Without(s, keys) ==
    [s EXCEPT !.sessions = [k \in Keys |-> IF k \in keys THEN Absent ELSE @[k]],
              !.contextAt = [k \in Keys |-> IF k \in keys THEN None ELSE @[k]]]

\* Linked[provider] of a provider that is not linked reads as no account.
LinkedOwner(s) == IF s.linked = Unlinked THEN None ELSE s.linked

Expired(s) == {a \in Known(s) \ {LinkedOwner(s)} : s.accounts[a].updated < Cutoff}

\* Mutant: tombstones go when their date does.
PruneByDate(s) ==
    LET old == {k \in Present(s) : s.sessions[k].at < Cutoff}
    IN  [Without(s, old) EXCEPT
            !.accounts = [a \in Owners |-> IF a \in Expired(s) THEN Absent ELSE @[a]],
            !.daily = [a \in Owners |-> Recent(@[a])],
            !.local = Recent(@),
            !.dedup = [r \in Requests |->
                IF r \in Tombstones(s) /\ Date(@[r]) <= FirstDate THEN None ELSE @[r]]]

Prune(s) ==
    LET old == {k \in Present(s) : s.sessions[k].at < Cutoff}
    IN  [Without(s, old) EXCEPT
            !.accounts = [a \in Owners |-> IF a \in Expired(s) THEN Absent ELSE @[a]],
            !.daily = [a \in Owners |-> Recent(@[a])],
            !.local = Recent(@),
            !.dedup = [r \in Requests |->
                IF r \in Tombstones(s) /\ @[r] < Cutoff THEN None ELSE @[r]]]

\* A lost authentication without an identity is the linked account's.
Attributed(s, o) ==
    IF o.kind = "account" /\ o.owner = None /\ s.linked \in Accounts
    THEN [o EXCEPT !.owner = s.linked,
                   !.mode = IF s.linked \in Known(s) THEN s.accounts[s.linked].mode ELSE "unknown"]
    ELSE IF o.kind = "disconnect" /\ o.owner = None
    THEN [o EXCEPT !.owner = LinkedOwner(s)]
    ELSE o

Verified(s, o) ==
    o.kind \in {"session", "context", "usage"} /\ o.owner # None =>
        /\ o.owner \in Known(s)
        /\ o.mode # "" => o.mode = s.accounts[o.owner].mode

Disconnect(s, o) ==
    [Without(s, {k \in Keys : k[1] = o.owner}) EXCEPT
        !.accounts[o.owner] = Absent,
        !.daily[o.owner] = [d \in Dates |-> 0],
        !.linked = IF @ = o.owner THEN Unlinked ELSE @]

\* Mutant: any account report links its account.
ObserveAccountLinks(s, o) ==
    IF o.owner \in Known(s) /\ o.at < s.accounts[o.owner].updated THEN s
    ELSE [s EXCEPT !.accounts[o.owner] = [mode |-> o.mode, updated |-> o.at],
                   !.linked = o.owner]

ObserveAccount(s, o) ==
    IF o.owner \in Known(s) /\ o.at < s.accounts[o.owner].updated THEN s
    ELSE [s EXCEPT !.accounts[o.owner] = [mode |-> o.mode, updated |-> o.at],
                   !.linked = IF \/ LinkedOwner(s) \notin Known(s)
                                 \/ o.at >= s.accounts[LinkedOwner(s)].updated
                              THEN o.owner ELSE @]

Key(o) == <<o.owner, o.session>>

\* A browser reports that its tab was closed.
Closes(o) == o.kind = "session" /\ o.source = "browser" /\ o.activity = "completed"

CloseSession(s, o) ==
    IF Key(o) \in Present(s) /\ o.at >= s.sessions[Key(o)].at
    THEN Without(s, {Key(o)}) ELSE s

ObserveSession(s, o) ==
    LET k == Key(o)
        old == s.sessions[k]
        fresh == [source |-> o.source, at |-> o.at,
                  activity |-> IF o.activity # "" THEN o.activity
                               ELSE IF old = Absent THEN "unknown" ELSE old.activity,
                  tokens |-> IF old = Absent THEN 0 ELSE old.tokens]
    IN  [s EXCEPT
            !.sessions[k] = IF old = Absent \/ o.at >= old.at THEN fresh ELSE old,
            !.contextAt[k] = IF o.kind = "context" /\ NotBefore(o.at, @) THEN o.at ELSE @]

ObserveUsage(s, o) ==
    LET d == Date(o.at)
    IN  IF o.request \in Tombstones(s) THEN s
        ELSE [s EXCEPT
            !.local[d] = IF o.owner = None /\ o.mode # "api" /\ d >= FirstDate
                         THEN @ + 1 ELSE @,
            !.sessions[Key(o)].tokens = @ + 1,
            !.daily[o.owner][d] =
                IF /\ o.owner \in Known(s) /\ s.accounts[o.owner].mode = "subscription"
                   /\ d >= FirstDate
                THEN @ + 1 ELSE @,
            !.dedup[o.request] = o.at]

Stale(session) == now - session.at > Threshold[session.source]

Live(session) == session # Absent /\ session.activity # "completed" /\ ~Stale(session)

\* Mutant: the oldest session is reclaimed, whatever it does.
VictimsAny(s) ==
    {k \in Present(s) : \A l \in Present(s) : s.sessions[k].at <= s.sessions[l].at}

\* reclaimSession: the oldest that is over; ties go by the text of their keys.
Victims(s) ==
    LET over == {k \in Present(s) : ~Live(s.sessions[k])}
    IN  {k \in over : \A l \in over : s.sessions[k].at <= s.sessions[l].at}

NeedsRoom(s, o) ==
    /\ o.kind \in {"session", "context", "usage"} /\ ~Closes(o)
    /\ Key(o) \notin Present(s)
    /\ Cardinality(Present(s)) >= MaxSessions

\* What exceeds a limit: an account, a session, or a request.  A state of more than
\* 32 MiB takes the same path.
Limited(s, o) ==
    \/ o.kind = "account" /\ o.owner \notin Known(s) /\ Cardinality(Known(s)) >= MaxAccounts
    \/ NeedsRoom(s, o) /\ Victims(s) = {}
    \/ /\ o.kind = "usage" /\ o.request \notin Tombstones(s)
       /\ Cardinality(Tombstones(s)) >= MaxDedup

Fold(s, o) ==
    IF o.kind = "disconnect" THEN Disconnect(s, o)
    ELSE IF o.kind = "account" THEN ObserveAccount(s, o)
    ELSE IF o.kind = "usage" THEN ObserveUsage(ObserveSession(s, o), o)
    ELSE IF Closes(o) THEN CloseSession(s, o)
    ELSE ObserveSession(s, o)

\* The states an admitted observation may lead to.
Results(s, o) ==
    IF NeedsRoom(s, o) THEN {Fold(Without(s, {v}), o) : v \in Victims(s)} ELSE {Fold(s, o)}

-----------------------------------------------------------------------------
(* Observe, the file and the process. *)

Blank(kind, owner, at) ==
    [kind |-> kind, owner |-> owner, at |-> at, mode |-> "", session |-> None,
     request |-> None, source |-> "native", activity |-> ""]

\* What feeds may report now.  Adapters report subscription accounts, and a lost login
\* without its account; hooks, status lines and browsers name no account.
AccountReports ==
    {[Blank("account", a, t) EXCEPT !.mode = IF a = None THEN "unknown" ELSE "subscription"] :
         a \in Owners, t \in Time}

DisconnectReports == {Blank("disconnect", a, now) : a \in Owners}

SessionReport(i, t, src, act) ==
    [Blank("session", None, t) EXCEPT !.session = i, !.source = src, !.activity = act]

SessionReports ==
    {SessionReport(i, t, src, act) :
         i \in Sessions, t \in Time, src \in Sources, act \in {"running", "completed"}}

ContextReports == {[Blank("context", None, t) EXCEPT !.session = i] : i \in Sessions, t \in Time}

UsageReports ==
    {[Blank("usage", AccountOf[r], sent[r]) EXCEPT
         !.session = SessionOf[r], !.request = r, !.mode = ModeOf[r]] :
         r \in {q \in Requests : sent[q] # None}}

Reports == AccountReports \cup DisconnectReports \cup SessionReports \cup ContextReports
              \cup UsageReports

Staged(next, o, accepted) ==
    [phase |-> "staged", next |-> next, kind |-> o.kind, owner |-> o.owner,
     request |-> IF accepted THEN o.request ELSE None,
     closes |-> IF Closes(o) THEN Key(o) ELSE None]

\* Under the lock: validate, prune, fold, and write the temporary file.
Observe(report) ==
    /\ pending = Idle
    /\ report.kind \in Feeds
    /\ report.at >= now - HistoryDays * Day /\ report.at <= now
    /\ LET s == Prune(memory)
           o == Attributed(s, report)
       IN  /\ Verified(s, o)
           /\ \/ ~Limited(s, o) /\ \E next \in Results(s, o) : pending' = Staged(next, o, TRUE)
              \/ Limited(s, o) /\ pending' = Staged([memory EXCEPT !.partial = TRUE], o, FALSE)
    /\ UNCHANGED <<now, disk, memory, sent, counted>>

\* The rename, at the first attempt or a later one.
Replace ==
    /\ pending.phase = "staged"
    /\ disk' = pending.next
    /\ pending' = [pending EXCEPT !.phase = "replaced"]
    /\ UNCHANGED <<now, memory, sent, counted>>

\* A file operation fails, or the context ends before the rename.
GiveUp ==
    /\ pending.phase = "staged"
    /\ pending' = Idle
    /\ UNCHANGED <<now, disk, memory, sent, counted>>

\* m.state = next, and the answer.
Publish ==
    /\ pending.phase = "replaced"
    /\ memory' = pending.next
    /\ counted' = counted \cup ({pending.request} \ {None})
    /\ pending' = Idle
    /\ UNCHANGED <<now, disk, sent>>

\* The process ends at any point, and New reads the file.  Between Close and the end
\* observations are refused, which is as if none came.
Restart ==
    /\ memory' = disk
    /\ pending' = Idle
    /\ UNCHANGED <<now, disk, sent, counted>>

\* A feed reports a request for the first time.
Send(r) ==
    /\ sent[r] = None
    /\ sent' = [sent EXCEPT ![r] = now]
    /\ UNCHANGED <<now, disk, memory, pending, counted>>

\* A tick is far longer than a write.
Tick ==
    /\ now < MaxTime /\ pending = Idle
    /\ now' = now + 1
    /\ UNCHANGED <<disk, memory, pending, sent, counted>>

Next == \/ \E report \in Reports : Observe(report)
        \/ Replace \/ GiveUp \/ Publish \/ Restart \/ Tick
        \/ \E r \in Requests : Send(r)

Spec == Init /\ [][Next]_vars

-----------------------------------------------------------------------------
(* Properties. *)

\* The requests of an owner that were first reported on a date.
Of(owner, d, requests) ==
    {r \in requests : sent[r] # None /\ AccountOf[r] = owner /\ Date(sent[r]) = d}

\* "Request IDs survive restarts to prevent replay from inflating counts": however often
\* a report is delivered, across crashes, disconnects and expiry, no total exceeds the
\* requests there were.
CountedOnce ==
    \A d \in Dates :
        /\ \A a \in Owners : disk.daily[a][d] <= Cardinality(Of(a, d, Requests))
        /\ disk.local[d] <= Cardinality(Of(None, d, Requests))

\* A report that was acknowledged stays in the local totals of the file for as long
\* as its date is shown, through crashes and failed writes.
AcknowledgedKept ==
    \A d \in Dates : d >= FirstDate =>
        disk.local[d] >= Cardinality({r \in Of(None, d, counted) : ModeOf[r] # "api"})

\* New accepts what Observe wrote: limits hold for the maps it bounds, and a linked
\* provider has the record that Snapshot reads.
Loadable ==
    /\ Cardinality(Known(disk)) <= MaxAccounts
    /\ Cardinality(Present(disk)) <= MaxSessions
    /\ Cardinality({k \in Keys : disk.contextAt[k] # None}) <= MaxSessions
    /\ Cardinality(Tombstones(disk)) <= MaxDedup
    /\ disk.linked # Unlinked => disk.linked \in Known(disk)

\* What the module shows is durable: memory never runs ahead of the file, and lags it only
\* while the observation that changed it holds the lock.
ShownIsDurable == memory = disk \/ pending.phase = "replaced"

\* What the module tells its callers and its readers is in the file.
FileHoldsWhatWasTold == TypeOK /\ AcknowledgedKept /\ ShownIsDurable

\* A session that is active is removed only by its own end or a disconnect of its
\* account, never to make room.
LiveSessionsKept ==
    [][\A k \in Keys : Live(disk.sessions[k]) /\ disk'.sessions[k] = Absent =>
           pending.closes = k \/ (pending.kind = "disconnect" /\ pending.owner = k[1])]_vars

\* A late report of another account does not take the link over.
LinkFollowsNewest ==
    [][/\ {disk.linked, disk'.linked} \subseteq Accounts
       /\ disk.linked # disk'.linked
       => disk'.accounts[disk'.linked].updated >= disk.accounts[disk.linked].updated]_vars

\* "Pause monitoring detaches this observer and drops the linked account's cached data"
\* (docs/ai-subscriptions.md): a disconnect leaves active sessions without an account alone.
DisconnectKeepsLocal ==
    [][\A i \in Sessions : pending # Idle /\ pending.kind = "disconnect" =>
           (Live(disk.sessions[<<None, i>>]) => disk'.sessions[<<None, i>>] # Absent)]_vars
=============================================================================
