-------------------------- MODULE SubscriptionsProofs -------------------------
(***************************************************************************)
(* What the subscriptions module promises, for any accounts, sessions and  *)
(* requests, any limits, any history and any clock.                        *)
(*                                                                         *)
(* The argument is about one state at a time: the one in the file, and the *)
(* one that an Observe under way is about to write, are sound.  A state is *)
(* sound when it is within its limits, when its totals count no request    *)
(* that it holds no tombstone of (and the local ones all that it holds,    *)
(* while their date is shown), and when every request that was             *)
(* acknowledged has its tombstone for as long as its date is shown.  Each  *)
(* operation keeps a state sound, provided there is room for what it adds; *)
(* prune may drop a tombstone because the date of an instant before the    *)
(* cutoff is before the first date that is shown, in any time zone         *)
(* (CutoffDate).                                                           *)
(* A write besides compares with the file it replaces: the link and the    *)
(* live sessions are kept from Observe's staging to the rename, since      *)
(* nobody else writes and the clock stands.                                *)
(***************************************************************************)
EXTENDS Subscriptions, FiniteSetTheorems, TLAPS

\* The requests that the local total of a date is about.
LocalOf(s, d) == {r \in Of(None, d, Tombstones(s)) : ModeOf[r] # "api"}

\* What New demands of a file.
Within(s) ==
    /\ Cardinality(Known(s)) <= MaxAccounts
    /\ Cardinality(Present(s)) <= MaxSessions
    /\ Cardinality(Tombstones(s)) <= MaxDedup
    /\ \A k \in Keys : s.contextAt[k] # None => s.sessions[k] # Absent
    /\ s.linked # Unlinked => s.linked \in Known(s)

\* The totals count the requests that have a tombstone; local ones, all of them, for as
\* long as their date is shown.
Counted(s) ==
    /\ \A r \in Requests : s.dedup[r] # None => s.dedup[r] = sent[r]
    /\ \A a \in Owners, d \in Dates : s.daily[a][d] <= Cardinality(Of(a, d, Tombstones(s)))
    /\ \A d \in Dates : /\ s.local[d] <= Cardinality(LocalOf(s, d))
                        /\ d >= FirstDate => s.local[d] = Cardinality(LocalOf(s, d))

\* A request that was acknowledged has its tombstone until its date is no longer shown.
Remembers(s, requests) ==
    \A r \in requests : sent[r] # None /\ (Date(sent[r]) >= FirstDate => s.dedup[r] # None)

\* What the file, and the state that is about to replace it, always are.
Sound(s) == s \in States /\ Within(s) /\ Counted(s) /\ Remembers(s, counted)

\* What an observation may do to the link, and to sessions.
LinkKept(s, t) ==
    s.linked \in Accounts /\ t.linked \in Accounts /\ s.linked # t.linked =>
        t.accounts[t.linked].updated >= s.accounts[s.linked].updated

\* Of the live sessions only those go that the write says are over.
SessionsKept(s, t, p) ==
    \A k \in Keys : Live(s.sessions[k]) /\ t.sessions[k] = Absent =>
        p.closes = k \/ (p.kind = "disconnect" /\ p.owner = k[1])

\* The state in the file, and the one that Observe is about to write.
Files == {disk} \cup (IF pending = Idle THEN {} ELSE {pending.next})

\* Whatever is, or may come to be, in the file is sound.
SoundInv == \A s \in Files : Sound(s)

\* What an Observe under way may rely on: its write is compared with the file that it
\* replaces, which nobody else writes.
PendingInv ==
    pending # Idle =>
        /\ Remembers(pending.next, {pending.request} \ {None})
        /\ pending.phase = "staged" => /\ LinkKept(disk, pending.next)
                                       /\ SessionsKept(disk, pending.next, pending)
        /\ pending.phase = "replaced" => disk = pending.next

\* The inductive invariant.
IInv == TypeOK /\ SoundInv /\ PendingInv /\ ShownIsDurable

-----------------------------------------------------------------------------
(* The parameters, dates, and sets that are finite. *)

\* The numbers among the parameters.
LEMMA Numbers ==
    /\ Day \in Nat \ {0} /\ Zone \in Nat /\ HistoryDays \in Nat \ {0}
    /\ MaxAccounts \in Nat /\ MaxSessions \in Nat /\ MaxDedup \in Nat /\ MaxTime \in Nat
<1>1. /\ Day \in Nat \ {0} /\ Zone \in Nat /\ HistoryDays \in Nat \ {0}
  BY ZenonT(10), SubscriptionsAssumption
<1>2. {MaxAccounts, MaxSessions, MaxDedup, MaxTime} \subseteq Nat
  BY SubscriptionsAssumption
<1> QED BY <1>1, <1>2

\* An instant is a number.
LEMMA TimeIs == \A t \in Time : t \in Nat
  BY Numbers DEF Time

\* A quotient and its divisor.
LEMMA Quotient ==
    ASSUME NEW n \in Nat, NEW k \in Nat \ {0}
    PROVE  /\ n \div k \in Nat
           /\ k * (n \div k) <= n
           /\ n < k * (n \div k) + k
  OBVIOUS

\* A product with a positive number keeps the order.
LEMMA Times ==
    ASSUME NEW a \in Int, NEW b \in Int, NEW k \in Nat \ {0}
    PROVE  k * a < k * b => a < b
  OBVIOUS

\* A product of a sum.
LEMMA Distributes ==
    ASSUME NEW a \in Int, NEW b \in Int, NEW c \in Int, NEW k \in Int
    PROVE  k * (a - b + c) = k * a - k * b + k * c
  OBVIOUS

\* A date is a number, and one of the dates.
LEMMA DateIs ==
    \A t \in Time : Date(t) \in Nat /\ Date(t) \in Dates
<1>1. ASSUME NEW t \in Time PROVE t + Zone \in Nat
  BY Numbers, TimeIs
<1> QED BY <1>1, Quotient, Numbers DEF Date, Dates

\* So are all dates.
LEMMA DatesAreNumbers == \A d \in Dates : d \in Nat
  BY DateIs DEF Dates

\* Dates follow the clock.
LEMMA DateGrows ==
    ASSUME NEW t \in Time, NEW u \in Time, t <= u
    PROVE  Date(t) <= Date(u)
<1> DEFINE p == (t + Zone) \div Day
           q == (u + Zone) \div Day
<1>1. /\ t + Zone \in Nat /\ u + Zone \in Nat /\ t + Zone <= u + Zone
      /\ Day \in Nat \ {0}
  BY Numbers, TimeIs
<1>2. /\ p \in Nat /\ q \in Nat
      /\ Day * p <= t + Zone /\ u + Zone < Day * q + Day
  BY <1>1, Quotient
<1>3. Day * (q - 0 + 1) = Day * q - Day * 0 + Day * 1
  BY <1>1, <1>2, Distributes
<1> HIDE DEF p, q
<1>4. Day * p < Day * (q - 0 + 1)
  BY <1>1, <1>2, <1>3
<1>5. p < q - 0 + 1
  BY <1>1, <1>2, <1>4, Times
<1> QED BY <1>2, <1>5 DEF p, q, Date

\* An instant before the cutoff is on a date that is no longer shown.
LEMMA CutoffDate ==
    ASSUME NEW t \in Time, now \in Time, t < Cutoff
    PROVE  Date(t) < FirstDate
<1> DEFINE p == (t + Zone) \div Day
           q == (now + Zone) \div Day
           h == HistoryDays
<1>1. /\ t + Zone \in Nat /\ now + Zone \in Nat
      /\ Day \in Nat \ {0} /\ h \in Nat \ {0} /\ now \in Nat /\ t \in Nat
  BY Numbers, TimeIs
<1>2. /\ p \in Nat /\ q \in Nat
      /\ Day * p <= t + Zone /\ now + Zone < Day * q + Day
  BY <1>1, Quotient
<1>3. /\ Day * (q - h + 1) = Day * q - Day * h + Day * 1
      /\ Day * h = h * Day
  BY <1>1, <1>2, Distributes
<1>4. t < now - h * Day
  BY DEF Cutoff
<1>5. Day * h \in Nat /\ Day * p \in Nat /\ Day * q \in Nat
  BY <1>1, <1>2
<1> HIDE DEF p, q, h
<1>6. Day * p < Day * (q - h + 1)
  BY <1>1, <1>2, <1>3, <1>4, <1>5, Numbers
<1>7. p < q - h + 1
  BY <1>1, <1>2, <1>6, Times
<1> QED BY <1>7 DEF p, q, h, Date, FirstDate

\* Today is shown.
LEMMA FirstDateIs ==
    ASSUME now \in Time
    PROVE  FirstDate \in Int /\ FirstDate <= Date(now)
  BY DateIs, Numbers DEF FirstDate

\* Owners, keys and requests are finitely many, hence what a state holds of them.
LEMMA Finite ==
    /\ IsFiniteSet(Owners) /\ IsFiniteSet(Keys) /\ IsFiniteSet(Requests)
    /\ \A s : IsFiniteSet(Known(s)) /\ IsFiniteSet(Present(s)) /\ IsFiniteSet(Tombstones(s))
<1>1. IsFiniteSet(Owners) /\ IsFiniteSet(Sessions) /\ IsFiniteSet(Requests)
  BY SubscriptionsAssumption, FS_AddElement DEF Owners
<1>2. IsFiniteSet(Keys)
  BY <1>1, FS_Product DEF Keys
<1>3. ASSUME NEW s
      PROVE  IsFiniteSet(Known(s)) /\ IsFiniteSet(Present(s)) /\ IsFiniteSet(Tombstones(s))
  BY <1>1, <1>2, FS_Subset DEF Known, Present, Tombstones
<1> QED BY <1>1, <1>2, <1>3

\* What is counted is a number, and grows with the set it is counted in.
LEMMA Counting ==
    ASSUME NEW S, IsFiniteSet(S), NEW T \in SUBSET S
    PROVE  /\ IsFiniteSet(T)
           /\ Cardinality(T) \in Nat /\ Cardinality(S) \in Nat
           /\ Cardinality(T) <= Cardinality(S)
  BY FS_Subset, FS_CardinalityType

\* One more is counted.
LEMMA CountingOne ==
    ASSUME NEW S, IsFiniteSet(S), NEW x, x \notin S
    PROVE  /\ IsFiniteSet(S \cup {x})
           /\ Cardinality(S) \in Nat
           /\ Cardinality(S \cup {x}) = Cardinality(S) + 1
  BY FS_AddElement, FS_CardinalityType

\* One less is counted.
LEMMA CountingLess ==
    ASSUME NEW S, IsFiniteSet(S), NEW x \in S
    PROVE  /\ Cardinality(S) \in Nat
           /\ Cardinality(S \ {x}) = Cardinality(S) - 1
  BY FS_RemoveElement, FS_CardinalityType

-----------------------------------------------------------------------------
(* What each operation leaves in the state. *)

\* The fields of a state.
LEMMA Fields ==
    ASSUME NEW s \in States
    PROVE  /\ s.accounts \in [Owners -> Account \cup {Absent}]
           /\ s.linked \in Owners \cup {Unlinked}
           /\ s.sessions \in [Keys -> Session \cup {Absent}]
           /\ s.contextAt \in [Keys -> Time \cup {None}]
           /\ s.daily \in [Owners -> [Dates -> Nat]]
           /\ s.local \in [Dates -> Nat]
           /\ s.dedup \in [Requests -> Time \cup {None}]
           /\ s.partial \in BOOLEAN
  BY DEF States

\* Sessions are removed with the time of their context.
LEMMA WithoutIs ==
    ASSUME NEW s \in States, NEW keys \in SUBSET Keys
    PROVE  /\ Without(s, keys) \in States
           /\ Without(s, keys).accounts = s.accounts
           /\ Without(s, keys).linked = s.linked
           /\ Without(s, keys).daily = s.daily
           /\ Without(s, keys).local = s.local
           /\ Without(s, keys).dedup = s.dedup
           /\ \A k \in Keys :
                 /\ Without(s, keys).sessions[k] = IF k \in keys THEN Absent ELSE s.sessions[k]
                 /\ Without(s, keys).contextAt[k] = IF k \in keys THEN None ELSE s.contextAt[k]
  BY Fields DEF Without, States

\* The totals of the dates that are shown.
LEMMA RecentIs ==
    ASSUME NEW days \in [Dates -> Nat]
    PROVE  /\ Recent(days) \in [Dates -> Nat]
           /\ \A d \in Dates : Recent(days)[d] = IF d < FirstDate THEN 0 ELSE days[d]
  BY DEF Recent

\* What is pruned: accounts that expired, old sessions, totals that are no longer shown,
\* old tombstones.
LEMMA PruneIs ==
    ASSUME NEW s \in States
    PROVE  /\ Prune(s) \in States
           /\ Prune(s).linked = s.linked
           /\ \A a \in Owners :
                 /\ Prune(s).accounts[a] = IF a \in Expired(s) THEN Absent ELSE s.accounts[a]
                 /\ \A d \in Dates :
                       Prune(s).daily[a][d] = IF d < FirstDate THEN 0 ELSE s.daily[a][d]
           /\ \A k \in Keys :
                 \/ /\ Prune(s).sessions[k] = s.sessions[k]
                    /\ Prune(s).contextAt[k] = s.contextAt[k]
                 \/ /\ s.sessions[k] # Absent /\ s.sessions[k].at < Cutoff
                    /\ Prune(s).sessions[k] = Absent
                    /\ Prune(s).contextAt[k] = None
           /\ \A d \in Dates : Prune(s).local[d] = IF d < FirstDate THEN 0 ELSE s.local[d]
           /\ \A r \in Requests :
                 Prune(s).dedup[r] = IF s.dedup[r] # None /\ s.dedup[r] < Cutoff
                                     THEN None ELSE s.dedup[r]
<1> DEFINE old == {k \in Present(s) : s.sessions[k].at < Cutoff}
           u == Without(s, old)
           accounts == [a \in Owners |-> IF a \in Expired(s) THEN Absent ELSE u.accounts[a]]
           daily == [a \in Owners |-> Recent(u.daily[a])]
           local == Recent(u.local)
           dedup == [r \in Requests |->
                        IF r \in Tombstones(s) /\ u.dedup[r] < Cutoff THEN None ELSE u.dedup[r]]
<1>1. old \in SUBSET Keys
  BY DEF Present
<1>2. /\ u \in States
      /\ u.accounts = s.accounts /\ u.linked = s.linked /\ u.daily = s.daily
      /\ u.local = s.local /\ u.dedup = s.dedup
  BY <1>1, WithoutIs
<1>3. \A k \in Keys : /\ u.sessions[k] = IF k \in old THEN Absent ELSE s.sessions[k]
                      /\ u.contextAt[k] = IF k \in old THEN None ELSE s.contextAt[k]
  BY <1>1, WithoutIs
<1>4. Prune(s) = [u EXCEPT !.accounts = accounts, !.daily = daily, !.local = local,
                           !.dedup = dedup]
  BY <1>2 DEF Prune, States
<1>5. /\ accounts \in [Owners -> Account \cup {Absent}]
      /\ daily \in [Owners -> [Dates -> Nat]]
      /\ local \in [Dates -> Nat]
      /\ dedup \in [Requests -> Time \cup {None}]
  BY <1>2, Fields, RecentIs
<1>6. /\ \A a \in Owners : accounts[a] = IF a \in Expired(s) THEN Absent ELSE s.accounts[a]
      /\ \A a \in Owners, d \in Dates : daily[a][d] = IF d < FirstDate THEN 0 ELSE s.daily[a][d]
      /\ \A d \in Dates : local[d] = IF d < FirstDate THEN 0 ELSE s.local[d]
      /\ \A r \in Requests : dedup[r] = IF s.dedup[r] # None /\ s.dedup[r] < Cutoff
                                        THEN None ELSE s.dedup[r]
  <2>1. \A a \in Owners : accounts[a] = IF a \in Expired(s) THEN Absent ELSE s.accounts[a]
    BY <1>2
  <2>2. \A a \in Owners, d \in Dates : daily[a][d] = IF d < FirstDate THEN 0 ELSE s.daily[a][d]
    BY <1>2, Fields, RecentIs
  <2>3. \A d \in Dates : local[d] = IF d < FirstDate THEN 0 ELSE s.local[d]
    BY <1>2, Fields, RecentIs
  <2>4. \A r \in Requests : dedup[r] = IF s.dedup[r] # None /\ s.dedup[r] < Cutoff
                                      THEN None ELSE s.dedup[r]
    BY <1>2 DEF Tombstones
  <2> QED BY <2>1, <2>2, <2>3, <2>4
<1>7. \A k \in Keys : k \in old <=> s.sessions[k] # Absent /\ s.sessions[k].at < Cutoff
  BY DEF Present
<1> HIDE DEF old, u, accounts, daily, local, dedup
<1>8. /\ Prune(s).accounts = accounts /\ Prune(s).daily = daily /\ Prune(s).local = local
      /\ Prune(s).dedup = dedup /\ Prune(s).linked = s.linked
      /\ Prune(s).sessions = u.sessions /\ Prune(s).contextAt = u.contextAt
      /\ Prune(s) \in States
  BY <1>2, <1>4, <1>5 DEF States
<1> QED BY <1>3, <1>6, <1>7, <1>8

\* What a disconnect removes: the account, its totals, its sessions, its link.
LEMMA DisconnectIs ==
    ASSUME NEW s \in States, NEW o, o.owner \in Owners
    PROVE  /\ Disconnect(s, o) \in States
           /\ Disconnect(s, o).linked = IF s.linked = o.owner THEN Unlinked ELSE s.linked
           /\ \A a \in Owners :
                 /\ Disconnect(s, o).accounts[a] = IF a = o.owner THEN Absent ELSE s.accounts[a]
                 /\ \A d \in Dates : Disconnect(s, o).daily[a][d] =
                                        IF a = o.owner THEN 0 ELSE s.daily[a][d]
           /\ \A k \in Keys :
                 /\ Disconnect(s, o).sessions[k] =
                       IF k[1] = o.owner THEN Absent ELSE s.sessions[k]
                 /\ Disconnect(s, o).contextAt[k] =
                       IF k[1] = o.owner THEN None ELSE s.contextAt[k]
           /\ Disconnect(s, o).local = s.local
           /\ Disconnect(s, o).dedup = s.dedup
<1> DEFINE own == {k \in Keys : k[1] = o.owner}
           u == Without(s, own)
           accounts == [u.accounts EXCEPT ![o.owner] = Absent]
           daily == [u.daily EXCEPT ![o.owner] = [d \in Dates |-> 0]]
           linked == IF u.linked = o.owner THEN Unlinked ELSE u.linked
<1>1. own \in SUBSET Keys /\ \A k \in Keys : k \in own <=> k[1] = o.owner
  OBVIOUS
<1>2. /\ u \in States
      /\ u.accounts = s.accounts /\ u.linked = s.linked /\ u.daily = s.daily
      /\ u.local = s.local /\ u.dedup = s.dedup
  BY <1>1, WithoutIs
<1>3. \A k \in Keys : /\ u.sessions[k] = IF k \in own THEN Absent ELSE s.sessions[k]
                      /\ u.contextAt[k] = IF k \in own THEN None ELSE s.contextAt[k]
  BY <1>1, WithoutIs
<1>4. Disconnect(s, o) = [u EXCEPT !.accounts = accounts, !.daily = daily, !.linked = linked]
  BY <1>2 DEF Disconnect, States
<1>5. /\ accounts \in [Owners -> Account \cup {Absent}]
      /\ daily \in [Owners -> [Dates -> Nat]]
      /\ linked \in Owners \cup {Unlinked}
  BY <1>2, Fields
<1>6. /\ \A a \in Owners : accounts[a] = IF a = o.owner THEN Absent ELSE s.accounts[a]
      /\ \A a \in Owners, d \in Dates : daily[a][d] = IF a = o.owner THEN 0 ELSE s.daily[a][d]
      /\ linked = IF s.linked = o.owner THEN Unlinked ELSE s.linked
  BY <1>2, Fields
<1> HIDE DEF own, u, accounts, daily, linked
<1>7. /\ Disconnect(s, o).accounts = accounts /\ Disconnect(s, o).daily = daily
      /\ Disconnect(s, o).linked = linked
      /\ Disconnect(s, o).local = u.local /\ Disconnect(s, o).dedup = u.dedup
      /\ Disconnect(s, o).sessions = u.sessions /\ Disconnect(s, o).contextAt = u.contextAt
      /\ Disconnect(s, o) \in States
  BY <1>2, <1>4, <1>5 DEF States
<1> QED BY <1>1, <1>2, <1>3, <1>6, <1>7

\* A record of an account, and of a session, is not the mark of its absence.
LEMMA NotAbsent == Absent \notin Account /\ Absent \notin Session
  BY DEF Absent, Account, Session

\* What the report of an account changes: nothing, or its record and perhaps the link.
LEMMA ObserveAccountIs ==
    ASSUME NEW s \in States, NEW o, o.owner \in Owners, o.mode \in Mode, o.at \in Time
    PROVE  \/ ObserveAccount(s, o) = s
           \/ /\ ObserveAccount(s, o) \in States
              /\ ObserveAccount(s, o).sessions = s.sessions
              /\ ObserveAccount(s, o).contextAt = s.contextAt
              /\ ObserveAccount(s, o).daily = s.daily
              /\ ObserveAccount(s, o).local = s.local
              /\ ObserveAccount(s, o).dedup = s.dedup
              /\ ObserveAccount(s, o).accounts[o.owner] = [mode |-> o.mode, updated |-> o.at]
              /\ \A a \in Owners \ {o.owner} : ObserveAccount(s, o).accounts[a] = s.accounts[a]
              /\ \/ ObserveAccount(s, o).linked = s.linked
                 \/ /\ ObserveAccount(s, o).linked = o.owner
                    /\ \/ LinkedOwner(s) \notin Known(s)
                       \/ o.at >= s.accounts[LinkedOwner(s)].updated
<1> DEFINE new == [mode |-> o.mode, updated |-> o.at]
           accounts == [s.accounts EXCEPT ![o.owner] = new]
           links == \/ LinkedOwner(s) \notin Known(s)
                    \/ o.at >= s.accounts[LinkedOwner(s)].updated
           linked == IF links THEN o.owner ELSE s.linked
<1>1. /\ new \in Account
      /\ accounts \in [Owners -> Account \cup {Absent}]
      /\ accounts[o.owner] = new
      /\ \A a \in Owners \ {o.owner} : accounts[a] = s.accounts[a]
  BY Fields DEF Account
<1>2. linked \in Owners \cup {Unlinked}
  BY Fields
<1>3. \/ ObserveAccount(s, o) = s
      \/ ObserveAccount(s, o) = [s EXCEPT !.accounts = accounts, !.linked = linked]
  BY DEF ObserveAccount, States
<1>4. linked = s.linked \/ (linked = o.owner /\ links)
  OBVIOUS
<1> DEFINE t == [s EXCEPT !.accounts = accounts, !.linked = linked]
<1> HIDE DEF accounts, linked
<1>5. /\ t \in States /\ t.accounts = accounts /\ t.linked = linked
      /\ t.sessions = s.sessions /\ t.contextAt = s.contextAt /\ t.daily = s.daily
      /\ t.local = s.local /\ t.dedup = s.dedup
  BY <1>1, <1>2 DEF States
<1> HIDE DEF t
<1>6. CASE ObserveAccount(s, o) = s
  BY <1>6
<1>7. CASE ObserveAccount(s, o) = t
  BY <1>7, <1>1, <1>4, <1>5
<1> QED BY <1>3, <1>6, <1>7 DEF t

\* What a report that Observe folds in holds.
Observation(o) ==
    /\ o.kind \in Kinds /\ o.owner \in Owners /\ o.at \in Time
    /\ o.kind = "account" => o.mode \in Mode
    /\ o.kind \in {"session", "context", "usage"} =>
          /\ o.session \in Sessions /\ o.source \in Sources
          /\ o.activity \in {"", "running", "completed", "unknown"}
    /\ o.kind = "usage" =>
          /\ o.request \in Requests /\ sent[o.request] = o.at
          /\ o.owner = AccountOf[o.request] /\ o.mode = ModeOf[o.request]
    /\ o.kind # "usage" => o.request = None

\* What the report of a session changes: its record, and the time of its context.
LEMMA ObserveSessionIs ==
    ASSUME NEW s \in States, NEW o, Observation(o), o.kind \in {"session", "context", "usage"}
    PROVE  /\ Key(o) \in Keys
           /\ ObserveSession(s, o) \in States
           /\ ObserveSession(s, o).accounts = s.accounts
           /\ ObserveSession(s, o).linked = s.linked
           /\ ObserveSession(s, o).daily = s.daily
           /\ ObserveSession(s, o).local = s.local
           /\ ObserveSession(s, o).dedup = s.dedup
           /\ ObserveSession(s, o).sessions[Key(o)] # Absent
           /\ \A k \in Keys \ {Key(o)} :
                 /\ ObserveSession(s, o).sessions[k] = s.sessions[k]
                 /\ ObserveSession(s, o).contextAt[k] = s.contextAt[k]
<1> DEFINE k == Key(o)
           old == s.sessions[k]
           fresh == [source |-> o.source, at |-> o.at,
                     activity |-> IF o.activity # "" THEN o.activity
                                  ELSE IF old = Absent THEN "unknown" ELSE old.activity,
                     tokens |-> IF old = Absent THEN 0 ELSE old.tokens]
           one == IF old = Absent \/ o.at >= old.at THEN fresh ELSE old
           at == IF o.kind = "context" /\ NotBefore(o.at, s.contextAt[k])
                 THEN o.at ELSE s.contextAt[k]
           sessions == [s.sessions EXCEPT ![k] = one]
           contextAt == [s.contextAt EXCEPT ![k] = at]
<1>1. k \in Keys
  BY DEF Observation, Key, Keys
<1>2. old \in Session \cup {Absent} /\ s.contextAt[k] \in Time \cup {None}
  BY <1>1, Fields
<1>3. one \in Session
  <2>1. old # Absent => old \in Session
    BY <1>2
  <2>2. fresh.activity \in {"running", "completed", "unknown"} /\ fresh.tokens \in Nat
    BY <2>1 DEF Session, Observation
  <2>3. fresh \in Session
    BY <2>2 DEF Session, Observation
  <2> QED BY <2>1, <2>3
<1>4. at \in Time \cup {None}
  BY <1>2 DEF Observation
<1>5. ObserveSession(s, o) = [s EXCEPT !.sessions = sessions, !.contextAt = contextAt]
  BY DEF ObserveSession, States
<1>6. /\ sessions \in [Keys -> Session \cup {Absent}] /\ sessions[k] = one
      /\ contextAt \in [Keys -> Time \cup {None}]
      /\ \A l \in Keys \ {k} : sessions[l] = s.sessions[l] /\ contextAt[l] = s.contextAt[l]
  <2> HIDE DEF one, at, k
  <2> QED BY <1>1, <1>3, <1>4, Fields
<1>7. one # Absent
  <2> HIDE DEF one
  <2> QED BY <1>3, NotAbsent
<1> HIDE DEF sessions, contextAt, one, at
<1>8. /\ ObserveSession(s, o) \in States
      /\ ObserveSession(s, o).accounts = s.accounts /\ ObserveSession(s, o).linked = s.linked
      /\ ObserveSession(s, o).daily = s.daily /\ ObserveSession(s, o).local = s.local
      /\ ObserveSession(s, o).dedup = s.dedup
      /\ ObserveSession(s, o).sessions = sessions
      /\ ObserveSession(s, o).contextAt = contextAt
  BY <1>5, <1>6 DEF States
<1> QED BY <1>1, <1>6, <1>7, <1>8

\* A request that is new: its session holds one token more, its tombstone is left, and
\* only the totals of its owner and date may change.
Spends(s, o, t) ==
    /\ t \in States
    /\ t.accounts = s.accounts /\ t.linked = s.linked /\ t.contextAt = s.contextAt
    /\ \A k \in Keys : t.sessions[k] = Absent <=> s.sessions[k] = Absent
    /\ t.dedup = [s.dedup EXCEPT ![o.request] = o.at]
    /\ \A d \in Dates \ {Date(o.at)} : t.local[d] = s.local[d]
    /\ t.local[Date(o.at)] =
          IF o.owner = None /\ o.mode # "api" /\ Date(o.at) >= FirstDate
          THEN s.local[Date(o.at)] + 1 ELSE s.local[Date(o.at)]
    /\ \A a \in Owners, d \in Dates :
          \/ t.daily[a][d] = s.daily[a][d]
          \/ a = o.owner /\ d = Date(o.at) /\ t.daily[a][d] = s.daily[a][d] + 1

\* What the report of a request changes.
LEMMA ObserveUsageIs ==
    ASSUME NEW s \in States, NEW o, Observation(o), o.kind = "usage",
           s.sessions[Key(o)] # Absent, o.request \notin Tombstones(s)
    PROVE  Spends(s, o, ObserveUsage(s, o))
<1> DEFINE t == ObserveUsage(s, o)
           k == Key(o)
           d0 == Date(o.at)
           local == [s.local EXCEPT ![d0] =
                        IF o.owner = None /\ o.mode # "api" /\ d0 >= FirstDate
                        THEN @ + 1 ELSE @]
           sessions == [s.sessions EXCEPT ![k].tokens = @ + 1]
           daily == [s.daily EXCEPT ![o.owner][d0] =
                        IF /\ o.owner \in Known(s) /\ s.accounts[o.owner].mode = "subscription"
                           /\ d0 >= FirstDate
                        THEN @ + 1 ELSE @]
           dedup == [s.dedup EXCEPT ![o.request] = o.at]
<1>1. k \in Keys /\ d0 \in Dates /\ o.owner \in Owners /\ o.request \in Requests
      /\ o.at \in Time
  BY DateIs DEF Observation, Key, Keys
<1>2. t = [s EXCEPT !.local = local, !.sessions = sessions, !.daily = daily, !.dedup = dedup]
  BY DEF ObserveUsage, States
<1>3. /\ s.sessions[k] \in Session
      /\ [s.sessions[k] EXCEPT !.tokens = @ + 1] \in Session
  BY <1>1, Fields DEF Session
<1>4. /\ sessions \in [Keys -> Session \cup {Absent}]
      /\ \A l \in Keys : sessions[l] = Absent <=> s.sessions[l] = Absent
  BY <1>1, <1>3, Fields, NotAbsent
<1>5. /\ local \in [Dates -> Nat]
      /\ \A d \in Dates \ {d0} : local[d] = s.local[d]
      /\ local[d0] = IF o.owner = None /\ o.mode # "api" /\ d0 >= FirstDate
                     THEN s.local[d0] + 1 ELSE s.local[d0]
  BY <1>1, Fields
<1>6. /\ daily \in [Owners -> [Dates -> Nat]]
      /\ \A a \in Owners, d \in Dates :
            \/ daily[a][d] = s.daily[a][d]
            \/ a = o.owner /\ d = d0 /\ daily[a][d] = s.daily[a][d] + 1
  BY <1>1, Fields
<1>7. dedup \in [Requests -> Time \cup {None}]
  BY <1>1, Fields
<1> HIDE DEF local, sessions, daily, dedup
<1>8. /\ t \in States
      /\ t.accounts = s.accounts /\ t.linked = s.linked /\ t.contextAt = s.contextAt
      /\ t.sessions = sessions /\ t.local = local /\ t.daily = daily /\ t.dedup = dedup
  BY <1>2, <1>4, <1>5, <1>6, <1>7 DEF States
<1> HIDE DEF t
<1>9. Spends(s, o, t)
  BY <1>4, <1>5, <1>6, <1>8 DEF dedup, Spends
<1> QED BY <1>9 DEF t

-----------------------------------------------------------------------------
(* What keeps a state sound. *)

\* Requests that are counted are finitely many.
LEMMA OfIs ==
    \A s, a, d : /\ IsFiniteSet(Of(a, d, Tombstones(s))) /\ IsFiniteSet(LocalOf(s, d))
                 /\ Cardinality(Of(a, d, Tombstones(s))) \in Nat
                 /\ Cardinality(LocalOf(s, d)) \in Nat
<1>1. ASSUME NEW s, NEW a, NEW d
      PROVE  /\ Of(a, d, Tombstones(s)) \in SUBSET Requests
             /\ LocalOf(s, d) \in SUBSET Requests
  BY DEF Of, LocalOf, Tombstones
<1> QED BY <1>1, Finite, Counting

\* Totals stay sound while the tombstones stay and totals only go to zero.
LEMMA KeepsCounted ==
    ASSUME NEW s \in States, NEW t \in States, Counted(s),
           t.dedup = s.dedup, t.local = s.local,
           \A a \in Owners, d \in Dates :
               t.daily[a][d] = s.daily[a][d] \/ t.daily[a][d] = 0
    PROVE  /\ Counted(t)
           /\ \A requests : Remembers(s, requests) => Remembers(t, requests)
<1>1. Tombstones(t) = Tombstones(s)
  BY DEF Tombstones
<1>2. \A a, d : /\ Of(a, d, Tombstones(t)) = Of(a, d, Tombstones(s))
                /\ LocalOf(t, d) = LocalOf(s, d)
  BY <1>1 DEF LocalOf
<1>3. ASSUME NEW a \in Owners, NEW d \in Dates
      PROVE  t.daily[a][d] <= Cardinality(Of(a, d, Tombstones(t)))
  BY <1>2, OfIs DEF Counted
<1>4. \A d \in Dates : /\ t.local[d] <= Cardinality(LocalOf(t, d))
                       /\ d >= FirstDate => t.local[d] = Cardinality(LocalOf(t, d))
  BY <1>2 DEF Counted
<1>5. \A r \in Requests : t.dedup[r] # None => t.dedup[r] = sent[r]
  BY DEF Counted
<1> QED BY <1>3, <1>4, <1>5 DEF Counted, Remembers

\* Limits hold on while nothing is added.
LEMMA KeepsWithin ==
    ASSUME NEW s \in States, NEW t \in States, Within(s),
           Known(t) \subseteq Known(s), Present(t) \subseteq Present(s),
           Tombstones(t) \subseteq Tombstones(s),
           \A k \in Keys : t.contextAt[k] # None => t.sessions[k] # Absent,
           t.linked # Unlinked => t.linked \in Known(t)
    PROVE  Within(t)
<1>1. /\ Cardinality(Known(t)) <= Cardinality(Known(s))
      /\ Cardinality(Present(t)) <= Cardinality(Present(s))
      /\ Cardinality(Tombstones(t)) <= Cardinality(Tombstones(s))
      /\ {Cardinality(Known(t)), Cardinality(Present(t)), Cardinality(Tombstones(t)),
          Cardinality(Known(s)), Cardinality(Present(s)), Cardinality(Tombstones(s))} \subseteq Nat
  BY Finite, Counting
<1> QED BY <1>1, Numbers DEF Within

\* Sessions that go take their contexts with them, and nothing else.
LEMMA WithoutSound ==
    ASSUME NEW s, Sound(s), NEW keys \in SUBSET Keys
    PROVE  /\ Sound(Without(s, keys))
           /\ Known(Without(s, keys)) = Known(s)
           /\ Tombstones(Without(s, keys)) = Tombstones(s)
           /\ Present(Without(s, keys)) = Present(s) \ keys
<1> DEFINE t == Without(s, keys)
<1>1. s \in States
  BY DEF Sound
<1>2. /\ t \in States
      /\ t.accounts = s.accounts /\ t.linked = s.linked /\ t.daily = s.daily
      /\ t.local = s.local /\ t.dedup = s.dedup
      /\ \A k \in Keys : /\ t.sessions[k] = IF k \in keys THEN Absent ELSE s.sessions[k]
                         /\ t.contextAt[k] = IF k \in keys THEN None ELSE s.contextAt[k]
  BY <1>1, WithoutIs
<1> HIDE DEF t
<1>3. /\ Known(t) = Known(s) /\ Tombstones(t) = Tombstones(s)
      /\ Present(t) = Present(s) \ keys
  BY <1>2 DEF Known, Tombstones, Present
<1>4. Within(t)
  <2>1. Within(s)
    BY DEF Sound
  <2>2. \A k \in Keys : t.contextAt[k] # None => t.sessions[k] # Absent
    BY <1>2, <2>1 DEF Within
  <2>3. t.linked # Unlinked => t.linked \in Known(t)
    BY <1>2, <1>3, <2>1 DEF Within
  <2> QED BY <1>1, <1>2, <1>3, <2>1, <2>2, <2>3, KeepsWithin
<1>5. Counted(t) /\ Remembers(t, counted)
  <2>1. Counted(s) /\ Remembers(s, counted)
    BY DEF Sound
  <2> QED BY <1>1, <1>2, <2>1, KeepsCounted
<1> QED BY <1>2, <1>3, <1>4, <1>5 DEF Sound, t

\* A disconnect keeps the tombstones: what is removed is not counted again.
LEMMA DisconnectSound ==
    ASSUME NEW s, Sound(s), NEW o, o.owner \in Owners
    PROVE  Sound(Disconnect(s, o))
<1> DEFINE t == Disconnect(s, o)
<1>1. s \in States
  BY DEF Sound
<1>2. /\ t \in States
      /\ t.linked = IF s.linked = o.owner THEN Unlinked ELSE s.linked
      /\ \A a \in Owners : t.accounts[a] = IF a = o.owner THEN Absent ELSE s.accounts[a]
      /\ \A a \in Owners, d \in Dates :
            t.daily[a][d] = IF a = o.owner THEN 0 ELSE s.daily[a][d]
      /\ \A k \in Keys :
            /\ t.sessions[k] = IF k[1] = o.owner THEN Absent ELSE s.sessions[k]
            /\ t.contextAt[k] = IF k[1] = o.owner THEN None ELSE s.contextAt[k]
      /\ t.local = s.local /\ t.dedup = s.dedup
  BY <1>1, DisconnectIs
<1> HIDE DEF t
<1>3. Within(s) /\ Counted(s) /\ Remembers(s, counted)
  BY DEF Sound
<1>4. /\ Known(t) \subseteq Known(s) /\ Tombstones(t) = Tombstones(s)
      /\ Present(t) \subseteq Present(s)
  BY <1>2 DEF Known, Tombstones, Present
<1>5. \A k \in Keys : t.contextAt[k] # None => t.sessions[k] # Absent
  BY <1>2, <1>3 DEF Within
<1>6. t.linked # Unlinked => t.linked \in Known(t)
  BY <1>2, <1>3 DEF Within, Known
<1>7. Within(t)
  BY <1>1, <1>2, <1>3, <1>4, <1>5, <1>6, KeepsWithin
<1>8. Counted(t) /\ Remembers(t, counted)
  BY <1>1, <1>2, <1>3, KeepsCounted
<1> QED BY <1>2, <1>7, <1>8 DEF Sound, t

\* There is room for what an observation adds.
Room(s, o) ==
    /\ o.kind = "account" /\ o.owner \notin Known(s) => Cardinality(Known(s)) < MaxAccounts
    /\ /\ o.kind \in {"session", "context", "usage"} /\ ~Closes(o)
       /\ Key(o) \notin Present(s)
       => Cardinality(Present(s)) < MaxSessions
    /\ o.kind = "usage" /\ o.request \notin Tombstones(s) =>
          Cardinality(Tombstones(s)) < MaxDedup

\* An account is added where there is room, and the linked one is known.
LEMMA ObserveAccountSound ==
    ASSUME NEW s, Sound(s), NEW o, Observation(o), o.kind = "account", Room(s, o)
    PROVE  Sound(ObserveAccount(s, o))
<1>1. s \in States /\ Within(s) /\ Counted(s) /\ Remembers(s, counted)
  BY DEF Sound
<1>2. o.owner \in Owners /\ o.mode \in Mode /\ o.at \in Time
  BY DEF Observation
<1>3. CASE ObserveAccount(s, o) = s
  BY <1>3
<1>4. CASE ObserveAccount(s, o) # s
  <2> DEFINE t == ObserveAccount(s, o)
             new == [mode |-> o.mode, updated |-> o.at]
  <2>1. /\ t \in States
        /\ t.sessions = s.sessions /\ t.contextAt = s.contextAt /\ t.daily = s.daily
        /\ t.local = s.local /\ t.dedup = s.dedup
        /\ t.accounts[o.owner] = new
        /\ \A a \in Owners \ {o.owner} : t.accounts[a] = s.accounts[a]
        /\ t.linked = s.linked \/ t.linked = o.owner
    BY <1>1, <1>2, <1>4, ObserveAccountIs
  <2>2. new # Absent
    BY <1>2, NotAbsent DEF Account
  <2> HIDE DEF t, new
  <2>3. /\ Known(t) = Known(s) \cup {o.owner} /\ Present(t) = Present(s)
        /\ Tombstones(t) = Tombstones(s)
    BY <1>2, <2>1, <2>2 DEF Known, Present, Tombstones
  <2>4. Cardinality(Known(t)) <= MaxAccounts
    <3>1. CASE o.owner \in Known(s)
      <4>1. Known(t) = Known(s)
        BY <3>1, <2>3
      <4> QED BY <4>1, <1>1 DEF Within
    <3>2. CASE o.owner \notin Known(s)
      <4>1. /\ Cardinality(Known(s)) \in Nat
            /\ Cardinality(Known(t)) = Cardinality(Known(s)) + 1
        BY <3>2, <2>3, Finite, CountingOne
      <4>2. Cardinality(Known(s)) < MaxAccounts
        BY <3>2 DEF Room
      <4> QED BY <4>1, <4>2, Numbers
    <3> QED BY <3>1, <3>2
  <2>5. Within(t)
    BY <1>1, <2>1, <2>3, <2>4 DEF Within
  <2>6. Counted(t) /\ Remembers(t, counted)
    BY <1>1, <2>1, KeepsCounted
  <2> QED BY <2>1, <2>5, <2>6 DEF Sound, t
<1> QED BY <1>3, <1>4

\* A session is added where there is room.
LEMMA ObserveSessionSound ==
    ASSUME NEW s, Sound(s), NEW o, Observation(o),
           o.kind \in {"session", "context", "usage"}, ~Closes(o), Room(s, o)
    PROVE  Sound(ObserveSession(s, o))
<1> DEFINE t == ObserveSession(s, o)
<1>1. s \in States /\ Within(s) /\ Counted(s) /\ Remembers(s, counted)
  BY DEF Sound
<1>2. /\ Key(o) \in Keys /\ t \in States
      /\ t.accounts = s.accounts /\ t.linked = s.linked /\ t.daily = s.daily
      /\ t.local = s.local /\ t.dedup = s.dedup
      /\ t.sessions[Key(o)] # Absent
      /\ \A k \in Keys \ {Key(o)} : /\ t.sessions[k] = s.sessions[k]
                                    /\ t.contextAt[k] = s.contextAt[k]
  BY <1>1, ObserveSessionIs
<1> HIDE DEF t
<1>3. /\ Known(t) = Known(s) /\ Present(t) = Present(s) \cup {Key(o)}
      /\ Tombstones(t) = Tombstones(s)
  BY <1>2 DEF Known, Present, Tombstones
<1>4. Cardinality(Present(t)) <= MaxSessions
  <2>1. CASE Key(o) \in Present(s)
    <3>1. Present(t) = Present(s)
      BY <2>1, <1>3
    <3> QED BY <3>1, <1>1 DEF Within
  <2>2. CASE Key(o) \notin Present(s)
    <3>1. /\ Cardinality(Present(s)) \in Nat
          /\ Cardinality(Present(t)) = Cardinality(Present(s)) + 1
      BY <2>2, <1>3, Finite, CountingOne
    <3>2. Cardinality(Present(s)) < MaxSessions
      BY <2>2 DEF Room
    <3> QED BY <3>1, <3>2, Numbers
  <2> QED BY <2>1, <2>2
<1>5. \A k \in Keys : t.contextAt[k] # None => t.sessions[k] # Absent
  BY <1>1, <1>2 DEF Within
<1>6. Within(t)
  BY <1>1, <1>2, <1>3, <1>4, <1>5 DEF Within
<1>7. Counted(t) /\ Remembers(t, counted)
  BY <1>1, <1>2, KeepsCounted
<1> QED BY <1>2, <1>6, <1>7 DEF Sound, t

\* A request is counted when its tombstone is left, hence once.
LEMMA ObserveUsageSound ==
    ASSUME NEW s, Sound(s), NEW o, Observation(o), o.kind = "usage",
           s.sessions[Key(o)] # Absent, Room(s, o), counted \subseteq Requests
    PROVE  /\ Sound(ObserveUsage(s, o))
           /\ ObserveUsage(s, o).dedup[o.request] # None
<1>1. s \in States /\ Within(s) /\ Counted(s) /\ Remembers(s, counted)
  BY DEF Sound
<1>2. CASE o.request \in Tombstones(s)
  BY <1>2, <1>1 DEF ObserveUsage, Tombstones
<1>3. CASE o.request \notin Tombstones(s)
  <2> DEFINE t == ObserveUsage(s, o)
             r == o.request
             d0 == Date(o.at)
  <2>1. /\ t \in States
        /\ t.accounts = s.accounts /\ t.linked = s.linked /\ t.contextAt = s.contextAt
        /\ \A k \in Keys : t.sessions[k] = Absent <=> s.sessions[k] = Absent
        /\ t.dedup = [s.dedup EXCEPT ![r] = o.at]
        /\ \A d \in Dates \ {d0} : t.local[d] = s.local[d]
        /\ t.local[d0] = IF o.owner = None /\ o.mode # "api" /\ d0 >= FirstDate
                         THEN s.local[d0] + 1 ELSE s.local[d0]
        /\ \A a \in Owners, d \in Dates :
              \/ t.daily[a][d] = s.daily[a][d]
              \/ a = o.owner /\ d = d0 /\ t.daily[a][d] = s.daily[a][d] + 1
    BY <1>1, <1>3, ObserveUsageIs DEF Spends
  <2>2. /\ r \in Requests /\ sent[r] = o.at /\ o.at # None /\ o.at \in Time
        /\ o.owner = AccountOf[r] /\ o.mode = ModeOf[r] /\ d0 \in Dates
    BY SubscriptionsAssumption, DateIs DEF Observation
  <2>3. s.dedup \in [Requests -> Time \cup {None}] /\ s.dedup[r] = None
    BY <1>1, <1>3, <2>2, Fields DEF Tombstones
  <2> HIDE DEF t
  <2>4. t.dedup[r] = o.at /\ \A q \in Requests \ {r} : t.dedup[q] = s.dedup[q]
    BY <2>1, <2>2, <2>3
  <2>5. /\ Known(t) = Known(s) /\ Present(t) = Present(s)
        /\ Tombstones(t) = Tombstones(s) \cup {r} /\ r \notin Tombstones(s)
    BY <1>3, <2>1, <2>2, <2>4 DEF Known, Present, Tombstones
  <2>6. Cardinality(Tombstones(t)) <= MaxDedup
    <3>1. /\ Cardinality(Tombstones(s)) \in Nat
          /\ Cardinality(Tombstones(t)) = Cardinality(Tombstones(s)) + 1
      BY <2>5, Finite, CountingOne
    <3>2. Cardinality(Tombstones(s)) < MaxDedup
      BY <2>5 DEF Room
    <3> QED BY <3>1, <3>2, Numbers
  <2>7. Within(t)
    BY <1>1, <2>1, <2>5, <2>6 DEF Within
  <2>8. \A q \in Requests : t.dedup[q] # None => t.dedup[q] = sent[q]
    BY <1>1, <2>2, <2>4 DEF Counted
  <2>9. ASSUME NEW a \in Owners, NEW d \in Dates
        PROVE  t.daily[a][d] <= Cardinality(Of(a, d, Tombstones(t)))
    <3>1. /\ s.daily[a][d] <= Cardinality(Of(a, d, Tombstones(s)))
          /\ s.daily[a][d] \in Nat
      BY <1>1, Fields DEF Counted
    <3>2. CASE a = o.owner /\ d = d0
      <4>1. Of(a, d, Tombstones(t)) = Of(a, d, Tombstones(s)) \cup {r}
        BY <3>2, <2>2, <2>5 DEF Of
      <4>2. r \notin Of(a, d, Tombstones(s))
        BY <2>5 DEF Of
      <4>3. Cardinality(Of(a, d, Tombstones(t))) = Cardinality(Of(a, d, Tombstones(s))) + 1
        BY <4>1, <4>2, OfIs, CountingOne
      <4>4. t.daily[a][d] = s.daily[a][d] \/ t.daily[a][d] = s.daily[a][d] + 1
        BY <2>1
      <4> QED BY <3>1, <4>3, <4>4, OfIs
    <3>3. CASE ~(a = o.owner /\ d = d0)
      <4>1. Of(a, d, Tombstones(t)) = Of(a, d, Tombstones(s))
        BY <3>3, <2>2, <2>5 DEF Of
      <4>2. t.daily[a][d] = s.daily[a][d]
        BY <3>3, <2>1
      <4> QED BY <3>1, <4>1, <4>2
    <3> QED BY <3>2, <3>3
  <2>10. ASSUME NEW d \in Dates
         PROVE  /\ t.local[d] <= Cardinality(LocalOf(t, d))
                /\ d >= FirstDate => t.local[d] = Cardinality(LocalOf(t, d))
    <3>1. /\ s.local[d] <= Cardinality(LocalOf(s, d))
          /\ d >= FirstDate => s.local[d] = Cardinality(LocalOf(s, d))
          /\ s.local[d] \in Nat
      BY <1>1, Fields DEF Counted
    <3>2. CASE o.owner = None /\ o.mode # "api" /\ d = d0
      <4>1. LocalOf(t, d) = LocalOf(s, d) \cup {r}
        BY <3>2, <2>2, <2>5 DEF Of, LocalOf
      <4>2. r \notin LocalOf(s, d)
        BY <2>5 DEF Of, LocalOf
      <4>3. Cardinality(LocalOf(t, d)) = Cardinality(LocalOf(s, d)) + 1
        BY <4>1, <4>2, OfIs, CountingOne
      <4>4. t.local[d] = IF d >= FirstDate THEN s.local[d] + 1 ELSE s.local[d]
        BY <3>2, <2>1
      <4>5. Cardinality(LocalOf(s, d)) \in Nat
        BY OfIs
      <4> QED BY <3>1, <4>3, <4>4, <4>5
    <3>3. CASE ~(o.owner = None /\ o.mode # "api" /\ d = d0)
      <4>1. LocalOf(t, d) = LocalOf(s, d)
        BY <3>3, <2>2, <2>5 DEF Of, LocalOf
      <4>2. t.local[d] = s.local[d]
        BY <3>3, <2>1
      <4> QED BY <3>1, <4>1, <4>2
    <3> QED BY <3>2, <3>3
  <2>11. Counted(t)
    BY <2>8, <2>9, <2>10 DEF Counted
  <2>12. Remembers(t, counted)
    BY <1>1, <2>2, <2>4 DEF Remembers
  <2> QED BY <2>1, <2>2, <2>4, <2>7, <2>11, <2>12 DEF Sound, t
<1> QED BY <1>2, <1>3

\* The end of a session removes it at most.
LEMMA CloseSessionSound ==
    ASSUME NEW s, Sound(s), NEW o, Observation(o), o.kind = "session"
    PROVE  Sound(CloseSession(s, o))
<1>1. o.owner \in Owners /\ o.session \in Sessions
  BY DEF Observation
<1>2. Key(o) \in Keys
  BY <1>1 DEF Key, Keys
<1>3. {Key(o)} \in SUBSET Keys
  BY <1>2
<1> QED BY <1>3, WithoutSound DEF CloseSession

\* A tombstone goes after its date is no longer shown, when its totals are gone.
LEMMA PruneSound ==
    ASSUME NEW s, Sound(s), now \in Time, counted \subseteq Requests
    PROVE  Sound(Prune(s))
<1> DEFINE t == Prune(s)
<1>1. s \in States /\ Within(s) /\ Counted(s) /\ Remembers(s, counted)
  BY DEF Sound
<1>2. /\ t \in States /\ t.linked = s.linked
      /\ \A a \in Owners :
            /\ t.accounts[a] = IF a \in Expired(s) THEN Absent ELSE s.accounts[a]
            /\ \A d \in Dates : t.daily[a][d] = IF d < FirstDate THEN 0 ELSE s.daily[a][d]
      /\ \A k \in Keys : \/ /\ t.sessions[k] = s.sessions[k]
                            /\ t.contextAt[k] = s.contextAt[k]
                         \/ t.sessions[k] = Absent /\ t.contextAt[k] = None
      /\ \A d \in Dates : t.local[d] = IF d < FirstDate THEN 0 ELSE s.local[d]
      /\ \A r \in Requests : t.dedup[r] = IF s.dedup[r] # None /\ s.dedup[r] < Cutoff
                                          THEN None ELSE s.dedup[r]
  BY <1>1, PruneIs
<1> HIDE DEF t
<1>3. /\ Known(t) \subseteq Known(s) /\ Present(t) \subseteq Present(s)
      /\ Tombstones(t) \subseteq Tombstones(s)
  BY <1>2 DEF Known, Present, Tombstones
<1>4. \A k \in Keys : t.contextAt[k] # None => t.sessions[k] # Absent
  BY <1>1, <1>2 DEF Within
<1>5. t.linked # Unlinked => t.linked \in Known(t)
  BY <1>1, <1>2 DEF Within, Known, Expired, LinkedOwner
<1>6. Within(t)
  BY <1>1, <1>2, <1>3, <1>4, <1>5, KeepsWithin
<1>7. ASSUME NEW r \in Requests, s.dedup[r] # None, t.dedup[r] = None
      PROVE  sent[r] \in Time /\ Date(sent[r]) < FirstDate
  <2>1. s.dedup[r] \in Time /\ s.dedup[r] < Cutoff /\ sent[r] = s.dedup[r]
    BY <1>1, <1>2, <1>7, Fields DEF Counted
  <2> QED BY <2>1, CutoffDate
<1>8. \A r \in Requests : t.dedup[r] # None => t.dedup[r] = sent[r]
  BY <1>1, <1>2 DEF Counted
<1>9. FirstDate \in Int /\ \A d \in Dates : d \in Nat
  BY FirstDateIs, DatesAreNumbers
<1>10. ASSUME NEW a, NEW d \in Dates, d >= FirstDate
       PROVE  /\ Of(a, d, Tombstones(t)) = Of(a, d, Tombstones(s))
              /\ LocalOf(t, d) = LocalOf(s, d)
  <2>1. ASSUME NEW r \in Requests, r \in Tombstones(s), sent[r] # None, Date(sent[r]) = d
        PROVE  r \in Tombstones(t)
    BY <1>7, <1>9, <1>10, <2>1 DEF Tombstones
  <2>2. \A r \in Tombstones(s) : r \in Requests
    BY DEF Tombstones
  <2> QED BY <1>3, <2>1, <2>2 DEF Of, LocalOf
<1>11. ASSUME NEW a \in Owners, NEW d \in Dates
       PROVE  t.daily[a][d] <= Cardinality(Of(a, d, Tombstones(t)))
  <2>1. CASE d < FirstDate
    BY <2>1, <1>2, OfIs
  <2>2. CASE d >= FirstDate
    BY <2>2, <1>1, <1>2, <1>9, <1>10 DEF Counted
  <2> QED BY <2>1, <2>2, <1>9
<1>12. ASSUME NEW d \in Dates
       PROVE  /\ t.local[d] <= Cardinality(LocalOf(t, d))
              /\ d >= FirstDate => t.local[d] = Cardinality(LocalOf(t, d))
  <2>1. CASE d < FirstDate
    BY <2>1, <1>2, <1>9, OfIs
  <2>2. CASE d >= FirstDate
    BY <2>2, <1>1, <1>2, <1>9, <1>10 DEF Counted
  <2> QED BY <2>1, <2>2, <1>9
<1>13. Counted(t)
  BY <1>8, <1>11, <1>12 DEF Counted
<1>14. Remembers(t, counted)
  <2>1. ASSUME NEW r \in counted
        PROVE  sent[r] # None /\ (Date(sent[r]) >= FirstDate => t.dedup[r] # None)
    <3>1. /\ r \in Requests /\ sent[r] # None
          /\ Date(sent[r]) >= FirstDate => s.dedup[r] # None
      BY <1>1 DEF Remembers
    <3>2. ASSUME Date(sent[r]) >= FirstDate, t.dedup[r] = None
          PROVE  FALSE
      <4>1. sent[r] \in Time /\ Date(sent[r]) < FirstDate
        BY <3>1, <3>2, <1>7
      <4> QED BY <4>1, <3>2, <1>9, DateIs
    <3> QED BY <3>1, <3>2
  <2> QED BY <2>1 DEF Remembers
<1> QED BY <1>2, <1>6, <1>13, <1>14 DEF Sound, t

\* Every observation that fits keeps the state sound, and a request it brings remembered.
LEMMA FoldSound ==
    ASSUME NEW s, Sound(s), NEW o, Observation(o), Room(s, o), counted \subseteq Requests
    PROVE  /\ Sound(Fold(s, o))
           /\ Remembers(Fold(s, o), {o.request} \ {None})
<1>1. CASE o.kind = "disconnect"
  <2>1. Fold(s, o) = Disconnect(s, o) /\ o.request = None
    BY <1>1 DEF Fold, Observation
  <2> QED BY <2>1, DisconnectSound DEF Observation, Remembers
<1>2. CASE o.kind = "account"
  <2>1. Fold(s, o) = ObserveAccount(s, o) /\ o.request = None
    BY <1>2 DEF Fold, Observation
  <2> QED BY <1>2, <2>1, ObserveAccountSound DEF Remembers
<1>3. CASE o.kind = "usage"
  <2> DEFINE u == ObserveSession(s, o)
  <2>1. Fold(s, o) = ObserveUsage(u, o) /\ ~Closes(o)
    BY <1>3 DEF Fold, Closes
  <2>2. s \in States
    BY DEF Sound
  <2>3. Sound(u)
    BY <1>3, <2>1, ObserveSessionSound
  <2>4. u.dedup = s.dedup /\ u.sessions[Key(o)] # Absent
    BY <1>3, <2>2, ObserveSessionIs
  <2>5. Tombstones(u) = Tombstones(s)
    BY <2>4 DEF Tombstones
  <2>6. Key(o) \in Keys
    BY <1>3, <2>2, ObserveSessionIs
  <2>7. Key(o) \in Present(u)
    BY <2>4, <2>6 DEF Present
  <2>8. Room(u, o)
    BY <1>3, <2>5, <2>7 DEF Room
  <2> HIDE DEF u
  <2>9. Sound(ObserveUsage(u, o)) /\ ObserveUsage(u, o).dedup[o.request] # None
    BY <1>3, <2>3, <2>4, <2>8, ObserveUsageSound
  <2>10. sent[o.request] # None
    BY <1>3, SubscriptionsAssumption DEF Observation
  <2> QED BY <2>1, <2>9, <2>10 DEF Remembers
<1>4. CASE o.kind \in {"session", "context"} /\ Closes(o)
  <2>1. Fold(s, o) = CloseSession(s, o) /\ o.request = None /\ o.kind = "session"
    BY <1>4 DEF Fold, Observation, Closes
  <2> QED BY <2>1, CloseSessionSound DEF Remembers
<1>5. CASE o.kind \in {"session", "context"} /\ ~Closes(o)
  <2>1. Fold(s, o) = ObserveSession(s, o) /\ o.request = None
    BY <1>5 DEF Fold, Observation
  <2> QED BY <1>5, <2>1, ObserveSessionSound DEF Remembers
<1> QED BY <1>1, <1>2, <1>3, <1>4, <1>5 DEF Observation, Kinds

-----------------------------------------------------------------------------
(* What an observation does to the link, and to sessions. *)

\* A request changes neither link nor which sessions there are.
LEMMA UsageKeeps ==
    ASSUME NEW s \in States, NEW o, Observation(o), o.kind = "usage",
           s.sessions[Key(o)] # Absent, o.request \notin Tombstones(s)
    PROVE  /\ ObserveUsage(s, o).linked = s.linked
           /\ \A k \in Keys : ObserveUsage(s, o).sessions[k] = Absent <=> s.sessions[k] = Absent
  BY ObserveUsageIs DEF Spends

\* Each operation, from the state it is given.
LEMMA FoldKeeps ==
    ASSUME NEW s, Sound(s), NEW o, Observation(o)
    PROVE  /\ LinkKept(s, Fold(s, o))
           /\ \A k \in Keys : s.sessions[k] # Absent /\ Fold(s, o).sessions[k] = Absent =>
                 \/ Closes(o) /\ k = Key(o)
                 \/ o.kind = "disconnect" /\ k[1] = o.owner
<1>1. s \in States /\ Within(s) /\ o.owner \in Owners /\ o.at \in Time
  BY DEF Sound, Observation
<1>2. CASE o.kind = "disconnect"
  <2> DEFINE t == Disconnect(s, o)
  <2>1. Fold(s, o) = t
    BY <1>2 DEF Fold
  <2>2. /\ t.linked = IF s.linked = o.owner THEN Unlinked ELSE s.linked
        /\ \A k \in Keys : t.sessions[k] = IF k[1] = o.owner THEN Absent ELSE s.sessions[k]
    BY <1>1, DisconnectIs
  <2> HIDE DEF t
  <2>3. Unlinked \notin Accounts
    BY SubscriptionsAssumption DEF Owners
  <2> QED BY <1>2, <2>1, <2>2, <2>3 DEF LinkKept
<1>3. CASE o.kind = "account"
  <2> DEFINE t == ObserveAccount(s, o)
             new == [mode |-> o.mode, updated |-> o.at]
  <2>1. Fold(s, o) = t /\ o.mode \in Mode
    BY <1>3 DEF Fold, Observation
  <2>2. CASE t = s
    BY <2>1, <2>2 DEF LinkKept
  <2>3. CASE t # s
    <3>1. /\ t.sessions = s.sessions
          /\ t.accounts[o.owner] = new
          /\ \/ t.linked = s.linked
             \/ /\ t.linked = o.owner
                /\ \/ LinkedOwner(s) \notin Known(s)
                   \/ o.at >= s.accounts[LinkedOwner(s)].updated
      BY <1>1, <2>1, <2>3, ObserveAccountIs
    <3> HIDE DEF t
    <3>2. ASSUME s.linked \in Accounts
          PROVE  LinkedOwner(s) = s.linked /\ s.linked \in Known(s)
      BY <1>1, <3>2, SubscriptionsAssumption DEF LinkedOwner, Within, Owners
    <3>3. LinkKept(s, t)
      BY <3>1, <3>2 DEF LinkKept
    <3> QED BY <2>1, <3>1, <3>3
  <2> QED BY <2>2, <2>3
<1>4. CASE o.kind \in {"session", "context", "usage"}
  <2> DEFINE u == ObserveSession(s, o)
  <2>1. /\ Key(o) \in Keys /\ u \in States
        /\ u.linked = s.linked /\ u.sessions[Key(o)] # Absent
        /\ \A k \in Keys \ {Key(o)} : u.sessions[k] = s.sessions[k]
    BY <1>1, <1>4, ObserveSessionIs
  <2>2. \A k \in Keys : u.sessions[k] = Absent => s.sessions[k] = Absent
    BY <2>1
  <2> HIDE DEF u
  <2>3. CASE o.kind = "usage"
    <3> DEFINE t == ObserveUsage(u, o)
    <3>1. Fold(s, o) = t
      BY <2>3 DEF Fold, u
    <3>2. CASE o.request \in Tombstones(u)
      BY <2>1, <2>2, <3>1, <3>2 DEF ObserveUsage, LinkKept
    <3>3. CASE o.request \notin Tombstones(u)
      <4>1. /\ t.linked = u.linked
            /\ \A k \in Keys : t.sessions[k] = Absent <=> u.sessions[k] = Absent
        BY <2>1, <2>3, <3>3, UsageKeeps
      <4> QED BY <2>1, <2>2, <3>1, <4>1 DEF LinkKept
    <3> QED BY <3>2, <3>3
  <2>4. CASE o.kind # "usage" /\ Closes(o)
    <3>1. Fold(s, o) = CloseSession(s, o)
      BY <1>4, <2>4 DEF Fold
    <3>2. CASE CloseSession(s, o) = s
      BY <3>1, <3>2 DEF LinkKept
    <3>3. CASE CloseSession(s, o) = Without(s, {Key(o)})
      <4> DEFINE t == Without(s, {Key(o)})
      <4>1. t.linked = s.linked
        BY <1>1, <2>1, WithoutIs
      <4>2. \A k \in Keys : t.sessions[k] = IF k \in {Key(o)} THEN Absent ELSE s.sessions[k]
        BY <1>1, <2>1, WithoutIs
      <4> HIDE DEF t
      <4> QED BY <2>4, <3>1, <3>3, <4>1, <4>2 DEF LinkKept, t
    <3> QED BY <3>2, <3>3 DEF CloseSession
  <2>5. CASE o.kind # "usage" /\ ~Closes(o)
    <3>1. Fold(s, o) = u
      BY <1>4, <2>5 DEF Fold, u
    <3> QED BY <2>1, <2>2, <3>1 DEF LinkKept
  <2> QED BY <2>3, <2>4, <2>5
<1> QED BY <1>2, <1>3, <1>4 DEF Observation, Kinds

\* A session that is live is not old: a threshold is no longer than the history.
LEMMA LiveIsRecent ==
    ASSUME now \in Time, NEW x \in Session \cup {Absent}, Live(x)
    PROVE  x \in Session /\ ~(x.at < Cutoff)
<1> DEFINE h == HistoryDays * Day
<1>1. h \in Nat /\ now \in Nat /\ Threshold \in [Sources -> 0 .. h]
  <2>1. Threshold \in [Sources -> 0 .. HistoryDays * Day]
    BY Zenon, SubscriptionsAssumption
  <2> QED BY <2>1, Numbers, TimeIs
<1>2. x \in Session /\ ~(now - x.at > Threshold[x.source])
  BY DEF Live, Stale
<1>3. x.source \in Sources /\ x.at \in Time
  BY <1>2 DEF Session
<1>4. x.at \in Nat
  BY <1>3, TimeIs
<1> HIDE DEF h
<1>5. Threshold[x.source] \in Nat /\ Threshold[x.source] <= h
  BY <1>1, <1>3
<1>6. ~(x.at < now - h)
  BY <1>1, <1>2, <1>4, <1>5
<1> QED BY <1>2, <1>6 DEF Cutoff, h

\* Neither the link nor its account nor a live session is pruned.
LEMMA PruneKeeps ==
    ASSUME NEW s, Sound(s), now \in Time
    PROVE  /\ Prune(s).linked = s.linked
           /\ s.linked \in Accounts =>
                 Prune(s).accounts[s.linked] = s.accounts[s.linked]
           /\ \A k \in Keys : Live(s.sessions[k]) => Prune(s).sessions[k] = s.sessions[k]
<1>1. s \in States
  BY DEF Sound
<1>2. /\ Prune(s).linked = s.linked
      /\ \A a \in Owners :
            Prune(s).accounts[a] = IF a \in Expired(s) THEN Absent ELSE s.accounts[a]
      /\ \A k \in Keys : \/ Prune(s).sessions[k] = s.sessions[k]
                         \/ s.sessions[k] # Absent /\ s.sessions[k].at < Cutoff
  BY <1>1, PruneIs
<1>3. s.linked \notin Expired(s)
  BY SubscriptionsAssumption DEF Expired, LinkedOwner, Known
<1>4. \A k \in Keys : s.sessions[k] \in Session \cup {Absent}
  BY <1>1, Fields
<1>5. \A k \in Keys : Live(s.sessions[k]) => ~(s.sessions[k].at < Cutoff)
  BY <1>4, LiveIsRecent
<1> QED BY <1>2, <1>3, <1>5 DEF Owners

-----------------------------------------------------------------------------
(* Observe. *)

\* What feeds report is an observation.
LEMMA ReportIs ==
    ASSUME TypeOK, NEW report \in Reports
    PROVE  Observation(report)
<1>1. /\ now \in Time /\ sent \in [Requests -> Time \cup {None}]
      /\ AccountOf \in [Requests -> Owners] /\ SessionOf \in [Requests -> Sessions]
  BY SubscriptionsAssumption DEF TypeOK
<1>2. CASE report \in AccountReports
  <2>1. PICK a \in Owners, t \in Time :
           report = [Blank("account", a, t) EXCEPT
                        !.mode = IF a = None THEN "unknown" ELSE "subscription"]
    BY <1>2 DEF AccountReports
  <2>2. /\ report.kind = "account" /\ report.owner \in Owners /\ report.at \in Time
        /\ report.mode \in Mode /\ report.request = None
    BY <2>1 DEF Blank, Mode
  <2> QED BY <2>2 DEF Observation, Kinds
<1>3. CASE report \in DisconnectReports
  <2>1. PICK a \in Owners : report = Blank("disconnect", a, now)
    BY <1>3 DEF DisconnectReports
  <2>2. /\ report.kind = "disconnect" /\ report.owner \in Owners
        /\ report.at = now /\ report.request = None
    BY <2>1 DEF Blank
  <2> QED BY <1>1, <2>2 DEF Observation, Kinds
<1>4. CASE report \in SessionReports
  <2>1. PICK i \in Sessions, t \in Time, src \in Sources, act \in {"running", "completed"} :
           report = SessionReport(i, t, src, act)
    BY <1>4 DEF SessionReports
  <2>2. /\ report.kind = "session" /\ report.owner = None /\ report.at \in Time
        /\ report.session \in Sessions /\ report.source \in Sources
        /\ report.activity \in {"running", "completed"} /\ report.request = None
    BY <2>1 DEF Blank, SessionReport
  <2> QED BY <2>2 DEF Observation, Kinds, Owners
<1>5. CASE report \in ContextReports
  <2>1. PICK i \in Sessions, t \in Time :
           report = [Blank("context", None, t) EXCEPT !.session = i]
    BY <1>5 DEF ContextReports
  <2>2. /\ report.kind = "context" /\ report.owner = None /\ report.at \in Time
        /\ report.session \in Sessions /\ report.source \in Sources
        /\ report.activity = "" /\ report.request = None
    BY <2>1 DEF Blank, Sources
  <2> QED BY <2>2 DEF Observation, Kinds, Owners
<1>6. CASE report \in UsageReports
  <2>1. PICK r \in Requests :
           /\ sent[r] # None
           /\ report = [Blank("usage", AccountOf[r], sent[r]) EXCEPT
                           !.session = SessionOf[r], !.request = r, !.mode = ModeOf[r]]
    BY <1>6 DEF UsageReports
  <2>2. /\ report.kind = "usage" /\ report.owner = AccountOf[r] /\ report.at = sent[r]
        /\ report.session = SessionOf[r] /\ report.request = r /\ report.mode = ModeOf[r]
        /\ report.source = "native" /\ report.activity = ""
    BY <2>1 DEF Blank
  <2>3. AccountOf[r] \in Owners /\ SessionOf[r] \in Sessions /\ sent[r] \in Time
    BY <1>1, <2>1
  <2> QED BY <2>2, <2>3 DEF Observation, Kinds, Sources
<1> QED BY <1>2, <1>3, <1>4, <1>5, <1>6 DEF Reports

\* It is one after it was attributed.
LEMMA AttributedIs ==
    ASSUME NEW s \in States, NEW report, Observation(report)
    PROVE  Observation(Attributed(s, report))
<1>1. CASE report.kind = "account" /\ report.owner = None /\ s.linked \in Accounts
  <2> DEFINE mode == IF s.linked \in Known(s) THEN s.accounts[s.linked].mode ELSE "unknown"
  <2>1. mode \in Mode
    <3>1. s.linked \in Known(s) => s.accounts[s.linked] \in Account
      BY Fields DEF Known
    <3> QED BY <3>1 DEF Account, Mode
  <2>2. Attributed(s, report) = [report EXCEPT !.owner = s.linked, !.mode = mode]
    BY <1>1 DEF Attributed
  <2> HIDE DEF mode
  <2> DEFINE o == Attributed(s, report)
  <2>3. o.kind = "account" /\ o.at = report.at /\ o.request = report.request
    BY <1>1, <2>2 DEF Observation
  <2>4. o.owner = s.linked /\ o.mode = mode
    BY <2>2
  <2> HIDE DEF o
  <2>5. Observation(o)
    BY <1>1, <2>1, <2>3, <2>4 DEF Observation, Owners
  <2> QED BY <2>5 DEF o
<1>2. CASE report.kind = "disconnect" /\ report.owner = None
  <2>1. Attributed(s, report) = [report EXCEPT !.owner = LinkedOwner(s)]
    BY <1>2 DEF Attributed
  <2>2. LinkedOwner(s) \in Owners
    BY Fields DEF LinkedOwner, Owners
  <2> DEFINE o == Attributed(s, report)
  <2>3. /\ o.kind = "disconnect" /\ o.at = report.at /\ o.request = report.request
        /\ o.owner = LinkedOwner(s)
    BY <1>2, <2>1
  <2> HIDE DEF o
  <2>4. Observation(o)
    BY <1>2, <2>2, <2>3 DEF Observation
  <2> QED BY <2>4 DEF o
<1>3. CASE Attributed(s, report) = report
  BY <1>3
<1> QED BY <1>1, <1>2, <1>3 DEF Attributed

\* The live sessions of s that t has not are those that the observation ends.
Spared(s, t, o) ==
    \A k \in Keys : Live(s.sessions[k]) /\ t.sessions[k] = Absent =>
        \/ Closes(o) /\ k = Key(o)
        \/ o.kind = "disconnect" /\ k[1] = o.owner

\* What an admitted observation leads to.
LEMMA ResultIs ==
    ASSUME NEW m, Sound(m), now \in Time, counted \subseteq Requests,
           NEW o, Observation(o), ~Limited(Prune(m), o), NEW next \in Results(Prune(m), o)
    PROVE  /\ Sound(next)
           /\ Remembers(next, {o.request} \ {None})
           /\ LinkKept(m, next) /\ Spared(m, next, o)
<1> DEFINE s == Prune(m)
<1>1. Sound(s)
  BY PruneSound
<1>2. /\ s.linked = m.linked
      /\ m.linked \in Accounts => s.accounts[m.linked] = m.accounts[m.linked]
      /\ \A k \in Keys : Live(m.sessions[k]) => s.sessions[k] = m.sessions[k]
  BY PruneKeeps
<1> HIDE DEF s
<1>3. PICK u :
          /\ next = Fold(u, o) /\ Sound(u) /\ Room(u, o)
          /\ u.linked = s.linked /\ u.accounts = s.accounts
          /\ \A k \in Keys : Live(s.sessions[k]) => u.sessions[k] = s.sessions[k]
  <2>1. CASE NeedsRoom(s, o)
    <3>1. PICK v \in Victims(s) : next = Fold(Without(s, {v}), o)
      BY <2>1 DEF Results, s
    <3>2. v \in Present(s) /\ ~Live(s.sessions[v]) /\ v \in Keys
      BY DEF Victims, Present
    <3> DEFINE u == Without(s, {v})
    <3>3. s \in States /\ Within(s)
      BY <1>1 DEF Sound
    <3>4. {v} \in SUBSET Keys
      BY <3>2
    <3>5. /\ Sound(u) /\ Known(u) = Known(s) /\ Tombstones(u) = Tombstones(s)
          /\ Present(u) = Present(s) \ {v}
      BY <1>1, <3>4, WithoutSound
    <3>6. /\ u.linked = s.linked /\ u.accounts = s.accounts
          /\ \A k \in Keys : u.sessions[k] = IF k \in {v} THEN Absent ELSE s.sessions[k]
      BY <3>3, <3>4, WithoutIs
    <3> HIDE DEF u
    <3>7. Cardinality(Present(u)) < MaxSessions
      <4>1. /\ Cardinality(Present(s)) \in Nat
            /\ Cardinality(Present(u)) = Cardinality(Present(s)) - 1
        BY <3>2, <3>5, Finite, CountingLess
      <4>2. Cardinality(Present(s)) <= MaxSessions
        BY <3>3 DEF Within
      <4> QED BY <4>1, <4>2, Numbers
    <3>8. Room(u, o)
      <4>1. ~(o.kind = "account") /\ o.kind \in {"session", "context", "usage"}
        BY <2>1 DEF NeedsRoom
      <4>2. o.kind = "usage" /\ o.request \notin Tombstones(s) =>
                ~(Cardinality(Tombstones(s)) >= MaxDedup)
        BY DEF Limited, s
      <4>3. Cardinality(Tombstones(s)) \in Nat
        BY Finite, Counting
      <4> QED BY <3>5, <3>7, <4>1, <4>2, <4>3, Numbers DEF Room
    <3> QED BY <3>1, <3>2, <3>5, <3>6, <3>8 DEF u
  <2>2. CASE ~NeedsRoom(s, o)
    <3>1. next = Fold(s, o)
      BY <2>2 DEF Results, s
    <3>2. /\ o.kind = "account" /\ o.owner \notin Known(s) =>
                ~(Cardinality(Known(s)) >= MaxAccounts)
          /\ o.kind = "usage" /\ o.request \notin Tombstones(s) =>
                ~(Cardinality(Tombstones(s)) >= MaxDedup)
      BY DEF Limited, s
    <3>3. /\ Cardinality(Known(s)) \in Nat /\ Cardinality(Present(s)) \in Nat
          /\ Cardinality(Tombstones(s)) \in Nat
      BY Finite, Counting
    <3>4. Room(s, o)
      BY <2>2, <3>2, <3>3, Numbers DEF Room, NeedsRoom
    <3> QED BY <1>1, <3>1, <3>4
  <2> QED BY <2>1, <2>2
<1>4. Sound(next) /\ Remembers(next, {o.request} \ {None})
  BY <1>3, FoldSound
<1>5. /\ LinkKept(u, next)
      /\ \A k \in Keys : u.sessions[k] # Absent /\ next.sessions[k] = Absent =>
            \/ Closes(o) /\ k = Key(o)
            \/ o.kind = "disconnect" /\ k[1] = o.owner
  BY <1>3, FoldKeeps
<1>6. LinkKept(m, next)
  BY <1>2, <1>3, <1>5 DEF LinkKept
<1>7. \A k \in Keys : Live(m.sessions[k]) => u.sessions[k] = m.sessions[k]
  BY <1>2, <1>3
<1>8. \A k \in Keys : Live(m.sessions[k]) => m.sessions[k] # Absent
  BY DEF Live
<1>9. Spared(m, next, o)
  BY <1>5, <1>7, <1>8 DEF Spared
<1> QED BY <1>4, <1>6, <1>9

-----------------------------------------------------------------------------
(* The steps. *)

\* The shown dates only move on, and a request that has a tombstone is not sent again.
LEMMA CountedLater ==
    ASSUME NEW n \in States, Counted(n), now \in Time, now' \in Time, now <= now',
           \A r \in Tombstones(n) : sent'[r] = sent[r]
    PROVE  Counted(n)'
<1>1. FirstDate \in Int /\ FirstDate' \in Int /\ FirstDate <= FirstDate'
  BY DateGrows, DateIs, Numbers DEF FirstDate
<1>2. \A a, d : Of(a, d, Tombstones(n))' = Of(a, d, Tombstones(n))
  BY DEF Of
<1>3. \A d : LocalOf(n, d)' = LocalOf(n, d)
  BY DEF LocalOf, Of
<1>4. \A r \in Requests : n.dedup[r] # None => n.dedup[r] = sent'[r]
  BY DEF Counted, Tombstones
<1>5. \A a \in Owners, d \in Dates :
          n.daily[a][d] <= Cardinality(Of(a, d, Tombstones(n))')
  BY <1>2 DEF Counted
<1>6. \A d \in Dates : /\ n.local[d] <= Cardinality(LocalOf(n, d)')
                       /\ d >= FirstDate' => n.local[d] = Cardinality(LocalOf(n, d)')
  BY <1>1, <1>3, DatesAreNumbers DEF Counted
<1> QED BY <1>4, <1>5, <1>6 DEF Counted

\* What is remembered stays so while the clock moves.
LEMMA RemembersLater ==
    ASSUME NEW n, NEW requests \in SUBSET Requests, Remembers(n, requests),
           now \in Time, now' \in Time, now <= now',
           sent \in [Requests -> Time \cup {None}],
           \A r \in requests : sent'[r] = sent[r]
    PROVE  Remembers(n, requests)'
<1>1. FirstDate \in Int /\ FirstDate' \in Int /\ FirstDate <= FirstDate'
  BY DateGrows, DateIs, Numbers DEF FirstDate
<1>2. \A r \in requests : sent[r] \in Time
  BY DEF Remembers
<1>3. \A r \in requests : Date(sent[r]) \in Nat
  BY <1>2, DateIs
<1>4. \A r \in requests : /\ sent'[r] # None
                          /\ Date(sent'[r]) >= FirstDate' => n.dedup[r] # None
  BY <1>1, <1>3 DEF Remembers
<1> QED BY <1>4 DEF Remembers

\* A sound state stays sound while the clock moves, requests are sent, and others, which
\* it remembers, are acknowledged.
LEMMA SoundLater ==
    ASSUME NEW n, Sound(n), TypeOK, TypeOK', now <= now',
           \A r \in Tombstones(n) \cup counted : sent'[r] = sent[r],
           \A r \in counted' \ counted : sent'[r] = sent[r] /\ Remembers(n, {r})
    PROVE  Sound(n)'
<1>1. /\ n \in States /\ Within(n) /\ Counted(n) /\ Remembers(n, counted)
  BY DEF Sound
<1>2. Counted(n)'
  BY <1>1, CountedLater DEF TypeOK
<1>3. Remembers(n, counted')
  BY <1>1 DEF Remembers
<1>4. \A r \in counted' : sent'[r] = sent[r]
  OBVIOUS
<1>5. PICK requests : requests = counted'
  OBVIOUS
<1>6. Remembers(n, requests)'
  BY <1>3, <1>4, <1>5, RemembersLater DEF TypeOK
<1>7. Remembers(n, counted)'
  BY <1>5, <1>6 DEF Remembers
<1> QED BY <1>1, <1>2, <1>7 DEF Sound, Within, Known, Present, Tombstones

\* What Observe stages, accepted or not.
Stages(next, o, accepted) ==
    /\ pending' = Staged(next, o, accepted)
    /\ Observation(o) /\ next \in States /\ Sound(next)
    /\ accepted => Remembers(next, {o.request} \ {None})
    /\ LinkKept(disk, next) /\ Spared(disk, next, o)

\* Observe stages a sound state, accepted or not.
LEMMA StagedIs ==
    ASSUME IInv, NEW report \in Reports, Observe(report)
    PROVE  \E next, o, accepted : Stages(next, o, accepted) /\ accepted \in BOOLEAN
<1>1. /\ memory = disk /\ Sound(disk)
      /\ now \in Time /\ counted \subseteq Requests
  BY DEF IInv, TypeOK, Observe, ShownIsDurable, SoundInv, Files, Idle
<1>2. PICK m : m = memory
  OBVIOUS
<1>3. Sound(m) /\ m \in States
  BY <1>1, <1>2 DEF Sound
<1>4. PICK s : s = Prune(m)
  OBVIOUS
<1>5. s \in States
  BY <1>3, <1>4, PruneIs
<1>6. PICK o : o = Attributed(s, report)
  OBVIOUS
<1>7. Observation(o)
  BY <1>5, <1>6, ReportIs, AttributedIs DEF IInv
<1>8. \/ ~Limited(s, o) /\ \E next \in Results(s, o) : pending' = Staged(next, o, TRUE)
      \/ Limited(s, o) /\ pending' = Staged([m EXCEPT !.partial = TRUE], o, FALSE)
  BY <1>2, <1>4, <1>6 DEF Observe
<1>9. CASE ~Limited(s, o) /\ \E next \in Results(s, o) : pending' = Staged(next, o, TRUE)
  <2>1. PICK next \in Results(s, o) : pending' = Staged(next, o, TRUE)
    BY <1>9
  <2>2. /\ Sound(next) /\ Remembers(next, {o.request} \ {None})
        /\ LinkKept(m, next) /\ Spared(m, next, o)
    BY <1>1, <1>3, <1>4, <1>7, <1>9, ResultIs
  <2>3. LinkKept(disk, next) /\ Spared(disk, next, o)
    BY <1>1, <1>2, <2>2 DEF LinkKept, Spared
  <2>4. Stages(next, o, TRUE)
    BY <1>7, <2>1, <2>2, <2>3 DEF Stages, Sound
  <2> QED BY <2>4
<1>10. CASE pending' = Staged([m EXCEPT !.partial = TRUE], o, FALSE)
  <2> DEFINE next == [m EXCEPT !.partial = TRUE]
  <2>1. /\ next \in States
        /\ next.accounts = m.accounts /\ next.linked = m.linked /\ next.sessions = m.sessions
        /\ next.contextAt = m.contextAt /\ next.daily = m.daily /\ next.local = m.local
        /\ next.dedup = m.dedup
    BY <1>3 DEF States
  <2> HIDE DEF next
  <2>2. Counted(next) /\ Remembers(next, counted)
    BY <1>3, <2>1, KeepsCounted DEF Sound
  <2>3. Within(next)
    BY <1>3, <2>1 DEF Sound, Within, Known, Present, Tombstones
  <2>4. Sound(next)
    BY <2>1, <2>2, <2>3 DEF Sound
  <2>5. LinkKept(disk, next) /\ Spared(disk, next, o)
    BY <1>1, <1>2, <2>1 DEF LinkKept, Spared, Live
  <2>6. pending' = Staged(next, o, FALSE)
    BY <1>10 DEF next
  <2>7. Stages(next, o, FALSE)
    BY <1>7, <2>1, <2>4, <2>5, <2>6 DEF Stages
  <2> QED BY <2>7
<1> QED BY <1>8, <1>9, <1>10

\* Observe: the state is staged, the file and the memory stay.
LEMMA ObserveStep ==
    ASSUME IInv, NEW report \in Reports, Observe(report)
    PROVE  IInv'
<1>1. PICK next, o, accepted : Stages(next, o, accepted) /\ accepted \in BOOLEAN
  BY StagedIs
<1>2. /\ now' = now /\ disk' = disk /\ memory' = memory /\ sent' = sent /\ counted' = counted
      /\ pending = Idle /\ TypeOK
  BY DEF Observe, IInv
<1>3. /\ pending'.phase = "staged" /\ pending'.next = next
      /\ pending'.kind = o.kind /\ pending'.owner = o.owner
      /\ pending'.request = (IF accepted THEN o.request ELSE None)
      /\ pending'.closes = (IF Closes(o) THEN Key(o) ELSE None)
  BY <1>1 DEF Stages, Staged
<1>4. /\ o.kind \in Kinds /\ o.owner \in Owners /\ o.request \in Requests \cup {None}
      /\ Closes(o) => Key(o) \in Keys
  <2>1. o.kind \in {"session", "context", "usage"} => o.owner \in Owners /\ o.session \in Sessions
    BY <1>1 DEF Stages, Observation
  <2>2. Closes(o) => Key(o) \in Keys
    BY <2>1 DEF Closes, Key, Keys
  <2> QED BY <1>1, <2>2 DEF Stages, Observation
<1>5. pending' # Idle
  BY <1>3 DEF Idle
<1>6. TypeOK'
  <2>1. pending' \in Writes
    <3>1. pending' = Staged(next, o, accepted) /\ next \in States
      BY <1>1 DEF Stages
    <3> QED BY <1>4, <3>1 DEF Staged, Writes
  <2> QED BY <1>2, <2>1 DEF TypeOK
<1>7. Sound(disk)
  BY DEF IInv, SoundInv, Files
<1>8. SoundInv'
  <2>1. now <= now'
    BY <1>2, TimeIs DEF TypeOK
  <2>2. \A s : Sound(s) => Sound(s)'
    BY <1>2, <1>6, <2>1, SoundLater
  <2>3. \A s \in Files' : s = disk \/ s = next
    BY <1>2, <1>3, <1>5 DEF Files
  <2> QED BY <1>1, <1>7, <2>2, <2>3 DEF Stages, SoundInv
<1>9. PendingInv'
  <2>1. Remembers(next, {pending'.request} \ {None})
    BY <1>1, <1>3 DEF Stages, Remembers
  <2>2. SessionsKept(disk, next, pending')
    BY <1>1, <1>3 DEF Stages, Spared, SessionsKept
  <2>3. Remembers(pending.next, {pending.request} \ {None})'
    BY <1>2, <1>3, <2>1 DEF Remembers, FirstDate
  <2>4. SessionsKept(disk, pending.next, pending)'
    BY <1>2, <1>3, <2>2 DEF SessionsKept, Live, Stale
  <2>5. LinkKept(disk, pending.next)'
    BY <1>1, <1>2, <1>3 DEF Stages, LinkKept
  <2> QED BY <1>3, <2>3, <2>4, <2>5 DEF PendingInv
<1>10. ShownIsDurable'
  <2>1. memory = disk
    BY <1>2 DEF IInv, ShownIsDurable, Idle
  <2> QED BY <1>2, <2>1 DEF ShownIsDurable
<1> QED BY <1>6, <1>8, <1>9, <1>10 DEF IInv

\* The rename puts the staged state into the file.
LEMMA ReplaceStep ==
    ASSUME IInv, Replace
    PROVE  IInv'
<1>1. /\ pending # Idle /\ pending.phase = "staged" /\ TypeOK
      /\ disk' = pending.next /\ pending' = [pending EXCEPT !.phase = "replaced"]
      /\ now' = now /\ memory' = memory /\ sent' = sent /\ counted' = counted
  BY DEF IInv, Replace, Idle
<1>2. PICK next : next = pending.next
  OBVIOUS
<1>3. pending \in Writes
  BY <1>1 DEF TypeOK
<1>4. Sound(next) /\ next \in States
  BY <1>1, <1>2, <1>3 DEF IInv, SoundInv, Files, Writes
<1>5. /\ pending' \in Writes /\ pending' # Idle
      /\ pending'.phase = "replaced" /\ pending'.next = next
      /\ pending'.request = pending.request
  BY <1>1, <1>2, <1>3 DEF Writes, Idle
<1>6. TypeOK'
  BY <1>1, <1>2, <1>4, <1>5 DEF TypeOK
<1>7. SoundInv'
  <2>1. now <= now'
    BY <1>1, TimeIs DEF TypeOK
  <2>2. Sound(next)'
    BY <1>1, <1>4, <1>6, <2>1, SoundLater
  <2>3. \A s \in Files' : s = next
    BY <1>1, <1>2, <1>5 DEF Files
  <2> QED BY <2>2, <2>3 DEF SoundInv
<1>8. PendingInv'
  <2>1. Remembers(next, {pending.request} \ {None})
    BY <1>1, <1>2 DEF IInv, PendingInv
  <2>2. Remembers(pending.next, {pending.request} \ {None})'
    BY <1>1, <1>5, <2>1 DEF Remembers, FirstDate
  <2> QED BY <1>1, <1>2, <1>5, <2>2 DEF PendingInv
<1>9. ShownIsDurable'
  BY <1>5 DEF ShownIsDurable
<1> QED BY <1>6, <1>7, <1>8, <1>9 DEF IInv

\* When no observation is left, what counts is that the file is sound.
LEMMA IdleStep ==
    ASSUME TypeOK', pending' = Idle, memory' = disk', NEW s, s = disk', Sound(s)'
    PROVE  IInv'
<1>1. \A t \in Files' : t = s
  BY DEF Files
<1>2. SoundInv'
  BY <1>1 DEF SoundInv
<1>3. PendingInv' /\ ShownIsDurable'
  BY DEF PendingInv, ShownIsDurable
<1> QED BY <1>2, <1>3 DEF IInv

\* A write that fails, and a restart, leave what the file holds.
LEMMA GiveUpStep ==
    ASSUME IInv, GiveUp \/ Restart
    PROVE  IInv'
<1>1. /\ now' = now /\ disk' = disk /\ sent' = sent /\ counted' = counted
      /\ pending' = Idle /\ TypeOK
  BY DEF IInv, GiveUp, Restart
<1>2. memory' = disk'
  <2>1. CASE GiveUp
    BY <1>1, <2>1 DEF IInv, ShownIsDurable, GiveUp
  <2>2. CASE Restart
    BY <1>1, <2>2 DEF Restart
  <2> QED BY <2>1, <2>2
<1>3. TypeOK'
  BY <1>1, <1>2 DEF TypeOK
<1>4. PICK s : s = disk
  OBVIOUS
<1>5. Sound(s) /\ now <= now'
  BY <1>1, <1>4, TimeIs DEF IInv, SoundInv, Files, TypeOK
<1>6. Sound(s)'
  BY <1>1, <1>3, <1>5, SoundLater
<1> QED BY <1>1, <1>2, <1>3, <1>4, <1>6, IdleStep

\* The answer acknowledges a request that the file remembers.
LEMMA PublishStep ==
    ASSUME IInv, Publish
    PROVE  IInv'
<1>1. /\ now' = now /\ disk' = disk /\ sent' = sent
      /\ counted' = counted \cup ({pending.request} \ {None})
      /\ pending # Idle /\ disk = pending.next /\ memory' = pending.next
      /\ pending' = Idle /\ TypeOK
  BY DEF IInv, PendingInv, Publish, Idle
<1>2. pending \in Writes
  BY <1>1 DEF TypeOK
<1>3. TypeOK'
  BY <1>1, <1>2 DEF TypeOK, Writes
<1>4. PICK s : s = disk
  OBVIOUS
<1>5. Sound(s) /\ now <= now'
  BY <1>1, <1>4, TimeIs DEF IInv, SoundInv, Files, TypeOK
<1>6. Remembers(s, {pending.request} \ {None})
  BY <1>1, <1>4 DEF IInv, PendingInv
<1>7. \A r \in counted' \ counted : Remembers(s, {r})
  BY <1>1, <1>6 DEF Remembers
<1>8. Sound(s)'
  BY <1>1, <1>3, <1>5, <1>7, SoundLater
<1> QED BY <1>1, <1>3, <1>4, <1>8, IdleStep

\* The clock moves while nobody observes.
LEMMA TickStep ==
    ASSUME IInv, Tick
    PROVE  IInv'
<1>1. /\ disk' = disk /\ memory' = memory /\ sent' = sent /\ counted' = counted
      /\ pending = Idle /\ pending' = Idle /\ TypeOK
      /\ now < MaxTime /\ now' = now + 1 /\ memory = disk
  BY DEF IInv, Tick, ShownIsDurable, Idle
<1>2. now' \in Time /\ now <= now'
  BY <1>1, Numbers DEF TypeOK, Time
<1>3. TypeOK'
  BY <1>1, <1>2 DEF TypeOK
<1>4. PICK s : s = disk
  OBVIOUS
<1>5. Sound(s)
  BY <1>4 DEF IInv, SoundInv, Files
<1>6. Sound(s)'
  BY <1>1, <1>2, <1>3, <1>5, SoundLater
<1> QED BY <1>1, <1>3, <1>4, <1>6, IdleStep

\* A request that is first sent now has left nothing behind.
LEMMA SendStep ==
    ASSUME IInv, NEW r \in Requests, Send(r)
    PROVE  IInv'
<1>1. /\ now' = now /\ disk' = disk /\ memory' = memory /\ pending' = pending
      /\ counted' = counted /\ TypeOK
      /\ sent[r] = None /\ sent' = [sent EXCEPT ![r] = now]
  BY DEF IInv, Send
<1>2. TypeOK'
  BY <1>1 DEF TypeOK
<1>3. \A q \in Requests \ {r} : sent'[q] = sent[q]
  BY <1>1 DEF TypeOK
<1>4. ASSUME NEW s, Sound(s)
      PROVE  Sound(s)'
  <2>1. r \notin Tombstones(s)
    BY <1>1, <1>4 DEF Sound, Counted, Tombstones
  <2>2. r \notin counted
    BY <1>1, <1>4 DEF Sound, Remembers
  <2>3. \A q \in Tombstones(s) \cup counted : sent'[q] = sent[q]
    BY <1>1, <1>3, <2>1, <2>2 DEF Tombstones, TypeOK
  <2>4. now <= now'
    BY <1>1, TimeIs DEF TypeOK
  <2> QED BY <1>1, <1>2, <1>4, <2>3, <2>4, SoundLater
<1>5. SoundInv'
  <2>1. Files' = Files
    BY <1>1 DEF Files
  <2> QED BY <1>4, <2>1 DEF IInv, SoundInv
<1>6. PendingInv'
  <2>1. CASE pending = Idle
    BY <1>1, <2>1 DEF PendingInv
  <2>2. CASE pending # Idle
    <3>1. /\ Remembers(pending.next, {pending.request} \ {None})
          /\ pending.phase = "staged" => /\ LinkKept(disk, pending.next)
                                         /\ SessionsKept(disk, pending.next, pending)
          /\ pending.phase = "replaced" => disk = pending.next
      BY <2>2 DEF IInv, PendingInv
    <3>2. {pending.request} \ {None} \subseteq Requests \ {r}
      BY <1>1, <2>2, <3>1 DEF TypeOK, Writes, Remembers
    <3>3. Remembers(pending.next, {pending.request} \ {None})'
      BY <1>1, <1>3, <3>1, <3>2 DEF Remembers, FirstDate
    <3>4. SessionsKept(disk, pending.next, pending)' <=> SessionsKept(disk, pending.next, pending)
      BY <1>1 DEF SessionsKept, Live, Stale
    <3> QED BY <1>1, <3>1, <3>3, <3>4 DEF PendingInv, LinkKept
  <2> QED BY <2>1, <2>2
<1>7. ShownIsDurable'
  BY <1>1 DEF IInv, ShownIsDurable
<1> QED BY <1>2, <1>5, <1>6, <1>7 DEF IInv

-----------------------------------------------------------------------------
(* The theorems. *)

\* The file that New makes.
LEMMA InitInv ==
    ASSUME Init
    PROVE  IInv
<1>1. /\ now = 0 /\ disk = Empty /\ memory = Empty /\ pending = Idle
      /\ sent = [r \in Requests |-> None] /\ counted = {}
  BY DEF Init
<1>2. Empty \in States
  BY DatesAreNumbers DEF Empty, States
<1>3. 0 \in Time
  BY Numbers DEF Time
<1>4. TypeOK
  BY <1>1, <1>2, <1>3 DEF TypeOK
<1>5. /\ Empty.linked = Unlinked
      /\ \A a \in Owners, d \in Dates : Empty.daily[a][d] = 0
      /\ \A d \in Dates : Empty.local[d] = 0
      /\ \A k \in Keys : Empty.contextAt[k] = None
      /\ \A r \in Requests : Empty.dedup[r] = None
      /\ Known(Empty) = {} /\ Present(Empty) = {} /\ Tombstones(Empty) = {}
  BY DEF Empty, Known, Present, Tombstones
<1>6. Within(Empty)
  BY <1>5, FS_EmptySet, Numbers DEF Within
<1>7. Counted(Empty)
  <2>1. \A a, d : Of(a, d, Tombstones(Empty)) = {} /\ LocalOf(Empty, d) = {}
    BY <1>5 DEF Of, LocalOf
  <2>2. Cardinality({}) = 0
    BY FS_EmptySet
  <2> QED BY <1>5, <2>1, <2>2 DEF Counted
<1>8. Remembers(Empty, counted)
  BY <1>1 DEF Remembers
<1>9. Sound(Empty)
  BY <1>2, <1>6, <1>7, <1>8 DEF Sound
<1>10. SoundInv
  BY <1>1, <1>9 DEF SoundInv, Files
<1> QED BY <1>1, <1>4, <1>10 DEF IInv, PendingInv, ShownIsDurable

\* A step that changes nothing.
LEMMA Stutter ==
    ASSUME IInv, UNCHANGED vars
    PROVE  IInv'
<1>1. /\ now' = now /\ disk' = disk /\ memory' = memory /\ pending' = pending
      /\ sent' = sent /\ counted' = counted /\ TypeOK
  BY DEF vars, IInv
<1>2. TypeOK' /\ now <= now'
  BY <1>1, TimeIs DEF TypeOK
<1>3. \A s : Sound(s) => Sound(s)'
  BY <1>1, <1>2, SoundLater
<1>4. SoundInv'
  <2>1. Files' = Files
    BY <1>1 DEF Files
  <2> QED BY <1>3, <2>1 DEF IInv, SoundInv
<1>5. PendingInv'
  BY <1>1 DEF IInv, PendingInv, Remembers, FirstDate, LinkKept, SessionsKept, Live, Stale
<1>6. ShownIsDurable'
  BY <1>1 DEF IInv, ShownIsDurable
<1> QED BY <1>2, <1>4, <1>5, <1>6 DEF IInv

\* Each action keeps the invariant.
LEMMA Step == IInv /\ [Next]_vars => IInv'
<1> SUFFICES ASSUME IInv, [Next]_vars
             PROVE  IInv'
  OBVIOUS
<1>1. CASE \E report \in Reports : Observe(report)
  BY <1>1, ObserveStep
<1>2. CASE Replace
  BY <1>2, ReplaceStep
<1>3. CASE GiveUp \/ Restart
  BY <1>3, GiveUpStep
<1>4. CASE Publish
  BY <1>4, PublishStep
<1>5. CASE Tick
  BY <1>5, TickStep
<1>6. CASE \E r \in Requests : Send(r)
  BY <1>6, SendStep
<1>7. CASE UNCHANGED vars
  BY <1>7, Stutter
<1> QED BY <1>1, <1>2, <1>3, <1>4, <1>5, <1>6, <1>7 DEF Next

\* Hence it always holds.
LEMMA Invariant == Spec => []IInv
<1>1. Init => IInv
  BY InitInv
<1> QED BY <1>1, Step, PTL DEF Spec

\* No total ever exceeds the requests that were sent: request IDs survive restarts, and
\* prune drops one only when its date is no longer shown (module.go).
THEOREM TotalsAreSound == Spec => []CountedOnce
<1>1. IInv => CountedOnce
  <2> SUFFICES ASSUME IInv
               PROVE  CountedOnce
    OBVIOUS
  <2>1. disk \in States /\ Counted(disk)
    BY DEF IInv, SoundInv, Files, Sound
  <2>2. ASSUME NEW a, NEW d
        PROVE  /\ Cardinality(Of(a, d, Tombstones(disk))) <= Cardinality(Of(a, d, Requests))
               /\ Cardinality(LocalOf(disk, d)) <= Cardinality(Of(None, d, Requests))
               /\ Cardinality(Of(a, d, Requests)) \in Nat
               /\ Cardinality(Of(None, d, Requests)) \in Nat
    <3>1. IsFiniteSet(Of(a, d, Requests)) /\ IsFiniteSet(Of(None, d, Requests))
      <4>1. Of(a, d, Requests) \subseteq Requests /\ Of(None, d, Requests) \subseteq Requests
        BY DEF Of
      <4> QED BY <4>1, Finite, FS_Subset
    <3>2. /\ Of(a, d, Tombstones(disk)) \subseteq Of(a, d, Requests)
          /\ LocalOf(disk, d) \subseteq Of(None, d, Requests)
      BY DEF Of, LocalOf, Tombstones
    <3> QED BY <3>1, <3>2, Counting
  <2>3. \A a \in Owners, d \in Dates : disk.daily[a][d] \in Nat /\ disk.local[d] \in Nat
    BY <2>1, Fields
  <2>4. ASSUME NEW a \in Owners, NEW d \in Dates
        PROVE  disk.daily[a][d] <= Cardinality(Of(a, d, Requests))
    <3>1. disk.daily[a][d] <= Cardinality(Of(a, d, Tombstones(disk)))
      BY <2>1 DEF Counted
    <3> QED BY <2>2, <2>3, <3>1, OfIs
  <2>5. ASSUME NEW d \in Dates
        PROVE  disk.local[d] <= Cardinality(Of(None, d, Requests))
    <3>1. disk.local[d] <= Cardinality(LocalOf(disk, d)) /\ disk.local[d] \in Nat
      BY <2>1, Fields DEF Counted
    <3> QED BY <2>2, <3>1, OfIs
  <2> QED BY <2>4, <2>5 DEF CountedOnce
<1> QED BY <1>1, Invariant, PTL

\* A request that Observe acknowledged is in the totals of the file for as long as its
\* date is shown, and memory shows nothing that the file lacks.
THEOREM ToldIsKept == Spec => []FileHoldsWhatWasTold
<1>1. IInv => FileHoldsWhatWasTold
  <2> SUFFICES ASSUME IInv
               PROVE  AcknowledgedKept
    BY DEF IInv, FileHoldsWhatWasTold
  <2>1. disk \in States /\ Counted(disk) /\ Remembers(disk, counted) /\ counted \subseteq Requests
    BY DEF IInv, SoundInv, Files, Sound, TypeOK
  <2>2. ASSUME NEW d \in Dates, d >= FirstDate
        PROVE  disk.local[d] >= Cardinality({r \in Of(None, d, counted) : ModeOf[r] # "api"})
    <3> DEFINE S == {r \in Of(None, d, counted) : ModeOf[r] # "api"}
    <3>1. S \subseteq LocalOf(disk, d)
      BY <2>1, <2>2 DEF Of, LocalOf, Remembers, Tombstones
    <3>2. disk.local[d] = Cardinality(LocalOf(disk, d))
      BY <2>1, <2>2 DEF Counted
    <3> HIDE DEF S
    <3>3. Cardinality(S) <= Cardinality(LocalOf(disk, d)) /\ Cardinality(S) \in Nat
      BY <3>1, OfIs, Counting
    <3>4. disk.local[d] >= Cardinality(S)
      BY <3>2, <3>3, OfIs
    <3> QED BY <3>4 DEF S
  <2> QED BY <2>2 DEF AcknowledgedKept
<1> QED BY <1>1, Invariant, PTL

\* New always accepts what Observe wrote: the limits hold, and the linked account has a
\* record.
THEOREM FileIsLoadable == Spec => []Loadable
<1>1. IInv => Loadable
  <2> SUFFICES ASSUME IInv
               PROVE  Loadable
    OBVIOUS
  <2> DEFINE C == {k \in Keys : disk.contextAt[k] # None}
  <2>1. Within(disk)
    BY DEF IInv, SoundInv, Files, Sound
  <2>2. C \in SUBSET Present(disk)
    BY <2>1 DEF Within, Present
  <2> HIDE DEF C
  <2>3. Cardinality(C) <= Cardinality(Present(disk)) /\ Cardinality(C) \in Nat
        /\ Cardinality(Present(disk)) \in Nat
    BY <2>2, Finite, Counting
  <2>4. Cardinality(C) <= MaxSessions
    BY <2>1, <2>3, Numbers DEF Within
  <2> QED BY <2>1, <2>4 DEF Within, Loadable, C
<1> QED BY <1>1, Invariant, PTL

\* The link moves to another account only by a report that is as recent as the last one of
\* the account it leaves.
THEOREM LinkIsNewest == Spec => LinkFollowsNewest
<1> DEFINE Followed ==
               {disk.linked, disk'.linked} \subseteq Accounts /\ disk.linked # disk'.linked =>
                   disk'.accounts[disk'.linked].updated >= disk.accounts[disk.linked].updated
<1>1. IInv /\ [Next]_vars => [Followed]_vars
  <2> SUFFICES ASSUME IInv, [Next]_vars
               PROVE  Followed
    OBVIOUS
  <2>1. CASE Replace
    <3>1. LinkKept(disk, disk')
      BY <2>1 DEF IInv, PendingInv, Replace, Idle
    <3> QED BY <3>1 DEF LinkKept
  <2>2. CASE disk' = disk
    BY <2>2
  <2> QED BY <2>1, <2>2 DEF Next, Observe, GiveUp, Publish, Restart, Tick, Send, vars
<1> QED BY <1>1, Invariant, PTL DEF Spec, LinkFollowsNewest

\* A live session goes only by its own end or by the disconnect of its account, never to
\* make room and never by age.
THEOREM LiveIsKept == Spec => LiveSessionsKept
<1> DEFINE Kept ==
               \A k \in Keys : Live(disk.sessions[k]) /\ disk'.sessions[k] = Absent =>
                   pending.closes = k \/ (pending.kind = "disconnect" /\ pending.owner = k[1])
<1>1. IInv /\ [Next]_vars => [Kept]_vars
  <2> SUFFICES ASSUME IInv, [Next]_vars
               PROVE  Kept
    OBVIOUS
  <2>1. CASE Replace
    <3>1. SessionsKept(disk, pending.next, pending) /\ disk' = pending.next
      BY <2>1 DEF IInv, PendingInv, Replace, Idle
    <3> QED BY <3>1 DEF SessionsKept
  <2>2. CASE disk' = disk
    BY <2>2 DEF Live
  <2> QED BY <2>1, <2>2 DEF Next, Observe, GiveUp, Publish, Restart, Tick, Send, vars
<1> QED BY <1>1, Invariant, PTL DEF Spec, LiveSessionsKept
=============================================================================
