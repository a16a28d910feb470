------------------------------ MODULE Adapters ------------------------------
(***************************************************************************)
(* The manager of the native AI clients, internal/aiadapters/manager.go    *)
(* and monitoring.go.  Run polls in rounds; the HTTP actions check,        *)
(* monitor, disconnect and refresh come at any time.  The mutex op lets    *)
(* one of them proceed, so that one record, job, holds the locals of       *)
(* whoever has it; between its steps come shutdown, crashes, the user who  *)
(* signs in elsewhere, and native processes that fail.                     *)
(*                                                                         *)
(* The sink is the AI module: of what it accepted, linked is the account   *)
(* each provider shows, linkedKey the key of OpenAI's, records the records *)
(* it has of OpenAI accounts under canonical keys, and truthful says that  *)
(* every reading was recorded for the account it was made with.  Disk is   *)
(* what survives a crash: the preferences, and the aliases from the e-mail *)
(* identity of an OpenAI account to its canonical key.  Every native call  *)
(* has a deadline, so that it ends as a step does; a round may start at    *)
(* any time (timer or wake-up), and so may the three minutes between two   *)
(* Claude readings end.                                                    *)
(*                                                                         *)
(* MaxRequests bounds the HTTP actions, MaxFaults failing calls, saves and *)
(* observations and crashes, MaxSwitches the changes of the native sign-in *)
(* from SignedIn, AliasLimit the aliases (128 in the code).  Ids are the   *)
(* canonical keys the rate limits may name an account by.                  *)
(***************************************************************************)
EXTENDS Naturals, FiniteSets, Sequences

CONSTANTS Clients, Account, None, Ids, SignedIn, MaxRequests, MaxFaults, MaxSwitches, AliasLimit

Provider == {"openai", "claude"}
Maybe == Account \cup {None}
Key == Ids \cup {"email"}

ASSUME NoneIsNoAccount == None \notin Account
ASSUME EmailIsNoId == "email" \notin Ids
ASSUME RunIsNoClient == "run" \notin Clients
ASSUME SignedInAssumption == SignedIn \in [Provider -> Maybe]
ASSUME BoundsAssumption ==
  MaxRequests \in Nat /\ MaxFaults \in Nat /\ MaxSwitches \in Nat /\ AliasLimit \in Nat

VARIABLES
  native,             \* external: the account each native client is signed in with
  process,            \* external: the account the Codex process runs for
  linked, linkedKey, records, truthful,   \* external: what the sink accepted
  saved, savedAliases,\* disk
  enabled, aliases,   \* memory of the manager
  ready, connection,  \* its provider status
  rpc,                \* its RPC client: nil, open or done
  usageAccount,       \* the Claude account the timer belongs to
  cooling,            \* the three minutes since the last Claude reading are not over
  usageFailed,        \* the last Claude reading failed
  loop, copy, todo,   \* Run: where it is, its copy of enabled, the providers left
  cancelled, closed,
  request,            \* the action each client waits for
  job,                \* who holds op, and its locals
  promised,           \* ghost: what the last action answered with success asked for
  left,               \* ghost: the records there were when the aliases were cleared
  requests, faults, switches

filed == <<linkedKey, records, left>>
sink == <<linked, truthful, filed>>
disk == <<saved, savedAliases>>
memory == <<enabled, aliases, ready, connection>>
timer == <<usageAccount, cooling, usageFailed>>
codex == <<process, rpc>>
run == <<loop, copy, todo, cancelled, closed>>
bounds == <<requests, switches>>
others == <<native, loop, copy, cancelled, closed, bounds>>   \* what no operation under op changes
vars == <<native, codex, sink, disk, memory, timer, run, request, job, promised, bounds, faults>>

Kind == {"check", "monitor", "refresh", "disconnect"}
Place == {"begin", "start", "account", "usage", "verify", "limits", "alias", "emitAccount",
          "emitQuota", "daily", "emitDaily", "enable", "save", "aliases", "emitDisconnect"}
Job == [by : Clients \cup {"run"}, kind : Kind, p : Provider, at : Place, account : Maybe,
        key : Key, quota : Maybe, was : BOOLEAN,
        error : {"none", "some", "identity", "lost"}]
Free == [by |-> "nobody"]
NewJob(by, kind, p) ==
  [by |-> by, kind |-> kind, p |-> p, at |-> "begin", account |-> None, key |-> "email",
   quota |-> None, was |-> FALSE, error |-> "none"]

(* What is outside of the manager, its memory, and where it is. *)
OutsideOK ==
  /\ native \in [Provider -> Maybe] /\ process \in {<<a>> : a \in Maybe} \cup {<<>>}
  /\ linked \in [Provider -> Maybe] /\ linkedKey \in Key /\ truthful \in BOOLEAN
  /\ records \subseteq Account \X Ids /\ left \subseteq Account \X Ids
  /\ saved \in [Provider -> BOOLEAN] /\ savedAliases \in [Account -> Key]
MemoryOK ==
  /\ enabled \in [Provider -> BOOLEAN] /\ aliases \in [Account -> Key]
  /\ ready \in [Provider -> BOOLEAN]
  /\ connection \in [Provider -> {"disconnected", "unavailable", "connected", "reauthentication"}]
  /\ rpc \in {"nil", "open", "done"}
  /\ usageAccount \in Maybe /\ cooling \in BOOLEAN /\ usageFailed \in BOOLEAN
RunOK ==
  /\ loop \in {"off", "wait", "round", "exit", "gone"}
  /\ copy \in [Provider -> BOOLEAN] /\ todo \in Seq(Provider)
  /\ cancelled \in BOOLEAN /\ closed \in BOOLEAN
  /\ request \in [Clients -> (Kind \X Provider) \cup {<<>>}]
  /\ job \in Job \cup {Free}
BoundsOK ==
  /\ promised \in [Provider -> {"monitor", "disconnect", "open"}]
  /\ requests \in 0..MaxRequests /\ faults \in 0..MaxFaults /\ switches \in 0..MaxSwitches

TypeOK == OutsideOK /\ MemoryOK /\ RunOK /\ BoundsOK

NoAlias == [a \in Account |-> "email"]

(* New with an empty directory: both clients are installed. *)
Init ==
  /\ native = SignedIn /\ process = <<>>
  /\ linked = [p \in Provider |-> None] /\ truthful = TRUE
  /\ linkedKey = "email" /\ records = {} /\ left = {}
  /\ saved = [p \in Provider |-> FALSE] /\ savedAliases = NoAlias
  /\ enabled = saved /\ aliases = NoAlias /\ rpc = "nil"
  /\ ready = [p \in Provider |-> TRUE]
  /\ connection = [p \in Provider |-> "disconnected"]
  /\ usageAccount = None /\ cooling = FALSE /\ usageFailed = FALSE
  /\ loop = "off" /\ copy = saved /\ todo = <<>> /\ cancelled = FALSE /\ closed = FALSE
  /\ request = [c \in Clients |-> <<>>]
  /\ job = Free
  /\ promised = [p \in Provider |-> "open"]
  /\ requests = 0 /\ faults = 0 /\ switches = 0

-----------------------------------------------------------------------------
(* Helpers *)

(* A call, a save or an observation succeeds, or fails for once; with the   *)
(* manager's context cancelled, calls and observations fail at once.        *)
Attempt(ok) ==
  IF ok THEN faults' = faults ELSE faults < MaxFaults /\ faults' = faults + 1
Call(ok) ==
  \/ ~cancelled /\ Attempt(ok)
  \/ cancelled /\ ~ok /\ faults' = faults

(* An observation, refused by emit once the manager is closed. *)
Emit(accepted) ==
  \/ ~closed /\ Call(accepted)
  \/ closed /\ ~accepted /\ faults' = faults

(* The job's provider, and its next place. *)
P == job.p
Goto(place) == job' = [job EXCEPT !.at = place]
At(kinds, place) == job # Free /\ job.kind \in kinds /\ job.at = place

(* The mutex is released: the client has its answer, or Run goes on. *)
Return ==
  /\ job' = Free
  /\ IF job.by = "run"
     THEN todo' = Tail(todo) /\ UNCHANGED request
     ELSE request' = [request EXCEPT ![job.by] = <<>>] /\ UNCHANGED todo
Stay == UNCHANGED <<todo, request>>

(* rpc.Close and m.rpc = nil; the process ends with the client. *)
CloseRPC == rpc' = "nil" /\ process' = <<>>

(* loginState for a login that worked, that did not, or a missing client. *)
LoginState(login) ==
  connection' = [connection EXCEPT ![P] =
    IF login = "unavailable" THEN "unavailable"
    ELSE IF ~enabled[P] THEN "disconnected"
    ELSE IF login = "signed-in" THEN "connected" ELSE "reauthentication"]

-----------------------------------------------------------------------------
(* Run: rounds, and the end *)

Start ==
  /\ loop = "off"
  /\ loop' = "wait"
  /\ UNCHANGED <<native, codex, sink, disk, memory, timer, copy, todo, cancelled, closed, request, job, promised, bounds, faults>>

(* The timer or the wake-up: the providers are copied, then visited. *)
Round ==
  /\ loop = "wait"
  /\ loop' = "round"
  /\ copy' = enabled
  /\ todo' = <<"openai", "claude">>
  /\ UNCHANGED <<native, codex, sink, disk, memory, timer, cancelled, closed, request, job, promised, bounds, faults>>

Visit ==
  /\ loop = "round" /\ todo # <<>> /\ job = Free
  /\ job' = NewJob("run", IF copy[Head(todo)] THEN "refresh" ELSE "check", Head(todo))
  /\ UNCHANGED <<native, codex, sink, disk, memory, timer, run, request, promised, bounds, faults>>

RoundOver ==
  /\ loop = "round" /\ todo = <<>>
  /\ loop' = "wait"
  /\ copy' = [p \in Provider |-> FALSE]
  /\ UNCHANGED <<native, codex, sink, disk, memory, timer, todo, cancelled, closed, request, job, promised, bounds, faults>>

Leave ==
  /\ loop = "wait" /\ cancelled
  /\ loop' = "exit"
  /\ UNCHANGED <<native, codex, sink, disk, memory, timer, copy, todo, cancelled, closed, request, job, promised, bounds, faults>>

(* The deferred function of Run, after the operation under way. *)
Shutdown ==
  /\ loop = "exit" /\ job = Free
  /\ CloseRPC
  /\ closed' = TRUE /\ loop' = "gone"
  /\ UNCHANGED <<native, sink, disk, memory, timer, copy, todo, cancelled, request, job, promised, bounds, faults>>

-----------------------------------------------------------------------------
(* Actions of the HTTP API *)

Ask(c, kind, p) ==
  /\ request[c] = <<>> /\ requests < MaxRequests
  /\ requests' = requests + 1
  /\ request' = [request EXCEPT ![c] = <<kind, p>>]
  /\ UNCHANGED <<native, codex, sink, disk, memory, timer, run, job, promised, switches, faults>>

Lock(c) ==
  /\ request[c] # <<>> /\ job = Free
  /\ job' = NewJob(c, request[c][1], request[c][2])
  /\ UNCHANGED <<native, codex, sink, disk, memory, timer, run, request, promised, bounds, faults>>

-----------------------------------------------------------------------------
(* The native account, for check, monitor and refresh *)

(* checkLocked: a fresh Codex process, and whether the client is installed. *)
CheckBegin(installed) ==
  /\ At({"check", "monitor"}, "begin")
  /\ ~closed /\ ~cancelled
  /\ IF P = "openai" THEN CloseRPC ELSE UNCHANGED codex
  /\ Attempt(installed)
  /\ ready' = [ready EXCEPT ![P] = installed]
  /\ IF installed
     THEN /\ Goto(IF P = "openai" THEN "start" ELSE "account")
          /\ UNCHANGED connection /\ Stay
     ELSE LoginState("unavailable") /\ Return
  /\ UNCHANGED <<others, sink, disk, enabled, aliases, timer, promised>>

CheckStopped ==
  /\ At({"check", "monitor"}, "begin")
  /\ closed \/ cancelled
  /\ Return
  /\ UNCHANGED <<others, codex, sink, disk, memory, timer, promised, faults>>

\* Mutant: Run's copy of the preferences is enough.
RefreshBeginUnchecked ==
  /\ At({"refresh"}, "begin")
  /\ ready[P] /\ ~closed
  /\ IF P = "openai" THEN CloseRPC ELSE UNCHANGED codex
  /\ Goto(IF P = "openai" THEN "start" ELSE "account")
  /\ Stay
  /\ UNCHANGED <<others, sink, disk, memory, timer, promised, faults>>

\* Mutant: a Codex process that still runs is good enough.
RefreshBeginReuses ==
  /\ At({"refresh"}, "begin")
  /\ enabled[P] /\ ready[P] /\ ~closed
  /\ UNCHANGED codex
  /\ Goto(IF P = "openai" /\ rpc # "open" THEN "start" ELSE "account")
  /\ Stay
  /\ UNCHANGED <<others, sink, disk, memory, timer, promised, faults>>

(* refresh looks again under op, then starts a fresh Codex process. *)
RefreshBegin ==
  /\ At({"refresh"}, "begin")
  /\ enabled[P] /\ ready[P] /\ ~closed
  /\ IF P = "openai" THEN CloseRPC ELSE UNCHANGED codex
  /\ Goto(IF P = "openai" THEN "start" ELSE "account")
  /\ Stay
  /\ UNCHANGED <<others, sink, disk, memory, timer, promised, faults>>

RefreshRefused ==
  /\ At({"refresh"}, "begin")
  /\ ~enabled[P] \/ ~ready[P] \/ closed
  /\ Return
  /\ UNCHANGED <<others, codex, sink, disk, memory, timer, promised, faults>>

(* ensureCodex: the process takes up the sign-in there is as it starts; one  *)
(* that does not initialize is closed.                                       *)
StartCodex(ok) ==
  /\ At({"check", "monitor", "refresh"}, "start")
  /\ Call(ok)
  /\ IF ok THEN rpc' = "open" /\ process' = <<native["openai"]>> ELSE CloseRPC
  /\ Goto("account")
  /\ Stay
  /\ UNCHANGED <<others, sink, disk, memory, timer, promised>>

(* A call of the native client: the account it answers for, None when it is *)
(* signed out or uses an API key.  A Codex process that ended refuses; after *)
(* a deadline the RPC client is closed, after an error reply it stays.       *)
Answer(ok) ==
  IF P = "openai" /\ rpc # "open" THEN ~ok /\ faults' = faults ELSE Call(ok)
Source ==
  IF P = "claude" THEN native[P] ELSE IF process # <<>> THEN process[1] ELSE None
Keep(ok) ==
  \/ UNCHANGED codex
  \/ ~ok /\ P = "openai" /\ rpc = "open" /\ rpc' = "done" /\ process' = <<>>

\* Mutant: every check leaves its Codex process to the next one.
CheckAccountKeeps(ok) ==
  LET signedIn == ok /\ Source # None
  IN /\ At({"check", "monitor"}, "account")
     /\ Answer(ok)
     /\ Keep(ok)
     /\ LoginState(IF signedIn THEN "signed-in" ELSE "error")
     /\ IF signedIn /\ job.kind = "monitor" THEN Goto("enable") /\ Stay ELSE Return
     /\ UNCHANGED <<others, sink, disk, enabled, aliases, ready, timer, promised>>

(* check ends; a Codex process is kept only for a provider that is monitored. *)
CheckAccount(ok) ==
  LET signedIn == ok /\ Source # None
  IN /\ At({"check", "monitor"}, "account")
     /\ Answer(ok)
     /\ IF P = "openai" /\ ~enabled[P] THEN CloseRPC ELSE Keep(ok)
     /\ LoginState(IF signedIn THEN "signed-in" ELSE "error")
     /\ IF signedIn /\ job.kind = "monitor" THEN Goto("enable") /\ Stay ELSE Return
     /\ UNCHANGED <<others, sink, disk, enabled, aliases, ready, timer, promised>>

(* refresh goes on with the account, or reports that the user has to sign in *)
(* again (an observation without an account, whose refusal does not matter). *)
RefreshAccount(ok) ==
  LET account == IF ok THEN Source ELSE None
      same == usageAccount = account
      due == ~same \/ ~cooling
  IN /\ At({"refresh"}, "account")
     /\ Answer(ok)
     /\ Keep(ok)
     /\ LoginState(IF account # None THEN "signed-in" ELSE "error")
     /\ \/ account = None /\ Return /\ UNCHANGED timer
        \/ /\ account # None /\ P = "openai"
           /\ job' = [job EXCEPT !.at = "limits", !.account = account]
           /\ Stay /\ UNCHANGED timer
        \/ /\ account # None /\ P = "claude"
           /\ job' = [job EXCEPT !.at = IF due THEN "usage" ELSE "emitAccount", !.account = account,
                                 !.error = IF ~due /\ usageFailed THEN "some" ELSE "none"]
           /\ usageAccount' = account /\ cooling' = TRUE /\ usageFailed' = (same /\ usageFailed)
           /\ Stay
     /\ UNCHANGED <<others, sink, disk, enabled, aliases, ready, promised>>

-----------------------------------------------------------------------------
(* refresh: readings and observations *)

\* Mutant: the reading has a context of its own and no deadline.
ReadUsageDetached(ok) ==
  /\ At({"refresh"}, "usage")
  /\ ok /\ Call(ok)
  /\ job' = [job EXCEPT !.at = "verify", !.quota = native[P]]
  /\ Stay
  /\ UNCHANGED <<others, codex, sink, disk, memory, timer, promised>>

(* The Claude reading runs as a command of its own, for whoever is signed in then. *)
ReadUsage(ok) ==
  /\ At({"refresh"}, "usage")
  /\ Answer(ok)
  /\ job' = [job EXCEPT !.at = "verify", !.quota = IF ok THEN native[P] ELSE None]
  /\ Stay
  /\ UNCHANGED <<others, codex, sink, disk, memory, timer, promised>>

\* Mutant: the account is not looked at again.
VerifyUnchecked(ok) ==
  /\ At({"refresh"}, "verify")
  /\ Answer(ok)
  /\ job' = [job EXCEPT !.at = "emitAccount"]
  /\ Stay
  /\ UNCHANGED <<others, codex, sink, disk, memory, timer, promised>>

(* The account is read again: gone, changed, or the one the reading is for. *)
Verify(ok) ==
  LET verified == IF ok THEN native[P] ELSE None
      error == IF verified = None THEN "lost"
               ELSE IF verified # job.account THEN "identity"
               ELSE IF job.quota = None THEN "some" ELSE "none"
  IN /\ At({"refresh"}, "verify")
     /\ Answer(ok)
     /\ job' = [job EXCEPT !.at = "emitAccount", !.error = error,
                           !.account = IF error = "identity" THEN verified ELSE @,
                           !.quota = IF error = "none" THEN @ ELSE None]
     /\ IF error = "lost" THEN LoginState("error") ELSE UNCHANGED connection
     /\ cooling' = (error \in {"none", "some"})
     /\ usageFailed' = (error # "none")
     /\ Stay
     /\ UNCHANGED <<others, codex, sink, disk, enabled, aliases, ready, usageAccount, promised>>

\* Mutant: the aliases are not looked at.
KeyOfEmail(account) == "email"

(* The key an OpenAI account is observed under: canonical once it is known. *)
KeyOf(account) == aliases[account]

(* The rate limits name the account by a canonical key, or (older clients) by none. *)
NamedKey(named) == IF named = "email" THEN KeyOf(job.account) ELSE named
AfterLimits(key) == IF key # aliases[job.account] THEN "alias" ELSE "emitAccount"

ReadLimits(ok, named) ==
  LET key == IF ok THEN NamedKey(named) ELSE KeyOf(job.account)
  IN /\ At({"refresh"}, "limits")
     /\ Answer(ok)
     /\ Keep(ok)
     /\ job' = [job EXCEPT !.at = AfterLimits(key), !.key = key,
                           !.quota = IF ok THEN Source ELSE None]
     /\ Stay
     /\ UNCHANGED <<others, sink, disk, memory, timer, promised>>

(* An answer whose quotas do not parse is an error, but the name counts and *)
(* the account is observed.                                                 *)
LimitsMalformed(named) ==
  /\ At({"refresh"}, "limits")
  /\ rpc = "open" /\ ~cancelled /\ Attempt(FALSE)
  /\ job' = [job EXCEPT !.at = AfterLimits(NamedKey(named)), !.key = NamedKey(named),
                        !.error = "some"]
  /\ Stay
  /\ UNCHANGED <<others, codex, sink, disk, memory, timer, promised>>

(* The canonical key is on disk before anything is observed under it; there *)
(* is room for AliasLimit of them, and one that is replaced needs none.     *)
Named == {a \in Account : aliases[a] # "email"}
HasRoom(a) == a \in Named \/ Cardinality(Named) < AliasLimit

SaveAlias(ok) ==
  /\ At({"refresh"}, "alias")
  /\ IF HasRoom(job.account) THEN Attempt(ok) ELSE ~ok /\ faults' = faults
  /\ aliases' = IF ok THEN [aliases EXCEPT ![job.account] = job.key] ELSE aliases
  /\ savedAliases' = IF ok THEN aliases' ELSE savedAliases
  /\ IF ok THEN Goto("emitAccount") /\ Stay ELSE Return
  /\ UNCHANGED <<others, codex, sink, saved, enabled, ready, connection, timer, promised>>

(* An OpenAI account is linked under a key, and has a record under it. *)
File(account, key) ==
  /\ linkedKey' = key
  /\ records' = IF key = "email" THEN records ELSE records \cup {<<account, key>>}
  /\ left' = left \ {<<account, key>>}

(* The account; a reading with an error ends here. *)
EmitAccount(accepted) ==
  LET goesOn == accepted /\ job.error = "none"
  IN /\ At({"refresh"}, "emitAccount")
     /\ Emit(accepted)
     /\ linked' = IF accepted THEN [linked EXCEPT ![P] = job.account] ELSE linked
     /\ IF accepted /\ P = "openai" THEN File(job.account, job.key) ELSE UNCHANGED filed
     /\ connection' = IF accepted THEN [connection EXCEPT ![P] = IF job.error = "lost" THEN "reauthentication" ELSE "connected"]
                       ELSE connection
     /\ IF goesOn /\ job.quota # None THEN Goto("emitQuota") /\ Stay
        ELSE IF goesOn /\ P = "openai" THEN Goto("daily") /\ Stay
        ELSE Return
     /\ UNCHANGED <<others, codex, truthful, disk, enabled, aliases, ready, timer, promised>>

EmitQuota(accepted) ==
  /\ At({"refresh"}, "emitQuota")
  /\ Emit(accepted)
  /\ truthful' = (truthful /\ (accepted => job.quota = job.account))
  /\ connection' = IF accepted THEN connection ELSE [connection EXCEPT ![P] = "connected"]
  /\ IF accepted /\ P = "openai" THEN Goto("daily") /\ Stay ELSE Return
  /\ UNCHANGED <<others, codex, linked, filed, disk, enabled, aliases, ready, timer, promised>>

(* The daily totals of an OpenAI account: read, then observed. *)
ReadDaily(ok) ==
  /\ At({"refresh"}, "daily")
  /\ Answer(ok)
  /\ Keep(ok)
  /\ IF ok THEN job' = [job EXCEPT !.at = "emitDaily", !.quota = Source] /\ Stay ELSE Return
  /\ UNCHANGED <<others, sink, disk, memory, timer, promised>>

EmitDaily(accepted) ==
  /\ At({"refresh"}, "emitDaily")
  /\ Emit(accepted)
  /\ truthful' = (truthful /\ (accepted => job.quota = job.account))
  /\ connection' = IF accepted THEN connection ELSE [connection EXCEPT ![P] = "connected"]
  /\ Return
  /\ UNCHANGED <<others, codex, linked, filed, disk, enabled, aliases, ready, timer, promised>>

-----------------------------------------------------------------------------
(* monitor and disconnect *)

(* enableLocked: the preference in memory, then on disk, or as it was. *)
EnableSet ==
  /\ At({"monitor"}, "enable")
  /\ enabled' = [enabled EXCEPT ![P] = TRUE]
  /\ job' = [job EXCEPT !.at = "save", !.was = enabled[P]]
  /\ Stay
  /\ UNCHANGED <<others, codex, sink, disk, aliases, ready, connection, timer, promised, faults>>

\* Mutant: the preference stays although it was not saved.
EnableSaveKeeps(ok) ==
  /\ At({"monitor"}, "save")
  /\ Attempt(ok)
  /\ saved' = IF ok THEN enabled ELSE saved
  /\ enabled' = enabled
  /\ IF ok THEN LoginState("signed-in") ELSE UNCHANGED connection
  /\ promised' = IF ok THEN [promised EXCEPT ![P] = "monitor"] ELSE promised
  /\ Return
  /\ UNCHANGED <<others, codex, sink, savedAliases, aliases, ready, timer>>

EnableSave(ok) ==
  /\ At({"monitor"}, "save")
  /\ Attempt(ok)
  /\ saved' = IF ok THEN enabled ELSE saved
  /\ enabled' = IF ok THEN enabled ELSE [enabled EXCEPT ![P] = job.was]
  /\ IF ok THEN LoginState("signed-in") ELSE UNCHANGED connection
  /\ promised' = IF ok THEN [promised EXCEPT ![P] = "monitor"] ELSE promised
  /\ Return
  /\ UNCHANGED <<others, codex, sink, savedAliases, aliases, ready, timer>>

DisconnectBegin ==
  /\ At({"disconnect"}, "begin")
  /\ enabled' = [enabled EXCEPT ![P] = FALSE]
  /\ connection' = [connection EXCEPT ![P] = "disconnected"]
  /\ IF P = "openai" THEN CloseRPC /\ UNCHANGED timer
     ELSE /\ usageAccount' = None /\ cooling' = FALSE /\ usageFailed' = FALSE
          /\ UNCHANGED codex
  /\ promised' = [promised EXCEPT ![P] = "open"]
  /\ Goto("save")
  /\ Stay
  /\ UNCHANGED <<others, sink, disk, aliases, ready, faults>>

DisconnectSave(ok) ==
  /\ At({"disconnect"}, "save")
  /\ Attempt(ok)
  /\ saved' = IF ok THEN enabled ELSE saved
  /\ job' = [job EXCEPT !.at = IF P = "openai" THEN "aliases" ELSE "emitDisconnect",
                        !.error = IF ok THEN "none" ELSE "some"]
  /\ Stay
  /\ UNCHANGED <<others, codex, sink, savedAliases, memory, timer, promised>>

DisconnectAliases(ok) ==
  /\ At({"disconnect"}, "aliases")
  /\ Attempt(ok)
  /\ aliases' = NoAlias
  /\ savedAliases' = IF ok THEN NoAlias ELSE savedAliases
  /\ left' = records
  /\ job' = [job EXCEPT !.at = "emitDisconnect", !.error = IF ok THEN @ ELSE "some"]
  /\ Stay
  /\ UNCHANGED <<others, codex, linked, linkedKey, records, truthful, saved, enabled, ready,
                 connection, timer, promised>>

(* The sink forgets the linked account, and no other. The answer is a *)
(* success only if every step was.                                    *)
EmitDisconnect(accepted) ==
  /\ At({"disconnect"}, "emitDisconnect")
  /\ Emit(accepted)
  /\ linked' = IF accepted THEN [linked EXCEPT ![P] = None] ELSE linked
  /\ IF accepted /\ P = "openai"
     THEN LET forgotten == {<<linked[P], linkedKey>>}
          IN records' = records \ forgotten /\ left' = left \ forgotten /\ linkedKey' = "email"
     ELSE UNCHANGED filed
  /\ promised' = IF accepted /\ job.error = "none" THEN [promised EXCEPT ![P] = "disconnect"] ELSE promised
  /\ Return
  /\ UNCHANGED <<others, codex, truthful, disk, memory, timer>>

-----------------------------------------------------------------------------
(* The environment *)

(* The user signs a native client in, out or into another account, but does *)
(* not come back to the first account within one reading of it.             *)
Switch(p, a) ==
  /\ switches < MaxSwitches /\ a # native[p]
  /\ At({"refresh"}, "usage") \/ At({"refresh"}, "verify") => a # job.account
  /\ native' = [native EXCEPT ![p] = a]
  /\ switches' = switches + 1
  /\ UNCHANGED <<codex, sink, disk, memory, timer, run, request, job, promised, requests, faults>>

(* Three minutes since the last Claude reading are over. *)
Cool ==
  /\ cooling /\ job = Free
  /\ cooling' = FALSE
  /\ UNCHANGED <<native, codex, sink, disk, memory, usageAccount, usageFailed, run, request, job, promised, bounds, faults>>

(* The Codex process ends, or writes what is no JSON. *)
Die ==
  /\ rpc = "open" /\ faults < MaxFaults
  /\ rpc' = "done" /\ process' = <<>>
  /\ faults' = faults + 1
  /\ UNCHANGED <<native, sink, disk, memory, timer, run, request, job, promised, bounds>>

Cancel ==
  /\ ~cancelled /\ loop # "off"
  /\ cancelled' = TRUE
  /\ UNCHANGED <<native, codex, sink, disk, memory, timer, loop, copy, todo, closed, request, job, promised, bounds, faults>>

(* The program ends anywhere, its native process with it, and New loads what is on disk. *)
Crash ==
  /\ faults < MaxFaults
  /\ faults' = faults + 1
  /\ enabled' = saved /\ aliases' = savedAliases
  /\ ready' = [p \in Provider |-> TRUE]
  /\ connection' = [p \in Provider |-> "disconnected"]
  /\ process' = <<>> /\ rpc' = "nil"
  /\ usageAccount' = None /\ cooling' = FALSE /\ usageFailed' = FALSE
  /\ loop' = "off" /\ copy' = [p \in Provider |-> FALSE] /\ todo' = <<>>
  /\ cancelled' = FALSE /\ closed' = FALSE
  /\ request' = [c \in Clients |-> <<>>]
  /\ job' = Free
  /\ UNCHANGED <<native, sink, disk, promised, bounds>>

-----------------------------------------------------------------------------
(* Specification *)

Poll == Start \/ Round \/ Visit \/ RoundOver \/ Shutdown
Operation ==
  \/ CheckStopped \/ RefreshBegin \/ RefreshRefused \/ EnableSet \/ DisconnectBegin
  \/ \E ok \in BOOLEAN :
       \/ CheckBegin(ok) \/ StartCodex(ok) \/ CheckAccount(ok) \/ RefreshAccount(ok)
       \/ ReadUsage(ok) \/ Verify(ok) \/ SaveAlias(ok) \/ EmitAccount(ok) \/ EmitQuota(ok)
       \/ ReadDaily(ok) \/ EmitDaily(ok) \/ EnableSave(ok)
       \/ DisconnectSave(ok) \/ DisconnectAliases(ok) \/ EmitDisconnect(ok)
       \/ \E named \in Key : ReadLimits(ok, named)
  \/ \E named \in Key : LimitsMalformed(named)
Environment ==
  \/ \E c \in Clients, kind \in Kind, p \in Provider : Ask(c, kind, p)
  \/ \E c \in Clients : Lock(c)
  \/ \E p \in Provider, a \in Maybe : Switch(p, a)
  \/ Cool \/ Die \/ Cancel \/ Crash

Next == Poll \/ Leave \/ Operation \/ Environment

(* Run's goroutine and whoever holds op go on: every native call has a      *)
(* deadline.  Go's select chooses at random, so that the cancelled context  *)
(* is seen although the timer is due as well.                               *)
Spec == Init /\ [][Next]_vars /\ WF_vars(Poll) /\ SF_vars(Leave) /\ WF_vars(Operation)

-----------------------------------------------------------------------------
(* Properties *)

(* The preferences on disk, and those the manager works by whenever nobody  *)
(* changes them, are what the last successful monitor or disconnect asked   *)
(* for, through failed saves, actions for the other provider and crashes.   *)
PreferencesKept == \A p \in Provider : promised[p] # "open" =>
  /\ saved[p] = (promised[p] = "monitor")
  /\ job = Free => enabled[p] = saved[p]

(* Once a disconnect was answered with success the provider shows no        *)
(* account, whatever round or refresh was under way and whatever the        *)
(* program was restarted into, until monitoring is started again; and its   *)
(* status does not say connected.                                           *)
StaysDisconnected == \A p \in Provider : promised[p] = "disconnect" =>
  /\ linked[p] = None
  /\ job = Free => connection[p] # "connected"

(* No reading is recorded for another account than it was made with, when   *)
(* the user signs in elsewhere between any two steps of the refresh.        *)
ReadingsAttributed == truthful

(* Fresh are the records the sink got under a canonical key since the        *)
(* aliases were last cleared.  An account with one is not shown under its    *)
(* e-mail key, through failed quota readings, answers without a name, a full *)
(* table, failed saves and restarts.  Two records of one account remain      *)
(* possible: an answer without a name may come first, the name may change,   *)
(* and a disconnect clears all aliases where the sink forgets the linked     *)
(* account only; what it leaves is in left.                                  *)
Fresh == records \ left
KeyStable == linkedKey = "email" => \A k \in Ids : <<linked["openai"], k>> \notin Fresh

(* An account the manager has shown under its canonical key does not come    *)
(* back under its e-mail key before the aliases are cleared.                 *)
KeysSound == TypeOK /\ KeyStable

(* The manager never loses hold of a Codex process, and leaves none running *)
(* when it has shut down or nothing is monitored.                           *)
NoStrayProcess ==
  /\ process # <<>> => rpc = "open" /\ ~closed
  /\ job = Free /\ ~enabled["openai"] => process = <<>>

(* Cancellation ends Run, whichever operation is under way. *)
AdapterStops == cancelled ~> (closed \/ ~cancelled)

(* What stays monitored is shown: the account that is signed in, as soon as *)
(* failures have ended, unless there is no room for another alias.          *)
MonitoredIsShown == \A p \in Provider :
  <>[](enabled[p] /\ ready[p] /\ native[p] # None /\ ~cancelled /\ (p = "openai" => HasRoom(native[p])))
    => <>[](linked[p] = native[p])
=============================================================================
