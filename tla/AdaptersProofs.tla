---------------------------- MODULE AdaptersProofs ----------------------------
(***************************************************************************)
(* The promises of the adapter manager, for any number of HTTP clients, of *)
(* accounts, requests, failures and switches of the sign-in: what a        *)
(* monitor or disconnect answered holds, through failures and crashes; a   *)
(* reading goes to the account it was made with; an account shown under    *)
(* its canonical key does not come back under its e-mail key until the     *)
(* aliases are cleared; and no Codex process is lost.                      *)
(*                                                                         *)
(* None of them is inductive.  Each follows from a part of IInv that says, *)
(* at every place of the operation that holds op, what its locals have to  *)
(* do with the preferences, the Codex process, the native account and the  *)
(* aliases; ProcessInv rests on PreferenceInv, ReadingInv on ProcessInv.   *)
(***************************************************************************)
EXTENDS Adapters, TLAPS

\* Run's own operation comes from a round with a provider left to visit.
LoopInv == job # Free /\ job.by = "run" => loop = "round" /\ todo # <<>>

\* The provider, and the account, that an operation has at its later places.
PlaceInv ==
  job # Free =>
    /\ job.at \in {"start", "limits", "alias", "daily", "emitDaily"} => P = "openai"
    /\ job.at \in {"usage", "verify"} => P = "claude"
    /\ job.at \in {"limits", "alias"} => job.account \in Account
    /\ P = "openai" /\ job.at = "emitAccount" => job.account \in Account

Typed == TypeOK /\ LoopInv /\ PlaceInv

USE DEF others, filed, sink, disk, memory, timer, codex, run, bounds

-----------------------------------------------------------------------------
(* Operations. *)

\* The record of an operation is never the record of none.
LEMMA JobIsNotFree == Free \notin Job
<1>1. "at" \notin DOMAIN Free
  BY DEF Free
<1>2. \A j \in Job : "at" \in DOMAIN j
  BY DEF Job
<1> QED BY <1>1, <1>2

\* The fields of the operation under way.
LEMMA Fields ==
  ASSUME RunOK, job # Free
  PROVE  /\ job \in Job /\ job.by \in Clients \cup {"run"}
         /\ job.kind \in Kind /\ job.p \in Provider /\ job.at \in Place
         /\ job.account \in Maybe /\ job.key \in Key /\ job.quota \in Maybe
         /\ job.was \in BOOLEAN /\ job.error \in {"none", "some", "identity", "lost"}
<1>1. job \in Job
  BY DEF RunOK
<1> QED BY <1>1 DEF Job

\* An operation goes on: it stays the same one for the same provider.
Continues ==
  /\ job' \in Job /\ Stay
  /\ job'.by = job.by /\ job'.kind = job.kind /\ job'.p = job.p

\* An operation that only moves on.
LEMMA GoesTo ==
  ASSUME RunOK, job # Free, NEW place \in Place, Goto(place), Stay
  PROVE  Continues
<1>1. job \in Job
  BY Fields
<1> QED BY <1>1 DEF Goto, Job, Continues

Quietly == UNCHANGED <<loop, copy, cancelled, closed>>

\* Who answers a call.
LEMMA SourceTyped ==
  ASSUME TypeOK, P \in Provider
  PROVE  Source \in Maybe /\ native[P] \in Maybe /\ None \in Maybe
BY DEF TypeOK, OutsideOK, Source, Maybe

\* The key an account is observed under, whether the rate limits name one or not.
LEMMA KeyTyped ==
  ASSUME Typed, job # Free, job.at = "limits", NEW named \in Key
  PROVE  KeyOf(job.account) \in Key /\ NamedKey(named) \in Key
BY DEF Typed, TypeOK, MemoryOK, PlaceInv, KeyOf, NamedKey

\* An action of an operation is one of the operation under way, which ends or goes on.
LEMMA CallsReturn ==
  ASSUME Typed, Operation
  PROVE  job # Free /\ Quietly /\ (Return \/ Continues)
<1> USE DEF At, Quietly
<1>1. RunOK
  BY DEF Typed, TypeOK
<1>2. TypeOK
  BY DEF Typed
<1>3. CASE CheckStopped
  BY <1>1, <1>3, Fields, GoesTo DEF CheckStopped, Place
<1>4. CASE RefreshBegin
  BY <1>1, <1>4, Fields, GoesTo DEF RefreshBegin, Place
<1>5. CASE RefreshRefused
  BY <1>1, <1>5, Fields, GoesTo DEF RefreshRefused, Place
<1>6. ASSUME NEW named \in Key, LimitsMalformed(named)
      PROVE  job # Free /\ Quietly /\ (Return \/ Continues)
  <2>1. NamedKey(named) \in Key
    BY <1>6, KeyTyped DEF LimitsMalformed
  <2> QED
    BY <1>1, <1>2, <1>6, <2>1, Fields DEF LimitsMalformed, AfterLimits, Place, Job, Continues
<1>7. CASE EnableSet
  BY <1>1, <1>2, <1>7, Fields, SourceTyped DEF EnableSet, Place, Job, Continues, P, TypeOK, MemoryOK
<1>8. CASE DisconnectBegin
  BY <1>1, <1>8, Fields, GoesTo DEF DisconnectBegin, Place
<1>9. ASSUME NEW ok \in BOOLEAN, CheckBegin(ok)
      PROVE  job # Free /\ Quietly /\ (Return \/ Continues)
  BY <1>1, <1>9, Fields, GoesTo DEF CheckBegin, Place
<1>10. ASSUME NEW ok \in BOOLEAN, StartCodex(ok)
      PROVE  job # Free /\ Quietly /\ (Return \/ Continues)
  BY <1>1, <1>10, Fields, GoesTo DEF StartCodex, Place
<1>11. ASSUME NEW ok \in BOOLEAN, CheckAccount(ok)
      PROVE  job # Free /\ Quietly /\ (Return \/ Continues)
  BY <1>1, <1>11, Fields, GoesTo DEF CheckAccount, Place
<1>12. ASSUME NEW ok \in BOOLEAN, RefreshAccount(ok)
      PROVE  job # Free /\ Quietly /\ (Return \/ Continues)
  BY <1>1, <1>2, <1>12, Fields, SourceTyped DEF RefreshAccount, Place, Job, Continues, P
<1>13. ASSUME NEW ok \in BOOLEAN, ReadUsage(ok)
      PROVE  job # Free /\ Quietly /\ (Return \/ Continues)
  BY <1>1, <1>2, <1>13, Fields, SourceTyped DEF ReadUsage, Place, Job, Continues, P
<1>14. ASSUME NEW ok \in BOOLEAN, Verify(ok)
      PROVE  job # Free /\ Quietly /\ (Return \/ Continues)
  BY <1>1, <1>2, <1>14, Fields, SourceTyped DEF Verify, Place, Job, Continues, P
<1>15. ASSUME NEW ok \in BOOLEAN, SaveAlias(ok)
      PROVE  job # Free /\ Quietly /\ (Return \/ Continues)
  BY <1>1, <1>15, Fields, GoesTo DEF SaveAlias, Place
<1>16. ASSUME NEW ok \in BOOLEAN, EmitAccount(ok)
      PROVE  job # Free /\ Quietly /\ (Return \/ Continues)
  BY <1>1, <1>16, Fields, GoesTo DEF EmitAccount, Place
<1>17. ASSUME NEW ok \in BOOLEAN, EmitQuota(ok)
      PROVE  job # Free /\ Quietly /\ (Return \/ Continues)
  BY <1>1, <1>17, Fields, GoesTo DEF EmitQuota, Place
<1>18. ASSUME NEW ok \in BOOLEAN, ReadDaily(ok)
      PROVE  job # Free /\ Quietly /\ (Return \/ Continues)
  BY <1>1, <1>2, <1>18, Fields, SourceTyped DEF ReadDaily, Place, Job, Continues, P
<1>19. ASSUME NEW ok \in BOOLEAN, EmitDaily(ok)
      PROVE  job # Free /\ Quietly /\ (Return \/ Continues)
  BY <1>1, <1>19, Fields, GoesTo DEF EmitDaily, Place
<1>20. ASSUME NEW ok \in BOOLEAN, EnableSave(ok)
      PROVE  job # Free /\ Quietly /\ (Return \/ Continues)
  BY <1>1, <1>20, Fields, GoesTo DEF EnableSave, Place
<1>21. ASSUME NEW ok \in BOOLEAN, DisconnectSave(ok)
      PROVE  job # Free /\ Quietly /\ (Return \/ Continues)
  BY <1>1, <1>2, <1>21, Fields, SourceTyped DEF DisconnectSave, Place, Job, Continues, P
<1>22. ASSUME NEW ok \in BOOLEAN, DisconnectAliases(ok)
      PROVE  job # Free /\ Quietly /\ (Return \/ Continues)
  BY <1>1, <1>2, <1>22, Fields, SourceTyped DEF DisconnectAliases, Place, Job, Continues, P
<1>23. ASSUME NEW ok \in BOOLEAN, EmitDisconnect(ok)
      PROVE  job # Free /\ Quietly /\ (Return \/ Continues)
  BY <1>1, <1>23, Fields, GoesTo DEF EmitDisconnect, Place
<1>24. ASSUME NEW ok \in BOOLEAN, NEW named \in Key, ReadLimits(ok, named)
      PROVE  job # Free /\ Quietly /\ (Return \/ Continues)
  <2>1. NamedKey(named) \in Key /\ KeyOf(job.account) \in Key
    BY <1>24, KeyTyped DEF ReadLimits
  <2> QED
    BY <1>1, <1>2, <1>24, <2>1, Fields, SourceTyped
       DEF ReadLimits, AfterLimits, Place, Job, Continues, P
<1> QED
  BY <1>3, <1>4, <1>5, <1>6, <1>7, <1>8, <1>9, <1>10, <1>11, <1>12, <1>13, <1>14, <1>15, <1>16,
     <1>17, <1>18, <1>19, <1>20, <1>21, <1>22, <1>23, <1>24
     DEF Operation

\* An operation ends.
LEMMA Returned ==
  ASSUME RunOK, LoopInv, job # Free, Return
  PROVE  /\ job' = Free
         /\ todo' \in Seq(Provider)
         /\ request' \in [Clients -> (Kind \X Provider) \cup {<<>>}]
<1>1. CASE job.by = "run"
  BY <1>1 DEF RunOK, LoopInv, Return
<1>2. CASE job.by # "run"
  BY <1>2, Fields DEF RunOK, Return
<1> QED BY <1>1, <1>2

\* Run, the requests and the operation keep their types.
LEMMA RunTyped ==
  ASSUME Typed, Operation
  PROVE  RunOK' /\ LoopInv'
<1>1. RunOK /\ LoopInv /\ job # Free /\ Quietly /\ (Return \/ Continues)
  BY CallsReturn DEF Typed, TypeOK
<1>2. CASE Return
  BY <1>1, <1>2, Returned DEF RunOK, LoopInv, Quietly
<1>3. CASE Continues
  BY <1>1, <1>3, JobIsNotFree DEF RunOK, LoopInv, Quietly, Continues, Stay
<1> QED BY <1>1, <1>2, <1>3

\* An operation stays within the places of its kind and provider.
LEMMA PlaceKept ==
  ASSUME Typed, Operation
  PROVE  PlaceInv'
<1> USE DEF At, PlaceInv, P, Goto
<1>1. RunOK /\ LoopInv /\ PlaceInv /\ job # Free /\ (Return \/ Continues)
  BY CallsReturn DEF Typed, TypeOK
<1>2. CASE Return
  BY <1>1, <1>2, Returned
<1>3. job \in Job /\ job.p \in Provider /\ None \notin Account
  BY <1>1, Fields, NoneIsNoAccount
<1>4. TypeOK /\ Source \in Maybe /\ native[P] \in Maybe
  BY <1>3, SourceTyped DEF Typed
<1>5. ASSUME CheckStopped PROVE Return \/ PlaceInv'
  BY <1>1, <1>3, <1>4, <1>5 DEF CheckStopped, Job, Provider
<1>6. ASSUME RefreshBegin PROVE Return \/ PlaceInv'
  BY <1>1, <1>3, <1>4, <1>6 DEF RefreshBegin, Job, Provider
<1>7. ASSUME RefreshRefused PROVE Return \/ PlaceInv'
  BY <1>1, <1>3, <1>4, <1>7 DEF RefreshRefused, Job, Provider
<1>8. ASSUME NEW named \in Key, LimitsMalformed(named) PROVE Return \/ PlaceInv'
  BY <1>1, <1>3, <1>4, <1>8 DEF LimitsMalformed, AfterLimits, Job, Provider
<1>9. ASSUME EnableSet PROVE Return \/ PlaceInv'
  BY <1>1, <1>3, <1>4, <1>9 DEF EnableSet, Job, Provider
<1>10. ASSUME DisconnectBegin PROVE Return \/ PlaceInv'
  BY <1>1, <1>3, <1>4, <1>10 DEF DisconnectBegin, Job, Provider
<1>11. ASSUME NEW ok \in BOOLEAN, CheckBegin(ok) PROVE Return \/ PlaceInv'
  BY <1>1, <1>3, <1>4, <1>11 DEF CheckBegin, Job, Provider
<1>12. ASSUME NEW ok \in BOOLEAN, StartCodex(ok) PROVE Return \/ PlaceInv'
  BY <1>1, <1>3, <1>4, <1>12 DEF StartCodex, Job, Provider
<1>13. ASSUME NEW ok \in BOOLEAN, CheckAccount(ok) PROVE Return \/ PlaceInv'
  BY <1>1, <1>3, <1>4, <1>13 DEF CheckAccount, Job, Provider
<1>14. ASSUME NEW ok \in BOOLEAN, RefreshAccount(ok) PROVE Return \/ PlaceInv'
  BY <1>1, <1>3, <1>4, <1>14 DEF RefreshAccount, Job, Provider, Maybe
<1>15. ASSUME NEW ok \in BOOLEAN, ReadUsage(ok) PROVE Return \/ PlaceInv'
  BY <1>1, <1>3, <1>4, <1>15 DEF ReadUsage, Job, Provider
<1>16. ASSUME NEW ok \in BOOLEAN, Verify(ok) PROVE Return \/ PlaceInv'
  BY <1>1, <1>3, <1>4, <1>16 DEF Verify, Job, Provider, Maybe
<1>17. ASSUME NEW ok \in BOOLEAN, SaveAlias(ok) PROVE Return \/ PlaceInv'
  BY <1>1, <1>3, <1>4, <1>17 DEF SaveAlias, Job, Provider
<1>18. ASSUME NEW ok \in BOOLEAN, EmitAccount(ok) PROVE Return \/ PlaceInv'
  BY <1>1, <1>3, <1>4, <1>18 DEF EmitAccount, Job, Provider
<1>19. ASSUME NEW ok \in BOOLEAN, EmitQuota(ok) PROVE Return \/ PlaceInv'
  BY <1>1, <1>3, <1>4, <1>19 DEF EmitQuota, Job, Provider
<1>20. ASSUME NEW ok \in BOOLEAN, ReadDaily(ok) PROVE Return \/ PlaceInv'
  BY <1>1, <1>3, <1>4, <1>20 DEF ReadDaily, Job, Provider
<1>21. ASSUME NEW ok \in BOOLEAN, EmitDaily(ok) PROVE Return \/ PlaceInv'
  BY <1>1, <1>3, <1>4, <1>21 DEF EmitDaily, Job, Provider
<1>22. ASSUME NEW ok \in BOOLEAN, EnableSave(ok) PROVE Return \/ PlaceInv'
  BY <1>1, <1>3, <1>4, <1>22 DEF EnableSave, Job, Provider
<1>23. ASSUME NEW ok \in BOOLEAN, DisconnectSave(ok) PROVE Return \/ PlaceInv'
  BY <1>1, <1>3, <1>4, <1>23 DEF DisconnectSave, Job, Provider
<1>24. ASSUME NEW ok \in BOOLEAN, DisconnectAliases(ok) PROVE Return \/ PlaceInv'
  BY <1>1, <1>3, <1>4, <1>24 DEF DisconnectAliases, Job, Provider
<1>25. ASSUME NEW ok \in BOOLEAN, EmitDisconnect(ok) PROVE Return \/ PlaceInv'
  BY <1>1, <1>3, <1>4, <1>25 DEF EmitDisconnect, Job, Provider
<1>26. ASSUME NEW ok \in BOOLEAN, NEW named \in Key, ReadLimits(ok, named)
      PROVE  Return \/ PlaceInv'
  BY <1>1, <1>3, <1>4, <1>26 DEF ReadLimits, AfterLimits, Job, Provider
<1> QED
  BY <1>2, <1>5, <1>6, <1>7, <1>8, <1>9, <1>10, <1>11, <1>12, <1>13, <1>14, <1>15, <1>16, <1>17,
     <1>18, <1>19, <1>20, <1>21, <1>22, <1>23, <1>24, <1>25, <1>26
     DEF Operation

\* So do the parts outside of Run.
LEMMA PartsTyped ==
  ASSUME Typed, Operation
  PROVE  OutsideOK' /\ MemoryOK' /\ BoundsOK'
<1> DEFINE Goal == OutsideOK' /\ MemoryOK' /\ BoundsOK'
<1> USE DEF At, TypeOK, OutsideOK, MemoryOK, BoundsOK, CloseRPC,
           Keep, Attempt, Call, Emit, Answer, LoginState
<1>1. TypeOK /\ RunOK /\ job # Free
  BY CallsReturn DEF Typed
<1>2. /\ P \in Provider /\ job.account \in Maybe /\ job.was \in BOOLEAN /\ faults \in Nat
      /\ "openai" \in Provider
      /\ Source \in Maybe /\ native[P] \in Maybe /\ native["openai"] \in Maybe /\ None \in Maybe
  BY <1>1, Fields, SourceTyped DEF P, Provider
<1> HIDE DEF P
<1>3. ASSUME CheckStopped PROVE Goal
  BY <1>1, <1>2, BoundsAssumption, <1>3 DEF CheckStopped
<1>4. ASSUME RefreshBegin PROVE Goal
  BY <1>1, <1>2, BoundsAssumption, <1>4 DEF RefreshBegin
<1>5. ASSUME RefreshRefused PROVE Goal
  BY <1>1, <1>2, BoundsAssumption, <1>5 DEF RefreshRefused
<1>6. ASSUME NEW named \in Key, LimitsMalformed(named) PROVE Goal
  BY <1>1, <1>2, BoundsAssumption, <1>6 DEF LimitsMalformed
<1>7. ASSUME EnableSet PROVE Goal
  BY <1>1, <1>2, BoundsAssumption, <1>7 DEF EnableSet
<1>8. ASSUME DisconnectBegin PROVE Goal
  BY <1>1, <1>2, BoundsAssumption, <1>8 DEF DisconnectBegin
<1>9. ASSUME NEW ok \in BOOLEAN, CheckBegin(ok) PROVE Goal
  BY <1>1, <1>2, BoundsAssumption, <1>9 DEF CheckBegin
<1>10. ASSUME NEW ok \in BOOLEAN, StartCodex(ok) PROVE Goal
  BY <1>1, <1>2, BoundsAssumption, <1>10 DEF StartCodex
<1>11. ASSUME NEW ok \in BOOLEAN, CheckAccount(ok) PROVE Goal
  BY <1>1, <1>2, BoundsAssumption, <1>11 DEF CheckAccount
<1>12. ASSUME NEW ok \in BOOLEAN, RefreshAccount(ok) PROVE Goal
  <2> DEFINE account == IF ok THEN Source ELSE None
  <2>1. account \in Maybe
    BY <1>2
  <2>2. OutsideOK' /\ BoundsOK'
    BY <1>1, <1>2, BoundsAssumption, <1>12 DEF RefreshAccount
  <2>3. LoginState(IF account # None THEN "signed-in" ELSE "error")
    BY <1>12 DEF RefreshAccount
  <2>4. UNCHANGED <<enabled, aliases, ready>> /\ rpc' \in {"nil", "open", "done"}
    BY <1>1, <1>12 DEF RefreshAccount
  <2>5. usageAccount' \in Maybe /\ cooling' \in BOOLEAN /\ usageFailed' \in BOOLEAN
    BY <1>1, <2>1, <1>12 DEF RefreshAccount
  <2> HIDE DEF account
  <2> QED BY <1>1, <1>2, <2>2, <2>3, <2>4, <2>5
<1>13. ASSUME NEW ok \in BOOLEAN, ReadUsage(ok) PROVE Goal
  BY <1>1, <1>2, BoundsAssumption, <1>13 DEF ReadUsage
<1>14. ASSUME NEW ok \in BOOLEAN, Verify(ok) PROVE Goal
  BY <1>1, <1>2, BoundsAssumption, <1>14 DEF Verify
<1>15. ASSUME NEW ok \in BOOLEAN, SaveAlias(ok) PROVE Goal
  <2>1. job.account \in Account /\ job.key \in Key
    BY <1>15, <1>1, Fields DEF Typed, PlaceInv, SaveAlias
  <2>2. aliases' \in [Account -> Key] /\ savedAliases' \in [Account -> Key]
    BY <1>1, <2>1, <1>15 DEF SaveAlias
  <2>3. faults' \in 0..MaxFaults
    BY <1>1, <1>2, BoundsAssumption, <1>15 DEF SaveAlias
  <2> QED BY <1>1, <2>2, <2>3, <1>15 DEF SaveAlias
<1>16. ASSUME NEW ok \in BOOLEAN, EmitAccount(ok) PROVE Goal
  <2>1. P = "openai" => job.account \in Account
    BY <1>1, <1>16 DEF Typed, PlaceInv, EmitAccount
  <2>2. job.key \in Key
    BY <1>1, Fields
  <2>3. linkedKey' \in Key /\ records' \subseteq Account \X Ids /\ left' \subseteq Account \X Ids
    BY <1>1, <1>16, <2>1, <2>2 DEF EmitAccount, File, Key
  <2>4. linked' \in [Provider -> Maybe]
    BY <1>1, <1>2, <1>16 DEF EmitAccount
  <2> QED BY <1>1, <1>2, BoundsAssumption, <1>16, <2>3, <2>4 DEF EmitAccount
<1>17. ASSUME NEW ok \in BOOLEAN, EmitQuota(ok) PROVE Goal
  BY <1>1, <1>2, BoundsAssumption, <1>17 DEF EmitQuota
<1>18. ASSUME NEW ok \in BOOLEAN, ReadDaily(ok) PROVE Goal
  BY <1>1, <1>2, BoundsAssumption, <1>18 DEF ReadDaily
<1>19. ASSUME NEW ok \in BOOLEAN, EmitDaily(ok) PROVE Goal
  BY <1>1, <1>2, BoundsAssumption, <1>19 DEF EmitDaily
<1>20. ASSUME NEW ok \in BOOLEAN, EnableSave(ok) PROVE Goal
  BY <1>1, <1>2, BoundsAssumption, <1>20 DEF EnableSave
<1>21. ASSUME NEW ok \in BOOLEAN, DisconnectSave(ok) PROVE Goal
  BY <1>1, <1>2, BoundsAssumption, <1>21 DEF DisconnectSave
<1>22. ASSUME NEW ok \in BOOLEAN, DisconnectAliases(ok) PROVE Goal
  BY <1>1, <1>2, BoundsAssumption, <1>22 DEF DisconnectAliases, NoAlias, Key
<1>23. ASSUME NEW ok \in BOOLEAN, EmitDisconnect(ok) PROVE Goal
  BY <1>1, <1>2, BoundsAssumption, <1>23 DEF EmitDisconnect, Key
<1>24. ASSUME NEW ok \in BOOLEAN, NEW named \in Key, ReadLimits(ok, named)
      PROVE  Goal
  BY <1>1, <1>2, BoundsAssumption, <1>24 DEF ReadLimits
<1> QED
  BY <1>3, <1>4, <1>5, <1>6, <1>7, <1>8, <1>9, <1>10, <1>11, <1>12, <1>13, <1>14, <1>15, <1>16,
     <1>17, <1>18, <1>19, <1>20, <1>21, <1>22, <1>23, <1>24
     DEF Operation

\* A new operation.
LEMMA NewOperation ==
  ASSUME NEW by \in Clients \cup {"run"}, NEW kind \in Kind, NEW p \in Provider
  PROVE  NewJob(by, kind, p) \in Job
BY DEF NewJob, Job, Place, Maybe, Key

\* The types at first, and after every step.
LEMMA InitTyped == Init => Typed
<1> SUFFICES ASSUME Init PROVE Typed
  OBVIOUS
<1>1. OutsideOK
  BY SignedInAssumption DEF Init, OutsideOK, Maybe, Key, NoAlias
<1>2. MemoryOK
  BY DEF Init, MemoryOK, Maybe, Key, NoAlias
<1>3. todo \in Seq(Provider) /\ request \in [Clients -> (Kind \X Provider) \cup {<<>>}]
  BY DEF Init
<1>4. RunOK
  BY <1>3 DEF Init, RunOK
<1>5. BoundsOK
  BY BoundsAssumption DEF Init, BoundsOK
<1> QED BY <1>1, <1>2, <1>4, <1>5 DEF Typed, TypeOK, LoopInv, PlaceInv, Init

LEMMA TypedStep == Typed /\ [Next]_vars => Typed'
<1> SUFFICES ASSUME Typed, [Next]_vars PROVE Typed'
  OBVIOUS
<1> USE DEF TypeOK, OutsideOK, MemoryOK, RunOK, BoundsOK, LoopInv, PlaceInv, P
<1>1. CASE Operation
  BY <1>1, RunTyped, PlaceKept, PartsTyped DEF Typed
<1>2. CASE UNCHANGED vars
  BY <1>2 DEF vars, Typed
<1>3. CASE Start
  BY <1>3 DEF Start, Typed
<1>4. CASE Round
  <2>1. <<"openai", "claude">> \in Seq(Provider)
    BY DEF Provider
  <2> QED BY <1>4, <2>1 DEF Round, Typed
<1>5. CASE Visit
  <2>1. Head(todo) \in Provider
    BY <1>5 DEF Visit, Typed
  <2>2. job' \in Job
    BY <1>5, <2>1, NewOperation DEF Visit, Kind
  <2>3. job'.at = "begin"
    BY <1>5 DEF Visit, NewJob
  <2> QED BY <1>5, <2>2, <2>3, JobIsNotFree DEF Visit, Typed
<1>6. CASE RoundOver
  BY <1>6 DEF RoundOver, Typed
<1>7. CASE Leave
  BY <1>7 DEF Leave, Typed
<1>8. CASE Shutdown
  BY <1>8 DEF Shutdown, CloseRPC, Typed
<1>9. ASSUME NEW c \in Clients, NEW kind \in Kind, NEW p \in Provider, Ask(c, kind, p) PROVE Typed'
  BY <1>9, BoundsAssumption DEF Ask, Typed
<1>10. ASSUME NEW c \in Clients, Lock(c) PROVE Typed'
  <2>1. request[c][1] \in Kind /\ request[c][2] \in Provider
    BY <1>10 DEF Lock, Typed
  <2>2. job' \in Job
    BY <1>10, <2>1, NewOperation DEF Lock
  <2>3. job'.at = "begin" /\ job'.by = c
    BY <1>10 DEF Lock, NewJob
  <2> QED BY <1>10, <2>2, <2>3, JobIsNotFree, RunIsNoClient DEF Lock, Typed
<1>11. ASSUME NEW p \in Provider, NEW a \in Maybe, Switch(p, a) PROVE Typed'
  BY <1>11, BoundsAssumption DEF Switch, Typed
<1>12. CASE Cool
  BY <1>12 DEF Cool, Typed
<1>13. CASE Die
  BY <1>13, BoundsAssumption DEF Die, Typed
<1>14. CASE Cancel
  BY <1>14 DEF Cancel, Typed
<1>15. CASE Crash
  <2>1. OutsideOK'
    BY <1>15 DEF Crash, Typed, Maybe
  <2>2. MemoryOK'
    BY <1>15 DEF Crash, Typed, Maybe
  <2>3. BoundsOK'
    BY <1>15, BoundsAssumption DEF Crash, Typed
  <2>4. todo' \in Seq(Provider) /\ request' \in [Clients -> (Kind \X Provider) \cup {<<>>}]
    BY <1>15 DEF Crash
  <2> QED BY <1>15, <2>1, <2>2, <2>3, <2>4 DEF Crash, Typed
<1> QED
  BY <1>1, <1>2, <1>3, <1>4, <1>5, <1>6, <1>7, <1>8, <1>9, <1>10, <1>11, <1>12, <1>13, <1>14, <1>15
     DEF Next, Poll, Environment

-----------------------------------------------------------------------------
(* The invariant. *)

Saving == At({"monitor"}, "save")
Refreshing == job # Free /\ job.kind = "refresh"
Disconnecting == job # Free /\ job.kind = "disconnect" /\ job.at # "begin"

\* What is promised of a provider is on disk, and in memory but for the moment
\* between setting and saving it; a refresh goes on only for a provider that is
\* enabled, so that one whose disconnect was promised is not linked again.
PreferenceInv ==
  /\ Refreshing /\ job.at # "begin" => enabled[P]
  /\ Saving => enabled[P]
  /\ Disconnecting =>
       /\ ~enabled[P] /\ promised[P] = "open" /\ connection[P] = "disconnected"
       /\ job.at # "save" /\ job.error = "none" => ~saved[P]
  /\ \A p \in Provider : promised[p] # "open" =>
       /\ saved[p] <=> promised[p] = "monitor"
       /\ ~(Saving /\ P = p) => (enabled[p] <=> saved[p])
       /\ Saving /\ P = p => (job.was <=> saved[p])
       /\ promised[p] = "disconnect" => linked[p] = None /\ connection[p] # "connected"

\* The RPC client is open exactly for a Codex process, and an operation that
\* ends leaves one only for a provider that stays enabled.
ProcessInv ==
  /\ process # <<>> <=> rpc = "open"
  /\ closed => process = <<>>
  /\ job # Free /\ job.at # "begin" /\ job.kind # "disconnect" => ~closed
  /\ ~enabled["openai"] => process = <<>> \/ (job # Free /\ job.at = "account" /\ P = "openai")
  /\ Saving /\ P = "openai" /\ ~job.was => process = <<>>

\* A reading that will be emitted is one of the account it will be emitted for:
\* for OpenAI because one process answers all calls of a refresh, for Claude
\* because the account is the same after the reading as before it.
ReadingInv ==
  /\ truthful
  /\ Refreshing =>
       /\ job.at \in {"begin", "start", "account"} => job.quota = None
       /\ P = "openai" /\ job.at \notin {"begin", "start", "account"} /\ process # <<>> =>
            process[1] = job.account
       /\ job.at = "verify" /\ job.quota # None /\ native[P] = job.account =>
            job.quota = job.account
       /\ job.at \in {"alias", "emitAccount"} /\ job.error = "none" /\ job.quota # None =>
            job.quota = job.account
       /\ job.at \in {"emitQuota", "emitDaily"} => job.quota = job.account

\* An account with a fresh record under a canonical key has its alias, on disk first,
\* and goes on to be observed under the key that the alias is.
KeyInv ==
  /\ \A x \in Account : aliases[x] # "email" => savedAliases[x] # "email"
  /\ \A x \in Account, k \in Ids : <<x, k>> \in Fresh => aliases[x] # "email"
  /\ KeyStable
  /\ Refreshing /\ job.at = "alias" => job.key # "email"
  /\ Refreshing /\ P = "openai" /\ job.at = "emitAccount" => job.key = aliases[job.account]

IInv == Typed /\ PreferenceInv /\ ProcessInv /\ ReadingInv /\ KeyInv

-----------------------------------------------------------------------------
(* What an operation goes on with, action by action. *)

Onward(places) == Continues /\ job' # Free /\ job'.at \in places

\* What is known of an operation under way.
LEMMA JobTyped ==
  ASSUME Typed, job # Free
  PROVE  /\ job \in Job /\ P \in Provider /\ None \in Maybe
         /\ job.account \in Maybe /\ job.quota \in Maybe /\ Source \in Maybe /\ native[P] \in Maybe
         /\ enabled[P] \in BOOLEAN
<1>1. TypeOK /\ RunOK
  BY DEF Typed, TypeOK
<1>2. P \in Provider
  BY <1>1, Fields DEF P
<1> QED BY <1>1, <1>2, Fields, SourceTyped DEF TypeOK, MemoryOK

LEMMA AfterEnableSet ==
  ASSUME Typed, EnableSet
  PROVE  Onward({"save"}) /\ job'.was = enabled[P]
BY JobTyped, JobIsNotFree DEF EnableSet, At, Place, Job, Onward, Continues, Stay, P

LEMMA AfterDisconnectBegin ==
  ASSUME Typed, DisconnectBegin
  PROVE  Onward({"save"})
BY JobTyped, JobIsNotFree DEF DisconnectBegin, Goto, At, Place, Job, Onward, Continues, Stay, P

LEMMA AfterDisconnectSave ==
  ASSUME Typed, NEW ok \in BOOLEAN, DisconnectSave(ok)
  PROVE  Onward({"aliases", "emitDisconnect"}) /\ (job'.error = "none" => ok)
BY JobTyped, JobIsNotFree, ZenonT(60) DEF DisconnectSave, At, Place, Job, Onward, Continues, Stay, P

LEMMA AfterDisconnectAliases ==
  ASSUME Typed, NEW ok \in BOOLEAN, DisconnectAliases(ok)
  PROVE  Onward({"emitDisconnect"}) /\ (job'.error = "none" => job.error = "none")
BY JobTyped, JobIsNotFree DEF DisconnectAliases, At, Place, Job, Onward, Continues, Stay, P

LEMMA AfterSaveAlias ==
  ASSUME Typed, NEW ok \in BOOLEAN, SaveAlias(ok)
  PROVE  \/ ~ok /\ Return
         \/ /\ Onward({"emitAccount"}) /\ ok /\ job'.key = job.key
            /\ job'.account = job.account /\ job'.quota = job.quota /\ job'.error = job.error
<1>1. CASE ~ok /\ Return
  BY <1>1
<1>2. CASE job # Free /\ ok /\ Stay /\ Goto("emitAccount")
  BY <1>2, JobTyped, JobIsNotFree DEF Goto, Place, Job, Onward, Continues, Stay
<1> QED BY <1>1, <1>2 DEF SaveAlias, At

LEMMA AfterReadDaily ==
  ASSUME Typed, NEW ok \in BOOLEAN, ReadDaily(ok)
  PROVE  \/ Return
         \/ Onward({"emitDaily"}) /\ ok /\ job'.quota = Source /\ job'.account = job.account
<1>1. CASE Return
  BY <1>1
<1>2. CASE job # Free /\ ok /\ Stay /\ job' = [job EXCEPT !.at = "emitDaily", !.quota = Source]
  BY <1>2, JobTyped, JobIsNotFree DEF Place, Job, Onward, Continues, Stay
<1> QED BY <1>1, <1>2 DEF ReadDaily, At

LEMMA AfterReadUsage ==
  ASSUME Typed, NEW ok \in BOOLEAN, ReadUsage(ok)
  PROVE  /\ Onward({"verify"}) /\ job'.account = job.account
         /\ job'.quota = IF ok THEN native[P] ELSE None
BY JobTyped, JobIsNotFree DEF ReadUsage, At, Place, Job, Onward, Continues, Stay, P

\* The reading of the rate limits goes on to the alias only with a name to save.
LEMMA AfterLimitsMalformed ==
  ASSUME Typed, NEW named \in Key, LimitsMalformed(named)
  PROVE  /\ Onward({"alias", "emitAccount"}) /\ job'.error = "some"
         /\ job'.account = job.account
         /\ job'.at = "alias" => job'.key # "email"
         /\ job'.at = "emitAccount" => job'.key = aliases[job.account]
<1> DEFINE key == NamedKey(named)
           at == AfterLimits(key)
<1>1. /\ job # Free /\ Stay
      /\ job' = [job EXCEPT !.at = at, !.key = key, !.error = "some"]
  BY DEF LimitsMalformed, At
<1>2. /\ at \in {"alias", "emitAccount"} /\ key \in Key
      /\ at = "alias" => key # "email"
      /\ at = "emitAccount" => key = aliases[job.account]
  BY KeyTyped DEF LimitsMalformed, At, AfterLimits, NamedKey, KeyOf
<1> HIDE DEF at, key
<1> QED
  BY <1>1, <1>2, JobTyped, JobIsNotFree, ZenonT(60) DEF Place, Job, Onward, Continues, Stay

LEMMA AfterReadLimits ==
  ASSUME Typed, NEW ok \in BOOLEAN, NEW named \in Key, ReadLimits(ok, named)
  PROVE  /\ Onward({"alias", "emitAccount"}) /\ job'.account = job.account
         /\ job'.error = job.error /\ job'.quota = IF ok THEN Source ELSE None
         /\ job'.at = "alias" => job'.key # "email"
         /\ job'.at = "emitAccount" => job'.key = aliases[job.account]
<1> DEFINE key == IF ok THEN NamedKey(named) ELSE KeyOf(job.account)
           at == AfterLimits(key)
           quota == IF ok THEN Source ELSE None
<1>1. /\ job # Free /\ Stay
      /\ job' = [job EXCEPT !.at = at, !.key = key, !.quota = quota]
  BY DEF ReadLimits, At
<1>2. /\ at \in {"alias", "emitAccount"} /\ key \in Key
      /\ at = "alias" => key # "email"
      /\ at = "emitAccount" => key = aliases[job.account]
  BY KeyTyped DEF ReadLimits, At, AfterLimits, NamedKey, KeyOf
<1>3. quota \in Maybe
  BY <1>1, JobTyped
<1> HIDE DEF at, key
<1> QED
  BY <1>1, <1>2, <1>3, JobTyped, JobIsNotFree, ZenonT(60) DEF Place, Job, Onward, Continues, Stay

LEMMA AfterRefreshAccount ==
  ASSUME Typed, NEW ok \in BOOLEAN, RefreshAccount(ok)
  PROVE  \/ Return
         \/ /\ Onward({"limits", "usage", "emitAccount"}) /\ (P = "openai" <=> job'.at = "limits")
            /\ ok /\ Source # None /\ job'.account = Source /\ job'.quota = job.quota
<1> SUFFICES ASSUME ~Return
             PROVE  /\ Onward({"limits", "usage", "emitAccount"}) /\ (P = "openai" <=> job'.at = "limits")
                    /\ ok /\ Source # None /\ job'.account = Source /\ job'.quota = job.quota
  OBVIOUS
<1>1. job # Free /\ ok /\ Source # None /\ Stay
  BY DEF RefreshAccount, At
<1>2. P = "openai" => job' = [job EXCEPT !.at = "limits", !.account = Source]
  BY <1>1 DEF RefreshAccount
<1>3. P = "claude" => \E at \in {"usage", "emitAccount"}, error \in {"some", "none"} :
                        job' = [job EXCEPT !.at = at, !.account = Source, !.error = error]
  BY <1>1 DEF RefreshAccount
<1>4. CASE P = "openai"
  <2>1. job' = [job EXCEPT !.at = "limits", !.account = Source]
    BY <1>2, <1>4
  <2> QED
    BY <1>1, <1>4, <2>1, JobTyped, JobIsNotFree, ZenonT(60) DEF Place, Job, Onward, Continues, Stay
<1>5. CASE P = "claude"
  <2>1. PICK at \in {"usage", "emitAccount"}, error \in {"some", "none"} :
          job' = [job EXCEPT !.at = at, !.account = Source, !.error = error]
    BY <1>3, <1>5
  <2> QED
    BY <1>1, <1>5, <2>1, JobTyped, JobIsNotFree, ZenonT(60) DEF Place, Job, Onward, Continues, Stay
<1> QED BY <1>1, <1>4, <1>5, JobTyped DEF Provider

LEMMA AfterVerify ==
  ASSUME Typed, NEW ok \in BOOLEAN, Verify(ok)
  PROVE  /\ Onward({"emitAccount"})
         /\ job'.error = "none" =>
              job'.account = job.account /\ job'.quota = job.quota /\ ok /\ native[P] = job.account
<1> DEFINE verified == IF ok THEN native[P] ELSE None
           error == IF verified = None THEN "lost"
                    ELSE IF verified # job.account THEN "identity"
                    ELSE IF job.quota = None THEN "some" ELSE "none"
           account == IF error = "identity" THEN verified ELSE job.account
           quota == IF error = "none" THEN job.quota ELSE None
<1>1. /\ job # Free /\ Stay
      /\ job' = [job EXCEPT !.at = "emitAccount", !.error = error, !.account = account, !.quota = quota]
  BY DEF Verify, At
<1>2. /\ account \in Maybe /\ quota \in Maybe /\ error \in {"none", "some", "identity", "lost"}
      /\ error = "none" => /\ account = job.account /\ quota = job.quota
                           /\ ok /\ native[P] = job.account
  BY <1>1, JobTyped, NoneIsNoAccount
<1> HIDE DEF verified, error, account, quota
<1> QED
  BY <1>1, <1>2, JobTyped, JobIsNotFree, ZenonT(60) DEF Place, Job, Onward, Continues, Stay

-----------------------------------------------------------------------------
(* Every action keeps each part of the invariant. *)

\* No action breaks what is promised of a provider.
LEMMA PreferenceStep ==
  ASSUME Typed, PreferenceInv, [Next]_vars
  PROVE  PreferenceInv'
<1>1. TypeOK /\ RunOK /\ MemoryOK /\ OutsideOK /\ LoopInv /\ PlaceInv /\ None \notin Account
  BY NoneIsNoAccount DEF Typed, TypeOK
<1>2. Free \notin Job
  BY JobIsNotFree
<1>3. job # Free => /\ P \in Provider /\ job \in Job /\ job.account \in Maybe
  BY <1>1, Fields DEF P
<1> USE DEF At, P, Goto, Stay, Return, Saving, Refreshing, Disconnecting, MemoryOK, OutsideOK,
      Job, PreferenceInv, LoginState
<1>4. CASE Start
  BY <1>1, <1>2, <1>4 DEF Start
<1>5. CASE Round
  BY <1>1, <1>2, <1>5 DEF Round
<1>6. CASE Visit
  <2>1. job'.at = "begin" /\ job'.quota = None
    BY <1>6 DEF Visit, NewJob
  <2> QED BY <1>1, <1>6, <2>1 DEF Visit
<1>7. CASE RoundOver
  BY <1>1, <1>2, <1>7 DEF RoundOver
<1>8. CASE Leave
  BY <1>1, <1>2, <1>8 DEF Leave
<1>9. CASE Shutdown
  BY <1>1, <1>2, <1>9 DEF Shutdown
<1>10. CASE CheckStopped
  BY <1>1, <1>2, <1>3, <1>10 DEF CheckStopped
<1>11. CASE RefreshBegin
  BY <1>1, <1>2, <1>3, <1>11 DEF RefreshBegin
<1>12. CASE RefreshRefused
  BY <1>1, <1>2, <1>3, <1>12 DEF RefreshRefused
<1>13. ASSUME NEW named \in Key, LimitsMalformed(named) PROVE PreferenceInv'
  BY <1>1, <1>2, <1>3, <1>13, AfterLimitsMalformed DEF LimitsMalformed, Onward, Continues
<1>14. CASE EnableSet
  BY <1>1, <1>2, <1>3, <1>14, AfterEnableSet DEF EnableSet, Onward, Continues
<1>15. CASE DisconnectBegin
  <2>1. /\ job' # Free /\ job'.kind = job.kind /\ job'.p = job.p /\ job'.at = "save"
        /\ job.kind = "disconnect" /\ P \in Provider
    BY <1>15, <1>3, AfterDisconnectBegin DEF Onward, Continues, DisconnectBegin
  <2>2. /\ enabled' = [enabled EXCEPT ![P] = FALSE]
        /\ connection' = [connection EXCEPT ![P] = "disconnected"]
        /\ promised' = [promised EXCEPT ![P] = "open"] /\ UNCHANGED <<saved, linked>> /\ ~Saving
    BY <1>15 DEF DisconnectBegin
  <2> QED BY <1>1, <2>1, <2>2 DEF TypeOK, BoundsOK
<1>16. ASSUME NEW ok \in BOOLEAN, CheckBegin(ok) PROVE PreferenceInv'
  BY <1>1, <1>2, <1>3, <1>16 DEF CheckBegin
<1>17. ASSUME NEW ok \in BOOLEAN, StartCodex(ok) PROVE PreferenceInv'
  BY <1>1, <1>2, <1>3, <1>17 DEF StartCodex
<1>18. ASSUME NEW ok \in BOOLEAN, CheckAccount(ok) PROVE PreferenceInv'
  BY <1>1, <1>2, <1>3, <1>18 DEF CheckAccount
<1>19. ASSUME NEW ok \in BOOLEAN, RefreshAccount(ok) PROVE PreferenceInv'
  <2>1. CASE Return
    BY <1>1, <1>2, <1>3, <1>19, <2>1 DEF RefreshAccount
  <2>2. CASE ~Return
    <3>1. /\ Onward({"limits", "usage", "emitAccount"}) /\ (P = "openai" <=> job'.at = "limits")
          /\ ok /\ job'.account = Source /\ job'.quota = job.quota
      BY <1>19, <2>2, AfterRefreshAccount
    <3> QED BY <1>1, <1>3, <1>19, <3>1 DEF RefreshAccount, Onward, Continues
  <2> QED BY <2>1, <2>2
<1>20. ASSUME NEW ok \in BOOLEAN, ReadUsage(ok) PROVE PreferenceInv'
  <2>1. /\ Onward({"verify"}) /\ job'.account = job.account
        /\ job'.quota = IF ok THEN native[P] ELSE None
    BY <1>20, AfterReadUsage
  <2> QED BY <1>1, <1>3, <1>20, <2>1 DEF ReadUsage, Onward, Continues
<1>21. ASSUME NEW ok \in BOOLEAN, Verify(ok) PROVE PreferenceInv'
  <2>1. /\ Onward({"emitAccount"})
        /\ job'.error = "none" =>
             job'.account = job.account /\ job'.quota = job.quota /\ ok /\ native[P] = job.account
    BY <1>21, AfterVerify
  <2> QED BY <1>1, <1>3, <1>21, <2>1 DEF Verify, Onward, Continues
<1>22. ASSUME NEW ok \in BOOLEAN, SaveAlias(ok) PROVE PreferenceInv'
  BY <1>1, <1>2, <1>3, <1>22, AfterSaveAlias DEF SaveAlias, Onward, Continues
<1>23. ASSUME NEW ok \in BOOLEAN, EmitAccount(ok) PROVE PreferenceInv'
  BY <1>1, <1>2, <1>3, <1>23 DEF EmitAccount
<1>24. ASSUME NEW ok \in BOOLEAN, EmitQuota(ok) PROVE PreferenceInv'
  BY <1>1, <1>2, <1>3, <1>24 DEF EmitQuota
<1>25. ASSUME NEW ok \in BOOLEAN, ReadDaily(ok) PROVE PreferenceInv'
  BY <1>1, <1>2, <1>3, <1>25, AfterReadDaily DEF ReadDaily, Onward, Continues
<1>26. ASSUME NEW ok \in BOOLEAN, EmitDaily(ok) PROVE PreferenceInv'
  BY <1>1, <1>2, <1>3, <1>26 DEF EmitDaily
<1>27. ASSUME NEW ok \in BOOLEAN, EnableSave(ok) PROVE PreferenceInv'
  <2>1. job' = Free /\ Saving /\ P \in Provider
    BY <1>1, <1>3, <1>27 DEF EnableSave
  <2>2. ASSUME NEW p \in Provider, promised'[p] # "open" PROVE
          /\ saved'[p] <=> promised'[p] = "monitor"
          /\ enabled'[p] <=> saved'[p]
          /\ promised'[p] = "disconnect" => linked'[p] = None /\ connection'[p] # "connected"
    <3> USE DEF EnableSave, BoundsOK, TypeOK
    <3>1. CASE ok
      BY <1>1, <1>3, <1>27, <2>1, <2>2, <3>1
    <3>2. CASE ~ok /\ p = P
      <4>1. /\ saved'[p] = saved[p] /\ promised'[p] = promised[p] /\ enabled'[p] = job.was
            /\ UNCHANGED <<linked, connection>>
        BY <1>1, <1>3, <1>27, <2>1, <3>2
      <4> QED BY <2>1, <2>2, <3>2, <4>1
    <3>3. CASE ~ok /\ p # P
      <4>1. /\ saved'[p] = saved[p] /\ promised'[p] = promised[p] /\ enabled'[p] = enabled[p]
            /\ UNCHANGED <<linked, connection>>
        BY <1>1, <1>3, <1>27, <2>1, <3>3
      <4> QED BY <2>1, <2>2, <3>3, <4>1
    <3> QED BY <3>1, <3>2, <3>3
  <2> QED BY <2>1, <2>2
<1>28. ASSUME NEW ok \in BOOLEAN, DisconnectSave(ok) PROVE PreferenceInv'
  <2>1. Onward({"aliases", "emitDisconnect"}) /\ (job'.error = "none" => ok)
    BY <1>28, AfterDisconnectSave
  <2> QED BY <1>1, <1>3, <1>28, <2>1 DEF DisconnectSave, Onward, Continues
<1>29. ASSUME NEW ok \in BOOLEAN, DisconnectAliases(ok) PROVE PreferenceInv'
  <2>1. Onward({"emitDisconnect"}) /\ (job'.error = "none" => job.error = "none")
    BY <1>29, AfterDisconnectAliases
  <2> QED BY <1>1, <1>3, <1>29, <2>1 DEF DisconnectAliases, Onward, Continues
<1>30. ASSUME NEW ok \in BOOLEAN, EmitDisconnect(ok) PROVE PreferenceInv'
  BY <1>1, <1>2, <1>3, <1>30 DEF EmitDisconnect
<1>31. ASSUME NEW ok \in BOOLEAN, NEW named \in Key, ReadLimits(ok, named)
      PROVE  PreferenceInv'
  <2>1. /\ Onward({"alias", "emitAccount"}) /\ job'.account = job.account
    BY <1>31, AfterReadLimits
  <2> QED BY <1>1, <1>3, <1>31, <2>1 DEF ReadLimits, Onward, Continues
<1>32. ASSUME NEW c \in Clients, NEW kind \in Kind, NEW p \in Provider, Ask(c, kind, p)
      PROVE  PreferenceInv'
  BY <1>1, <1>2, <1>32 DEF Ask
<1>33. ASSUME NEW c \in Clients, Lock(c) PROVE PreferenceInv'
  <2>1. job'.at = "begin" /\ job'.quota = None
    BY <1>33 DEF Lock, NewJob
  <2> QED BY <1>1, <1>33, <2>1 DEF Lock
<1>34. ASSUME NEW p \in Provider, NEW b \in Maybe, Switch(p, b) PROVE PreferenceInv'
  BY <1>1, <1>2, <1>34 DEF Switch
<1>35. CASE Cool
  BY <1>1, <1>2, <1>35 DEF Cool
<1>36. CASE Die
  BY <1>1, <1>2, <1>36 DEF Die
<1>37. CASE Cancel
  BY <1>1, <1>2, <1>37 DEF Cancel
<1>38. CASE Crash
  BY <1>1, <1>2, <1>38 DEF Crash
<1>39. CASE UNCHANGED vars
  BY <1>1, <1>2, <1>39 DEF vars
<1> QED
  BY <1>4, <1>5, <1>6, <1>7, <1>8, <1>9, <1>10, <1>11, <1>12, <1>13, <1>14, <1>15, <1>16, <1>17,
     <1>18, <1>19, <1>20, <1>21, <1>22, <1>23, <1>24, <1>25, <1>26, <1>27, <1>28, <1>29, <1>30,
     <1>31, <1>32, <1>33, <1>34, <1>35, <1>36, <1>37, <1>38, <1>39
     DEF Next, Poll, Operation, Environment

\* No action loses hold of the Codex process.
LEMMA ProcessStep ==
  ASSUME Typed, PreferenceInv, ProcessInv, [Next]_vars
  PROVE  ProcessInv'
<1>1. TypeOK /\ RunOK /\ MemoryOK /\ OutsideOK /\ LoopInv /\ PlaceInv /\ None \notin Account
  BY NoneIsNoAccount DEF Typed, TypeOK
<1>2. Free \notin Job
  BY JobIsNotFree
<1>3. job # Free => /\ P \in Provider /\ job \in Job /\ job.account \in Maybe
  BY <1>1, Fields DEF P
<1> USE DEF At, P, Goto, Stay, Return, Saving, Refreshing, Disconnecting, MemoryOK, OutsideOK,
      Job, ProcessInv, PreferenceInv, CloseRPC, Keep, LoginState
<1>4. CASE Start
  BY <1>1, <1>2, <1>4 DEF Start
<1>5. CASE Round
  BY <1>1, <1>2, <1>5 DEF Round
<1>6. CASE Visit
  <2>1. job'.at = "begin" /\ job'.quota = None
    BY <1>6 DEF Visit, NewJob
  <2> QED BY <1>1, <1>6, <2>1 DEF Visit
<1>7. CASE RoundOver
  BY <1>1, <1>2, <1>7 DEF RoundOver
<1>8. CASE Leave
  BY <1>1, <1>2, <1>8 DEF Leave
<1>9. CASE Shutdown
  BY <1>1, <1>2, <1>9 DEF Shutdown
<1>10. CASE CheckStopped
  BY <1>1, <1>2, <1>3, <1>10 DEF CheckStopped
<1>11. CASE RefreshBegin
  BY <1>1, <1>2, <1>3, <1>11 DEF RefreshBegin
<1>12. CASE RefreshRefused
  BY <1>1, <1>2, <1>3, <1>12 DEF RefreshRefused
<1>13. ASSUME NEW named \in Key, LimitsMalformed(named) PROVE ProcessInv'
  BY <1>1, <1>2, <1>3, <1>13, AfterLimitsMalformed DEF LimitsMalformed, Onward, Continues
<1>14. CASE EnableSet
  BY <1>1, <1>2, <1>3, <1>14, AfterEnableSet DEF EnableSet, Onward, Continues
<1>15. CASE DisconnectBegin
  BY <1>1, <1>2, <1>3, <1>15, AfterDisconnectBegin DEF DisconnectBegin, Onward, Continues
<1>16. ASSUME NEW ok \in BOOLEAN, CheckBegin(ok) PROVE ProcessInv'
  BY <1>1, <1>2, <1>3, <1>16 DEF CheckBegin
<1>17. ASSUME NEW ok \in BOOLEAN, StartCodex(ok) PROVE ProcessInv'
  <2>1. P = "openai" /\ job \in Job /\ job.kind # "disconnect" /\ ~closed
    BY <1>1, <1>3, <1>17 DEF StartCodex, PlaceInv
  <2>2. job # Free /\ Goto("account") /\ Stay /\ "account" \in Place
    BY <1>17 DEF StartCodex, Place
  <2>3. job' # Free /\ job'.at = "account" /\ job'.p = job.p /\ job'.kind = job.kind
    <3>1. Continues
      BY <1>1, <2>2, GoesTo
    <3> QED BY <2>1, <2>2, <3>1, JobIsNotFree DEF Continues
  <2>4. process' # <<>> <=> rpc' = "open"
    BY <1>17 DEF StartCodex
  <2> QED BY <2>1, <2>3, <2>4, <1>17 DEF StartCodex
<1>18. ASSUME NEW ok \in BOOLEAN, CheckAccount(ok) PROVE ProcessInv'
  BY <1>1, <1>2, <1>3, <1>18 DEF CheckAccount
<1>19. ASSUME NEW ok \in BOOLEAN, RefreshAccount(ok) PROVE ProcessInv'
  <2>1. CASE Return
    BY <1>1, <1>2, <1>3, <1>19, <2>1 DEF RefreshAccount
  <2>2. CASE ~Return
    <3>1. /\ Onward({"limits", "usage", "emitAccount"}) /\ (P = "openai" <=> job'.at = "limits")
          /\ ok /\ job'.account = Source /\ job'.quota = job.quota
      BY <1>19, <2>2, AfterRefreshAccount
    <3> QED BY <1>1, <1>3, <1>19, <3>1 DEF RefreshAccount, Onward, Continues
  <2> QED BY <2>1, <2>2
<1>20. ASSUME NEW ok \in BOOLEAN, ReadUsage(ok) PROVE ProcessInv'
  <2>1. /\ Onward({"verify"}) /\ job'.account = job.account
        /\ job'.quota = IF ok THEN native[P] ELSE None
    BY <1>20, AfterReadUsage
  <2> QED BY <1>1, <1>3, <1>20, <2>1 DEF ReadUsage, Onward, Continues
<1>21. ASSUME NEW ok \in BOOLEAN, Verify(ok) PROVE ProcessInv'
  <2>1. /\ Onward({"emitAccount"})
        /\ job'.error = "none" =>
             job'.account = job.account /\ job'.quota = job.quota /\ ok /\ native[P] = job.account
    BY <1>21, AfterVerify
  <2> QED BY <1>1, <1>3, <1>21, <2>1 DEF Verify, Onward, Continues
<1>22. ASSUME NEW ok \in BOOLEAN, SaveAlias(ok) PROVE ProcessInv'
  BY <1>1, <1>2, <1>3, <1>22, AfterSaveAlias DEF SaveAlias, Onward, Continues
<1>23. ASSUME NEW ok \in BOOLEAN, EmitAccount(ok) PROVE ProcessInv'
  BY <1>1, <1>2, <1>3, <1>23 DEF EmitAccount
<1>24. ASSUME NEW ok \in BOOLEAN, EmitQuota(ok) PROVE ProcessInv'
  BY <1>1, <1>2, <1>3, <1>24 DEF EmitQuota
<1>25. ASSUME NEW ok \in BOOLEAN, ReadDaily(ok) PROVE ProcessInv'
  BY <1>1, <1>2, <1>3, <1>25, AfterReadDaily DEF ReadDaily, Onward, Continues
<1>26. ASSUME NEW ok \in BOOLEAN, EmitDaily(ok) PROVE ProcessInv'
  BY <1>1, <1>2, <1>3, <1>26 DEF EmitDaily
<1>27. ASSUME NEW ok \in BOOLEAN, EnableSave(ok) PROVE ProcessInv'
  BY <1>1, <1>2, <1>3, <1>27 DEF EnableSave
<1>28. ASSUME NEW ok \in BOOLEAN, DisconnectSave(ok) PROVE ProcessInv'
  <2>1. Onward({"aliases", "emitDisconnect"}) /\ (job'.error = "none" => ok)
    BY <1>28, AfterDisconnectSave
  <2> QED BY <1>1, <1>3, <1>28, <2>1 DEF DisconnectSave, Onward, Continues
<1>29. ASSUME NEW ok \in BOOLEAN, DisconnectAliases(ok) PROVE ProcessInv'
  <2>1. Onward({"emitDisconnect"}) /\ (job'.error = "none" => job.error = "none")
    BY <1>29, AfterDisconnectAliases
  <2> QED BY <1>1, <1>3, <1>29, <2>1 DEF DisconnectAliases, Onward, Continues
<1>30. ASSUME NEW ok \in BOOLEAN, EmitDisconnect(ok) PROVE ProcessInv'
  BY <1>1, <1>2, <1>3, <1>30 DEF EmitDisconnect
<1>31. ASSUME NEW ok \in BOOLEAN, NEW named \in Key, ReadLimits(ok, named)
      PROVE  ProcessInv'
  <2>1. /\ Onward({"alias", "emitAccount"}) /\ job'.account = job.account
    BY <1>31, AfterReadLimits
  <2> QED BY <1>1, <1>3, <1>31, <2>1 DEF ReadLimits, Onward, Continues
<1>32. ASSUME NEW c \in Clients, NEW kind \in Kind, NEW p \in Provider, Ask(c, kind, p)
      PROVE  ProcessInv'
  BY <1>1, <1>2, <1>32 DEF Ask
<1>33. ASSUME NEW c \in Clients, Lock(c) PROVE ProcessInv'
  <2>1. job'.at = "begin" /\ job'.quota = None
    BY <1>33 DEF Lock, NewJob
  <2> QED BY <1>1, <1>33, <2>1 DEF Lock
<1>34. ASSUME NEW p \in Provider, NEW b \in Maybe, Switch(p, b) PROVE ProcessInv'
  BY <1>1, <1>2, <1>34 DEF Switch
<1>35. CASE Cool
  BY <1>1, <1>2, <1>35 DEF Cool
<1>36. CASE Die
  BY <1>1, <1>2, <1>36 DEF Die
<1>37. CASE Cancel
  BY <1>1, <1>2, <1>37 DEF Cancel
<1>38. CASE Crash
  BY <1>1, <1>2, <1>38 DEF Crash
<1>39. CASE UNCHANGED vars
  BY <1>1, <1>2, <1>39 DEF vars
<1> QED
  BY <1>4, <1>5, <1>6, <1>7, <1>8, <1>9, <1>10, <1>11, <1>12, <1>13, <1>14, <1>15, <1>16, <1>17,
     <1>18, <1>19, <1>20, <1>21, <1>22, <1>23, <1>24, <1>25, <1>26, <1>27, <1>28, <1>29, <1>30,
     <1>31, <1>32, <1>33, <1>34, <1>35, <1>36, <1>37, <1>38, <1>39
     DEF Next, Poll, Operation, Environment

\* No action lets a reading go to another account.
LEMMA ReadingStep ==
  ASSUME Typed, ProcessInv, ReadingInv, [Next]_vars
  PROVE  ReadingInv'
<1>1. TypeOK /\ RunOK /\ MemoryOK /\ OutsideOK /\ LoopInv /\ PlaceInv /\ None \notin Account
  BY NoneIsNoAccount DEF Typed, TypeOK
<1>2. Free \notin Job
  BY JobIsNotFree
<1>3. job # Free => /\ P \in Provider /\ job \in Job /\ job.account \in Maybe
  BY <1>1, Fields DEF P
<1> USE DEF At, P, Goto, Stay, Return, Saving, Refreshing, Disconnecting, MemoryOK, OutsideOK,
      Job, ReadingInv, ProcessInv, CloseRPC, Keep, Source
<1>4. CASE Start
  BY <1>1, <1>2, <1>4 DEF Start
<1>5. CASE Round
  BY <1>1, <1>2, <1>5 DEF Round
<1>6. CASE Visit
  <2>1. job'.at = "begin" /\ job'.quota = None
    BY <1>6 DEF Visit, NewJob
  <2> QED BY <1>1, <1>6, <2>1 DEF Visit
<1>7. CASE RoundOver
  BY <1>1, <1>2, <1>7 DEF RoundOver
<1>8. CASE Leave
  BY <1>1, <1>2, <1>8 DEF Leave
<1>9. CASE Shutdown
  BY <1>1, <1>2, <1>9 DEF Shutdown
<1>10. CASE CheckStopped
  BY <1>1, <1>2, <1>3, <1>10 DEF CheckStopped
<1>11. CASE RefreshBegin
  BY <1>1, <1>2, <1>3, <1>11 DEF RefreshBegin
<1>12. CASE RefreshRefused
  BY <1>1, <1>2, <1>3, <1>12 DEF RefreshRefused
<1>13. ASSUME NEW named \in Key, LimitsMalformed(named) PROVE ReadingInv'
  BY <1>1, <1>2, <1>3, <1>13, AfterLimitsMalformed DEF LimitsMalformed, Onward, Continues
<1>14. CASE EnableSet
  BY <1>1, <1>2, <1>3, <1>14, AfterEnableSet DEF EnableSet, Onward, Continues
<1>15. CASE DisconnectBegin
  BY <1>1, <1>2, <1>3, <1>15, AfterDisconnectBegin DEF DisconnectBegin, Onward, Continues
<1>16. ASSUME NEW ok \in BOOLEAN, CheckBegin(ok) PROVE ReadingInv'
  BY <1>1, <1>2, <1>3, <1>16 DEF CheckBegin
<1>17. ASSUME NEW ok \in BOOLEAN, StartCodex(ok) PROVE ReadingInv'
  BY <1>1, <1>2, <1>3, <1>17 DEF StartCodex
<1>18. ASSUME NEW ok \in BOOLEAN, CheckAccount(ok) PROVE ReadingInv'
  BY <1>1, <1>2, <1>3, <1>18 DEF CheckAccount
<1>19. ASSUME NEW ok \in BOOLEAN, RefreshAccount(ok) PROVE ReadingInv'
  <2>1. CASE Return
    BY <1>1, <1>2, <1>3, <1>19, <2>1 DEF RefreshAccount
  <2>2. CASE ~Return
    <3>1. /\ Onward({"limits", "usage", "emitAccount"}) /\ (P = "openai" <=> job'.at = "limits")
          /\ ok /\ job'.account = Source /\ job'.quota = job.quota
      BY <1>19, <2>2, AfterRefreshAccount
    <3> QED BY <1>1, <1>3, <1>19, <3>1 DEF RefreshAccount, Onward, Continues
  <2> QED BY <2>1, <2>2
<1>20. ASSUME NEW ok \in BOOLEAN, ReadUsage(ok) PROVE ReadingInv'
  <2>1. /\ Onward({"verify"}) /\ job'.account = job.account
        /\ job'.quota = IF ok THEN native[P] ELSE None
    BY <1>20, AfterReadUsage
  <2> QED BY <1>1, <1>3, <1>20, <2>1 DEF ReadUsage, Onward, Continues
<1>21. ASSUME NEW ok \in BOOLEAN, Verify(ok) PROVE ReadingInv'
  <2>1. /\ Onward({"emitAccount"})
        /\ job'.error = "none" =>
             job'.account = job.account /\ job'.quota = job.quota /\ ok /\ native[P] = job.account
    BY <1>21, AfterVerify
  <2> QED BY <1>1, <1>3, <1>21, <2>1 DEF Verify, Onward, Continues, PlaceInv
<1>22. ASSUME NEW ok \in BOOLEAN, SaveAlias(ok) PROVE ReadingInv'
  BY <1>1, <1>2, <1>3, <1>22, AfterSaveAlias DEF SaveAlias, Onward, Continues
<1>23. ASSUME NEW ok \in BOOLEAN, EmitAccount(ok) PROVE ReadingInv'
  BY <1>1, <1>2, <1>3, <1>23 DEF EmitAccount
<1>24. ASSUME NEW ok \in BOOLEAN, EmitQuota(ok) PROVE ReadingInv'
  BY <1>1, <1>2, <1>3, <1>24, ZenonT(60) DEF EmitQuota
<1>25. ASSUME NEW ok \in BOOLEAN, ReadDaily(ok) PROVE ReadingInv'
  BY <1>1, <1>2, <1>3, <1>25, AfterReadDaily DEF ReadDaily, Onward, Continues, PlaceInv, Answer
<1>26. ASSUME NEW ok \in BOOLEAN, EmitDaily(ok) PROVE ReadingInv'
  BY <1>1, <1>2, <1>3, <1>26 DEF EmitDaily
<1>27. ASSUME NEW ok \in BOOLEAN, EnableSave(ok) PROVE ReadingInv'
  BY <1>1, <1>2, <1>3, <1>27 DEF EnableSave
<1>28. ASSUME NEW ok \in BOOLEAN, DisconnectSave(ok) PROVE ReadingInv'
  <2>1. Onward({"aliases", "emitDisconnect"}) /\ (job'.error = "none" => ok)
    BY <1>28, AfterDisconnectSave
  <2> QED BY <1>1, <1>3, <1>28, <2>1 DEF DisconnectSave, Onward, Continues
<1>29. ASSUME NEW ok \in BOOLEAN, DisconnectAliases(ok) PROVE ReadingInv'
  <2>1. Onward({"emitDisconnect"}) /\ (job'.error = "none" => job.error = "none")
    BY <1>29, AfterDisconnectAliases
  <2> QED BY <1>1, <1>3, <1>29, <2>1 DEF DisconnectAliases, Onward, Continues
<1>30. ASSUME NEW ok \in BOOLEAN, EmitDisconnect(ok) PROVE ReadingInv'
  BY <1>1, <1>2, <1>3, <1>30 DEF EmitDisconnect
<1>31. ASSUME NEW ok \in BOOLEAN, NEW named \in Key, ReadLimits(ok, named)
      PROVE  ReadingInv'
  <2>1. /\ Onward({"alias", "emitAccount"}) /\ job'.account = job.account /\ job'.error = job.error
        /\ job'.quota = IF ok THEN Source ELSE None
    BY <1>31, AfterReadLimits
  <2>2. P = "openai" /\ Refreshing /\ job.at = "limits"
    BY <1>1, <1>3, <1>31 DEF ReadLimits, PlaceInv
  <2>3. process # <<>> => process[1] = job.account
    BY <2>2
  <2>4. ok => job'.quota = job.account
    BY <1>31, <2>1, <2>2, <2>3 DEF ReadLimits, Answer
  <2>5. process' # <<>> => process' = process
    BY <1>31 DEF ReadLimits
  <2> QED BY <2>1, <2>2, <2>3, <2>4, <2>5, <1>31 DEF ReadLimits, Onward, Continues
<1>32. ASSUME NEW c \in Clients, NEW kind \in Kind, NEW p \in Provider, Ask(c, kind, p)
      PROVE  ReadingInv'
  BY <1>1, <1>2, <1>32 DEF Ask
<1>33. ASSUME NEW c \in Clients, Lock(c) PROVE ReadingInv'
  <2>1. job'.at = "begin" /\ job'.quota = None
    BY <1>33 DEF Lock, NewJob
  <2> QED BY <1>1, <1>33, <2>1 DEF Lock
<1>34. ASSUME NEW p \in Provider, NEW b \in Maybe, Switch(p, b) PROVE ReadingInv'
  BY <1>1, <1>2, <1>34 DEF Switch
<1>35. CASE Cool
  BY <1>1, <1>2, <1>35 DEF Cool
<1>36. CASE Die
  BY <1>1, <1>2, <1>36 DEF Die
<1>37. CASE Cancel
  BY <1>1, <1>2, <1>37 DEF Cancel
<1>38. CASE Crash
  BY <1>1, <1>2, <1>38 DEF Crash
<1>39. CASE UNCHANGED vars
  BY <1>1, <1>2, <1>39 DEF vars
<1> QED
  BY <1>4, <1>5, <1>6, <1>7, <1>8, <1>9, <1>10, <1>11, <1>12, <1>13, <1>14, <1>15, <1>16, <1>17,
     <1>18, <1>19, <1>20, <1>21, <1>22, <1>23, <1>24, <1>25, <1>26, <1>27, <1>28, <1>29, <1>30,
     <1>31, <1>32, <1>33, <1>34, <1>35, <1>36, <1>37, <1>38, <1>39
     DEF Next, Poll, Operation, Environment

\* No action files an account under a second key.
LEMMA KeyStep ==
  ASSUME Typed, KeyInv, [Next]_vars
  PROVE  KeyInv'
<1>1. TypeOK /\ RunOK /\ MemoryOK /\ OutsideOK /\ LoopInv /\ PlaceInv /\ None \notin Account
  BY NoneIsNoAccount DEF Typed, TypeOK
<1>2. Free \notin Job
  BY JobIsNotFree
<1>3. job # Free => /\ P \in Provider /\ job \in Job /\ job.account \in Maybe
  BY <1>1, Fields DEF P
<1> USE DEF At, P, Goto, Stay, Return, Saving, Refreshing, Disconnecting, MemoryOK, OutsideOK,
      Job, KeyInv, KeyStable, Fresh
<1>4. CASE Start
  BY <1>1, <1>2, <1>4 DEF Start
<1>5. CASE Round
  BY <1>1, <1>2, <1>5 DEF Round
<1>6. CASE Visit
  <2>1. job'.at = "begin" /\ job'.quota = None
    BY <1>6 DEF Visit, NewJob
  <2> QED BY <1>1, <1>6, <2>1 DEF Visit
<1>7. CASE RoundOver
  BY <1>1, <1>2, <1>7 DEF RoundOver
<1>8. CASE Leave
  BY <1>1, <1>2, <1>8 DEF Leave
<1>9. CASE Shutdown
  BY <1>1, <1>2, <1>9 DEF Shutdown
<1>10. CASE CheckStopped
  BY <1>1, <1>2, <1>3, <1>10 DEF CheckStopped
<1>11. CASE RefreshBegin
  BY <1>1, <1>2, <1>3, <1>11 DEF RefreshBegin
<1>12. CASE RefreshRefused
  BY <1>1, <1>2, <1>3, <1>12 DEF RefreshRefused
<1>13. ASSUME NEW named \in Key, LimitsMalformed(named) PROVE KeyInv'
  BY <1>1, <1>2, <1>3, <1>13, AfterLimitsMalformed
     DEF LimitsMalformed, Onward, Continues, PlaceInv
<1>14. CASE EnableSet
  BY <1>1, <1>2, <1>3, <1>14, AfterEnableSet DEF EnableSet, Onward, Continues
<1>15. CASE DisconnectBegin
  BY <1>1, <1>2, <1>3, <1>15, AfterDisconnectBegin
     DEF DisconnectBegin, Onward, Continues
<1>16. ASSUME NEW ok \in BOOLEAN, CheckBegin(ok) PROVE KeyInv'
  BY <1>1, <1>2, <1>3, <1>16 DEF CheckBegin
<1>17. ASSUME NEW ok \in BOOLEAN, StartCodex(ok) PROVE KeyInv'
  BY <1>1, <1>2, <1>3, <1>17 DEF StartCodex
<1>18. ASSUME NEW ok \in BOOLEAN, CheckAccount(ok) PROVE KeyInv'
  BY <1>1, <1>2, <1>3, <1>18 DEF CheckAccount
<1>19. ASSUME NEW ok \in BOOLEAN, RefreshAccount(ok) PROVE KeyInv'
  <2>1. CASE Return
    BY <1>1, <1>2, <1>3, <1>19, <2>1 DEF RefreshAccount
  <2>2. CASE ~Return
    <3>1. /\ Onward({"limits", "usage", "emitAccount"}) /\ (P = "openai" <=> job'.at = "limits")
          /\ ok /\ job'.account = Source /\ job'.quota = job.quota
      BY <1>19, <2>2, AfterRefreshAccount
    <3> QED BY <1>1, <1>3, <1>19, <3>1 DEF RefreshAccount, Onward, Continues
  <2> QED BY <2>1, <2>2
<1>20. ASSUME NEW ok \in BOOLEAN, ReadUsage(ok) PROVE KeyInv'
  <2>1. /\ Onward({"verify"}) /\ job'.account = job.account
        /\ job'.quota = IF ok THEN native[P] ELSE None
    BY <1>20, AfterReadUsage
  <2> QED BY <1>1, <1>3, <1>20, <2>1 DEF ReadUsage, Onward, Continues
<1>21. ASSUME NEW ok \in BOOLEAN, Verify(ok) PROVE KeyInv'
  <2>1. /\ Onward({"emitAccount"})
        /\ job'.error = "none" =>
             job'.account = job.account /\ job'.quota = job.quota /\ ok /\ native[P] = job.account
    BY <1>21, AfterVerify
  <2> QED BY <1>1, <1>3, <1>21, <2>1 DEF Verify, Onward, Continues, PlaceInv
<1>22. ASSUME NEW ok \in BOOLEAN, SaveAlias(ok) PROVE KeyInv'
  <2>1. CASE ok
    <3>1. job.account \in Account /\ job.key # "email" /\ job.kind = "refresh"
      BY <1>1, <1>22 DEF SaveAlias, PlaceInv
    <3>2. aliases' = [aliases EXCEPT ![job.account] = job.key] /\ savedAliases' = aliases'
      BY <1>22, <2>1 DEF SaveAlias
    <3>3. UNCHANGED <<linkedKey, records, left, linked>>
      BY <1>22 DEF SaveAlias
    <3>4. /\ Onward({"emitAccount"}) /\ job'.key = job.key /\ job'.account = job.account
      BY <1>22, <2>1, AfterSaveAlias DEF SaveAlias
    <3>5. aliases'[job.account] = job.key
      BY <1>1, <3>1, <3>2
    <3>6. \A x \in Account : aliases[x] # "email" => aliases'[x] # "email"
      BY <1>1, <3>1, <3>2
    <3>7. \A x \in Account : aliases'[x] # "email" => savedAliases'[x] # "email"
      BY <3>2
    <3> QED BY <1>1, <3>3, <3>4, <3>5, <3>6, <3>7 DEF Onward, Continues
  <2>2. CASE ~ok
    BY <1>1, <1>2, <1>3, <1>22, <2>2 DEF SaveAlias
  <2> QED BY <2>1, <2>2
<1>23. ASSUME NEW ok \in BOOLEAN, EmitAccount(ok) PROVE KeyInv'
  <2>1. UNCHANGED <<aliases, savedAliases>>
    BY <1>23 DEF EmitAccount
  <2>2. job' = Free \/ job'.at \in {"emitQuota", "daily"}
    BY <1>1, <1>3, <1>23 DEF EmitAccount
  <2>3. CASE ok /\ P = "openai"
    <3>1. /\ job.account \in Account /\ job.key = aliases[job.account]
      BY <1>1, <1>23, <2>3 DEF EmitAccount, PlaceInv
    <3>2. File(job.account, job.key) /\ linked'["openai"] = job.account
      BY <1>1, <1>3, <1>23, <2>3 DEF EmitAccount
    <3>3. \A x \in Account, k \in Ids : <<x, k>> \in Fresh' => aliases[x] # "email"
      <4>1. SUFFICES ASSUME NEW x \in Account, NEW k \in Ids, <<x, k>> \in Fresh'
                     PROVE  aliases[x] # "email"
        OBVIOUS
      <4>2. <<x, k>> \in Fresh \/ (x = job.account /\ k = job.key /\ job.key # "email")
        BY <3>2, <4>1, EmailIsNoId DEF File
      <4> QED BY <3>1, <4>2
    <3>4. linkedKey' = "email" => \A k \in Ids : <<job.account, k>> \notin Fresh'
      BY <3>1, <3>2, <3>3 DEF File
    <3> QED BY <2>1, <2>2, <3>2, <3>3, <3>4
  <2>4. CASE ~(ok /\ P = "openai")
    <3>1. UNCHANGED <<linkedKey, records, left>> /\ linked'["openai"] = linked["openai"]
      BY <1>1, <1>3, <1>23, <2>4 DEF EmitAccount
    <3> QED BY <2>1, <2>2, <3>1
  <2> QED BY <2>3, <2>4
<1>24. ASSUME NEW ok \in BOOLEAN, EmitQuota(ok) PROVE KeyInv'
  BY <1>1, <1>2, <1>3, <1>24 DEF EmitQuota
<1>25. ASSUME NEW ok \in BOOLEAN, ReadDaily(ok) PROVE KeyInv'
  BY <1>1, <1>2, <1>3, <1>25, AfterReadDaily DEF ReadDaily, Onward, Continues
<1>26. ASSUME NEW ok \in BOOLEAN, EmitDaily(ok) PROVE KeyInv'
  BY <1>1, <1>2, <1>3, <1>26 DEF EmitDaily
<1>27. ASSUME NEW ok \in BOOLEAN, EnableSave(ok) PROVE KeyInv'
  BY <1>1, <1>2, <1>3, <1>27 DEF EnableSave
<1>28. ASSUME NEW ok \in BOOLEAN, DisconnectSave(ok) PROVE KeyInv'
  <2>1. Onward({"aliases", "emitDisconnect"}) /\ (job'.error = "none" => ok)
    BY <1>28, AfterDisconnectSave
  <2> QED BY <1>1, <1>3, <1>28, <2>1 DEF DisconnectSave, Onward, Continues
<1>29. ASSUME NEW ok \in BOOLEAN, DisconnectAliases(ok) PROVE KeyInv'
  <2>1. Onward({"emitDisconnect"}) /\ (job'.error = "none" => job.error = "none")
    BY <1>29, AfterDisconnectAliases
  <2>2. Fresh' = {}
    BY <1>29 DEF DisconnectAliases
  <2>3. \A x \in Account : aliases'[x] = "email"
    BY <1>29 DEF DisconnectAliases, NoAlias
  <2>4. job' # Free /\ job'.at = "emitDisconnect"
    BY <2>1 DEF Onward
  <2> QED BY <2>2, <2>3, <2>4
<1>30. ASSUME NEW ok \in BOOLEAN, EmitDisconnect(ok) PROVE KeyInv'
  <2>1. UNCHANGED <<aliases, savedAliases>> /\ job' = Free
    BY <1>30 DEF EmitDisconnect
  <2>2. Fresh' \subseteq Fresh
    BY <1>30 DEF EmitDisconnect
  <2>3. CASE ok /\ P = "openai"
    <3>1. linked'["openai"] = None
      BY <1>1, <1>30, <2>3 DEF EmitDisconnect, Provider
    <3>2. \A k \in Ids : <<None, k>> \notin Fresh'
      BY <1>1, <2>2
    <3> QED BY <2>1, <2>2, <3>1, <3>2
  <2>4. CASE ~(ok /\ P = "openai")
    <3>1. UNCHANGED <<linkedKey, records, left>> /\ linked'["openai"] = linked["openai"]
      BY <1>1, <1>3, <1>30, <2>4 DEF EmitDisconnect
    <3> QED BY <2>1, <3>1
  <2> QED BY <2>3, <2>4
<1>31. ASSUME NEW ok \in BOOLEAN, NEW named \in Key, ReadLimits(ok, named)
      PROVE  KeyInv'
  <2>1. /\ Onward({"alias", "emitAccount"}) /\ job'.account = job.account
        /\ job'.at = "alias" => job'.key # "email"
        /\ job'.at = "emitAccount" => job'.key = aliases[job.account]
    BY <1>31, AfterReadLimits
  <2> QED BY <1>1, <1>3, <1>31, <2>1 DEF ReadLimits, Onward, Continues, PlaceInv
<1>32. ASSUME NEW c \in Clients, NEW kind \in Kind, NEW p \in Provider, Ask(c, kind, p)
      PROVE  KeyInv'
  BY <1>1, <1>2, <1>32 DEF Ask
<1>33. ASSUME NEW c \in Clients, Lock(c) PROVE KeyInv'
  <2>1. job'.at = "begin" /\ job'.quota = None
    BY <1>33 DEF Lock, NewJob
  <2> QED BY <1>1, <1>33, <2>1 DEF Lock
<1>34. ASSUME NEW p \in Provider, NEW b \in Maybe, Switch(p, b) PROVE KeyInv'
  BY <1>1, <1>2, <1>34 DEF Switch
<1>35. CASE Cool
  BY <1>1, <1>2, <1>35 DEF Cool
<1>36. CASE Die
  BY <1>1, <1>2, <1>36 DEF Die
<1>37. CASE Cancel
  BY <1>1, <1>2, <1>37 DEF Cancel
<1>38. CASE Crash
  BY <1>1, <1>2, <1>38 DEF Crash
<1>39. CASE UNCHANGED vars
  BY <1>1, <1>2, <1>39 DEF vars
<1> QED
  BY <1>4, <1>5, <1>6, <1>7, <1>8, <1>9, <1>10, <1>11, <1>12, <1>13, <1>14, <1>15, <1>16, <1>17,
     <1>18, <1>19, <1>20, <1>21, <1>22, <1>23, <1>24, <1>25, <1>26, <1>27, <1>28, <1>29, <1>30,
     <1>31, <1>32, <1>33, <1>34, <1>35, <1>36, <1>37, <1>38, <1>39
     DEF Next, Poll, Operation, Environment

-----------------------------------------------------------------------------
(* The theorems. *)

\* The manager starts with nothing promised and nothing under way.
LEMMA InitInv == Init => IInv
<1> SUFFICES ASSUME Init PROVE IInv
  OBVIOUS
<1>1. Typed
  BY InitTyped
<1>2. PreferenceInv /\ ProcessInv /\ ReadingInv /\ KeyInv
  BY DEF Init, NoAlias, PreferenceInv, ProcessInv, ReadingInv, KeyInv, KeyStable, Fresh,
         Saving, Refreshing, Disconnecting, At
<1> QED BY <1>1, <1>2 DEF IInv

\* Together the parts are inductive.
LEMMA InvStep == IInv /\ [Next]_vars => IInv'
BY TypedStep, PreferenceStep, ProcessStep, ReadingStep, KeyStep DEF IInv

(* In every reachable state of the manager IInv holds: what an operation knows at each of
   its places, whatever came before it got the mutex op. *)
THEOREM Invariant == Spec => []IInv
BY InitInv, InvStep, PTL DEF Spec

(* What monitor and disconnect answered with success is on disk, and in the manager's memory
   whenever it is idle: enableLocked takes a preference back that it could not save, and New
   loads what was saved (manager.go). *)
THEOREM PreferencesHold == Spec => []PreferencesKept
<1>1. IInv => PreferencesKept
  BY DEF IInv, PreferencesKept, PreferenceInv, Saving, At, Typed,
         TypeOK, OutsideOK, MemoryOK
<1> QED BY <1>1, Invariant, PTL

(* A provider whose disconnect was answered with success shows no account until it is
   monitored again: refresh looks at enabled again under op. *)
THEOREM DisconnectHolds == Spec => []StaysDisconnected
<1>1. IInv => StaysDisconnected
  BY DEF IInv, StaysDisconnected, PreferenceInv
<1> QED BY <1>1, Invariant, PTL

(* No reading is recorded for another account than the one it was made with, however often
   the user signs in elsewhere: each refresh has a fresh Codex process, and the Claude account
   is compared before and after its reading. *)
THEOREM ReadingsHold == Spec => []ReadingsAttributed
<1>1. IInv => ReadingsAttributed
  BY DEF IInv, ReadingsAttributed, ReadingInv
<1> QED BY <1>1, Invariant, PTL

(* An OpenAI account that the sink has under a canonical key since the aliases were last
   cleared is not shown under its e-mail key, for every limit of the alias table and every
   set of names: an alias is on disk before it is used, and is only ever replaced by
   another.  What a disconnect leaves of other accounts than the linked one is excluded. *)
THEOREM KeysHold == Spec => []KeysSound
<1>1. IInv => KeysSound
  BY DEF IInv, KeysSound, KeyInv, Typed
<1> QED BY <1>1, Invariant, PTL

(* Every Codex process is held by the manager, none outlives Run, and none is left by a
   check of a provider that is not monitored. *)
THEOREM ProcessHeld == Spec => []NoStrayProcess
<1>1. IInv => NoStrayProcess
  BY DEF IInv, NoStrayProcess, ProcessInv
<1> QED BY <1>1, Invariant, PTL
====
