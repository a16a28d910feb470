---------------------------- MODULE StartupProofs -----------------------------
(***************************************************************************)
(* What the startup registration promises, for any callers, copies of the  *)
(* program, commands and faults.                                           *)
(*                                                                         *)
(* The argument is about one caller at a time.  Until another caller       *)
(* writes, the registration is, at each place of a caller's script, the    *)
(* one its command found, changed by the writes that are done and by the   *)
(* part of the present one that is done: Stage.  Another caller's writes   *)
(* are recorded in foreign, and then only the plan and what it must not    *)
(* touch are left to say (Planned, Aliens).                                *)
(***************************************************************************)
EXTENDS Startup, SequenceTheorems, TLAPS

-----------------------------------------------------------------------------
(* The inductive invariant. *)

\* Past the script's refusals.
Past == InScript \ {"check"}

\* The script is at one of the two values.
AtValues == {"first", "second", "restoreRun", "restoreOwner"}

\* What the command of c wants of the registration it found.
Want(c) == Desired(c, begun[c])

\* The writes that the registration and the command call for; a roll-back has the first of
\* two; nothing of another program is among the values.
Planned(c) ==
    /\ plan[c] = Steps(c, begun[c], Want(c))
    /\ at[c] \in 1 .. Len(plan[c])
    /\ back[c] => at[c] = 1 /\ Len(plan[c]) = 2
    /\ damage[c] = "second" => back[c]
    /\ result[c] = "none"
    /\ begun[c].task # Alien /\ begun[c].run # Alien /\ begun[c].run \in {None, begun[c].owner}
    /\ pc[c] = "task" => Kind(c) = "task"
    /\ pc[c] \in AtValues => Kind(c) = "run"
    /\ pc[c] \in Past => seen[c].run # Alien /\ seen[c].owner # Alien

\* A registration after a write of one kind.
With(reg, kind, value) ==
    IF kind = "task" THEN [task |-> value, run |-> reg.run, owner |-> reg.owner]
    ELSE [task |-> reg.task, run |-> value, owner |-> value]

\* The registration that the present write of c started from.
Base(c) == IF at[c] = 1 /\ ~back[c] THEN begun[c]
           ELSE With(begun[c], plan[c][1].kind, plan[c][1].new)

\* The registration, and what the script read, at each place of it.
Stage(c) ==
    /\ pc[c] \in {"check", "task", "first"} => All = Base(c)
    /\ pc[c] \in Past => seen[c] = [run |-> Base(c).run, owner |-> Base(c).owner]
    /\ pc[c] \in AtValues => task = Base(c).task
    /\ pc[c] = "second" =>
          IF Target(c) = None THEN run = None /\ owner = Base(c).owner
          ELSE run = Base(c).run /\ owner = Target(c)
    /\ pc[c] = "restoreRun" => run \in {Base(c).run, Target(c)}
    /\ pc[c] = "restoreOwner" => run = Base(c).run

\* A command that enables a mechanism of a program that has one.
Switches(c) ==
    cmd[c] \in {"normal", "elevated"} /\ (begun[c].task # None \/ begun[c].run # None)

\* How the command ended, and what is registered then.
Ended(c) ==
    /\ result[c] = "done" => Now = Want(c) /\ Managed
    /\ result[c] = "error" /\ damage[c] = "none" =>
          task = begun[c].task /\ run = begun[c].run /\ (run # None => owner = begun[c].owner)
    /\ result[c] # "none" /\ damage[c] # "second" /\ Switches(c) => Now # Nothing

\* What a copy that is being removed leaves alone.
Spared(c) ==
    cmd[c] = "owned" =>
        /\ begun[c].task # ExeOf[c] => task = begun[c].task
        /\ begun[c].run # ExeOf[c] => run = begun[c].run

CallerInv(c) ==
    /\ pc[c] \in InScript => Planned(c)
    /\ pc[c] \in {"state", "read"} => result[c] = "none"
    /\ pc[c] = "elevate" => result[c] = "error"
    /\ ~foreign[c] =>
          /\ pc[c] \in InScript => Spared(c)
          /\ pc[c] \in InScript /\ damage[c] # "second" => damage[c] = "none" /\ Stage(c)
          /\ Ended(c)

\* Another program's values stop every script, and are in none that went on.
Aliens ==
    /\ owner # Alien
    /\ task = Alien \/ run = Alien => \A c \in Callers : pc[c] \notin Past

IInv == TypeOK /\ Aliens /\ \A c \in Callers : CallerInv(c)

-----------------------------------------------------------------------------
(* The writes of a command. *)

\* The value of one kind in a registration.
Of(reg, kind) == IF kind = "run" THEN reg.run ELSE reg.task

\* One write of a plan.
WriteOf(b, w, kind) == [kind |-> kind, new |-> Of(w, kind), was |-> Of(b, kind)]

\* What a command asks for.
LEMMA WantIs ==
    ASSUME TypeOK, NEW c \in Callers, NEW b, b.task \in Value, b.run \in Value
    PROVE  /\ Desired(c, b) = [task |-> Desired(c, b).task, run |-> Desired(c, b).run]
           /\ Desired(c, b).task \in Value /\ Desired(c, b).run \in Value
           /\ b.task # Alien => Desired(c, b).task # Alien
           /\ b.run # Alien => Desired(c, b).run # Alien
           /\ cmd[c] = "normal" => Desired(c, b).task = None /\ Desired(c, b).run # None
           /\ cmd[c] = "elevated" => Desired(c, b).task # None /\ Desired(c, b).run = None
           /\ cmd[c] = "owned" =>
                 /\ b.task # ExeOf[c] => Desired(c, b).task = b.task
                 /\ b.run # ExeOf[c] => Desired(c, b).run = b.run
<1>1. ExeOf[c] \in Exe /\ ExeOf[c] # None /\ ExeOf[c] # Alien /\ Alien # None
  BY CallersOwnExe, ValuesDiffer
<1>2. cmd[c] \in Command
  BY DEF TypeOK
<1> QED BY <1>1, <1>2 DEF Desired, Nothing, Command, Value

\* Two sequences of one element each.
LEMMA Pair == \A x, y : <<x>> \o <<y>> = <<x, y>>
<1> TAKE x, y
<1> DEFINE S == {x, y}
<1>1. <<x>> \in Seq(S) /\ <<y>> \in Seq(S) /\ <<x, y>> \in Seq(S)
  OBVIOUS
<1>2. Len(<<x>>) = 1 /\ Len(<<y>>) = 1 /\ Len(<<x, y>>) = 2
  OBVIOUS
<1> HIDE DEF S
<1> DEFINE s == <<x>>
           t == <<y>>
<1>3. Len(s \o t) = 2 /\ s \o t \in Seq(S)
  BY <1>1, <1>2
<1>4. (s \o t)[1] = x /\ (s \o t)[2] = y
  BY <1>1, <1>2
<1>5. <<x, y>>[1] = x /\ <<x, y>>[2] = y
  OBVIOUS
<1> DEFINE u == s \o t
           v == <<x, y>>
<1>6. u \in Seq(S) /\ v \in Seq(S) /\ Len(u) = 2 /\ Len(v) = 2
  BY <1>1, <1>2, <1>3
<1>7. u[1] = v[1] /\ u[2] = v[2]
  BY <1>4, <1>5
<1> HIDE DEF u, v
<1>8. \A i \in 1 .. Len(u) : u[i] = v[i]
  BY <1>6, <1>7
<1>9. u = v
  BY <1>6, <1>8, SeqEqual
<1> QED BY <1>9 DEF u, v

\* The order of the writes: the new mechanism first.
LEMMA StepsAre ==
    ASSUME NEW c, NEW b, NEW w
    PROVE  LET runs == w.run # b.run
               tasks == w.task # b.task \/ cmd[c] = "elevated"
               R == WriteOf(b, w, "run")
               T == WriteOf(b, w, "task")
           IN  Steps(c, b, w) = IF runs /\ tasks
                                THEN (IF cmd[c] = "elevated" THEN <<T, R>> ELSE <<R, T>>)
                                ELSE IF runs THEN <<R>> ELSE IF tasks THEN <<T>> ELSE <<>>
<1> DEFINE runs == w.run # b.run
           tasks == w.task # b.task \/ cmd[c] = "elevated"
           R == WriteOf(b, w, "run")
           T == WriteOf(b, w, "task")
<1>1. R = [kind |-> "run", new |-> w.run, was |-> b.run]
      /\ T = [kind |-> "task", new |-> w.task, was |-> b.task]
  BY DEF WriteOf, Of
<1>2. Change("run", w.run, b.run, FALSE) = IF runs THEN <<R>> ELSE <<>>
  BY <1>1 DEF Change
<1>3. Change("task", w.task, b.task, cmd[c] = "elevated") = IF tasks THEN <<T>> ELSE <<>>
  BY <1>1 DEF Change
<1>4. Steps(c, b, w) = IF cmd[c] = "elevated"
                       THEN (IF tasks THEN <<T>> ELSE <<>>) \o (IF runs THEN <<R>> ELSE <<>>)
                       ELSE (IF runs THEN <<R>> ELSE <<>>) \o (IF tasks THEN <<T>> ELSE <<>>)
  BY <1>2, <1>3 DEF Steps
<1> HIDE DEF R, T
<1>5. <<R>> \o <<T>> = <<R, T>> /\ <<T>> \o <<R>> = <<T, R>>
  BY Pair
<1>6. \A x : << >> \o <<x>> = <<x>> /\ <<x>> \o << >> = <<x>>
  OBVIOUS
<1>7. << >> \o << >> = << >>
  OBVIOUS
<1> QED BY <1>4, <1>5, <1>6, <1>7 DEF R, T

\* The present write: its kind and value, what the command had to do with it, and what it
\* started from.
Facts(c) ==
    LET b == begun[c]
        w == Want(c)
        k == Kind(c)
    IN  /\ k \in {"run", "task"} /\ at[c] \in {1, 2} /\ Len(plan[c]) \in {at[c], 2}
        /\ Target(c) = Of(IF back[c] THEN b ELSE w, k) /\ Target(c) \in Value \ {Alien}
        /\ k = "run" => w.run # b.run
        /\ k = "task" => w.task # b.task \/ cmd[c] = "elevated"
        /\ Len(plan[c]) = 1 => IF k = "run" THEN w.task = b.task /\ cmd[c] # "elevated"
                               ELSE w.run = b.run
        /\ Len(plan[c]) = 2 =>
              /\ w.run # b.run /\ (w.task # b.task \/ cmd[c] = "elevated")
              /\ k = "task" <=> (cmd[c] = "elevated" <=> at[c] = 1)
        /\ Base(c) = IF at[c] = 1 /\ ~back[c] THEN b
                     ELSE IF back[c] THEN With(b, k, Of(w, k))
                     ELSE IF k = "run" THEN With(b, "task", w.task) ELSE With(b, "run", w.run)

\* The plan is one of four.
LEMMA PlanFacts ==
    ASSUME TypeOK, NEW c \in Callers, Planned(c)
    PROVE  Facts(c)
<1> DEFINE b == begun[c]
           w == Want(c)
           R == WriteOf(b, w, "run")
           T == WriteOf(b, w, "task")
<1>1. b \in Registration /\ b.task \in Value /\ b.run \in Value
  BY DEF TypeOK, Registration
<1>2. w.task \in Value \ {Alien} /\ w.run \in Value \ {Alien}
      /\ b.task \in Value \ {Alien} /\ b.run \in Value \ {Alien}
  BY <1>1, WantIs DEF Planned, Want
<1>3. /\ R.kind = "run" /\ R.new = w.run /\ R.was = b.run
      /\ T.kind = "task" /\ T.new = w.task /\ T.was = b.task
  BY DEF WriteOf, Of
<1>4. plan[c] = IF w.run # b.run /\ (w.task # b.task \/ cmd[c] = "elevated")
                THEN (IF cmd[c] = "elevated" THEN <<T, R>> ELSE <<R, T>>)
                ELSE IF w.run # b.run THEN <<R>>
                ELSE IF w.task # b.task \/ cmd[c] = "elevated" THEN <<T>> ELSE <<>>
  BY StepsAre, Zenon DEF Planned
<1>5. plan[c] # << >>
  BY DEF Planned
<1>6. /\ at[c] \in 1 .. Len(plan[c]) /\ (back[c] => at[c] = 1 /\ Len(plan[c]) = 2)
  BY DEF Planned
<1> HIDE DEF R, T, w, b
<1>7. CASE plan[c] = <<R>> /\ w.run # b.run /\ ~(w.task # b.task \/ cmd[c] = "elevated")
  <2>1. Len(plan[c]) = 1 /\ plan[c][1] = R /\ at[c] = 1 /\ ~back[c]
    BY <1>6, <1>7
  <2> QED BY <2>1, <1>2, <1>3, <1>7 DEF Facts, Kind, Target, Base, Of, b, w
<1>8. CASE plan[c] = <<T>> /\ w.run = b.run /\ (w.task # b.task \/ cmd[c] = "elevated")
  <2>1. Len(plan[c]) = 1 /\ plan[c][1] = T /\ at[c] = 1 /\ ~back[c]
    BY <1>6, <1>8
  <2> QED BY <2>1, <1>2, <1>3, <1>8 DEF Facts, Kind, Target, Base, Of, b, w
<1>9. CASE plan[c] = <<T, R>> /\ w.run # b.run /\ cmd[c] = "elevated"
  <2>1. Len(plan[c]) = 2 /\ plan[c][1] = T /\ plan[c][2] = R /\ at[c] \in {1, 2}
        /\ (back[c] => at[c] = 1)
    BY <1>6, <1>9
  <2> QED BY <2>1, <1>2, <1>3, <1>9 DEF Facts, Kind, Target, Base, Of, b, w
<1>10. CASE plan[c] = <<R, T>> /\ w.run # b.run /\ w.task # b.task /\ cmd[c] # "elevated"
  <2>1. Len(plan[c]) = 2 /\ plan[c][1] = R /\ plan[c][2] = T /\ at[c] \in {1, 2}
        /\ (back[c] => at[c] = 1)
    BY <1>6, <1>10
  <2> QED BY <2>1, <1>2, <1>3, <1>10 DEF Facts, Kind, Target, Base, Of, b, w
<1> QED BY <1>4, <1>5, <1>7, <1>8, <1>9, <1>10

\* Where the present write may have left the two mechanisms.
Reach(c, x, y) ==
    /\ x = Base(c).task \/ (Kind(c) = "task" /\ x = Target(c))
    /\ y = Base(c).run \/ (Kind(c) = "run" /\ y = Target(c))

\* The new mechanism is registered before the old one goes, roll-back included.
LEMMA OneRegistered ==
    ASSUME TypeOK, NEW c \in Callers, Planned(c), Switches(c), NEW x, NEW y, Reach(c, x, y)
    PROVE  x # None \/ y # None
<1> DEFINE b == begun[c]
           w == Want(c)
<1>1. Facts(c)
  BY PlanFacts
<1>2. b.task \in Value /\ b.run \in Value
  BY DEF TypeOK, Registration
<1>3. /\ cmd[c] = "normal" => w.task = None /\ w.run # None
      /\ cmd[c] = "elevated" => w.task # None /\ w.run = None
  BY <1>2, WantIs DEF Want
<1>4. cmd[c] \in {"normal", "elevated"} /\ (b.task # None \/ b.run # None)
  BY DEF Switches
<1>5. /\ x = Base(c).task \/ (Kind(c) = "task" /\ x = Target(c))
      /\ y = Base(c).run \/ (Kind(c) = "run" /\ y = Target(c))
  BY DEF Reach
<1>6. /\ Kind(c) \in {"run", "task"} /\ at[c] \in {1, 2} /\ Len(plan[c]) \in {at[c], 2}
      /\ Target(c) = Of(IF back[c] THEN b ELSE w, Kind(c))
      /\ Len(plan[c]) = 1 => IF Kind(c) = "run" THEN w.task = b.task /\ cmd[c] # "elevated"
                             ELSE w.run = b.run
      /\ Len(plan[c]) = 2 => (Kind(c) = "task" <=> (cmd[c] = "elevated" <=> at[c] = 1))
      /\ Base(c) = IF at[c] = 1 /\ ~back[c] THEN b
                   ELSE IF back[c] THEN With(b, Kind(c), Of(w, Kind(c)))
                   ELSE IF Kind(c) = "run" THEN With(b, "task", w.task)
                   ELSE With(b, "run", w.run)
  BY <1>1 DEF Facts
<1>7. back[c] => at[c] = 1 /\ Len(plan[c]) = 2
  BY DEF Planned
<1> HIDE DEF b, w
<1>8. CASE at[c] = 1 /\ ~back[c]
  BY <1>3, <1>4, <1>5, <1>6, <1>8 DEF Of
<1>9. CASE back[c]
  BY <1>3, <1>4, <1>5, <1>6, <1>7, <1>9 DEF Of, With
<1>10. CASE at[c] = 2 /\ ~back[c]
  BY <1>3, <1>4, <1>5, <1>6, <1>10 DEF Of, With
<1> QED BY <1>6, <1>8, <1>9, <1>10

\* Nobody else having written, there is something to remove.
LEMMA NotSkipped ==
    ASSUME TypeOK, NEW c \in Callers, Planned(c), Target(c) = None
    PROVE  Of(Base(c), Kind(c)) # None
<1> DEFINE b == begun[c]
           w == Want(c)
<1>1. Facts(c)
  BY PlanFacts
<1>2. b.task \in Value /\ b.run \in Value
  BY DEF TypeOK, Registration
<1>3. cmd[c] = "elevated" => w.task # None
  BY <1>2, WantIs DEF Want
<1> HIDE DEF b, w
<1>4. CASE Kind(c) = "run"
  BY <1>1, <1>4 DEF Facts, With, Of, b, w
<1>5. CASE Kind(c) = "task"
  BY <1>1, <1>3, <1>5 DEF Facts, With, Of, b, w
<1> QED BY <1>1, <1>4, <1>5 DEF Facts

\* The writes of a plan are counted.
LEMMA Places ==
    ASSUME TypeOK, NEW c \in Callers, Planned(c)
    PROVE  /\ at[c] < Len(plan[c]) => at[c] = 1 /\ Len(plan[c]) = 2
           /\ ~(at[c] < Len(plan[c])) => Len(plan[c]) = at[c]
<1> DEFINE i == at[c]
           n == Len(plan[c])
<1>1. i \in {1, 2} /\ n \in {i, 2}
  BY PlanFacts DEF Facts
<1> HIDE DEF i, n
<1>2. i \in Nat /\ n \in Nat
  BY <1>1
<1>3. (i < n => i = 1 /\ n = 2) /\ (~(i < n) => n = i)
  BY <1>1, <1>2
<1> QED BY <1>3 DEF i, n

\* What a command read and asks for is its own.
Mine(c) == cmd'[c] = cmd[c] /\ begun'[c] = begun[c] /\ (~foreign'[c] => ~foreign[c])

\* A write that failed: the command ends, or rolls back what it has done.
LEMMA AfterFailure ==
    ASSUME TypeOK, NEW c \in Callers, Planned(c), NEW yes \in BOOLEAN, Damaged(c, yes),
           Failed(c), Mine(c), back[c] => yes, ~foreign'[c] => Spared(c)',
           ~foreign[c] /\ damage[c] # "second" =>
               /\ damage[c] = "none" /\ Reach(c, task', run')
               /\ ~yes => All' = Base(c)
    PROVE  CallerInv(c)'
<1>1. Facts(c)
  BY PlanFacts
<1>2. damage'[c] = IF ~yes THEN damage[c]
                   ELSE IF at[c] = 2 THEN "second"
                   ELSE IF damage[c] = "none" THEN "some" ELSE damage[c]
  BY DEF TypeOK, Damaged
<1>3. Want(c)' = Want(c)
  BY DEF Mine, Want, Desired
<1>4. CASE at[c] = 2 /\ ~back[c]
  <2>1. at'[c] = 1 /\ back'[c] = TRUE /\ pc'[c] = "check" /\ plan'[c] = plan[c]
        /\ result'[c] = result[c]
    BY <1>4 DEF TypeOK, Failed
  <2>2. Len(plan[c]) = 2
    BY <1>1, <1>4 DEF Facts
  <2>3. Planned(c)'
    <3>1. Steps(c, begun[c], Want(c))' = Steps(c, begun[c], Want(c))
      BY <1>3 DEF Mine, Steps
    <3> QED BY <1>3, <2>1, <2>2, <3>1 DEF Planned, Mine, AtValues, Past
  <2>4. Base(c)' = Base(c)
    BY <1>4, <2>1 DEF Base, Mine, With
  <2>5. ~foreign'[c] /\ damage'[c] # "second" => damage'[c] = "none" /\ Stage(c)'
    <3> SUFFICES ASSUME ~foreign'[c], damage'[c] # "second"
                 PROVE  damage'[c] = "none" /\ Stage(c)'
      OBVIOUS
    <3>1. ~yes /\ ~foreign[c] /\ damage[c] # "second"
      BY <1>2, <1>4 DEF Mine
    <3>2. All' = Base(c) /\ damage'[c] = "none"
      BY <1>2, <3>1
    <3> QED BY <2>1, <2>4, <3>2 DEF Stage, Past, AtValues
  <2>6. Ended(c)'
    BY <2>1 DEF Planned, Ended
  <2> QED BY <2>1, <2>3, <2>5, <2>6 DEF CallerInv
<1>5. CASE ~(at[c] = 2 /\ ~back[c])
  <2>1. pc'[c] \in {"idle", "elevate"} /\ result'[c] = "error"
    BY <1>5 DEF TypeOK, Failed, End
  <2>2. ~foreign'[c] => Ended(c)'
    <3> SUFFICES ASSUME ~foreign'[c] PROVE Ended(c)'
      OBVIOUS
    <3>1. ~foreign[c]
      BY DEF Mine
    <3>2. damage'[c] = "none" =>
              task' = begun[c].task /\ run' = begun[c].run /\ owner' = begun[c].owner
      <4> SUFFICES ASSUME damage'[c] = "none"
                   PROVE  All' = begun[c]
        BY DEF All
      <4>1. ~yes /\ damage[c] # "second" /\ ~back[c]
        BY <1>2
      <4>2. at[c] = 1
        BY <1>1, <1>5, <4>1 DEF Facts
      <4> QED BY <3>1, <4>1, <4>2 DEF Base
    <3>3. damage'[c] # "second" /\ Switches(c) => task' # None \/ run' # None
      BY <1>2, <3>1, OneRegistered
    <3>4. Switches(c)' <=> Switches(c)
      BY DEF Switches, Mine
    <3> QED BY <2>1, <3>2, <3>3, <3>4 DEF Ended, Mine, Now, Nothing
  <2> QED BY <2>1, <2>2 DEF CallerInv, InScript
<1> QED BY <1>4, <1>5

\* A write that succeeded: the next one, or the end of the command or of its roll-back.
LEMMA AfterSuccess ==
    ASSUME TypeOK, NEW c \in Callers, Planned(c), UNCHANGED damage, Succeeded(c), Mine(c),
           ~foreign'[c] => Spared(c)',
           ~foreign[c] /\ damage[c] # "second" =>
               damage[c] = "none" /\ All' = With(Base(c), Kind(c), Target(c))
    PROVE  CallerInv(c)'
<1> DEFINE b == begun[c]
           w == Want(c)
           k == Kind(c)
<1>1. Facts(c)
  BY PlanFacts
<1>2. Want(c)' = Want(c)
  BY DEF Mine, Want, Desired
<1>3. Switches(c)' <=> Switches(c)
  BY DEF Switches, Mine
<1>4. ~foreign[c] /\ damage[c] # "second" =>
          /\ task' = With(Base(c), k, Target(c)).task /\ run' = With(Base(c), k, Target(c)).run
          /\ owner' = With(Base(c), k, Target(c)).owner
  BY DEF All
<1>5. ~foreign[c] /\ damage[c] # "second" /\ Switches(c) => task' # None \/ run' # None
  <2>1. ~foreign[c] /\ damage[c] # "second" => Reach(c, task', run')
    BY <1>1, <1>4 DEF Reach, With, Facts
  <2> QED BY <2>1, OneRegistered
<1>6. CASE back[c]
  <2>1. pc'[c] \in {"idle", "elevate"} /\ result'[c] = "error"
    BY <1>6 DEF TypeOK, Succeeded, End
  <2>2. ~foreign[c] /\ damage[c] # "second" =>
            task' = b.task /\ run' = b.run /\ (run' # None => owner' = b.owner)
    BY <1>1, <1>4, <1>6 DEF Facts, With, Of, Planned
  <2>3. ~foreign'[c] => Ended(c)'
    BY <1>3, <1>5, <2>1, <2>2 DEF Ended, Mine, Now, Nothing
  <2> QED BY <2>1, <2>3 DEF CallerInv, InScript
<1>7. CASE ~back[c] /\ at[c] < Len(plan[c])
  <2>1. at'[c] = 2 /\ ~back'[c] /\ pc'[c] = "check" /\ plan'[c] = plan[c]
        /\ result'[c] = result[c]
    BY <1>7 DEF TypeOK, Succeeded
  <2>2. at[c] = 1 /\ Len(plan[c]) = 2
    BY <1>7, Places
  <2>3. Planned(c)'
    <3>1. Steps(c, begun[c], Want(c))' = Steps(c, begun[c], Want(c))
      BY <1>2 DEF Mine, Steps
    <3> QED BY <1>2, <1>7, <2>1, <2>2, <3>1 DEF Planned, Mine, AtValues, Past
  <2>4. Base(c)' = With(Base(c), k, Target(c))
    BY <1>7, <2>1, <2>2 DEF Base, Mine, With, Kind, Target
  <2>5. ~foreign'[c] /\ damage'[c] # "second" => damage'[c] = "none" /\ Stage(c)'
    BY <2>1, <2>4 DEF Stage, Past, AtValues, Mine
  <2>6. Ended(c)'
    BY <2>1 DEF Planned, Ended
  <2> QED BY <2>1, <2>3, <2>5, <2>6 DEF CallerInv
<1>8. CASE ~back[c] /\ ~(at[c] < Len(plan[c]))
  <2>1. pc'[c] = "idle" /\ result'[c] = "done"
    BY <1>8 DEF TypeOK, Succeeded, End
  <2>2. at[c] = Len(plan[c])
    BY <1>8, Places
  <2>3. ~foreign'[c] => Now' = w /\ Managed'
    <3> SUFFICES ASSUME ~foreign'[c] PROVE Now' = w /\ Managed'
      OBVIOUS
    <3>1. ~foreign[c] /\ damage[c] # "second"
      BY <1>8 DEF Mine, Planned
    <3>2. task' = w.task /\ run' = w.run /\ (run' = None \/ run' = owner')
      BY <1>1, <1>4, <1>8, <2>2, <3>1 DEF Facts, With, Of, Planned
    <3>3. b.task \in Value /\ b.run \in Value
      BY DEF TypeOK, Registration
    <3>4. w = [task |-> w.task, run |-> w.run] /\ w.task # Alien
      BY <3>3, WantIs DEF Want, Planned
    <3> HIDE DEF w
    <3> QED BY <3>2, <3>4 DEF Now, Managed
  <2>4. ~foreign'[c] => Ended(c)'
    BY <1>2, <1>3, <1>5, <1>8, <2>1, <2>3 DEF Ended, Mine, Now, Nothing, Planned
  <2> QED BY <2>1, <2>4 DEF CallerInv, InScript
<1> QED BY <1>6, <1>7, <1>8

-----------------------------------------------------------------------------
(* Types. *)

\* The locals that the end of a write changes.
ExitTyped ==
    /\ pc \in [Callers -> InScript \cup {"idle", "state", "read", "elevate"}]
    /\ plan \in [Callers -> Seq(Write)]
    /\ at \in [Callers -> 1 .. 2]
    /\ back \in [Callers -> BOOLEAN]
    /\ result \in [Callers -> {"none", "done", "error"}]

\* Ends keep them typed.
LEMMA ExitTypes ==
    ASSUME TypeOK, NEW c \in Callers, Failed(c) \/ Succeeded(c)
    PROVE  ExitTyped'
<1>1. << >> \in Seq(Write)
  OBVIOUS
<1>2. ASSUME NEW o \in {"done", "error"}, End(c, o) PROVE ExitTyped'
  <2>1. back' \in [Callers -> BOOLEAN]
    BY <1>2 DEF TypeOK, End, Forget
  <2> QED BY <1>1, <1>2, <2>1 DEF TypeOK, End, Forget, ExitTyped
<1>3. ASSUME NEW i \in 1 .. 2, at' = [at EXCEPT ![c] = i], UNCHANGED <<plan, result>>,
             pc' = [pc EXCEPT ![c] = "check"], back' = back \/ back' = [back EXCEPT ![c] = TRUE]
      PROVE  ExitTyped'
  <2>1. back' \in [Callers -> BOOLEAN]
    BY <1>3 DEF TypeOK
  <2> QED BY <1>3, <2>1 DEF TypeOK, ExitTyped, InScript
<1>4. 1 \in 1 .. 2 /\ 2 \in 1 .. 2
  OBVIOUS
<1> QED BY <1>2, <1>3, <1>4 DEF Failed, Succeeded

\* So does the ghost that remembers damage.
LEMMA DamageTypes ==
    ASSUME TypeOK, NEW c \in Callers, NEW yes \in BOOLEAN, Damaged(c, yes) \/ UNCHANGED damage
    PROVE  damage' \in [Callers -> {"none", "some", "second"}]
<1>1. CASE UNCHANGED damage
  BY <1>1 DEF TypeOK
<1>2. CASE Damaged(c, yes)
  <2> DEFINE x == IF ~yes THEN damage[c] ELSE IF at[c] = 2 THEN "second"
                  ELSE IF damage[c] = "none" THEN "some" ELSE damage[c]
  <2>1. damage' = [damage EXCEPT ![c] = x]
    BY <1>2 DEF Damaged
  <2>2. x \in {"none", "some", "second"}
    BY DEF TypeOK
  <2> HIDE DEF x
  <2> QED BY <2>1, <2>2 DEF TypeOK
<1> QED BY <1>1, <1>2

\* A fault that is still admitted is counted.
LEMMA FaultCounted ==
    ASSUME TypeOK, faults < MaxFaults, faults' = faults + 1
    PROVE  faults' \in 0 .. MaxFaults
BY BoundsAreNumbers DEF TypeOK

\* The writes of a command have types.
LEMMA StepsTyped ==
    ASSUME TypeOK, NEW c \in Callers
    PROVE  Steps(c, Now, Desired(c, Now)) \in Seq(Write)
<1> DEFINE w == Desired(c, Now)
<1>1. Now.task \in Value /\ Now.run \in Value
  BY DEF TypeOK, Now
<1>2. w.task \in Value /\ w.run \in Value
  BY <1>1, WantIs
<1> HIDE DEF w
<1>3. WriteOf(Now, w, "run") \in Write /\ WriteOf(Now, w, "task") \in Write
  BY <1>1, <1>2 DEF WriteOf, Of, Write
<1>4. \A x, y \in Write : <<x, y>> \in Seq(Write) /\ <<x>> \in Seq(Write)
                          /\ << >> \in Seq(Write)
  OBVIOUS
<1> QED BY <1>3, <1>4, StepsAre DEF w

\* Every step keeps the types.
LEMMA TypeStep == ASSUME IInv, [Next]_vars PROVE TypeOK'
<1>0. TypeOK /\ \A c \in Callers : CallerInv(c)
  BY DEF IInv
<1>1. ASSUME NEW c \in Callers, pc[c] \in InScript PROVE Target(c) \in Value
  BY <1>0, <1>1, PlanFacts DEF CallerInv, Facts
<1>2. ASSUME NEW c \in Callers, pc[c] \in Past
      PROVE  seen[c].run \in Value /\ seen[c].owner \in Value
  BY <1>0 DEF TypeOK
<1>3. ASSUME NEW c \in Callers, Wrote(c) PROVE foreign' \in [Callers -> BOOLEAN]
  BY <1>0, <1>3 DEF TypeOK, Wrote
<1>4. None \in Value
  BY DEF Value
<1>5. CASE UNCHANGED vars
  BY <1>0, <1>5 DEF TypeOK, vars, registry, locals
<1>a. CASE Overwrite
  <2>1. commands' \in 0 .. MaxCommands
    BY <1>0, <1>a, BoundsAreNumbers DEF TypeOK, Overwrite
  <2>2. task' \in Value /\ run' \in Value /\ foreign' \in [Callers -> BOOLEAN]
    BY <1>0, <1>a DEF TypeOK, Overwrite, Value
  <2>3. UNCHANGED <<owner, pc, locals, damage, faults>>
    BY <1>a DEF Overwrite
  <2> QED BY <1>0, <2>1, <2>2, <2>3 DEF TypeOK, locals
<1> SUFFICES ASSUME NEW c \in Callers,
                    \/ \E k \in Command : Begin(c, k)
                    \/ LookForToggle(c) \/ Read(c) \/ ReadRefused(c) \/ Elevate(c)
                    \/ Check(c) \/ WriteTask(c) \/ FirstValue(c) \/ SecondValue(c)
                    \/ RestoreRun(c) \/ RestoreOwner(c)
                    \/ WriteFails(c) \/ Kill(c) \/ Crash(c)
             PROVE  TypeOK'
  BY <1>5, <1>a DEF Next, CallerNext
<1>6. ASSUME NEW k \in Command, Begin(c, k) PROVE TypeOK'
  <2>1. commands' \in 0 .. MaxCommands
    BY <1>0, <1>6, BoundsAreNumbers DEF TypeOK, Begin
  <2> QED BY <1>0, <1>6, <2>1 DEF TypeOK, Begin, registry, InScript
<1>7. CASE LookForToggle(c)
  BY <1>0, <1>7 DEF TypeOK, LookForToggle, registry, InScript, Command
<1>8. CASE Read(c)
  <2>1. All \in Registration
    BY <1>0 DEF TypeOK, All, Registration
  <2> QED BY <1>0, <1>8, <2>1, StepsTyped DEF TypeOK, Read, registry, InScript
<1>9. CASE ReadRefused(c)
  BY <1>0, <1>9 DEF TypeOK, ReadRefused, End, Forget, registry, InScript, All, Registration
<1>10. CASE Elevate(c)
  BY <1>0, <1>10 DEF TypeOK, Elevate, registry, InScript
<1>11. CASE Check(c)
  BY <1>0, <1>11, ExitTypes, DamageTypes DEF TypeOK, ExitTyped, Check, registry, InScript
<1>12. CASE WriteTask(c)
  BY <1>0, <1>1, <1>3, <1>12, ExitTypes, DamageTypes DEF TypeOK, ExitTyped, WriteTask, InScript
<1>13. CASE FirstValue(c)
  BY <1>0, <1>1, <1>3, <1>4, <1>13 DEF TypeOK, FirstValue, locals, InScript
<1>14. CASE SecondValue(c)
  BY <1>0, <1>1, <1>3, <1>4, <1>14, ExitTypes DEF TypeOK, ExitTyped, SecondValue, InScript
<1>15. CASE RestoreRun(c)
  BY <1>0, <1>2, <1>3, <1>15 DEF TypeOK, RestoreRun, locals, InScript, Past
<1>16. CASE RestoreOwner(c)
  BY <1>0, <1>2, <1>3, <1>16, ExitTypes, DamageTypes
     DEF TypeOK, ExitTyped, RestoreOwner, InScript, Past
<1>17. CASE WriteFails(c)
  BY <1>0, <1>17, FaultCounted, ExitTypes, DamageTypes
     DEF TypeOK, ExitTyped, WriteFails, registry, InScript
<1>18. CASE Kill(c)
  <2>1. task' \in Value /\ run' \in Value /\ owner' \in Value
    <3>1. Target(c) \in Value
      BY <1>1, <1>18 DEF Kill
    <3> QED BY <1>0, <1>4, <1>18, <3>1 DEF TypeOK, Kill, registry
  <2>2. foreign' \in [Callers -> BOOLEAN]
    BY <1>0, <1>3, <1>18 DEF TypeOK, Kill
  <2>3. /\ ExitTyped' /\ faults' \in 0 .. MaxFaults
        /\ damage' \in [Callers -> {"none", "some", "second"}]
    BY <1>0, <1>18, FaultCounted, ExitTypes, DamageTypes DEF Kill
  <2>4. UNCHANGED <<cmd, admin, seen, begun, commands, refused>>
    BY <1>18 DEF Kill
  <2> QED BY <1>0, <2>1, <2>2, <2>3, <2>4 DEF TypeOK, ExitTyped
<1>19. CASE Crash(c)
  <2>1. << >> \in Seq(Write)
    OBVIOUS
  <2>2. back' \in [Callers -> BOOLEAN]
    BY <1>0, <1>19 DEF TypeOK, Crash, Forget
  <2> QED BY <1>0, <1>19, <2>1, <2>2, FaultCounted DEF TypeOK, Crash, Forget, registry
<1> QED BY <1>6, <1>7, <1>8, <1>9, <1>10, <1>11, <1>12, <1>13, <1>14, <1>15, <1>16, <1>17, <1>18,
           <1>19

-----------------------------------------------------------------------------
(* Another program's values, and callers beside each other. *)

\* What is registered at first may be anything that somebody wrote.
LEMMA InitInv == Init => IInv
<1> SUFFICES ASSUME Init PROVE IInv
  OBVIOUS
<1>1. << >> \in Seq(Write) /\ 0 \in 0 .. MaxCommands /\ 0 \in 0 .. MaxFaults
  BY BoundsAreNumbers
<1>2. TypeOK
  BY <1>1 DEF Init, TypeOK, Value, Command, Registration
<1>3. owner # Alien
  BY ValuesDiffer DEF Init
<1>4. \A c \in Callers : pc[c] = "idle" /\ result[c] = "none"
  BY DEF Init
<1> QED BY <1>2, <1>3, <1>4 DEF IInv, Aliens, CallerInv, Ended, InScript, Past

\* No write touches them, and nobody writes one.
LEMMA AliensStep ==
    ASSUME IInv, [Next]_vars
    PROVE  /\ Aliens'
           /\ task = Alien => task' = Alien
           /\ run = Alien => run' = Alien
<1>0. TypeOK /\ Aliens /\ \A c \in Callers : CallerInv(c)
  BY DEF IInv
<1> DEFINE Kept == /\ owner' # Alien
                   /\ task' = Alien <=> task = Alien
                   /\ run' = Alien <=> run = Alien
<1>1. ASSUME NEW c \in Callers, pc[c] \in Past
      PROVE  Target(c) # Alien /\ seen[c].run # Alien /\ seen[c].owner # Alien
             /\ task # Alien /\ run # Alien /\ owner # Alien
  <2>1. Planned(c)
    BY <1>0, <1>1 DEF CallerInv, Past
  <2> QED BY <1>0, <1>1, <2>1, PlanFacts DEF Facts, Planned, Aliens
<1>2. CASE UNCHANGED vars
  BY <1>0, <1>2 DEF Aliens, vars, registry
<1>a. CASE Overwrite
  <2>1. \A c \in Callers : pc'[c] = pc[c] /\ pc[c] \notin Past
    BY <1>a DEF Overwrite, Past
  <2>2. UNCHANGED owner /\ task' \in {task, Alien} /\ run' \in {run, Alien}
    BY <1>a DEF Overwrite
  <2> QED BY <1>0, <2>1, <2>2 DEF Aliens
<1> SUFFICES ASSUME NEW c \in Callers,
                    \/ \E k \in Command : Begin(c, k)
                    \/ LookForToggle(c) \/ Read(c) \/ ReadRefused(c) \/ Elevate(c)
                    \/ Check(c) \/ WriteTask(c) \/ FirstValue(c) \/ SecondValue(c)
                    \/ RestoreRun(c) \/ RestoreOwner(c)
                    \/ WriteFails(c) \/ Kill(c) \/ Crash(c)
             PROVE  Aliens' /\ Kept
  BY <1>2, <1>a DEF Next, CallerNext
<1>3. None # Alien
  BY ValuesDiffer
<1>4. ASSUME Failed(c) \/ Succeeded(c) PROVE \A d \in Callers : pc'[d] \in Past => pc[d] \in Past
  BY <1>0, <1>4 DEF TypeOK, Failed, Succeeded, End, Past, InScript
<1>5. ASSUME UNCHANGED registry, \A d \in Callers : pc'[d] \in Past => pc[d] \in Past
      PROVE  Aliens' /\ Kept
  BY <1>0, <1>5 DEF Aliens, registry
<1>6. ASSUME Kept, pc[c] \in Past, \A d \in Callers : pc'[d] \in Past => pc[d] \in Past
      PROVE  Aliens' /\ Kept
  BY <1>0, <1>1, <1>6 DEF Aliens
<1>7. CASE \/ \E k \in Command : Begin(c, k)
           \/ LookForToggle(c) \/ Read(c) \/ ReadRefused(c) \/ Elevate(c) \/ Crash(c)
  <2>1. UNCHANGED registry
    BY <1>7 DEF Begin, LookForToggle, Read, ReadRefused, Elevate, Crash
  <2>2. \A d \in Callers : pc'[d] \in Past => pc[d] \in Past
    BY <1>0, <1>7
       DEF TypeOK, Begin, LookForToggle, Read, ReadRefused, Elevate, Crash, End, Past, InScript
  <2> QED BY <1>5, <2>1, <2>2
<1>8. CASE Check(c)
  <2>1. UNCHANGED registry
    BY <1>8 DEF Check
  <2>2. CASE Failed(c) \/ Succeeded(c)
    BY <1>4, <1>5, <2>1, <2>2
  <2>3. CASE Managed /\ pc' = [pc EXCEPT ![c] = IF Kind(c) = "task" THEN "task" ELSE "first"]
    <3>1. task # Alien /\ run # Alien
      BY <1>0, <1>3, <2>3 DEF Managed, Aliens
    <3> QED BY <1>0, <2>1, <2>3, <3>1 DEF Aliens, registry
  <2> QED BY <1>8, <2>2, <2>3 DEF Check
<1>9. CASE WriteTask(c)
  <2>1. pc[c] \in Past
    BY <1>9 DEF WriteTask, Past, InScript
  <2> QED BY <1>1, <1>4, <1>6, <1>9, <2>1 DEF WriteTask
<1>10. CASE FirstValue(c)
  <2>1. pc[c] \in Past /\ \A d \in Callers : pc'[d] \in Past => pc[d] \in Past
    BY <1>0, <1>10 DEF TypeOK, FirstValue, Past, InScript
  <2> QED BY <1>1, <1>3, <1>6, <1>10, <2>1 DEF FirstValue
<1>11. CASE SecondValue(c)
  <2>1. pc[c] \in Past
    BY <1>11 DEF SecondValue, Past, InScript
  <2> QED BY <1>1, <1>3, <1>4, <1>6, <1>11, <2>1 DEF SecondValue
<1>12. CASE RestoreRun(c)
  <2>1. pc[c] \in Past /\ \A d \in Callers : pc'[d] \in Past => pc[d] \in Past
    BY <1>0, <1>12 DEF TypeOK, RestoreRun, Past, InScript
  <2> QED BY <1>1, <1>6, <1>12, <2>1 DEF RestoreRun
<1>13. CASE RestoreOwner(c)
  <2>1. pc[c] \in Past
    BY <1>13 DEF RestoreOwner, Past, InScript
  <2> QED BY <1>1, <1>4, <1>6, <1>13, <2>1 DEF RestoreOwner
<1>14. CASE WriteFails(c)
  <2>1. UNCHANGED registry /\ pc[c] \in Past
    BY <1>14 DEF WriteFails, Past, InScript
  <2>2. \A d \in Callers : pc'[d] \in Past => pc[d] \in Past
    BY <1>0, <1>4, <1>14, <2>1 DEF TypeOK, WriteFails
  <2> QED BY <1>5, <2>1, <2>2
<1>15. CASE Kill(c)
  <2>1. pc[c] \in Past
    BY <1>15 DEF Kill, Past
  <2>2. Kept
    BY <1>1, <1>3, <1>15, <2>1 DEF Kill, registry
  <2> QED BY <1>4, <1>6, <1>15, <2>1, <2>2 DEF Kill
<1> QED BY <1>7, <1>8, <1>9, <1>10, <1>11, <1>12, <1>13, <1>14, <1>15

\* A step of another caller: it leaves the registration alone, or foreign tells of it.
Apart(c) ==
    /\ pc'[c] = pc[c] /\ cmd'[c] = cmd[c] /\ plan'[c] = plan[c] /\ at'[c] = at[c]
    /\ back'[c] = back[c] /\ seen'[c] = seen[c] /\ result'[c] = result[c]
    /\ begun'[c] = begun[c] /\ damage'[c] = damage[c]
    /\ foreign'[c] \/ (foreign'[c] = foreign[c] /\ UNCHANGED registry)

\* The ends of another caller's write.
LEMMA ExitsApart ==
    ASSUME TypeOK, NEW c \in Callers, NEW d \in Callers \ {c}, Failed(d) \/ Succeeded(d)
    PROVE  /\ pc'[c] = pc[c] /\ plan'[c] = plan[c] /\ at'[c] = at[c] /\ back'[c] = back[c]
           /\ result'[c] = result[c]
BY DEF TypeOK, Failed, Succeeded, End, Forget

\* What another caller leaves.
LEMMA StepApart ==
    ASSUME TypeOK, NEW c \in Callers, NEW d \in Callers \ {c},
           \/ \E k \in Command : Begin(d, k)
           \/ LookForToggle(d) \/ Read(d) \/ ReadRefused(d) \/ Elevate(d)
           \/ Check(d) \/ WriteTask(d) \/ FirstValue(d) \/ SecondValue(d)
           \/ RestoreRun(d) \/ RestoreOwner(d)
           \/ WriteFails(d) \/ Kill(d) \/ Crash(d)
    PROVE  Apart(c)
<1>1. ASSUME NEW yes, Damaged(d, yes) PROVE damage'[c] = damage[c]
  BY <1>1 DEF TypeOK, Damaged
<1>2. ASSUME Wrote(d) PROVE foreign'[c] = TRUE
  BY <1>2 DEF Wrote
<1>3. CASE (\E k \in Command : Begin(d, k)) \/ LookForToggle(d) \/ Elevate(d)
  BY <1>3 DEF TypeOK, Begin, LookForToggle, Elevate, Apart, registry
<1>4. CASE Read(d)
  BY <1>4 DEF TypeOK, Read, Apart, registry
<1>5. CASE ReadRefused(d) \/ Crash(d)
  BY <1>5 DEF TypeOK, ReadRefused, Crash, End, Forget, Apart, registry
<1>6. CASE Check(d)
  BY <1>1, <1>6, ExitsApart DEF TypeOK, Check, Apart, registry
<1>7. CASE WriteTask(d)
  BY <1>1, <1>2, <1>7, ExitsApart DEF TypeOK, WriteTask, Apart, registry
<1>8. CASE FirstValue(d) \/ RestoreRun(d)
  BY <1>2, <1>8 DEF TypeOK, FirstValue, RestoreRun, Apart, locals
<1>9. CASE SecondValue(d) \/ RestoreOwner(d)
  BY <1>1, <1>2, <1>9, ExitsApart DEF TypeOK, SecondValue, RestoreOwner, Apart
<1>10. CASE WriteFails(d)
  BY <1>1, <1>10, ExitsApart DEF TypeOK, WriteFails, Apart, registry
<1>11. CASE Kill(d)
  BY <1>1, <1>2, <1>11, ExitsApart DEF TypeOK, Kill, Apart, registry
<1> QED BY <1>3, <1>4, <1>5, <1>6, <1>7, <1>8, <1>9, <1>10, <1>11

\* It keeps what is said of this one.
LEMMA KeepCaller ==
    ASSUME TypeOK, NEW c \in Callers, CallerInv(c), Apart(c)
    PROVE  CallerInv(c)'
<1>1. Want(c)' = Want(c)
  BY DEF Apart, Want, Desired
<1>2. Kind(c)' = Kind(c) /\ Target(c)' = Target(c) /\ Base(c)' = Base(c)
  BY DEF Apart, Kind, Target, Base, With
<1>3. Steps(c, begun[c], Want(c))' = Steps(c, begun[c], Want(c))
  BY <1>1 DEF Apart, Steps
<1>4. Planned(c)' <=> Planned(c)
  BY <1>1, <1>2, <1>3 DEF Apart, Planned
<1>5. ~foreign'[c] => ~foreign[c] /\ UNCHANGED registry
  BY DEF Apart
<1>6. ~foreign'[c] => (Stage(c)' <=> Stage(c)) /\ (Spared(c)' <=> Spared(c))
  BY <1>2, <1>5 DEF Apart, Stage, Spared, All, registry
<1>7. ~foreign'[c] => (Ended(c)' <=> Ended(c))
  BY <1>1, <1>5 DEF Apart, Ended, Switches, Now, Managed, registry
<1> QED BY <1>4, <1>5, <1>6, <1>7 DEF CallerInv, Apart

-----------------------------------------------------------------------------
(* The steps of a caller. *)

\* A copy that is being removed writes a value only if it is its own.
LEMMA OwnedWrites ==
    ASSUME TypeOK, NEW c \in Callers, Planned(c), cmd[c] = "owned"
    PROVE  /\ Kind(c) = "task" => begun[c].task = ExeOf[c]
           /\ Kind(c) = "run" => begun[c].run = ExeOf[c]
<1>1. begun[c].task \in Value /\ begun[c].run \in Value
  BY DEF TypeOK, Registration
<1>2. /\ begun[c].task # ExeOf[c] => Want(c).task = begun[c].task
      /\ begun[c].run # ExeOf[c] => Want(c).run = begun[c].run
  BY <1>1, WantIs DEF Want
<1> QED BY <1>2, PlanFacts DEF Facts

\* Whatever its scripts come to, and until another caller writes, the rest stays.
LEMMA SparedStep ==
    ASSUME IInv, NEW c \in Callers, pc[c] \in InScript, ~foreign'[c],
           \/ Check(c) \/ WriteTask(c) \/ FirstValue(c) \/ SecondValue(c)
           \/ RestoreRun(c) \/ RestoreOwner(c) \/ WriteFails(c) \/ Kill(c) \/ Crash(c),
           cmd[c] = "owned"
    PROVE  /\ begun[c].task # ExeOf[c] => task' = begun[c].task
           /\ begun[c].run # ExeOf[c] => run' = begun[c].run
<1>1. TypeOK /\ CallerInv(c) /\ Planned(c)
  BY DEF IInv, CallerInv
<1>2. ~foreign[c]
  BY DEF Check, WriteTask, FirstValue, SecondValue, RestoreRun, RestoreOwner, WriteFails, Kill,
         Crash, Wrote
<1>3. /\ begun[c].task # ExeOf[c] => task = begun[c].task
      /\ begun[c].run # ExeOf[c] => run = begun[c].run
  BY <1>1, <1>2 DEF CallerInv, Spared
<1>4. pc[c] = "task" => begun[c].task = ExeOf[c]
  BY <1>1, OwnedWrites DEF Planned
<1>5. pc[c] \in AtValues => begun[c].run = ExeOf[c]
  BY <1>1, OwnedWrites DEF Planned
<1>6. CASE UNCHANGED registry
  BY <1>3, <1>6 DEF registry
<1>7. CASE pc[c] = "task" /\ UNCHANGED run
  BY <1>3, <1>4, <1>7
<1>8. CASE pc[c] \in AtValues /\ UNCHANGED task
  BY <1>3, <1>5, <1>8
<1> QED BY <1>6, <1>7, <1>8
        DEF Check, WriteTask, FirstValue, SecondValue, RestoreRun, RestoreOwner, WriteFails, Kill,
            Crash, AtValues, registry

\* A command and its first read.
LEMMA BeginStep ==
    ASSUME IInv, NEW c \in Callers,
           \/ \E k \in Command : Begin(c, k)
           \/ LookForToggle(c) \/ ReadRefused(c) \/ Elevate(c) \/ Crash(c)
    PROVE  CallerInv(c)'
<1>1. TypeOK /\ CallerInv(c)
  BY DEF IInv
<1>2. CASE \E k \in Command : Begin(c, k)
  BY <1>1, <1>2 DEF TypeOK, Begin, CallerInv, Ended, InScript
<1>3. CASE LookForToggle(c)
  BY <1>1, <1>3 DEF TypeOK, LookForToggle, CallerInv, Ended, InScript
<1>4. CASE ReadRefused(c)
  <2>1. pc'[c] \in {"idle", "elevate"} /\ result'[c] = "error"
    BY <1>1, <1>4 DEF TypeOK, ReadRefused, End
  <2>2. begun'[c] = All /\ UNCHANGED registry
    BY <1>1, <1>4 DEF TypeOK, ReadRefused
  <2>3. Ended(c)'
    BY <2>1, <2>2 DEF Ended, Switches, All, Now, Nothing, registry
  <2> QED BY <2>1, <2>3 DEF CallerInv, InScript
<1>5. CASE Elevate(c) /\ pc'[c] = "read"
  <2>1. result'[c] = "none"
    BY <1>1, <1>5 DEF TypeOK, Elevate
  <2> QED BY <1>5, <2>1 DEF CallerInv, Ended, InScript
<1>6. CASE Elevate(c) /\ pc'[c] # "read"
  <2>1. pc'[c] = "idle" /\ UNCHANGED <<registry, cmd, result, begun, foreign, damage>>
        /\ pc[c] = "elevate"
    BY <1>1, <1>6 DEF TypeOK, Elevate
  <2>2. Want(c)' = Want(c) /\ (Switches(c)' <=> Switches(c))
    BY <2>1 DEF Want, Desired, Switches
  <2>3. Ended(c)' <=> Ended(c)
    BY <2>1, <2>2 DEF Ended, Now, Managed, registry
  <2> QED BY <1>1, <2>1, <2>3 DEF CallerInv, InScript
<1>7. CASE Crash(c)
  BY <1>1, <1>7 DEF TypeOK, Crash, CallerInv, Ended, InScript
<1> QED BY <1>2, <1>3, <1>4, <1>5, <1>6, <1>7

\* The plan is made from what was read.
LEMMA ReadStep ==
    ASSUME IInv, NEW c \in Callers, Read(c)
    PROVE  CallerInv(c)'
<1> DEFINE w == Desired(c, Now)
           s == Steps(c, Now, w)
<1>1. TypeOK /\ CallerInv(c) /\ owner # Alien
  BY DEF IInv, Aliens
<1>2. /\ Managed /\ begun'[c] = All /\ ~foreign'[c] /\ damage'[c] = "none" /\ ~back'[c]
      /\ at'[c] = 1 /\ plan'[c] = s /\ UNCHANGED <<registry, cmd>>
      /\ pc'[c] = IF s = <<>> THEN "idle" ELSE "check"
      /\ result'[c] = IF s = <<>> THEN "done" ELSE "none"
  BY <1>1 DEF TypeOK, Read
<1>3. Want(c)' = w
  BY <1>2 DEF Want, Desired, All, Now
<1>4. Steps(c, begun[c], Want(c))' = s
  BY <1>2, <1>3 DEF Steps, All, Now
<1>5. Now.task \in Value /\ Now.run \in Value
  BY <1>1 DEF TypeOK, Now
<1>6. w = [task |-> w.task, run |-> w.run]
  BY <1>1, <1>5, WantIs
<1>7. /\ s = <<>> => w.run = run /\ w.task = task
      /\ s # <<>> => 1 \in 1 .. Len(s)
  <2> HIDE DEF w
  <2>1. Now.run = run /\ Now.task = task
    BY DEF Now
  <2>2. \A x, y : <<x>> # <<>> /\ <<x, y>> # <<>> /\ Len(<<x>>) = 1 /\ Len(<<x, y>>) = 2
    OBVIOUS
  <2> QED BY <2>1, <2>2, StepsAre
<1> HIDE DEF w, s
<1>8. Ended(c)'
  <2>1. s = <<>> => Now' = w /\ Managed'
    BY <1>2, <1>6, <1>7 DEF Now, Managed, registry
  <2>2. Switches(c)' => Now' # Nothing
    BY <1>2 DEF Switches, All, Now, Nothing, registry
  <2> QED BY <1>2, <1>3, <2>1, <2>2 DEF Ended
<1>9. CASE s = <<>>
  BY <1>2, <1>8, <1>9 DEF CallerInv, InScript
<1>10. CASE s # <<>>
  <2>1. begun'[c].task # Alien /\ begun'[c].run # Alien /\ begun'[c].run \in {None, begun'[c].owner}
    BY <1>1, <1>2, ValuesDiffer DEF Managed, All
  <2>2. Planned(c)'
    BY <1>2, <1>4, <1>7, <1>10, <2>1 DEF Planned, AtValues, Past
  <2>3. Stage(c)' /\ Spared(c)'
    BY <1>2, <1>10 DEF Stage, Spared, Base, All, Past, AtValues, registry
  <2> QED BY <1>2, <1>8, <1>10, <2>2, <2>3 DEF CallerInv, InScript
<1> QED BY <1>9, <1>10

\* The script is where it was in its write, with the registration at Base or on the way.
LEMMA StageFacts ==
    ASSUME IInv, NEW c \in Callers, pc[c] \in InScript
    PROVE  /\ TypeOK /\ Planned(c) /\ Facts(c)
           /\ ~foreign[c] /\ damage[c] # "second" =>
                 /\ damage[c] = "none" /\ Stage(c) /\ Reach(c, task, run)
<1>1. TypeOK /\ Planned(c) /\ CallerInv(c)
  BY DEF IInv, CallerInv
<1>2. Facts(c)
  BY <1>1, PlanFacts
<1>3. ~foreign[c] /\ damage[c] # "second" => damage[c] = "none" /\ Stage(c)
  BY <1>1 DEF CallerInv
<1>4. Stage(c) => Reach(c, task, run)
  <2> SUFFICES ASSUME Stage(c) PROVE Reach(c, task, run)
    OBVIOUS
  <2>1. CASE pc[c] \in {"check", "task", "first"}
    <3>1. Base(c) = All
      BY <2>1 DEF Stage
    <3> QED BY <3>1 DEF Reach, All
  <2>2. CASE pc[c] \in AtValues \ {"first"}
    <3>1. Kind(c) = "run" /\ task = Base(c).task
      BY <1>1, <2>2 DEF Planned, Stage
    <3>2. run = Base(c).run \/ run = Target(c)
      BY <2>2 DEF Stage, AtValues
    <3> QED BY <3>1, <3>2 DEF Reach
  <2> QED BY <2>1, <2>2 DEF InScript, AtValues
<1> QED BY <1>1, <1>2, <1>3, <1>4

\* What a caller's scripts spare, after one more step.
LEMMA StillSpared ==
    ASSUME IInv, NEW c \in Callers, pc[c] \in InScript, UNCHANGED <<cmd, begun>>,
           \/ Check(c) \/ WriteTask(c) \/ FirstValue(c) \/ SecondValue(c)
           \/ RestoreRun(c) \/ RestoreOwner(c) \/ WriteFails(c) \/ Kill(c)
    PROVE  ~foreign'[c] => Spared(c)'
BY SparedStep DEF Spared

\* A step that stays in its write keeps the plan.
LEMMA SamePlan ==
    ASSUME NEW c \in Callers, Planned(c), UNCHANGED <<cmd, begun, plan, at, back, damage, result>>,
           pc'[c] = "task" => Kind(c) = "task", pc'[c] \in AtValues => Kind(c) = "run",
           pc'[c] \in Past => seen'[c].run # Alien /\ seen'[c].owner # Alien
    PROVE  /\ Planned(c)' /\ Base(c)' = Base(c) /\ Target(c)' = Target(c)
           /\ result'[c] = "none"
<1>1. Want(c)' = Want(c)
  BY DEF Want, Desired
<1>2. Steps(c, begun[c], Want(c))' = Steps(c, begun[c], Want(c))
  BY <1>1 DEF Steps
<1>3. Kind(c)' = Kind(c) /\ Base(c)' = Base(c) /\ Target(c)' = Target(c)
  BY DEF Kind, Base, Target, With
<1> QED BY <1>1, <1>2, <1>3 DEF Planned

\* Check: the script refuses, has nothing to do, or goes on.
LEMMA CheckStep == ASSUME IInv, NEW c \in Callers, Check(c) PROVE CallerInv(c)'
<1>1. pc[c] = "check" /\ pc[c] \in InScript /\ UNCHANGED <<registry, cmd, begun, foreign>>
  BY DEF Check, InScript
<1>2. /\ TypeOK /\ Planned(c) /\ Facts(c)
      /\ ~foreign[c] /\ damage[c] # "second" =>
            /\ damage[c] = "none" /\ Stage(c) /\ Reach(c, task, run)
  BY <1>1, StageFacts
<1>3. Mine(c) /\ (~foreign'[c] => Spared(c)')
  BY <1>1, StillSpared DEF Mine
<1>4. ~foreign[c] /\ damage[c] # "second" => All = Base(c)
  BY <1>1, <1>2 DEF Stage
<1>5. CASE Damaged(c, back[c]) /\ Failed(c)
  <2>1. back[c] \in BOOLEAN
    BY <1>2 DEF TypeOK
  <2>2. Reach(c, task', run') <=> Reach(c, task, run)
    BY <1>1 DEF registry
  <2>3. All' = All
    BY <1>1 DEF All, registry
  <2> QED BY <1>2, <1>3, <1>4, <1>5, <2>1, <2>2, <2>3, AfterFailure
<1>6. CASE Target(c) = None /\ Now[Kind(c)] = None /\ UNCHANGED damage /\ Succeeded(c)
  <2>1. Of(Base(c), Kind(c)) # None
    BY <1>2, <1>6, NotSkipped
  <2>2. All = Base(c) => Now[Kind(c)] = Of(Base(c), Kind(c))
    BY <1>2 DEF Facts, Now, All, Of
  <2>3. foreign[c] \/ damage[c] = "second"
    BY <1>4, <1>6, <2>1, <2>2
  <2> QED BY <1>2, <1>3, <1>6, <2>3, AfterSuccess
<1>7. CASE /\ Managed /\ UNCHANGED <<plan, at, back, result, damage>>
           /\ pc' = [pc EXCEPT ![c] = IF Kind(c) = "task" THEN "task" ELSE "first"]
           /\ seen' = [seen EXCEPT ![c] = [run |-> run, owner |-> owner]]
  <2>1. pc'[c] = IF Kind(c) = "task" THEN "task" ELSE "first"
    BY <1>2, <1>7 DEF TypeOK
  <2>2. seen'[c] = [run |-> run, owner |-> owner]
    BY <1>2, <1>7 DEF TypeOK
  <2>3. owner # Alien /\ run # Alien
    BY <1>7, ValuesDiffer DEF IInv, Aliens, Managed
  <2>4. Kind(c) \in {"run", "task"}
    BY <1>2 DEF Facts
  <2>5. Planned(c)' /\ Base(c)' = Base(c) /\ result'[c] = "none"
    BY <1>1, <1>2, <1>7, <2>1, <2>2, <2>3, <2>4, SamePlan DEF AtValues
  <2>6. ~foreign'[c] /\ damage'[c] # "second" => damage'[c] = "none" /\ Stage(c)'
    BY <1>1, <1>2, <1>4, <1>7, <2>1, <2>2, <2>5 DEF Stage, AtValues, All, registry
  <2> QED BY <1>3, <2>1, <2>5, <2>6 DEF CallerInv, Ended
<1> QED BY <1>5, <1>6, <1>7 DEF Check

\* The task is written, or was gone.
LEMMA TaskStep == ASSUME IInv, NEW c \in Callers, WriteTask(c) PROVE CallerInv(c)'
<1>1. /\ pc[c] = "task" /\ pc[c] \in InScript /\ UNCHANGED <<run, owner, cmd, begun>>
      /\ foreign'[c] = foreign[c]
  BY DEF WriteTask, InScript, Wrote, IInv, TypeOK
<1>2. /\ TypeOK /\ Planned(c) /\ Kind(c) = "task"
      /\ ~foreign[c] /\ damage[c] # "second" =>
            /\ damage[c] = "none" /\ Stage(c) /\ Reach(c, task, run)
  BY <1>1, StageFacts DEF Planned
<1>3. Mine(c) /\ (~foreign'[c] => Spared(c)')
  BY <1>1, StillSpared DEF Mine
<1>4. ~foreign[c] /\ damage[c] # "second" => All = Base(c)
  BY <1>1, <1>2 DEF Stage
<1>5. CASE UNCHANGED task /\ Damaged(c, back[c]) /\ Failed(c)
  <2>1. back[c] \in BOOLEAN
    BY <1>2 DEF TypeOK
  <2>2. All' = All /\ (Reach(c, task', run') <=> Reach(c, task, run))
    BY <1>1, <1>5 DEF All
  <2> QED BY <1>2, <1>3, <1>4, <1>5, <2>1, <2>2, AfterFailure
<1>6. CASE task' = Target(c) /\ UNCHANGED damage /\ Succeeded(c)
  <2>1. All = Base(c) => All' = With(Base(c), Kind(c), Target(c))
    BY <1>1, <1>2, <1>6 DEF All, With
  <2> QED BY <1>2, <1>3, <1>4, <1>6, <2>1, AfterSuccess
<1> QED BY <1>5, <1>6 DEF WriteTask

\* The Run value and the owner value, one after the other.
LEMMA ValuesStep ==
    ASSUME IInv, NEW c \in Callers, FirstValue(c) \/ SecondValue(c)
    PROVE  CallerInv(c)'
<1>1. /\ pc[c] \in {"first", "second"} /\ pc[c] \in InScript
      /\ UNCHANGED <<task, cmd, begun, seen, damage>> /\ foreign'[c] = foreign[c]
  BY DEF FirstValue, SecondValue, InScript, Wrote, locals, IInv, TypeOK
<1>2. /\ TypeOK /\ Planned(c) /\ Kind(c) = "run"
      /\ ~foreign[c] /\ damage[c] # "second" =>
            /\ damage[c] = "none" /\ Stage(c) /\ Reach(c, task, run)
  BY <1>1, StageFacts DEF Planned, AtValues
<1>3. Mine(c) /\ (~foreign'[c] => Spared(c)')
  BY <1>1, StillSpared DEF Mine
<1>4. CASE FirstValue(c)
  <2>1. pc'[c] = "second" /\ UNCHANGED <<plan, at, back, result>>
    BY <1>2, <1>4 DEF TypeOK, FirstValue, locals
  <2>2. seen'[c].run # Alien /\ seen'[c].owner # Alien
    BY <1>1, <1>2 DEF Planned, Past
  <2>3. Planned(c)' /\ Base(c)' = Base(c) /\ Target(c)' = Target(c) /\ result'[c] = "none"
    BY <1>1, <1>2, <2>1, <2>2, SamePlan
  <2>4. Stage(c) => Stage(c)'
    <3> SUFFICES ASSUME Stage(c) PROVE Stage(c)'
      OBVIOUS
    <3>1. All = Base(c) /\ seen[c] = [run |-> Base(c).run, owner |-> Base(c).owner]
      BY <1>1, <1>4 DEF Stage, FirstValue, Past, InScript
    <3>2. task' = Base(c).task
      BY <1>1, <3>1 DEF All
    <3>3. IF Target(c) = None THEN run' = None /\ owner' = Base(c).owner
          ELSE run' = Base(c).run /\ owner' = Target(c)
      BY <1>4, <3>1 DEF FirstValue, All
    <3> QED BY <1>1, <2>1, <2>3, <3>1, <3>2, <3>3 DEF Stage
  <2>5. ~foreign'[c] /\ damage'[c] # "second" => damage'[c] = "none" /\ Stage(c)'
    BY <1>1, <1>2, <2>4
  <2> QED BY <1>3, <2>1, <2>3, <2>5 DEF CallerInv, Ended
<1>5. CASE SecondValue(c)
  <2>1. Stage(c) => All' = With(Base(c), Kind(c), Target(c))
    BY <1>1, <1>2, <1>5 DEF Stage, SecondValue, With, All, AtValues
  <2> QED BY <1>1, <1>2, <1>3, <1>5, <2>1, AfterSuccess DEF SecondValue
<1> QED BY <1>4, <1>5

\* The catch block puts both values back.
LEMMA RestoreStep ==
    ASSUME IInv, NEW c \in Callers, RestoreRun(c) \/ RestoreOwner(c)
    PROVE  CallerInv(c)'
<1>1. /\ pc[c] \in {"restoreRun", "restoreOwner"} /\ pc[c] \in InScript
      /\ UNCHANGED <<task, cmd, begun, seen>> /\ foreign'[c] = foreign[c]
  BY DEF RestoreRun, RestoreOwner, InScript, Wrote, locals, IInv, TypeOK
<1>2. /\ TypeOK /\ Planned(c) /\ Kind(c) = "run"
      /\ ~foreign[c] /\ damage[c] # "second" => damage[c] = "none" /\ Stage(c)
  BY <1>1, StageFacts DEF Planned, AtValues
<1>3. Mine(c) /\ (~foreign'[c] => Spared(c)')
  BY <1>1, StillSpared DEF Mine
<1>4. Stage(c) => /\ task = Base(c).task
                  /\ seen[c].run = Base(c).run /\ seen[c].owner = Base(c).owner
                  /\ pc[c] = "restoreOwner" => run = Base(c).run
  BY <1>1 DEF Stage, Past, InScript, AtValues
<1>5. CASE RestoreRun(c)
  <2>1. pc'[c] = "restoreOwner" /\ UNCHANGED <<plan, at, back, result, damage>>
    BY <1>2, <1>5 DEF TypeOK, RestoreRun, locals
  <2>2. seen'[c].run # Alien /\ seen'[c].owner # Alien
    BY <1>1, <1>2 DEF Planned, Past
  <2>3. Planned(c)' /\ Base(c)' = Base(c) /\ result'[c] = "none"
    BY <1>1, <1>2, <2>1, <2>2, SamePlan
  <2>4. Stage(c) => Stage(c)'
    BY <1>1, <1>4, <1>5, <2>1, <2>3 DEF Stage, RestoreRun, Past, InScript
  <2>5. ~foreign'[c] /\ damage'[c] # "second" => damage'[c] = "none" /\ Stage(c)'
    BY <1>1, <1>2, <2>1, <2>4
  <2> QED BY <1>3, <2>1, <2>3, <2>5 DEF CallerInv, Ended
<1>6. CASE RestoreOwner(c)
  <2>1. Stage(c) => task' = Base(c).task /\ run' = Base(c).run /\ owner' = Base(c).owner
    BY <1>1, <1>4, <1>6 DEF RestoreOwner
  <2>2. Base(c) = [task |-> Base(c).task, run |-> Base(c).run, owner |-> Base(c).owner]
    BY <1>2 DEF TypeOK, Base, With, Registration
  <2>3. Stage(c) => Reach(c, task', run') /\ All' = Base(c)
    BY <2>1, <2>2 DEF Reach, All
  <2>4. back[c] \in BOOLEAN /\ Damaged(c, back[c]) /\ Failed(c)
    BY <1>2, <1>6 DEF TypeOK, RestoreOwner
  <2> QED BY <1>2, <1>3, <2>3, <2>4, AfterFailure
<1> QED BY <1>5, <1>6

\* A write that throws, and a script that is killed.
LEMMA FaultStep ==
    ASSUME IInv, NEW c \in Callers, WriteFails(c) \/ Kill(c)
    PROVE  CallerInv(c)'
<1>1. /\ pc[c] \in Past /\ pc[c] \in InScript /\ UNCHANGED <<cmd, begun, seen>>
      /\ foreign'[c] = foreign[c]
  BY DEF WriteFails, Kill, Past, InScript, Wrote, IInv, TypeOK
<1>2. /\ TypeOK /\ Planned(c)
      /\ ~foreign[c] /\ damage[c] # "second" =>
            /\ damage[c] = "none" /\ Stage(c) /\ Reach(c, task, run)
  BY <1>1, StageFacts
<1>3. Mine(c) /\ (~foreign'[c] => Spared(c)')
  BY <1>1, StillSpared DEF Mine
<1>4. CASE WriteFails(c) /\ pc[c] \in {"first", "second"}
  <2>1. pc'[c] = "restoreRun" /\ UNCHANGED <<registry, plan, at, back, result, damage>>
    BY <1>2, <1>4 DEF TypeOK, WriteFails
  <2>2. Kind(c) = "run" /\ seen'[c].run # Alien /\ seen'[c].owner # Alien
    BY <1>1, <1>2, <1>4 DEF Planned, AtValues
  <2>3. /\ Planned(c)' /\ Base(c)' = Base(c) /\ Target(c)' = Target(c)
        /\ result'[c] = "none"
    BY <1>1, <1>2, <2>1, <2>2, SamePlan
  <2>4. Stage(c) => Stage(c)'
    <3> SUFFICES ASSUME Stage(c) PROVE Stage(c)'
      OBVIOUS
    <3>1. /\ seen[c] = [run |-> Base(c).run, owner |-> Base(c).owner] /\ task = Base(c).task
          /\ run \in {Base(c).run, Target(c)}
      BY <1>1, <1>4 DEF Stage, AtValues, All
    <3> QED BY <1>1, <2>1, <2>3, <3>1 DEF Stage, registry
  <2>5. ~foreign'[c] /\ damage'[c] # "second" => damage'[c] = "none" /\ Stage(c)'
    BY <1>1, <1>2, <2>1, <2>4
  <2> QED BY <1>3, <2>1, <2>3, <2>5 DEF CallerInv, Ended
<1>5. CASE WriteFails(c) /\ pc[c] \notin {"first", "second"}
  <2> DEFINE yes == back[c] \/ pc[c] # "task"
  <2>1. yes \in BOOLEAN /\ Damaged(c, yes) /\ Failed(c) /\ UNCHANGED registry
    BY <1>5 DEF WriteFails
  <2>2. Reach(c, task', run') <=> Reach(c, task, run)
    BY <2>1 DEF registry
  <2>3. Stage(c) /\ ~yes => All' = Base(c)
    BY <2>1 DEF Stage, All, registry
  <2> HIDE DEF yes
  <2>4. back[c] => yes
    BY DEF yes
  <2> QED BY <1>2, <1>3, <2>1, <2>2, <2>3, <2>4, AfterFailure
<1>6. CASE Kill(c)
  <2>1. Damaged(c, TRUE) /\ Failed(c)
    BY <1>6 DEF Kill
  <2>2. Stage(c) /\ Reach(c, task, run) => Reach(c, task', run')
    <3> SUFFICES ASSUME Stage(c), Reach(c, task, run) PROVE Reach(c, task', run')
      OBVIOUS
    <3>1. CASE UNCHANGED registry
      BY <3>1 DEF registry
    <3>2. CASE pc[c] = "task" /\ task' = Target(c) /\ run' = run
      <4>1. Kind(c) = "task"
        BY <1>2, <3>2 DEF Planned
      <4> QED BY <3>2, <4>1 DEF Reach
    <3>3. CASE /\ pc[c] = "second" /\ task' = task
               /\ IF Target(c) = None THEN run' = run ELSE run' = Target(c)
      <4>1. Kind(c) = "run"
        BY <1>2, <3>3 DEF Planned, AtValues
      <4> QED BY <3>3, <4>1 DEF Reach
    <3> QED BY <1>6, <3>1, <3>2, <3>3 DEF Kill
  <2> QED BY <1>2, <1>3, <2>1, <2>2, AfterFailure
<1> QED BY <1>4, <1>5, <1>6

-----------------------------------------------------------------------------
(* Every step, and the theorems. *)

\* The invariant holds from step to step.
LEMMA StepInv == ASSUME IInv, [Next]_vars PROVE IInv'
<1>1. TypeOK' /\ Aliens'
  BY TypeStep, AliensStep
<1>2. ASSUME NEW c \in Callers PROVE CallerInv(c)'
  <2>1. TypeOK /\ CallerInv(c)
    BY DEF IInv
  <2>2. CASE UNCHANGED vars
    <3>1. Apart(c)
      BY <2>2 DEF vars, locals, Apart
    <3> QED BY <2>1, <3>1, KeepCaller
  <2>4. CASE Overwrite
    <3>1. Apart(c)
      BY <2>4 DEF Overwrite, locals, Apart
    <3> QED BY <2>1, <3>1, KeepCaller
  <2>3. ASSUME NEW d \in Callers,
               \/ \E k \in Command : Begin(d, k)
               \/ LookForToggle(d) \/ Read(d) \/ ReadRefused(d) \/ Elevate(d)
               \/ Check(d) \/ WriteTask(d) \/ FirstValue(d) \/ SecondValue(d)
               \/ RestoreRun(d) \/ RestoreOwner(d)
               \/ WriteFails(d) \/ Kill(d) \/ Crash(d)
        PROVE  CallerInv(c)'
    <3>1. CASE d # c
      <4>1. Apart(c)
        BY <2>1, <2>3, <3>1, StepApart
      <4> QED BY <2>1, <4>1, KeepCaller
    <3>2. CASE d = c
      BY <2>3, <3>2, BeginStep, ReadStep, CheckStep, TaskStep, ValuesStep, RestoreStep, FaultStep
    <3> QED BY <3>1, <3>2
  <2> QED BY <2>2, <2>3, <2>4 DEF Next, CallerNext
<1> QED BY <1>1, <1>2 DEF IInv

\* What is registered, wherever a caller's scripts are, in every state.
THEOREM Invariant == Spec => []IInv
BY InitInv, StepInv, PTL DEF Spec

\* A switch between the mechanisms registers the new one before it removes the old: wherever a
\* write, a script or the process ends, one of them is there.
THEOREM StaysRegistered == Spec => []NeverUnregistered
<1>1. IInv => NeverUnregistered
  <2> SUFFICES ASSUME IInv, NEW c \in Callers, cmd[c] \in {"normal", "elevated"}, ~foreign[c],
                      damage[c] # "second",
                      pc[c] \in InScript \cup {"elevate"} \/ result[c] # "none",
                      begun[c].task # None \/ begun[c].run # None
               PROVE  Now # Nothing
    BY DEF NeverUnregistered
  <2>1. CallerInv(c) /\ Switches(c)
    BY DEF IInv, Switches
  <2>2. CASE pc[c] \in InScript
    <3>1. TypeOK /\ Planned(c) /\ Reach(c, task, run)
      BY <2>2, StageFacts
    <3>2. task # None \/ run # None
      BY <2>1, <3>1, OneRegistered
    <3> QED BY <3>2 DEF Now, Nothing
  <2>3. CASE pc[c] \notin InScript
    <3>1. result[c] # "none"
      BY <2>1, <2>3 DEF CallerInv
    <3> QED BY <2>1, <3>1 DEF CallerInv, Ended
  <2> QED BY <2>2, <2>3
<1> QED BY Invariant, <1>1, PTL

\* How a command ended is what the registration shows.
THEOREM OutcomesAreTrue == Spec => []OutcomeHolds
<1>1. IInv => OutcomeHolds
  BY DEF IInv, CallerInv, Ended, OutcomeHolds, Want, Now
<1> QED BY Invariant, <1>1, PTL

\* What is not the program's stays, and a copy that is being removed takes only its own away
\* unless another caller or program writes while it works.
THEOREM OthersAreSpared == Spec => OwnedOnly
<1>1. IInv /\ [Next]_vars =>
          [task = Alien => task' = Alien]_vars /\ [run = Alien => run' = Alien]_vars
  BY AliensStep
<1>2. IInv /\ [Next]_vars =>
          [\A c \in Callers :
              cmd[c] = "owned" /\ pc[c] \in InScript /\ ~foreign'[c] =>
                 /\ begun[c].task # ExeOf[c] => task' = begun[c].task
                 /\ begun[c].run # ExeOf[c] => run' = begun[c].run]_vars
  <2> SUFFICES ASSUME IInv, Next, NEW c \in Callers, cmd[c] = "owned", pc[c] \in InScript,
                      ~foreign'[c]
               PROVE  /\ begun[c].task # ExeOf[c] => task' = begun[c].task
                      /\ begun[c].run # ExeOf[c] => run' = begun[c].run
    OBVIOUS
  <2>1. TypeOK /\ CallerInv(c)
    BY DEF IInv
  <2>2. CASE Apart(c)
    <3>1. ~foreign[c] /\ UNCHANGED registry
      BY <2>2 DEF Apart
    <3> QED BY <2>1, <3>1 DEF CallerInv, Spared, registry
  <2>3. CASE \/ Check(c) \/ WriteTask(c) \/ FirstValue(c) \/ SecondValue(c)
             \/ RestoreRun(c) \/ RestoreOwner(c) \/ WriteFails(c) \/ Kill(c) \/ Crash(c)
    BY <2>3, SparedStep
  <2>4. pc[c] \notin {"idle", "state", "read", "elevate"}
    BY DEF InScript
  <2>8. CASE Overwrite
    <3>1. Apart(c)
      BY <2>8 DEF Overwrite, locals, Apart
    <3> QED BY <2>2, <3>1
  <2>5. CASE CallerNext
    <3>1. PICK d \in Callers :
                 \/ \E k \in Command : Begin(d, k)
                 \/ LookForToggle(d) \/ Read(d) \/ ReadRefused(d) \/ Elevate(d)
                 \/ Check(d) \/ WriteTask(d) \/ FirstValue(d) \/ SecondValue(d)
                 \/ RestoreRun(d) \/ RestoreOwner(d)
                 \/ WriteFails(d) \/ Kill(d) \/ Crash(d)
      BY <2>5 DEF CallerNext
    <3>2. CASE d # c
      BY <2>1, <2>2, <3>1, <3>2, StepApart
    <3>3. CASE d = c
      BY <2>3, <2>4, <3>1, <3>3 DEF Begin, LookForToggle, Read, ReadRefused, Elevate
    <3> QED BY <3>2, <3>3
  <2> QED BY <2>5, <2>8 DEF Next
<1> QED BY Invariant, <1>1, <1>2, PTL DEF Spec, OwnedOnly
=============================================================================
