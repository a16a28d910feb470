------------------------------ MODULE Startup ------------------------------
(***************************************************************************)
(* Start at sign-in, internal/startup/startup_windows.go with its two      *)
(* callers, the command line (cmd/jonsbo/startup_windows.go) and the tray  *)
(* menu (tray_windows.go).  A copy of the program is registered either     *)
(* under the Run key, together with an owner value of its own that marks   *)
(* the Run value as managed, or as an elevated scheduled task.  Every      *)
(* access is one run of a PowerShell script: it reads all three values,    *)
(* refuses what it does not own, then writes.  Nothing serialises two      *)
(* callers.                                                                *)
(*                                                                         *)
(* A value is abstracted to the copy it starts; Alien is any other content.*)
(* MaxCommands bounds the commands and the writes of another program,      *)
(* MaxFaults the failing writes, the killed scripts and lost processes.    *)
(***************************************************************************)
EXTENDS Naturals, Sequences

CONSTANTS Callers, Exe, ExeOf, Alien, None, MaxCommands, MaxFaults

ASSUME CallersOwnExe == ExeOf \in [Callers -> Exe]
ASSUME ValuesDiffer == Alien # None /\ Alien \notin Exe /\ None \notin Exe
ASSUME BoundsAreNumbers == MaxCommands \in Nat /\ MaxFaults \in Nat

VARIABLES
  task, run, owner,   \* the scheduled task, the Run value and the owner value
  pc,                 \* where each caller is
  cmd,                \* its command
  admin,              \* whether its process is elevated
  plan, at, back,     \* the writes of applyChange, the present one, and whether it is the roll-back
  seen,               \* what the present script read
  refused,            \* the failed write needs elevation
  result,             \* how its last command ended
  begun,              \* ghost: the registration when its command read it
  foreign,            \* ghost: another caller wrote since
  damage,             \* ghost: a roll-back failed, a script was killed or could not restore
  commands, faults    \* bounds

registry == <<task, run, owner>>
locals == <<cmd, admin, plan, at, back, seen, refused, result, begun>>
vars == <<registry, pc, locals, foreign, damage, commands, faults>>

Value == Exe \cup {None, Alien}
Registration == [task : Value, run : Value, owner : Value]
Nothing == [task |-> None, run |-> None]
Command == {"normal", "elevated", "disable", "owned", "toggle"}
Write == [kind : {"run", "task"}, new : Value, was : Value]
Now == [task |-> task, run |-> run]
All == [task |-> task, run |-> run, owner |-> owner]

(* Scripts, and the positions between the two writes of one value. *)
InScript == {"check", "task", "first", "second", "restoreRun", "restoreOwner"}

TypeOK ==
  /\ task \in Value /\ run \in Value /\ owner \in Value
  /\ pc \in [Callers -> InScript \cup {"idle", "state", "read", "elevate"}]
  /\ cmd \in [Callers -> Command]
  /\ admin \in [Callers -> BOOLEAN]
  /\ plan \in [Callers -> Seq(Write)]
  /\ at \in [Callers -> 1..2]
  /\ back \in [Callers -> BOOLEAN]
  /\ seen \in [Callers -> [run : Value, owner : Value]]
  /\ refused \in [Callers -> BOOLEAN]
  /\ result \in [Callers -> {"none", "done", "error"}]
  /\ begun \in [Callers -> Registration]
  /\ foreign \in [Callers -> BOOLEAN] /\ damage \in [Callers -> {"none", "some", "second"}]
  /\ commands \in 0..MaxCommands /\ faults \in 0..MaxFaults

(* Earlier versions of the program, or other programs, wrote what is there. *)
Init ==
  /\ task \in Value /\ run \in Value
  /\ owner = IF run = Alien THEN None ELSE run
  /\ pc = [c \in Callers |-> "idle"]
  /\ cmd = [c \in Callers |-> "disable"]
  /\ admin = [c \in Callers |-> FALSE]
  /\ plan = [c \in Callers |-> <<>>]
  /\ at = [c \in Callers |-> 1]
  /\ back = [c \in Callers |-> FALSE]
  /\ seen = [c \in Callers |-> [run |-> None, owner |-> None]]
  /\ refused = [c \in Callers |-> FALSE]
  /\ result = [c \in Callers |-> "none"]
  /\ begun = [c \in Callers |-> [task |-> None, run |-> None, owner |-> None]]
  /\ foreign = [c \in Callers |-> FALSE] /\ damage = [c \in Callers |-> "none"]
  /\ commands = 0 /\ faults = 0

-----------------------------------------------------------------------------
(* Helpers *)

(* The script's refusals, which come before every operation. *)
Managed == task # Alien /\ (run = None \/ run = owner)

\* Mutant: the uninstaller clears whatever it finds.
DesiredUnowned(c, old) ==
  IF cmd[c] = "normal" THEN [task |-> None, run |-> ExeOf[c]]
  ELSE IF cmd[c] = "elevated" THEN [task |-> ExeOf[c], run |-> None]
  ELSE Nothing

(* What a command wants, given what it read. *)
Desired(c, old) ==
  IF cmd[c] = "normal" THEN [task |-> None, run |-> ExeOf[c]]
  ELSE IF cmd[c] = "elevated" THEN [task |-> ExeOf[c], run |-> None]
  ELSE IF cmd[c] = "disable" THEN Nothing
  ELSE [task |-> IF old.task = ExeOf[c] THEN None ELSE old.task,   \* "owned"
        run |-> IF old.run = ExeOf[c] THEN None ELSE old.run]

(* The writes of applyChange.  The scheduler gives a task back in a form of *)
(* its own, so the text of a task to install never equals the present one.  *)
Change(kind, new, was, always) ==
  IF new # was \/ always THEN <<[kind |-> kind, new |-> new, was |-> was]>> ELSE <<>>

\* Mutant: the previous mechanism is removed first.
StepsRemoveFirst(c, old, desired) ==
  LET elevated == cmd[c] = "elevated"
      runs == Change("run", desired.run, old.run, FALSE)
      tasks == Change("task", desired.task, old.task, elevated)
  IN IF elevated THEN runs \o tasks ELSE tasks \o runs

Steps(c, old, desired) ==
  LET elevated == cmd[c] = "elevated"
      runs == Change("run", desired.run, old.run, FALSE)
      tasks == Change("task", desired.task, old.task, elevated)
  IN IF elevated THEN tasks \o runs ELSE runs \o tasks

(* The kind and value of the present write. *)
Kind(c) == plan[c][at[c]].kind
Target(c) == IF back[c] THEN plan[c][at[c]].was ELSE plan[c][at[c]].new

(* What a write of c does to the ghosts of the others. *)
Wrote(c) == foreign' = [d \in Callers |-> foreign[d] \/ d # c]

(* A roll-back did not finish, or a script neither finished nor restored;   *)
(* it matters most in the second write, which removes the old mechanism.    *)
Damaged(c, yes) ==
  damage' = [damage EXCEPT ![c] = IF ~yes THEN @
                                  ELSE IF at[c] = 2 THEN "second"
                                  ELSE IF @ = "none" THEN "some" ELSE @]

(* The locals of a command that is over. *)
Forget(c) ==
  /\ plan' = [plan EXCEPT ![c] = <<>>]
  /\ at' = [at EXCEPT ![c] = 1]
  /\ back' = [back EXCEPT ![c] = FALSE]

(* The command ends; the tray asks for elevation when that was all. *)
End(c, outcome) ==
  /\ pc' = [pc EXCEPT ![c] = IF refused'[c] /\ outcome = "error" THEN "elevate" ELSE "idle"]
  /\ result' = [result EXCEPT ![c] = outcome]
  /\ Forget(c)

\* Mutant: no roll-back.
FailedForward(c) == End(c, "error")

(* A write returned an error: roll the first one back if this is the second. *)
Failed(c) ==
  IF at[c] = 2 /\ ~back[c]
  THEN /\ at' = [at EXCEPT ![c] = 1]
       /\ back' = [back EXCEPT ![c] = TRUE]
       /\ pc' = [pc EXCEPT ![c] = "check"]
       /\ UNCHANGED <<plan, result>>
  ELSE End(c, "error")

(* A write returned: the next one, or the end. *)
Succeeded(c) ==
  IF back[c] THEN End(c, "error")
  ELSE IF at[c] < Len(plan[c])
  THEN /\ at' = [at EXCEPT ![c] = 2]
       /\ pc' = [pc EXCEPT ![c] = "check"]
       /\ UNCHANGED <<plan, back, result>>
  ELSE End(c, "done")

-----------------------------------------------------------------------------
(* Commands *)

(* A command of the tray menu, of the command line or of the installer. The *)
(* tray's toggle looks first, then enables or disables.                     *)
Begin(c, k) ==
  /\ pc[c] = "idle" /\ commands < MaxCommands
  /\ commands' = commands + 1
  /\ cmd' = [cmd EXCEPT ![c] = k]
  /\ admin' \in [Callers -> BOOLEAN]
  /\ \A d \in Callers \ {c} : admin'[d] = admin[d]
  /\ pc' = [pc EXCEPT ![c] = IF k = "toggle" THEN "state" ELSE "read"]
  /\ result' = [result EXCEPT ![c] = "none"]
  /\ refused' = [refused EXCEPT ![c] = FALSE]
  /\ UNCHANGED <<registry, plan, at, back, seen, begun, foreign, damage, faults>>

(* State of the toggle. *)
LookForToggle(c) ==
  /\ pc[c] = "state" /\ Managed
  /\ cmd' = [cmd EXCEPT ![c] = IF Now = Nothing THEN "normal" ELSE "disable"]
  /\ pc' = [pc EXCEPT ![c] = "read"]
  /\ UNCHANGED <<registry, admin, plan, at, back, seen, refused, result, begun, foreign, damage, commands, faults>>

(* read of change or disableOwned, and the writes that follow from it. *)
Read(c) ==
  LET steps == Steps(c, Now, Desired(c, Now))
  IN /\ pc[c] = "read" /\ Managed
     /\ plan' = [plan EXCEPT ![c] = steps]
     /\ at' = [at EXCEPT ![c] = 1]
     /\ back' = [back EXCEPT ![c] = FALSE]
     /\ begun' = [begun EXCEPT ![c] = All]
     /\ foreign' = [foreign EXCEPT ![c] = FALSE]
     /\ damage' = [damage EXCEPT ![c] = "none"]
     /\ pc' = [pc EXCEPT ![c] = IF steps = <<>> THEN "idle" ELSE "check"]
     /\ result' = [result EXCEPT ![c] = IF steps = <<>> THEN "done" ELSE "none"]
     /\ UNCHANGED <<registry, cmd, admin, seen, refused, commands, faults>>

(* The script refuses what is not the program's, before any change. *)
ReadRefused(c) ==
  /\ pc[c] \in {"state", "read"} /\ ~Managed
  /\ begun' = [begun EXCEPT ![c] = All]
  /\ foreign' = [foreign EXCEPT ![c] = FALSE]
  /\ damage' = [damage EXCEPT ![c] = "none"]
  /\ UNCHANGED refused
  /\ End(c, "error")
  /\ UNCHANGED <<registry, cmd, admin, seen, commands, faults>>

(* The tray starts an elevated process for the same command, or the user    *)
(* declines; the command line only reports the error.                       *)
Elevate(c) ==
  /\ pc[c] = "elevate"
  /\ refused' = [refused EXCEPT ![c] = FALSE]
  /\ \/ /\ admin' = [admin EXCEPT ![c] = TRUE]
        /\ pc' = [pc EXCEPT ![c] = "read"]
        /\ result' = [result EXCEPT ![c] = "none"]
     \/ pc' = [pc EXCEPT ![c] = "idle"] /\ UNCHANGED <<admin, result>>
  /\ UNCHANGED <<registry, cmd, plan, at, back, seen, begun, foreign, damage, commands, faults>>

-----------------------------------------------------------------------------
(* One write: the script reads and refuses, then changes one value after another *)

(* The script reads the three values and decides what there is to do. *)
Check(c) ==
  /\ pc[c] = "check"
  /\ seen' = [seen EXCEPT ![c] = [run |-> run, owner |-> owner]]
  /\ \/ /\ ~Managed
        /\ refused' = refused
        /\ Damaged(c, back[c])
        /\ Failed(c)
     \/ /\ Managed /\ Target(c) = None /\ Now[Kind(c)] = None
        /\ UNCHANGED <<refused, damage>>
        /\ Succeeded(c)
     \/ /\ Managed /\ ~(Target(c) = None /\ Now[Kind(c)] = None)
        /\ Kind(c) = "task" /\ ~admin[c]
        /\ refused' = [refused EXCEPT ![c] = TRUE]
        /\ Damaged(c, back[c])
        /\ Failed(c)
     \/ /\ Managed /\ ~(Target(c) = None /\ Now[Kind(c)] = None)
        /\ Kind(c) = "task" => admin[c]
        /\ pc' = [pc EXCEPT ![c] = IF Kind(c) = "task" THEN "task" ELSE "first"]
        /\ UNCHANGED <<plan, at, back, refused, result, damage>>
  /\ UNCHANGED <<registry, cmd, admin, begun, foreign, commands, faults>>

(* RegisterTask replaces what is there; DeleteTask fails when it is gone.  *)
WriteTask(c) ==
  /\ pc[c] = "task"
  /\ IF Target(c) = None /\ task = None
     THEN /\ Damaged(c, back[c])
          /\ UNCHANGED <<refused, task, foreign>>
          /\ Failed(c)
     ELSE /\ task' = Target(c)
          /\ Wrote(c)
          /\ UNCHANGED <<refused, damage>>
          /\ Succeeded(c)
  /\ UNCHANGED <<run, owner, cmd, admin, seen, begun, commands, faults>>

(* The owner value comes first when a Run value is set and last when it is removed. *)
FirstValue(c) ==
  /\ pc[c] = "first"
  /\ IF Target(c) = None THEN run' = None /\ owner' = owner ELSE owner' = Target(c) /\ run' = run
  /\ Wrote(c)
  /\ pc' = [pc EXCEPT ![c] = "second"]
  /\ UNCHANGED <<task, locals, damage, commands, faults>>

SecondValue(c) ==
  /\ pc[c] = "second"
  /\ IF Target(c) = None THEN owner' = None /\ run' = run ELSE run' = Target(c) /\ owner' = owner
  /\ Wrote(c)
  /\ UNCHANGED refused
  /\ Succeeded(c)
  /\ UNCHANGED <<task, cmd, admin, seen, begun, damage, commands, faults>>

(* The catch block puts both values back and throws the error on. *)
RestoreRun(c) ==
  /\ pc[c] = "restoreRun"
  /\ run' = seen[c].run
  /\ Wrote(c)
  /\ pc' = [pc EXCEPT ![c] = "restoreOwner"]
  /\ UNCHANGED <<task, owner, locals, damage, commands, faults>>

RestoreOwner(c) ==
  /\ pc[c] = "restoreOwner"
  /\ owner' = seen[c].owner
  /\ Wrote(c)
  /\ Damaged(c, back[c])
  /\ UNCHANGED refused
  /\ Failed(c)
  /\ UNCHANGED <<task, run, cmd, admin, seen, begun, commands, faults>>

-----------------------------------------------------------------------------
(* Faults *)

(* A write throws: the task's error leaves the script, a value's goes to the *)
(* catch block, an error in there leaves the script at once.                 *)
WriteFails(c) ==
  /\ pc[c] \in {"task", "first", "second", "restoreRun", "restoreOwner"} /\ faults < MaxFaults
  /\ faults' = faults + 1
  /\ IF pc[c] \in {"first", "second"}
     THEN /\ pc' = [pc EXCEPT ![c] = "restoreRun"]
          /\ UNCHANGED <<plan, at, back, refused, result, damage>>
     ELSE /\ Damaged(c, back[c] \/ pc[c] # "task")
          /\ UNCHANGED refused
          /\ Failed(c)
  /\ UNCHANGED <<registry, cmd, admin, seen, begun, foreign, commands>>

(* The context of a call ends after 45 seconds and kills the script, which   *)
(* runs no catch block; the caller sees a failed write, whether or not the   *)
(* last change of the script came to pass.                                   *)
Kill(c) ==
  /\ pc[c] \in InScript \ {"check"} /\ faults < MaxFaults
  /\ \/ UNCHANGED <<registry, foreign>>
     \/ pc[c] = "task" /\ task' = Target(c) /\ Wrote(c) /\ UNCHANGED <<run, owner>>
     \/ /\ pc[c] = "second" /\ Wrote(c) /\ task' = task
        /\ IF Target(c) = None THEN owner' = None /\ run' = run ELSE run' = Target(c) /\ owner' = owner
  /\ faults' = faults + 1
  /\ Damaged(c, TRUE)
  /\ UNCHANGED refused
  /\ Failed(c)
  /\ UNCHANGED <<cmd, admin, seen, begun, commands>>

(* The process, and its script, are gone. *)
Crash(c) ==
  /\ pc[c] # "idle" /\ faults < MaxFaults
  /\ faults' = faults + 1
  /\ pc' = [pc EXCEPT ![c] = "idle"]
  /\ result' = [result EXCEPT ![c] = "none"]
  /\ Forget(c)
  /\ UNCHANGED <<registry, cmd, admin, seen, refused, begun, foreign, damage, commands>>

(* Another program writes a value of the same name, at any time but between *)
(* the check of a script and its last write.  It counts as a command.       *)
Overwrite ==
  /\ commands < MaxCommands
  /\ \A c \in Callers : pc[c] \in InScript => pc[c] = "check"
  /\ commands' = commands + 1
  /\ \/ task' = Alien /\ run' = run
     \/ run' = Alien /\ task' = task
  /\ foreign' = [c \in Callers |-> TRUE]
  /\ UNCHANGED <<owner, pc, locals, damage, faults>>

CallerNext == \E c \in Callers :
  \/ \E k \in Command : Begin(c, k)
  \/ LookForToggle(c) \/ Read(c) \/ ReadRefused(c) \/ Elevate(c)
  \/ Check(c) \/ WriteTask(c) \/ FirstValue(c) \/ SecondValue(c) \/ RestoreRun(c) \/ RestoreOwner(c)
  \/ WriteFails(c) \/ Kill(c) \/ Crash(c)

Next == CallerNext \/ Overwrite

Spec == Init /\ [][Next]_vars

-----------------------------------------------------------------------------
(* Properties *)

(* A command that switches between the mechanisms, or enables one again,    *)
(* never leaves the program without either: not in between, not when either *)
(* write or the roll-back fails, and not where the process is lost.  Two    *)
(* cases are left out: another caller that writes meanwhile, as nothing     *)
(* serialises the two, and a script of the second write that ends after it  *)
(* removed the old mechanism, when applyChange takes it to be there.        *)
NeverUnregistered == \A c \in Callers :
  /\ cmd[c] \in {"normal", "elevated"} /\ ~foreign[c] /\ damage[c] # "second"
  /\ pc[c] \in InScript \cup {"elevate"} \/ result[c] # "none"
  /\ begun[c].task # None \/ begun[c].run # None
  => Now # Nothing

(* How a command ended is what the registration shows: after success it is  *)
(* the one asked for and nothing beside it, after an error it is the one    *)
(* that was there, with its owner value.                                    *)
OutcomeHolds == \A c \in Callers :
  ~foreign[c] =>
    /\ result[c] = "done" => Now = Desired(c, begun[c]) /\ Managed
    /\ result[c] = "error" /\ damage[c] = "none" =>
         /\ Now = [task |-> begun[c].task, run |-> begun[c].run]
         /\ run # None => owner = begun[c].owner

(* What another program registered stays, whoever calls, before a command   *)
(* or between its scripts; one that writes between a script's check and its *)
(* write is left out (Overwrite), and would lose its value.  A copy that is *)
(* being removed takes only its own entries away, whatever fails, as long   *)
(* as nobody writes between its read and its own writes: SparesOtherCopies  *)
(* is the claim without that limit, and fails.                              *)
OwnedOnly ==
  /\ [][task = Alien => task' = Alien]_vars
  /\ [][run = Alien => run' = Alien]_vars
  /\ [][\A c \in Callers :
          cmd[c] = "owned" /\ pc[c] \in InScript /\ ~foreign'[c] =>
             /\ begun[c].task # ExeOf[c] => task' = begun[c].task
             /\ begun[c].run # ExeOf[c] => run' = begun[c].run]_vars

(* "Uninstalling one copy must leave startup registered by another          *)
(* installed or portable copy alone" (startup_windows.go:90-91): no step of *)
(* a removal changes what another copy has registered, whenever it did so.  *)
(* The code decides by what it read before, and the script that writes      *)
(* checks only that some copy of the program is the owner.                  *)
SparesOtherCopies ==
  [][\A c \in Callers :
       LET others == Exe \ {ExeOf[c]}
       IN cmd[c] = "owned" /\ pc'[c] # pc[c] =>
            (task \in others => task' = task) /\ (run \in others => run' = run)]_vars
=============================================================================
