------------------------------ MODULE Snapshots ------------------------------
(***************************************************************************)
(* The values the module runtime shares with its readers: the state of one *)
(* module (module.State) and a full snapshot of all of them.  A module's   *)
(* JSON payload is represented by its version, the number of publications  *)
(* the runtime has accepted; the descriptor, the time stamp and the error  *)
(* text carry no control and are left out.                                 *)
(***************************************************************************)
EXTENDS Naturals

CONSTANTS Modules,      \* identifiers of the modules that may be registered
          MaxVersion    \* bound: publications accepted per module

ASSUME MaxVersionAssumption == MaxVersion \in Nat

\* "absent" stands for a module with no entry in the runtime's map.
Status == {"absent", "registered", "running", "stopped", "failed"}

Terminal == {"stopped", "failed"}

ModuleState == [status : Status, data : 0 .. MaxVersion]

Snapshot == [Modules -> ModuleState]

NoEntry == [status |-> "absent", data |-> 0]

-----------------------------------------------------------------------------
(***************************************************************************)
(* The lifecycle order.  b follows a when one module can have gone from    *)
(* state a to state b: forward through its life, accepting publications,   *)
(* and frozen once its Run has ended.                                      *)
(***************************************************************************)
Stage(status) == CASE status = "absent"     -> 0
                   [] status = "registered" -> 1
                   [] status = "running"    -> 2
                   [] OTHER                 -> 3

ModuleFollows(a, b) ==
    /\ Stage(a.status) <= Stage(b.status)
    /\ a.data <= b.data
    /\ a.status \in Terminal => b = a

Follows(a, b) == \A m \in Modules : ModuleFollows(a[m], b[m])
=============================================================================
