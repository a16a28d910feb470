------------------------------ MODULE USBDriver -------------------------------
(***************************************************************************)
(* The USB driver of internal/output/usb_windows.go: a Cyclops keeps its   *)
(* connection across frames, every other display opens one per frame.      *)
(*                                                                         *)
(* Each display has one worker (Output), so there is one call of Send per  *)
(* display at a time and the session's mutex is never contended; what can  *)
(* come between two steps of a call is the display's own cable.            *)
(***************************************************************************)
EXTENDS Naturals

CONSTANTS Displays,    \* the selected displays
          Cyclops,     \* those of kind "cyclops"
          Openers,     \* the values of USBDriver.open to consider: "winusb" is the
                       \* default, "injected" what the lifecycle tests install
          MaxFaults,   \* bound: failures with no lasting cause
          MaxPlugs     \* bound: times each cable is pulled

ASSUME USBAssumption == /\ Cyclops \subseteq Displays
                        /\ Openers \subseteq {"winusb", "injected"}
                        /\ MaxFaults \in Nat
                        /\ MaxPlugs \in Nat

VARIABLES
    opener,       \* what USBDriver.open is
    call,         \* per display: where its call of Send is
    connection,   \* persistent.connection of a Cyclops, the local c of another
    handles,      \* per display: native handles that are open
    plugged,      \* per display: it is attached
    outcome,      \* per display: what its last Send returned
    closed,       \* the driver was closed
    crashed,      \* a nil *winusb.Connection was dereferenced
    faults, plugs \* bounds

driverVars ==
    <<opener, call, connection, handles, plugged, outcome, closed, crashed, faults, plugs>>

\* "stale" is a handle whose display was unplugged after it was opened, and
\* "typed nil" an interface that holds a nil *winusb.Connection: not nil itself.
Connections == {"nil", "open", "stale", "typed nil"}

DriverTypeOK ==
    /\ opener \in Openers
    /\ call \in [Displays -> {"idle", "discover", "acquire", "transfer"}]
    /\ connection \in [Displays -> Connections]
    /\ handles \in [Displays -> Nat]
    /\ plugged \in [Displays -> BOOLEAN]
    /\ outcome \in [Displays -> {"none", "ok", "error"}]
    /\ closed \in BOOLEAN
    /\ crashed \in BOOLEAN
    /\ faults \in 0 .. MaxFaults
    /\ plugs \in [Displays -> 0 .. MaxPlugs]

DriverInit ==
    /\ opener \in Openers
    /\ call = [d \in Displays |-> "idle"]
    /\ connection = [d \in Displays |-> "nil"]
    /\ handles = [d \in Displays |-> 0]
    /\ plugged \in [Displays -> BOOLEAN]
    /\ outcome = [d \in Displays |-> "none"]
    /\ closed = FALSE
    /\ crashed = FALSE
    /\ faults = 0
    /\ plugs = [d \in Displays |-> 0]

Enter(d, phase) == call' = [call EXCEPT ![d] = phase]

Return(d, result) == Enter(d, "idle") /\ outcome' = [outcome EXCEPT ![d] = result]

\* A failure with no lasting cause: a cancelled context, a failed enumeration, a
\* device claimed by another program, a transfer that times out.
Fault == faults < MaxFaults /\ faults' = faults + 1

-----------------------------------------------------------------------------
(* USBDriver.Send. *)

\* Mutant: a retained connection is not looked for.
BeginReopens(d) ==
    /\ call[d] = "idle" /\ ~closed /\ ~crashed
    /\ \/ Fault /\ Return(d, "error")
       \/ Enter(d, "discover") /\ UNCHANGED <<outcome, faults>>
    /\ UNCHANGED <<opener, connection, handles, plugged, closed, crashed, plugs>>

\* The head of Send: a cancelled context touches nothing, a session that has a
\* connection is used as it is.
Begin(d) ==
    /\ call[d] = "idle" /\ ~closed /\ ~crashed
    /\ \/ Fault /\ Return(d, "error")
       \/ /\ Enter(d, IF d \in Cyclops /\ connection[d] # "nil" THEN "transfer" ELSE "discover")
          /\ UNCHANGED <<outcome, faults>>
    /\ UNCHANGED <<opener, connection, handles, plugged, closed, crashed, plugs>>

\* enumerate and device.Select.
Discover(d) ==
    /\ call[d] = "discover" /\ ~crashed
    /\ \/ /\ plugged[d]
          /\ Enter(d, "acquire")
          /\ UNCHANGED <<outcome, faults>>
       \/ Fault /\ Return(d, "error")
       \/ ~plugged[d] /\ Return(d, "error") /\ UNCHANGED faults
    /\ UNCHANGED <<opener, connection, handles, plugged, closed, crashed, plugs>>

\* What open returns with its error: the default converts a nil *winusb.Connection
\* to the interface, and Send stores it in the session before looking at the error.
OpenFailed(d) ==
    connection' = [connection EXCEPT ![d] =
        IF d \in Cyclops /\ opener = "winusb" THEN "typed nil" ELSE "nil"]

Open(d) ==
    /\ call[d] = "acquire" /\ ~crashed
    /\ \/ /\ plugged[d]
          /\ connection' = [connection EXCEPT ![d] = "open"]
          /\ handles' = [handles EXCEPT ![d] = @ + 1]
          /\ Enter(d, "transfer")
          /\ UNCHANGED <<outcome, faults>>
       \/ OpenFailed(d) /\ Return(d, "error") /\ Fault /\ UNCHANGED handles
       \/ /\ ~plugged[d]
          /\ OpenFailed(d) /\ Return(d, "error") /\ UNCHANGED <<handles, faults>>
    /\ UNCHANGED <<opener, plugged, closed, crashed, plugs>>

CloseConnection(d) ==
    /\ connection' = [connection EXCEPT ![d] = "nil"]
    /\ handles' = [handles EXCEPT ![d] = @ - 1]

\* Mutant: send leaves the connection that failed in its session.
TransferKeeps(d) ==
    /\ call[d] = "transfer" /\ ~crashed /\ connection[d] # "typed nil"
    /\ \/ /\ connection[d] = "open"
          /\ Return(d, "ok")
          /\ IF d \in Cyclops THEN UNCHANGED <<connection, handles>> ELSE CloseConnection(d)
          /\ UNCHANGED faults
       \/ /\ connection[d] = "stale" /\ UNCHANGED faults
          /\ Return(d, "error")
          /\ IF d \in Cyclops THEN UNCHANGED <<connection, handles>> ELSE CloseConnection(d)
    /\ UNCHANGED <<opener, plugged, closed, crashed, plugs>>

\* display.Send on the connection; what failed is closed and not retried.
Transfer(d) ==
    /\ call[d] = "transfer" /\ ~crashed /\ connection[d] # "typed nil"
    /\ \/ /\ connection[d] = "open"
          /\ Return(d, "ok")
          /\ IF d \in Cyclops THEN UNCHANGED <<connection, handles>> ELSE CloseConnection(d)
          /\ UNCHANGED faults
       \/ /\ \/ connection[d] = "open" /\ Fault
             \/ connection[d] = "stale" /\ UNCHANGED faults
          /\ Return(d, "error")
          /\ CloseConnection(d)
    /\ UNCHANGED <<opener, plugged, closed, crashed, plugs>>

Crash == crashed' = TRUE
         /\ UNCHANGED <<opener, call, connection, handles, plugged, outcome, closed, faults, plugs>>

\* Every use of a typed nil dereferences it, the Close after an error included.
TransferNil(d) ==
    /\ call[d] = "transfer" /\ ~crashed /\ connection[d] = "typed nil"
    /\ Crash

-----------------------------------------------------------------------------
\* Close, which the manager calls once its workers are done.
Close ==
    /\ ~closed /\ ~crashed
    /\ \A d \in Displays : call[d] = "idle" /\ connection[d] # "typed nil"
    /\ closed' = TRUE
    /\ connection' = [d \in Displays |-> "nil"]
    /\ handles' = [d \in Displays |-> IF connection[d] = "nil" THEN handles[d] ELSE handles[d] - 1]
    /\ UNCHANGED <<opener, call, plugged, outcome, crashed, faults, plugs>>

CloseNil ==
    /\ ~closed /\ ~crashed
    /\ \A d \in Displays : call[d] = "idle"
    /\ \E d \in Displays : connection[d] = "typed nil"
    /\ Crash

\* The environment pulls a cable: an open handle of that display is of no use from
\* then on. The kernel keeps it until it is closed.
Unplug(d) ==
    /\ plugged[d] /\ plugs[d] < MaxPlugs /\ ~crashed
    /\ plugged' = [plugged EXCEPT ![d] = FALSE]
    /\ plugs' = [plugs EXCEPT ![d] = @ + 1]
    /\ connection' = [connection EXCEPT ![d] = IF @ = "open" THEN "stale" ELSE @]
    /\ UNCHANGED <<opener, call, handles, outcome, closed, crashed, faults>>

Plug(d) ==
    /\ ~plugged[d] /\ ~crashed
    /\ plugged' = [plugged EXCEPT ![d] = TRUE]
    /\ UNCHANGED <<opener, call, connection, handles, outcome, closed, crashed, faults, plugs>>

-----------------------------------------------------------------------------
SendFrame(d) == Begin(d) \/ Discover(d) \/ Open(d) \/ Transfer(d) \/ TransferNil(d)

DriverNext == \/ Close \/ CloseNil
              \/ \E d \in Displays : SendFrame(d) \/ Unplug(d) \/ Plug(d)

DriverSpec == DriverInit /\ [][DriverNext]_driverVars

\* A worker refreshes its display until the driver is closed.
FairDriverSpec == DriverSpec /\ \A d \in Displays : WF_driverVars(SendFrame(d))

-----------------------------------------------------------------------------
(* Properties. *)

\* No handle is leaked or lost count of: a display has exactly the one its
\* connection holds, across failed opens, failed transfers, unplugged cables and
\* retained sessions, and none at all once the driver is closed.
HandlesOwned ==
    \A d \in Displays :
        /\ handles[d] = IF connection[d] \in {"open", "stale"} THEN 1 ELSE 0
        /\ call[d] = "idle" /\ (d \notin Cyclops \/ closed) => handles[d] = 0

\* Whatever failed, a display that stays attached is sent to again, by the same
\* worker, until a frame goes through (stated where open returns a true nil).
Retried ==
    \A d \in Displays :
        opener = "injected" /\ outcome[d] = "error" ~> (outcome[d] = "ok" \/ ~plugged[d] \/ closed)

\* "A failed frame is never retried in place. Reopen on the next refresh."
\* (usb_windows.go:39; docs/cyclops.md: "closes it after a transfer error, and
\* rediscovers/reopens it on the next refresh"): a frame is only ever sent to a
\* connection that was opened.
SendsToOpenedConnection ==
    \A d \in Displays : call[d] = "transfer" => connection[d] \in {"open", "stale"}
=============================================================================
