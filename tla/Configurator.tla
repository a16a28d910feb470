----------------------------- MODULE Configurator -----------------------------
(***************************************************************************)
(* The display configurator of modules/configurator: edits over HTTP, the  *)
(* state file and the media folders they leave on disk, the assignments of *)
(* the output manager that applying a layout changes, and the start after  *)
(* a crash at any point.                                                   *)
(*                                                                         *)
(* One client at a time holds Module.mutation while it edits.  Renders     *)
(* (Renderer), and PUT /v1/displays/{serial}/assignment, do not take it:   *)
(* they see the memory and the folders between any two steps of an edit.   *)
(***************************************************************************)
EXTENDS Catalog

CONSTANTS Clients,
          Elsewhere,    \* a view of another module
          Configured,   \* per display: its assignment without a binding
          MaxRerouted   \* bound: displays assigned directly at a time

ASSUME ConfiguratorAssumption ==
    /\ Elsewhere \notin Views
    /\ Configured \in [Displays -> Views \cup {Elsewhere}]
    /\ None \notin Clients
    /\ MaxRerouted \in Nat

VARIABLES
    disk,      \* state.json, or None before the first save
    folder,    \* per asset: its folder under assets/
    running,   \* the process is up
    memory,    \* Module.layouts, assets and bindings
    mutation,  \* the client that holds the mutex, or None
    request,   \* per client: the edit it makes and the locals of its handler
    putting,   \* a direct assignment past its validation, or None
    attached,  \* the displays the output manager was started with
    live,      \* their assignments there
    rerouted,  \* ghost: displays assigned directly, or left with an apply that failed
    strays     \* ghost: folders that could not be removed since the start

durable == <<disk, folder>>
output == <<putting, attached, live, rerouted>>
vars == <<durable, running, memory, mutation, request, output, strays>>

Phase == {"idle", "frames", "stage", "assign", "commit", "publish", "remove", "rollback"}

\* next is the copy of the state with the edit made; old is the assignment apply read.
Request == [phase : Phase \ {"idle"}, edit : Edits, next : Catalogs,
            old : Views \cup {Elsewhere}, direct : BOOLEAN]

Idle == [phase |-> "idle"]

TypeOK ==
    /\ disk \in Catalogs \cup {None}
    /\ folder \in [Assets -> {"none", "partial", "complete"}]
    /\ running \in BOOLEAN
    /\ memory \in Catalogs
    /\ mutation \in Clients \cup {None}
    /\ request \in [Clients -> Request \cup {Idle}]
    /\ putting \in [display : Displays, view : Views \cup {Elsewhere}] \cup {None}
    /\ attached \subseteq Displays
    /\ live \in [Displays -> Views \cup {Elsewhere}]
    /\ rerouted \subseteq attached
    /\ strays \subseteq Assets

-----------------------------------------------------------------------------
(* New and the composition in serve. *)

\* The state New takes over from the file: default-cyclops is added to older ones.
Load(d) == IF d = None THEN Fresh
           ELSE IF d.layouts[Circular] # None \/ Cardinality(Saved(d)) >= MaxLayouts THEN d
           ELSE [d EXCEPT !.layouts[Circular] = DefaultDesign[Circular]]

\* What New insists on.
Loadable(d) == d # None => /\ Intact(d) /\ WithinLimits(d)
                           /\ \A a \in d.assets : folder[a] = "complete"

\* A file of an earlier version has no default-cyclops, and room for it.
Legacy(c) == /\ Intact(c) /\ Fits(c) /\ WithinLimits(c)
             /\ Defaults \ {Circular} = Defaults \cap Saved(c)
             /\ Cardinality(Saved(c)) < MaxLayouts

Down ==
    /\ running = FALSE
    /\ memory = Fresh
    /\ mutation = None
    /\ request = [c \in Clients |-> Idle]
    /\ putting = None
    /\ attached = {}
    /\ live = [d \in Displays |-> Elsewhere]
    /\ rerouted = {}
    /\ strays = {}

Init ==
    /\ disk \in {None} \cup {c \in Catalogs : Legacy(c)}
    /\ folder = [a \in Assets |-> IF disk # None /\ a \in disk.assets THEN "complete" ELSE "none"]
    /\ Down

Orphans == {a \in Assets : folder[a] # "none" /\ a \notin Load(disk).assets}

Clean(gone) == folder' = [a \in Assets |-> IF a \in gone THEN "none" ELSE folder[a]]

\* Bindings are restored for the displays that are attached, and validated.
Start ==
    /\ ~running
    /\ Loadable(disk)
    /\ Clean(Orphans)
    /\ \E present \in SUBSET Displays :
          LET assigned == [d \in Displays |->
                  IF d \notin present THEN Elsewhere
                  ELSE IF Load(disk).bindings[d] # None THEN Load(disk).bindings[d]
                  ELSE Configured[d]]
          IN  /\ \A d \in present : assigned[d] \in Saved(Load(disk)) \cup {Elsewhere}
              /\ attached' = present
              /\ live' = assigned
    /\ running' = TRUE
    /\ memory' = Load(disk)
    /\ UNCHANGED <<disk, mutation, request, putting, rerouted, strays>>

\* A folder that cannot be removed stops New, after it has removed others.
StartFails ==
    /\ ~running
    /\ Loadable(disk)
    /\ \E gone \in SUBSET Orphans : gone # Orphans /\ Clean(gone)
    /\ UNCHANGED <<disk, running, memory, mutation, request, output, strays>>

\* The process ends, in the middle of an edit or not.
Crash ==
    /\ running
    /\ running' = FALSE
    /\ memory' = Fresh
    /\ mutation' = None
    /\ request' = [c \in Clients |-> Idle]
    /\ putting' = None
    /\ attached' = {}
    /\ live' = [d \in Displays |-> Elsewhere]
    /\ rerouted' = {}
    /\ strays' = {}
    /\ UNCHANGED durable

-----------------------------------------------------------------------------
(* One edit, from the mutex to the response. *)

\* Mutant: the canvas of a layout may change although a display is bound to it.
PutAnyCanvas(e) ==
    /\ e.view \in Defaults => e.design.canvas = DefaultDesign[e.view].canvas
    /\ e.view \in Saved(memory) \/ Cardinality(Saved(memory)) < MaxLayouts
    /\ e.design.assets \subseteq memory.assets

MayPut(e) ==
    /\ e.view \in Defaults => e.design.canvas = DefaultDesign[e.view].canvas
    /\ e.view \in Saved(memory) \/ Cardinality(Saved(memory)) < MaxLayouts
    /\ e.design.assets \subseteq memory.assets
    /\ e.view \in Used(memory) => e.design.canvas = memory.layouts[e.view].canvas

MayDrop(e) == e.view \in Saved(memory) \ (Defaults \cup Used(memory))

\* An identifier that an upload generates has no folder yet.
MayAdd(e) == folder[e.asset] = "none" /\ Cardinality(memory.assets) < MaxAssets

MayRemove(e) ==
    /\ e.asset \in memory.assets
    /\ \A v \in Saved(memory) : e.asset \notin memory.layouts[v].assets

MayBind(e) ==
    /\ e.view \in Saved(memory)
    /\ e.display \in attached
    /\ memory.layouts[e.view].canvas = DisplayCanvas[e.display]
    /\ e.display \in Bound(memory) \/ Cardinality(Bound(memory)) < MaxBindings

\* The checks between the mutex and the change of the copy.
Allowed(e) ==
    \/ e.do = "put" /\ MayPut(e)
    \/ e.do = "drop" /\ MayDrop(e)
    \/ e.do = "add" /\ MayAdd(e)
    \/ e.do = "remove" /\ MayRemove(e)
    \/ e.do = "bind" /\ MayBind(e)

\* Mutant: stateCopy shares its maps with the memory, which changes before any check of
\* the frames and whether or not the edit succeeds.
BeginShares(c) ==
    /\ running
    /\ mutation = None
    /\ request[c] = Idle
    /\ mutation' = c
    /\ \E e \in Edits :
          /\ Allowed(e)
          /\ memory' = Edited(memory, e)
          /\ request' = [request EXCEPT ![c] =
                [phase |-> IF e.do = "add" THEN "frames" ELSE "stage",
                 edit |-> e, next |-> Edited(memory, e),
                 old |-> IF e.do = "bind" THEN live[e.display] ELSE Elsewhere,
                 direct |-> e.do = "bind" /\ e.display \in rerouted]]
          /\ folder' = IF e.do = "add" THEN [folder EXCEPT ![e.asset] = "partial"] ELSE folder
    /\ UNCHANGED <<disk, running, output, strays>>

\* The mutex, stateCopy, the checks, and for an upload its new folder.
Begin(c) ==
    /\ running
    /\ mutation = None
    /\ request[c] = Idle
    /\ mutation' = c
    /\ \E e \in Edits :
          /\ Allowed(e)
          /\ request' = [request EXCEPT ![c] =
                [phase |-> IF e.do = "add" THEN "frames" ELSE "stage",
                 edit |-> e, next |-> Edited(memory, e),
                 old |-> IF e.do = "bind" THEN live[e.display] ELSE Elsewhere,
                 direct |-> e.do = "bind" /\ e.display \in rerouted]]
          /\ folder' = IF e.do = "add" THEN [folder EXCEPT ![e.asset] = "partial"] ELSE folder
    /\ UNCHANGED <<disk, running, memory, output, strays>>

At(c, phase) == running /\ request[c].phase = phase

Goto(c, phase) == request' = [request EXCEPT ![c].phase = phase] /\ UNCHANGED mutation

\* The response, and the deferred unlock.
Finish(c) == /\ request' = [request EXCEPT ![c] = Idle]
             /\ mutation' = IF mutation = c THEN None ELSE mutation

\* os.RemoveAll, which may fail half way.
RemoveFolder(a) ==
    \/ folder' = [folder EXCEPT ![a] = "none"] /\ UNCHANGED strays
    \/ folder' = [folder EXCEPT ![a] = "partial"] /\ strays' = strays \cup {a}

\* An error; an upload removes what it has written.
Abandon(c) ==
    /\ Finish(c)
    /\ IF request[c].edit.do = "add"
       THEN RemoveFolder(request[c].edit.asset)
       ELSE UNCHANGED <<folder, strays>>

\* The frames of an upload, checked and written one at a time.
WriteFrames(c) ==
    /\ At(c, "frames")
    /\ \/ /\ Total(request[c].next.assets) <= MaxTotal
          /\ folder' = [folder EXCEPT ![request[c].edit.asset] = "complete"]
          /\ Goto(c, "stage")
          /\ UNCHANGED strays
       \/ Abandon(c)
    /\ UNCHANGED <<disk, running, memory, output>>

\* Mutant: a deleted asset's folder goes before the catalog that names it.
StageRemovesFirst(c) ==
    /\ At(c, "stage")
    /\ \/ /\ Goto(c, IF request[c].edit.do = "bind" THEN "assign" ELSE "commit")
          /\ folder' = IF request[c].edit.do = "remove"
                       THEN [folder EXCEPT ![request[c].edit.asset] = "none"] ELSE folder
          /\ UNCHANGED strays
       \/ Abandon(c)
    /\ UNCHANGED <<disk, running, memory, output>>

\* The new state is written beside the old one.
Stage(c) ==
    /\ At(c, "stage")
    /\ \/ /\ Goto(c, IF request[c].edit.do = "bind" THEN "assign" ELSE "commit")
          /\ UNCHANGED <<folder, strays>>
       \/ Abandon(c)
    /\ UNCHANGED <<disk, running, memory, output>>

\* apply's d.Assign, while the manager may serve a direct assignment.
Assign(c) ==
    /\ At(c, "assign")
    /\ LET e == request[c].edit
       IN  /\ live' = [live EXCEPT ![e.display] = e.view]
           /\ rerouted' = rerouted \ {e.display}
    /\ Goto(c, "commit")
    /\ UNCHANGED <<durable, running, memory, putting, attached, strays>>

\* Mutant: a failed commit leaves the new assignment in the output manager.
RenameForgets(c) ==
    /\ At(c, "commit")
    /\ \/ /\ disk' = request[c].next
          /\ Goto(c, "publish")
          /\ UNCHANGED <<folder, strays>>
       \/ /\ Abandon(c)
          /\ UNCHANGED disk
    /\ UNCHANGED <<running, memory, output>>

\* commit's os.Rename.
Rename(c) ==
    /\ At(c, "commit")
    /\ \/ /\ disk' = request[c].next
          /\ Goto(c, "publish")
          /\ UNCHANGED <<folder, strays>>
       \/ /\ IF request[c].edit.do = "bind"
             THEN Goto(c, "rollback") /\ UNCHANGED <<folder, strays>>
             ELSE Abandon(c)
          /\ UNCHANGED disk
    /\ UNCHANGED <<running, memory, output>>

\* commit's update of the memory; a deleted asset still has its folder.
Publish(c) ==
    /\ At(c, "publish")
    /\ memory' = request[c].next
    /\ IF request[c].edit.do = "remove" THEN Goto(c, "remove") ELSE Finish(c)
    /\ UNCHANGED <<durable, running, output, strays>>

Remove(c) ==
    /\ At(c, "remove")
    /\ RemoveFolder(request[c].edit.asset)
    /\ Finish(c)
    /\ UNCHANGED <<disk, running, memory, output>>

\* The assignment that apply read is restored; when its view has been deleted, Assign
\* refuses it, the client is told so and the display keeps the new one.
Rollback(c) ==
    /\ At(c, "rollback")
    /\ LET d == request[c].edit.display
           old == request[c].old
           restored == old \in Saved(memory) \cup {Elsewhere}
       IN  /\ live' = IF restored THEN [live EXCEPT ![d] = old] ELSE live
           /\ rerouted' = IF restored /\ ~request[c].direct
                          THEN rerouted \ {d} ELSE rerouted \cup {d}
    /\ Finish(c)
    /\ UNCHANGED <<durable, running, memory, putting, attached, strays>>

-----------------------------------------------------------------------------
(* PUT /v1/displays/{serial}/assignment: Manager.Assign without the mutex. *)

\* The view is validated before the manager's lock is taken.
ValidateDirect ==
    /\ running
    /\ putting = None
    /\ Cardinality(rerouted) < MaxRerouted
    /\ \E d \in attached, v \in Saved(memory) \cup {Elsewhere} :
          putting' = [display |-> d, view |-> v]
    /\ UNCHANGED <<durable, running, memory, mutation, request, attached, live, rerouted,
                   strays>>

AssignDirect ==
    /\ putting # None
    /\ live' = [live EXCEPT ![putting.display] = putting.view]
    /\ rerouted' = rerouted \cup {putting.display}
    /\ putting' = None
    /\ UNCHANGED <<durable, running, memory, mutation, request, attached, strays>>

-----------------------------------------------------------------------------
Edit(c) == \/ Begin(c) \/ WriteFrames(c) \/ Stage(c) \/ Assign(c)
           \/ Rename(c) \/ Publish(c) \/ Remove(c) \/ Rollback(c)

Next == \/ Start \/ StartFails \/ Crash
        \/ ValidateDirect \/ AssignDirect
        \/ \E c \in Clients : Edit(c)

Spec == Init /\ [][Next]_vars

-----------------------------------------------------------------------------
(* Properties. *)

\* Whatever edit the process dies in, the next start finds a state file it accepts:
\* limits kept, every reference resolved, every frame of every asset written.
AlwaysLoadable == Loadable(disk)

\* The handlers of apply between their assignment and the end of their commit.
Applying == {c \in Clients : /\ request[c].phase \in {"commit", "rollback"}
                              /\ request[c].edit.do = "bind"}

\* What a display shows agrees with what is saved for it, through applies that fail
\* at any step, rollbacks and restarts, unless it was assigned directly since, its
\* rollback was refused and reported, or an apply is at work on it.
BoundIsLive ==
    \A d \in attached \ (rerouted \cup {request[c].edit.display : c \in Applying}) :
        live[d] = IF Load(disk).bindings[d] # None THEN Load(disk).bindings[d]
                     ELSE Configured[d]

\* "repeated interrupted uploads cannot silently bypass the durable media quota":
\* while no edit is under way the only folders outside the catalog are those whose
\* removal failed since the start.
MediaAccounted ==
    running /\ mutation = None =>
        \A a \in Assets : folder[a] # "none" => a \in memory.assets \cup strays

\* What a restart relies on.
RestartSound == TypeOK /\ AlwaysLoadable /\ MediaAccounted

\* The state file implements the library: concurrent edits are not lost, and none
\* leaves it inconsistent, whatever fails.
Store == INSTANCE Library WITH store <- Load(disk)
ImplementsLibrary == Store!LibrarySpec

\* "DELETE removes an unused layout" (docs/configurator.md): a display is never left
\* assigned to a layout that does not exist.
UsedLayoutKept ==
    running => \A d \in attached : live[d] \in Saved(memory) \cup {Elsewhere}
=============================================================================
