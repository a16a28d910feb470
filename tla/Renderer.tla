------------------------------- MODULE Renderer -------------------------------
(***************************************************************************)
(* A render of a saved layout (Module.Frame, FarewellFrame) beside the     *)
(* edits of Configurator.  It takes neither Module.mutation nor one lock   *)
(* for all it reads: it copies the layout under a read lock, looks each    *)
(* asset up under another, and opens the file of that asset under none.    *)
(* Any step of an edit, and the end of the process, may come in between.   *)
(* Renders change nothing, so that one at a time is enough.  Left out are  *)
(* a layout without media, of which a render reads nothing more, a read    *)
(* that fails although the file is there, and pixels.                      *)
(***************************************************************************)
EXTENDS Configurator

VARIABLE rendering   \* the render under way or just failed, or None

rendervars == <<vars, rendering>>

ASSUME RendererAssumption == None \notin Assets

\* The layout as it was copied, the assets drawn, and the record just looked up.
Render == [view : Views, design : Designs, drawn : SUBSET Assets,
           found : Assets \cup {None}, failed : BOOLEAN]

RenderTypeOK == rendering \in Render \cup {None}

RenderInit == Init /\ rendering = None

\* Between two of its steps.
Drawing == running /\ rendering # None /\ ~rendering.failed

Fail == rendering' = [rendering EXCEPT !.failed = TRUE]

\* Frame: the layout, here one with media, is copied under the lock.
ReadLayout ==
    /\ running
    /\ rendering # None => rendering.failed
    /\ \E v \in Saved(memory) :
          /\ memory.layouts[v].assets # {}
          /\ rendering' = [view |-> v, design |-> memory.layouts[v], drawn |-> {},
                        found |-> None, failed |-> FALSE]

\* render and drawThermal: the record of the background's asset, then of a mascot's.
LookUp ==
    /\ Drawing
    /\ rendering.found = None
    /\ \E a \in rendering.design.assets \ rendering.drawn :
          IF a \in memory.assets THEN rendering' = [rendering EXCEPT !.found = a] ELSE Fail

\* assetFrame: of a folder whose removal is under way the frame may be gone or not.
OpenFile ==
    /\ Drawing
    /\ rendering.found # None
    /\ \/ /\ folder[rendering.found] # "none"
          /\ rendering' = [rendering EXCEPT !.drawn = @ \cup {rendering.found}, !.found = None]
       \/ folder[rendering.found] # "complete" /\ Fail

\* Everything is drawn.
FinishRender ==
    /\ Drawing
    /\ rendering.drawn = rendering.design.assets
    /\ rendering' = None

RenderStep == ReadLayout \/ LookUp \/ OpenFile \/ FinishRender

\* A step of the configurator: a render ends with the process.
Beside == Next /\ rendering' = IF running' THEN rendering ELSE None

RenderNext == Beside \/ (RenderStep /\ UNCHANGED vars)

RenderSpec == RenderInit /\ [][RenderNext]_rendervars

-----------------------------------------------------------------------------
(* Properties. *)

\* A render that finds its media missing has been overtaken: since it copied the layout
\* that layout was saved without them, or deleted.  The layout as it is now never fails
\* for want of a record or a file, so that the next frame does not fail for that reason.
OnlyStaleRendersFail ==
    [][rendering # None /\ rendering' # None /\ ~rendering.failed /\ rendering'.failed
           => memory.layouts[rendering.view] # rendering.design]_rendervars
=============================================================================
