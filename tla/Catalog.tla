------------------------------- MODULE Catalog --------------------------------
(***************************************************************************)
(* What the display configurator (modules/configurator) keeps in           *)
(* state.json: layouts, the catalog of uploaded media and the bindings of  *)
(* displays to layouts.  A layout is reduced to its canvas and the media   *)
(* it refers to, an asset to its size; rotation, overlays, colours and     *)
(* names are left out.                                                     *)
(***************************************************************************)
EXTENDS Naturals, FiniteSets, FiniteSetsExt

CONSTANTS Views,          \* layout identifiers
          Assets,         \* identifiers that uploads generate
          Displays,       \* serials of displays that may be attached
          Canvases,       \* canvas sizes
          Designs,        \* the layouts clients send: records of Layout
          Defaults,       \* the default views, which always exist
          Circular,       \* default-cyclops, which older files do not have
          DefaultDesign,  \* the built-in design of each default view
          DisplayCanvas,  \* per display: the canvas of its kind
          Bytes,          \* per asset: its size
          MaxLayouts, MaxAssets, MaxTotal, MaxBindings,  \* the limits of model.go
          None

Layout == [canvas : Canvases, assets : SUBSET Assets]

Catalogs == [layouts  : [Views -> Designs \cup {None}],
             assets   : SUBSET Assets,
             bindings : [Displays -> Views \cup {None}]]

\* Identifiers and serials have a bounded length, so there are finitely many of them.
ASSUME CatalogAssumption ==
    /\ IsFiniteSet(Views) /\ IsFiniteSet(Assets) /\ IsFiniteSet(Displays)
    /\ Defaults \subseteq Views /\ Circular \in Defaults
    /\ Designs \subseteq Layout
    /\ DefaultDesign \in [Defaults -> Designs]
    /\ \A v \in Defaults : DefaultDesign[v].assets = {}
    /\ DisplayCanvas \in [Displays -> Canvases]
    /\ Bytes \in [Assets -> Nat]
    /\ {MaxLayouts, MaxAssets, MaxTotal, MaxBindings} \subseteq Nat
    /\ Cardinality(Defaults) <= MaxLayouts
    /\ None \notin Views \cup Designs \cup Displays \cup Catalogs

Saved(c) == {v \in Views : c.layouts[v] # None}

Bound(c) == {d \in Displays : c.bindings[d] # None}

Used(c) == {c.bindings[d] : d \in Bound(c)}

Total(assets) == MapThenSumSet(LAMBDA a : Bytes[a], assets)

\* References resolve and the default views are there.
Intact(c) ==
    /\ \A v \in Saved(c) : c.layouts[v].assets \subseteq c.assets
    /\ Used(c) \subseteq Saved(c)

\* Every bound layout has the canvas of its display.
Fits(c) ==
    \A d \in Bound(c) : c.layouts[c.bindings[d]].canvas = DisplayCanvas[d]

WithinLimits(c) ==
    /\ Cardinality(Saved(c)) <= MaxLayouts
    /\ Cardinality(c.assets) <= MaxAssets
    /\ Total(c.assets) <= MaxTotal
    /\ Cardinality(Bound(c)) <= MaxBindings

\* What every edit keeps.
Consistent(c) == Intact(c) /\ Fits(c) /\ WithinLimits(c) /\ Defaults \subseteq Saved(c)

\* Before the first save.
Fresh == [layouts  |-> [v \in Views |-> IF v \in Defaults THEN DefaultDesign[v] ELSE None],
          assets   |-> {},
          bindings |-> [d \in Displays |-> None]]

-----------------------------------------------------------------------------
(* The edits a client may ask for, and what each does to a catalog. *)

Edits == [do : {"put"}, view : Views, design : Designs]
         \cup [do : {"drop"}, view : Views]
         \cup [do : {"add", "remove"}, asset : Assets]
         \cup [do : {"bind"}, display : Displays, view : Views]

Edited(c, e) ==
    [layouts  |-> IF e.do = "put" THEN [c.layouts EXCEPT ![e.view] = e.design]
                  ELSE IF e.do = "drop" THEN [c.layouts EXCEPT ![e.view] = None]
                  ELSE c.layouts,
     assets   |-> IF e.do = "add" THEN c.assets \cup {e.asset}
                  ELSE IF e.do = "remove" THEN c.assets \ {e.asset}
                  ELSE c.assets,
     bindings |-> IF e.do = "bind" THEN [c.bindings EXCEPT ![e.display] = e.view]
                  ELSE c.bindings]
=============================================================================
