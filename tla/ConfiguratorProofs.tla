-------------------------- MODULE ConfiguratorProofs ---------------------------
(***************************************************************************)
(* What Configurator guarantees for every number of views, assets,         *)
(* displays and clients and for every limit: a restart accepts what an     *)
(* interrupted edit leaves, a render misses media only of a layout that    *)
(* changed under it, a display shows what is saved for it, and the editor with its files, its memory,  *)
(* its mutex and its failures implements Library.                          *)
(*                                                                         *)
(* First the sum of the sizes of a set of assets, then what one edit does  *)
(* to a catalog and what New loads, then the inductive invariant and one   *)
(* lemma per action.                                                       *)
(***************************************************************************)
EXTENDS Renderer, FiniteSetTheorems, TLAPS

-----------------------------------------------------------------------------
(* Sums: Total is a fold over a set, and does not depend on the order in   *)
(* which the fold takes the assets.                                        *)

\* A set of numbers has a smallest.
LEMMA SmallestNumber ==
    ASSUME NEW T \in SUBSET Nat, T # {}
    PROVE  \E m \in T : \A n \in T : m <= n
<1>1. \E m \in T : \A n \in T : <<n, m>> \notin OpToRel(<, Nat)
  BY NatLessThanWellFounded, WFMin
<1>2. ASSUME NEW m \in Nat, NEW n \in Nat, n < m PROVE <<n, m>> \in OpToRel(<, Nat)
  <2>1. <<n, m>> \in Nat \X Nat /\ <<n, m>>[1] = n /\ <<n, m>>[2] = m
    OBVIOUS
  <2> QED BY <1>2, <2>1, Zenon DEF OpToRel
<1>3. PICK m \in T : \A n \in T : <<n, m>> \notin OpToRel(<, Nat)
  BY <1>1
<1>4. \A n \in T : ~(n < m)
  BY <1>2, <1>3
<1> QED BY <1>4

\* A set of subsets of a finite set has a member that contains no other.
LEMMA SmallestSet ==
    ASSUME NEW S, IsFiniteSet(S), NEW T \in SUBSET (SUBSET S), T # {}
    PROVE  \E m \in T : \A n \in T : n \subseteq m => n = m
<1>1. IsWellFoundedOn(StrictSubsetOrdering(S), SUBSET S)
  BY FS_StrictSubsetOrderingWellFounded, FS_FiniteSubsetsOfFinite
<1>2. PICK m \in T : \A n \in T : <<n, m>> \notin StrictSubsetOrdering(S)
  BY <1>1, WFMin
<1>3. \A n \in T : n \subseteq m => n = m
  BY <1>2 DEF StrictSubsetOrdering
<1> QED BY <1>3

Pick(s) == CHOOSE a \in s : TRUE
Sums(f, D) == f = [s \in D |-> IF s = {} THEN 0 ELSE Bytes[Pick(s)] + f[s \ {Pick(s)}]]

\* The fold takes an element of the set.
LEMMA Picked == \A s : s # {} => Pick(s) \in s
BY DEF Pick

\* Two functions that add up agree where both are defined.
LEMMA SumsAgree ==
    ASSUME NEW S, NEW A \in SUBSET S, NEW B \in SUBSET S, IsFiniteSet(S), NEW f, NEW g,
           Sums(f, SUBSET A), Sums(g, SUBSET B)
    PROVE  \A s \in SUBSET (A \cap B) : f[s] = g[s]
<1> DEFINE Bad == {s \in SUBSET (A \cap B) : f[s] # g[s]}
<1>1. SUFFICES ASSUME Bad # {} PROVE FALSE
  OBVIOUS
<1>2. PICK m \in Bad : \A n \in Bad : n \subseteq m => n = m
  <2>1. Bad \in SUBSET (SUBSET S)
    OBVIOUS
  <2> HIDE DEF Bad
  <2> QED BY <1>1, <2>1, SmallestSet
<1>3. CASE m = {}
  BY <1>2, <1>3 DEF Sums
<1>4. CASE m # {}
  <2>1. Pick(m) \in m
    BY <1>4, Picked
  <2> DEFINE r == m \ {Pick(m)}
  <2>2. r \in SUBSET (A \cap B) /\ r # m /\ r \subseteq m
    BY <1>2, <2>1
  <2>3. f[r] = g[r]
    BY <1>2, <2>2
  <2>4. f[m] = Bytes[Pick(m)] + f[r] /\ g[m] = Bytes[Pick(m)] + g[r]
    BY <1>2, <1>4 DEF Sums
  <2> QED BY <1>2, <2>3, <2>4
<1> QED BY <1>3, <1>4

\* There is one that adds up all subsets of a finite set of assets.
LEMMA SumsExist ==
    ASSUME NEW S \in SUBSET Assets, IsFiniteSet(S)
    PROVE  \E f \in [SUBSET S -> Nat] : Sums(f, SUBSET S)
<1> DEFINE Small(n) == {s \in SUBSET S : Cardinality(s) <= n}
           Added == {n \in Nat : \E f \in [Small(n) -> Nat] : Sums(f, Small(n))}
<1>1. \A s \in SUBSET S : IsFiniteSet(s) /\ Cardinality(s) \in Nat
  BY FS_Subset, FS_CardinalityType
<1>2. 0 \in Added
  <2>1. Small(0) = {{}}
    BY <1>1, FS_EmptySet
  <2>2. Sums([s \in Small(0) |-> 0], Small(0))
    BY <2>1 DEF Sums
  <2> QED BY <2>2
<1>3. ASSUME NEW n \in Added PROVE n + 1 \in Added
  <2>1. PICK f \in [Small(n) -> Nat] : Sums(f, Small(n))
    BY <1>3
  <2> DEFINE g == [s \in Small(n + 1) |-> IF s \in Small(n) THEN f[s]
                                         ELSE Bytes[Pick(s)] + f[s \ {Pick(s)}]]
  <2>2. ASSUME NEW s \in Small(n + 1), s # {}
        PROVE  s \ {Pick(s)} \in Small(n) /\ Bytes[Pick(s)] \in Nat
    <3>1. Pick(s) \in s
      BY <2>2, Picked
    <3>2. Cardinality(s \ {Pick(s)}) = Cardinality(s) - 1
      BY <1>1, <3>1, FS_RemoveElement
    <3> QED BY <1>1, <1>3, <3>1, <3>2, CatalogAssumption
  <2>3. {} \in Small(n) /\ n \in Nat /\ n + 1 \in Nat
    BY FS_EmptySet, <1>3
  <2>4. g \in [Small(n + 1) -> Nat]
    <3>1. ASSUME NEW s \in Small(n + 1)
          PROVE  (IF s \in Small(n) THEN f[s] ELSE Bytes[Pick(s)] + f[s \ {Pick(s)}]) \in Nat
      <4> HIDE DEF Small
      <4>1. CASE s \in Small(n)
        BY <2>1, <4>1
      <4>2. CASE s \notin Small(n)
        <5>1. s # {}
          BY <2>3, <4>2
        <5>2. f[s \ {Pick(s)}] \in Nat /\ Bytes[Pick(s)] \in Nat
          BY <2>1, <2>2, <5>1
        <5> QED BY <4>2, <5>2
      <4> QED BY <4>1, <4>2
    <3> HIDE DEF Small
    <3> QED BY <3>1
  <2>5. ASSUME NEW s \in Small(n + 1)
        PROVE  g[s] = IF s = {} THEN 0 ELSE Bytes[Pick(s)] + g[s \ {Pick(s)}]
    <3>1. CASE s = {}
      BY <2>1, <2>3, <3>1 DEF Sums
    <3>2. CASE s # {}
      <4>1. s \ {Pick(s)} \in Small(n)
        BY <2>2, <3>2
      <4>2. g[s \ {Pick(s)}] = f[s \ {Pick(s)}]
        BY <4>1, <2>3, <1>1
      <4>3. s \in Small(n) => f[s] = Bytes[Pick(s)] + f[s \ {Pick(s)}]
        BY <2>1, <3>2 DEF Sums
      <4> QED BY <3>2, <4>2, <4>3
    <3> QED BY <3>1, <3>2
  <2>6. Sums(g, Small(n + 1))
    BY <2>4, <2>5 DEF Sums
  <2>7. \E h \in [Small(n + 1) -> Nat] : Sums(h, Small(n + 1))
    BY <2>4, <2>6
  <2> QED BY <2>3, <2>7
<1>4. \A n \in Nat : n \in Added
  <2> DEFINE Rest == {n \in Nat : n \notin Added}
  <2>1. SUFFICES ASSUME Rest # {} PROVE FALSE
    OBVIOUS
  <2>2. PICK m \in Rest : \A n \in Rest : m <= n
    <3> HIDE DEF Added
    <3>1. Rest \in SUBSET Nat
      OBVIOUS
    <3> HIDE DEF Rest
    <3> QED BY <2>1, <3>1, SmallestNumber
  <2> HIDE DEF Added
  <2>3. m \in Nat /\ m \notin Added /\ m # 0
    BY <1>2, <2>2
  <2>4. m - 1 \in Nat /\ ~(m <= m - 1) /\ (m - 1) + 1 = m
    BY <2>3
  <2>5. m - 1 \in Added
    BY <2>2, <2>4
  <2>6. (m - 1) + 1 \in Added
    BY <1>3, <2>5
  <2> QED BY <2>3, <2>4, <2>6
<1>5. \A s \in SUBSET S : Cardinality(s) <= Cardinality(S)
  BY FS_Subset
<1>6. Small(Cardinality(S)) = SUBSET S
  BY <1>5
<1>7. Cardinality(S) \in Added
  BY <1>1, <1>4
<1> QED BY <1>6, <1>7

\* The function that the fold chooses is the one that adds up.
LEMMA TotalIsSum ==
    ASSUME NEW S \in SUBSET Assets, IsFiniteSet(S)
    PROVE  \E f \in [SUBSET S -> Nat] : Sums(f, SUBSET S) /\ Total(S) = f[S]
<1> DEFINE F == CHOOSE f : Sums(f, SUBSET S)
<1>1. PICK f \in [SUBSET S -> Nat] : Sums(f, SUBSET S)
  BY SumsExist
<1>2. Sums(F, SUBSET S)
  BY <1>1
<1>3. Total(S) = F[S]
  BY DEF Total, MapThenSumSet, MapThenFoldSet, Sums, Pick
<1>4. F[S] = f[S]
  BY <1>1, <1>2, SumsAgree
<1> QED BY <1>1, <1>3, <1>4

\* The total as the element that the fold takes and the total of the rest.
LEMMA TotalPicks ==
    ASSUME NEW S \in SUBSET Assets, IsFiniteSet(S)
    PROVE  /\ Total(S) \in Nat
           /\ S = {} => Total(S) = 0
           /\ S # {} => Total(S) = Bytes[Pick(S)] + Total(S \ {Pick(S)})
<1>1. PICK f \in [SUBSET S -> Nat] : Sums(f, SUBSET S) /\ Total(S) = f[S]
  BY TotalIsSum
<1>2. CASE S = {}
  BY <1>1, <1>2 DEF Sums
<1>3. CASE S # {}
  <2> DEFINE R == S \ {Pick(S)}
  <2>1. R \in SUBSET Assets /\ IsFiniteSet(R) /\ R \subseteq S
    BY FS_RemoveElement
  <2>2. PICK g \in [SUBSET R -> Nat] : Sums(g, SUBSET R) /\ Total(R) = g[R]
    BY <2>1, TotalIsSum
  <2>3. f[R] = g[R]
    <3>1. R \in SUBSET S /\ S \in SUBSET S /\ R \in SUBSET (S \cap R)
      BY <2>1
    <3> HIDE DEF R
    <3>2. Sums(f, SUBSET S) /\ Sums(g, SUBSET R)
      BY <1>1, <2>2
    <3>3. \A s \in SUBSET (S \cap R) : f[s] = g[s]
      BY <3>1, <3>2, SumsAgree, SMTT(30)
    <3> QED BY <3>1, <3>3
  <2>4. f[S] = Bytes[Pick(S)] + f[R]
    BY <1>1, <1>3 DEF Sums
  <2> QED BY <1>1, <1>3, <2>2, <2>3, <2>4
<1> QED BY <1>2, <1>3

\* The total of a finite set of assets is the size of any of them and the total of the rest.
LEMMA TotalOf ==
    ASSUME NEW S \in SUBSET Assets, IsFiniteSet(S), NEW x \in S
    PROVE  Total(S) = Bytes[x] + Total(S \ {x})
<1> DEFINE Bad == {s \in SUBSET S : \E y \in s : Total(s) # Bytes[y] + Total(s \ {y})}
<1>1. SUFFICES ASSUME Bad # {} PROVE FALSE
  OBVIOUS
<1>2. PICK m \in Bad : \A n \in Bad : n \subseteq m => n = m
  <2>1. Bad \in SUBSET (SUBSET S)
    OBVIOUS
  <2> HIDE DEF Bad
  <2> QED BY <1>1, <2>1, SmallestSet
<1>3. PICK y \in m : Total(m) # Bytes[y] + Total(m \ {y})
  BY <1>2
<1> DEFINE p == Pick(m)
<1>4. p \in m /\ IsFiniteSet(m) /\ m \in SUBSET Assets /\ m \in SUBSET S
  BY <1>2, <1>3, Picked, FS_Subset
<1>5. Total(m) = Bytes[p] + Total(m \ {p})
  BY <1>4, TotalPicks
<1>6. y # p
  BY <1>3, <1>5
<1>7. ASSUME NEW z \in m
      PROVE  \A w \in m \ {z} : Total(m \ {z}) = Bytes[w] + Total((m \ {z}) \ {w})
  <2>1. m \ {z} \notin Bad
    BY <1>2
  <2>2. m \ {z} \in SUBSET S
    BY <1>4
  <2> QED BY <2>1, <2>2
<1> HIDE DEF p, Bad
<1>8. Total(m \ {p}) = Bytes[y] + Total((m \ {p}) \ {y})
  BY <1>3, <1>4, <1>6, <1>7
<1>9. Total(m \ {y}) = Bytes[p] + Total((m \ {y}) \ {p})
  BY <1>3, <1>4, <1>6, <1>7
<1>10. (m \ {p}) \ {y} = (m \ {y}) \ {p}
  OBVIOUS
<1>11. Total((m \ {p}) \ {y}) \in Nat /\ Bytes[p] \in Nat /\ Bytes[y] \in Nat
  <2>1. IsFiniteSet((m \ {p}) \ {y}) /\ (m \ {p}) \ {y} \in SUBSET Assets
    BY <1>4, FS_RemoveElement
  <2>2. Total((m \ {p}) \ {y}) \in Nat
    BY <2>1, TotalPicks
  <2> QED BY <2>2, <1>3, <1>4, CatalogAssumption
<1>12. PICK t \in Nat : t = Total((m \ {p}) \ {y})
  BY <1>11
<1>13. Total(m \ {p}) = Bytes[y] + t /\ Total(m \ {y}) = Bytes[p] + t
  BY <1>8, <1>9, <1>10, <1>12
<1>14. Bytes[p] + (Bytes[y] + t) = Bytes[y] + (Bytes[p] + t)
  BY <1>11
<1> QED BY <1>3, <1>5, <1>13, <1>14

\* Nothing has no bytes.
LEMMA TotalNone == Total({}) = 0
BY TotalPicks, FS_EmptySet

\* Deleting an asset frees its bytes.
LEMMA TotalShrinks ==
    ASSUME NEW S \in SUBSET Assets, IsFiniteSet(S), NEW x
    PROVE  Total(S) \in Nat /\ Total(S \ {x}) \in Nat /\ Total(S \ {x}) <= Total(S)
<1>1. Total(S) \in Nat /\ Total(S \ {x}) \in Nat
  BY TotalPicks, FS_RemoveElement
<1>2. CASE x \in S
  <2>1. Total(S) = Bytes[x] + Total(S \ {x})
    BY <1>2, TotalOf
  <2>2. Bytes[x] \in Nat
    BY <1>2, CatalogAssumption
  <2> QED BY <1>1, <2>1, <2>2
<1>3. CASE x \notin S
  <2>1. S \ {x} = S
    BY <1>3
  <2> QED BY <1>1, <2>1
<1> QED BY <1>2, <1>3

-----------------------------------------------------------------------------
(* Catalogs and edits. *)

\* The fields that each kind of edit has.
LEMMA EditFields ==
    ASSUME NEW e \in Edits
    PROVE  /\ e.do \in {"put", "drop", "add", "remove", "bind"}
           /\ e.do = "put" => e.view \in Views /\ e.design \in Designs
           /\ e.do = "drop" => e.view \in Views
           /\ e.do \in {"add", "remove"} => e.asset \in Assets
           /\ e.do = "bind" => e.display \in Displays /\ e.view \in Views
BY DEF Edits

\* The fields of a catalog.
LEMMA CatalogFields ==
    ASSUME NEW c \in Catalogs
    PROVE  /\ c.layouts \in [Views -> Designs \cup {None}]
           /\ c.assets \in SUBSET Assets
           /\ c.bindings \in [Displays -> Views \cup {None}]
BY DEF Catalogs

\* The three parts of an edited catalog.
LEMMA EditedFields ==
    ASSUME NEW c \in Catalogs, NEW e \in Edits
    PROVE  /\ Edited(c, e) \in Catalogs
           /\ Edited(c, e).layouts = IF e.do = "put" THEN [c.layouts EXCEPT ![e.view] = e.design]
                                     ELSE IF e.do = "drop" THEN [c.layouts EXCEPT ![e.view] = None]
                                     ELSE c.layouts
           /\ Edited(c, e).assets = IF e.do = "add" THEN c.assets \cup {e.asset}
                                    ELSE IF e.do = "remove" THEN c.assets \ {e.asset}
                                    ELSE c.assets
           /\ Edited(c, e).bindings = IF e.do = "bind"
                                      THEN [c.bindings EXCEPT ![e.display] = e.view]
                                      ELSE c.bindings
<1> DEFINE l == IF e.do = "put" THEN [c.layouts EXCEPT ![e.view] = e.design]
                ELSE IF e.do = "drop" THEN [c.layouts EXCEPT ![e.view] = None]
                ELSE c.layouts
           a == IF e.do = "add" THEN c.assets \cup {e.asset}
                ELSE IF e.do = "remove" THEN c.assets \ {e.asset}
                ELSE c.assets
           b == IF e.do = "bind" THEN [c.bindings EXCEPT ![e.display] = e.view] ELSE c.bindings
<1>1. Edited(c, e) = [layouts |-> l, assets |-> a, bindings |-> b]
  BY DEF Edited
<1>2. l \in [Views -> Designs \cup {None}]
  BY EditFields, CatalogFields
<1>3. a \in SUBSET Assets
  BY EditFields, CatalogFields
<1>4. b \in [Displays -> Views \cup {None}]
  BY EditFields, CatalogFields
<1> HIDE DEF l, a, b
<1>5. Edited(c, e) \in Catalogs
  BY <1>1, <1>2, <1>3, <1>4 DEF Catalogs
<1>6. Edited(c, e).layouts = l /\ Edited(c, e).assets = a /\ Edited(c, e).bindings = b
  BY <1>1
<1> QED BY <1>5, <1>6 DEF l, a, b

\* There are finitely many of everything in a catalog.
LEMMA Finite ==
    ASSUME NEW c \in Catalogs
    PROVE  /\ IsFiniteSet(Saved(c)) /\ IsFiniteSet(c.assets) /\ IsFiniteSet(Bound(c))
           /\ Cardinality(Saved(c)) \in Nat /\ Cardinality(c.assets) \in Nat
           /\ Cardinality(Bound(c)) \in Nat
<1>1. IsFiniteSet(Saved(c)) /\ IsFiniteSet(c.assets) /\ IsFiniteSet(Bound(c))
  <2>1. Saved(c) \subseteq Views /\ c.assets \subseteq Assets /\ Bound(c) \subseteq Displays
    BY CatalogFields DEF Saved, Bound
  <2>2. IsFiniteSet(Views) /\ IsFiniteSet(Assets) /\ IsFiniteSet(Displays)
    BY CatalogAssumption
  <2> QED BY <2>1, <2>2, FS_Subset
<1> QED BY <1>1, FS_CardinalityType

\* What an edit keeps before the total is known: consistency but for the media quota.
Tidy(c) ==
    /\ Intact(c) /\ Fits(c) /\ Defaults \subseteq Saved(c)
    /\ Cardinality(Saved(c)) <= MaxLayouts
    /\ Cardinality(c.assets) <= MaxAssets
    /\ Cardinality(Bound(c)) <= MaxBindings

\* A tidy catalog within the media quota is consistent.
LEMMA TidyWithin == \A c : Consistent(c) <=> Tidy(c) /\ Total(c.assets) <= MaxTotal
BY DEF Consistent, Tidy, WithinLimits

\* None is no view, layout, display or catalog, and the limits are numbers.
LEMMA NoneApart ==
    /\ None \notin Views /\ None \notin Designs /\ None \notin Displays /\ None \notin Catalogs
    /\ MaxLayouts \in Nat /\ MaxAssets \in Nat /\ MaxTotal \in Nat /\ MaxBindings \in Nat
BY CatalogAssumption

\* A layout that is saved: its assets are there and its canvas suits the displays bound to it.
LEMMA PutKeeps ==
    ASSUME memory \in Catalogs, Tidy(memory), NEW e \in Edits, e.do = "put", MayPut(e)
    PROVE  Tidy(Edited(memory, e)) /\ Edited(memory, e).assets = memory.assets
<1> DEFINE n == Edited(memory, e)
<1>1. /\ n.layouts = [memory.layouts EXCEPT ![e.view] = e.design]
      /\ n.assets = memory.assets /\ n.bindings = memory.bindings
  BY EditedFields
<1>2. /\ e.view \in Views /\ e.design \in Designs /\ e.design # None
      /\ memory.layouts \in [Views -> Designs \cup {None}]
      /\ memory.bindings \in [Displays -> Views \cup {None}]
  BY EditFields, CatalogFields, NoneApart
<1> HIDE DEF n
<1>3. Saved(n) = Saved(memory) \cup {e.view}
  BY <1>1, <1>2 DEF Saved
<1>4. Bound(n) = Bound(memory) /\ Used(n) = Used(memory)
  BY <1>1 DEF Bound, Used
<1>5. Intact(n)
  BY <1>1, <1>2, <1>3, <1>4 DEF Intact, MayPut, Tidy, Saved
<1>6. Fits(n)
  <2>1. ASSUME NEW d \in Bound(memory)
        PROVE  n.layouts[memory.bindings[d]].canvas = DisplayCanvas[d]
    <3>1. memory.layouts[memory.bindings[d]].canvas = DisplayCanvas[d]
      BY DEF Tidy, Fits
    <3>2. memory.bindings[d] \in Used(memory) /\ memory.bindings[d] \in Views
      BY <1>2 DEF Used, Bound
    <3>3. CASE memory.bindings[d] = e.view
      BY <1>1, <1>2, <3>1, <3>2, <3>3 DEF MayPut
    <3>4. CASE memory.bindings[d] # e.view
      BY <1>1, <1>2, <3>1, <3>2, <3>4
    <3> QED BY <3>3, <3>4
  <2> QED BY <1>1, <1>4, <2>1 DEF Fits
<1>7. Cardinality(Saved(n)) <= MaxLayouts
  <2>1. IsFiniteSet(Saved(memory)) /\ Cardinality(Saved(memory)) \in Nat
    BY Finite
  <2>2. e.view \in Saved(memory) => Saved(n) = Saved(memory)
    BY <1>3
  <2>3. e.view \notin Saved(memory) => Cardinality(Saved(n)) = Cardinality(Saved(memory)) + 1
    BY <1>3, <2>1, FS_AddElement
  <2> QED BY <2>1, <2>2, <2>3, NoneApart DEF MayPut, Tidy
<1> QED BY <1>1, <1>3, <1>4, <1>5, <1>6, <1>7 DEF Tidy, n

\* A layout that is deleted: no display is bound to it.
LEMMA DropKeeps ==
    ASSUME memory \in Catalogs, Tidy(memory), NEW e \in Edits, e.do = "drop", MayDrop(e)
    PROVE  Tidy(Edited(memory, e)) /\ Edited(memory, e).assets = memory.assets
<1> DEFINE n == Edited(memory, e)
<1>1. /\ n.layouts = [memory.layouts EXCEPT ![e.view] = None]
      /\ n.assets = memory.assets /\ n.bindings = memory.bindings
  BY EditedFields
<1>2. /\ e.view \in Views /\ memory.layouts \in [Views -> Designs \cup {None}]
  BY EditFields, CatalogFields
<1> HIDE DEF n
<1>3. Saved(n) = Saved(memory) \ {e.view}
  BY <1>1, <1>2 DEF Saved
<1>4. Bound(n) = Bound(memory) /\ Used(n) = Used(memory)
  BY <1>1 DEF Bound, Used
<1>5. Intact(n)
  BY <1>1, <1>2, <1>3, <1>4 DEF Intact, MayDrop, Tidy, Saved
<1>6. Fits(n)
  BY <1>1, <1>2, <1>4 DEF Fits, Tidy, MayDrop, Used
<1>7. Cardinality(Saved(n)) <= MaxLayouts
  <2>1. IsFiniteSet(Saved(memory)) /\ Cardinality(Saved(memory)) \in Nat
    BY Finite
  <2>2. Cardinality(Saved(n)) <= Cardinality(Saved(memory)) /\ Cardinality(Saved(n)) \in Nat
    BY <1>3, <2>1, FS_Subset, FS_CardinalityType
  <2> QED BY <2>1, <2>2, NoneApart DEF Tidy
<1> QED BY <1>1, <1>3, <1>4, <1>5, <1>6, <1>7 DEF Tidy, MayDrop, n

\* Media that are added, or removed while no layout refers to them.
LEMMA MediaKeep ==
    ASSUME memory \in Catalogs, Tidy(memory), NEW e \in Edits,
           \/ e.do = "add" /\ Cardinality(memory.assets) < MaxAssets
           \/ e.do = "remove" /\ MayRemove(e)
    PROVE  Tidy(Edited(memory, e))
<1> DEFINE n == Edited(memory, e)
<1>1. /\ n.layouts = memory.layouts /\ n.bindings = memory.bindings
      /\ e.do = "add" => n.assets = memory.assets \cup {e.asset}
      /\ e.do = "remove" => n.assets = memory.assets \ {e.asset}
  BY EditedFields
<1> HIDE DEF n
<1>2. Saved(n) = Saved(memory) /\ Bound(n) = Bound(memory) /\ Used(n) = Used(memory)
  BY <1>1 DEF Saved, Bound, Used
<1>3. Intact(n)
  BY <1>1, <1>2 DEF Intact, MayRemove, Tidy
<1>4. Fits(n)
  BY <1>1, <1>2 DEF Fits, Tidy
<1>5. Cardinality(n.assets) <= MaxAssets
  <2>1. IsFiniteSet(memory.assets) /\ Cardinality(memory.assets) \in Nat
    BY Finite
  <2>2. CASE e.do = "add"
    <3>1. e.asset \in memory.assets => n.assets = memory.assets
      BY <1>1, <2>2
    <3>2. e.asset \notin memory.assets =>
              Cardinality(n.assets) = Cardinality(memory.assets) + 1
      BY <1>1, <2>1, <2>2, FS_AddElement
    <3> QED BY <2>1, <2>2, <3>1, <3>2, NoneApart
  <2>3. CASE e.do = "remove"
    <3>1. Cardinality(n.assets) <= Cardinality(memory.assets) /\ Cardinality(n.assets) \in Nat
      BY <1>1, <2>1, <2>3, FS_Subset, FS_CardinalityType
    <3> QED BY <2>1, <3>1, NoneApart DEF Tidy
  <2> QED BY <2>2, <2>3
<1> QED BY <1>1, <1>2, <1>3, <1>4, <1>5 DEF Tidy, n

\* A display that is bound to a layout of its canvas.
LEMMA BindKeeps ==
    ASSUME memory \in Catalogs, Tidy(memory), NEW e \in Edits, e.do = "bind", MayBind(e)
    PROVE  Tidy(Edited(memory, e)) /\ Edited(memory, e).assets = memory.assets
<1> DEFINE n == Edited(memory, e)
<1>1. /\ n.layouts = memory.layouts /\ n.assets = memory.assets
      /\ n.bindings = [memory.bindings EXCEPT ![e.display] = e.view]
  BY EditedFields
<1>2. /\ e.view \in Views /\ e.view # None /\ e.display \in Displays
      /\ memory.bindings \in [Displays -> Views \cup {None}]
  BY EditFields, CatalogFields, NoneApart
<1> HIDE DEF n
<1>3. Saved(n) = Saved(memory) /\ Bound(n) = Bound(memory) \cup {e.display}
  BY <1>1, <1>2 DEF Saved, Bound
<1>4. \A d \in Bound(n) : \/ d = e.display /\ n.bindings[d] = e.view
                          \/ d \in Bound(memory) /\ n.bindings[d] = memory.bindings[d]
  BY <1>1, <1>2, <1>3 DEF Bound
<1>5. Intact(n)
  BY <1>1, <1>3, <1>4 DEF Intact, MayBind, Tidy, Used
<1>6. Fits(n)
  BY <1>1, <1>4 DEF Fits, MayBind, Tidy
<1>7. Cardinality(Bound(n)) <= MaxBindings
  <2>1. IsFiniteSet(Bound(memory)) /\ Cardinality(Bound(memory)) \in Nat
    BY Finite
  <2>2. e.display \in Bound(memory) => Bound(n) = Bound(memory)
    BY <1>3
  <2>3. e.display \notin Bound(memory) => Cardinality(Bound(n)) = Cardinality(Bound(memory)) + 1
    BY <1>3, <2>1, FS_AddElement
  <2> QED BY <2>1, <2>2, <2>3, NoneApart DEF MayBind, Tidy
<1> QED BY <1>1, <1>3, <1>5, <1>6, <1>7 DEF Tidy, n

\* Whatever edit is allowed leaves the catalog consistent, but for the quota of an upload.
LEMMA EditKeeps ==
    ASSUME memory \in Catalogs, Consistent(memory), NEW e \in Edits, Allowed(e)
    PROVE  /\ Tidy(Edited(memory, e))
           /\ e.do # "add" => Consistent(Edited(memory, e))
<1>1. Tidy(memory) /\ Total(memory.assets) <= MaxTotal
  BY TidyWithin
<1>2. Tidy(Edited(memory, e))
  BY <1>1, PutKeeps, DropKeeps, MediaKeep, BindKeeps DEF Allowed, MayAdd
<1>3. ASSUME e.do # "add" PROVE Total(Edited(memory, e).assets) <= MaxTotal
  <2>1. CASE e.do = "remove"
    <3>1. Edited(memory, e).assets = memory.assets \ {e.asset}
      BY <2>1, EditedFields
    <3>2. /\ Total(memory.assets) \in Nat /\ Total(memory.assets \ {e.asset}) \in Nat
          /\ Total(memory.assets \ {e.asset}) <= Total(memory.assets)
      BY TotalShrinks, Finite, CatalogFields
    <3> QED BY <1>1, <3>1, <3>2, NoneApart
  <2>2. CASE e.do # "remove"
    <3>1. Edited(memory, e).assets = memory.assets
      BY <1>3, <2>2, EditedFields
    <3> QED BY <1>1, <3>1
  <2> QED BY <2>1, <2>2
<1> QED BY <1>2, <1>3, TidyWithin

-----------------------------------------------------------------------------
(* What New loads. *)

\* What the editor starts with before its first save is consistent.
LEMMA FreshConsistent == Fresh \in Catalogs /\ Consistent(Fresh)
<1>1. /\ Fresh.layouts = [v \in Views |-> IF v \in Defaults THEN DefaultDesign[v] ELSE None]
      /\ Fresh.assets = {} /\ Fresh.bindings = [d \in Displays |-> None]
  BY DEF Fresh
<1>2. \A v \in Defaults : /\ v \in Views /\ DefaultDesign[v] \in Designs
                          /\ DefaultDesign[v].assets = {} /\ DefaultDesign[v] # None
  BY CatalogAssumption
<1>3. Fresh \in Catalogs
  <2>1. Fresh.layouts \in [Views -> Designs \cup {None}]
    BY <1>1, <1>2
  <2>2. Fresh.bindings \in [Displays -> Views \cup {None}]
    BY <1>1
  <2> QED BY <1>1, <2>1, <2>2 DEF Catalogs, Fresh
<1>4. Saved(Fresh) = Defaults
  BY <1>1, <1>2 DEF Saved
<1>5. Bound(Fresh) = {} /\ Used(Fresh) = {}
  BY <1>1 DEF Bound, Used
<1>6. Intact(Fresh) /\ Fits(Fresh)
  BY <1>1, <1>2, <1>4, <1>5 DEF Intact, Fits
<1>7. WithinLimits(Fresh)
  <2>1. Cardinality({}) = 0
    BY FS_EmptySet
  <2>2. Cardinality(Defaults) <= MaxLayouts
    BY CatalogAssumption
  <2> QED BY <1>1, <1>4, <1>5, <2>1, <2>2, TotalNone, NoneApart DEF WithinLimits
<1> QED BY <1>3, <1>4, <1>6, <1>7 DEF Consistent

\* Adding default-cyclops to a file of an earlier version leaves it consistent.
LEMMA LegacyLoads ==
    ASSUME NEW c \in Catalogs, Legacy(c)
    PROVE  Load(c) \in Catalogs /\ Consistent(Load(c)) /\ Load(c).assets = c.assets
<1> DEFINE n == [c EXCEPT !.layouts[Circular] = DefaultDesign[Circular]]
<1>1. /\ Circular \in Views /\ Circular \in Defaults /\ DefaultDesign[Circular] \in Designs
      /\ DefaultDesign[Circular].assets = {} /\ DefaultDesign[Circular] # None
  BY CatalogAssumption
<1>2. Circular \notin Saved(c) /\ c.layouts[Circular] = None
  BY <1>1 DEF Legacy, Saved
<1>3. Cardinality(Saved(c)) \in Nat /\ Cardinality(Saved(c)) + 1 <= MaxLayouts
  BY Finite, NoneApart DEF Legacy
<1>4. Load(c) = n
  BY <1>2, <1>3, NoneApart DEF Load
<1>5. /\ c.layouts \in [Views -> Designs \cup {None}] /\ c.assets \in SUBSET Assets
      /\ c.bindings \in [Displays -> Views \cup {None}]
  BY CatalogFields
<1>6. /\ n.layouts = [c.layouts EXCEPT ![Circular] = DefaultDesign[Circular]]
      /\ n.assets = c.assets /\ n.bindings = c.bindings /\ n \in Catalogs
  BY <1>1, <1>5 DEF Catalogs
<1> HIDE DEF n
<1>7. Saved(n) = Saved(c) \cup {Circular} /\ Bound(n) = Bound(c) /\ Used(n) = Used(c)
  BY <1>1, <1>5, <1>6 DEF Saved, Bound, Used
<1>8. Intact(n)
  BY <1>1, <1>5, <1>6, <1>7 DEF Intact, Legacy, Saved
<1>9. Fits(n)
  BY <1>1, <1>2, <1>5, <1>6, <1>7 DEF Fits, Legacy, Intact, Used
<1>10. WithinLimits(n)
  <2>1. Cardinality(Saved(n)) = Cardinality(Saved(c)) + 1
    BY <1>2, <1>7, Finite, FS_AddElement
  <2> QED BY <1>3, <1>6, <1>7, <2>1 DEF WithinLimits, Legacy
<1>11. Defaults \subseteq Saved(n)
  BY <1>7 DEF Legacy
<1> QED BY <1>4, <1>6, <1>8, <1>9, <1>10, <1>11 DEF Consistent

\* A consistent file is taken over as it is.
LEMMA LoadSame ==
    ASSUME NEW c \in Catalogs, Consistent(c)
    PROVE  Load(c) = c
<1>1. c # None
  BY NoneApart
<1>2. c.layouts[Circular] # None
  BY CatalogAssumption DEF Consistent, Saved
<1> QED BY <1>1, <1>2 DEF Load

\* What New takes over is consistent, whatever it finds.
LEMMA LoadConsistent ==
    ASSUME disk \in Catalogs \cup {None}, disk # None => Legacy(disk) \/ Consistent(disk)
    PROVE  /\ Load(disk) \in Catalogs /\ Consistent(Load(disk))
           /\ disk # None => Load(disk).assets = disk.assets
<1>1. CASE disk = None
  BY <1>1, FreshConsistent DEF Load
<1>2. CASE disk # None /\ Legacy(disk)
  BY <1>2, LegacyLoads
<1>3. CASE disk # None /\ Consistent(disk)
  BY <1>3, LoadSame
<1> QED BY <1>1, <1>2, <1>3

-----------------------------------------------------------------------------
(* The inductive invariant. *)

\* The view a display is meant to show.
Wanted(c, d) == IF c.bindings[d] # None THEN c.bindings[d] ELSE Configured[d]

\* Every asset of the catalog has all its frames.
Whole(c) == \A a \in c.assets : folder[a] = "complete"

\* Nothing of the process is left when it is down.
Quiet == ~running => /\ mutation = None /\ putting = None
                     /\ attached = {} /\ rerouted = {} /\ strays = {}

\* One client at a time is at work, and it holds the mutex.
Locked == /\ \A c \in Clients : request[c] # Idle => mutation = c
          /\ mutation # None => request[mutation] # Idle
          /\ putting # None => putting.display \in attached

\* The file: consistent, or of an earlier version, with all its media.
DurableSound == /\ disk # None => Legacy(disk) \/ Consistent(disk)
                /\ Whole(Load(disk))

\* The memory, which renderers read.
MemorySound == running => Consistent(memory) /\ Whole(memory)

\* The memory is what a restart would load, but between the rename and the publication.
Remembered == running /\ (\A c \in Clients : request[c].phase # "publish") => memory = Load(disk)

\* The folder of an upload, and that of an asset whose catalog entry is gone.
Claimed(a) == \E c \in Clients : /\ request[c] # Idle
                                 /\ \/ request[c].edit.do = "add"
                                    \/ request[c].phase = "remove"
                                 /\ request[c].edit.asset = a

\* A folder belongs to an asset, to the edit under way, or to a removal that failed.
Accounted == running => \A a \in Assets : folder[a] # "none" =>
                            a \in memory.assets \/ a \in strays \/ Claimed(a)

\* What the checks of an edit established still holds of the copy it made.
Planned(r) ==
    /\ r.phase = "frames" => r.edit.do = "add"
    /\ r.phase \in {"assign", "rollback"} => r.edit.do = "bind"
    /\ r.phase = "remove" => r.edit.do = "remove" /\ r.edit.asset \notin memory.assets
    /\ r.phase # "remove" =>
          /\ r.next = Edited(memory, r.edit) /\ Tidy(r.next)
          /\ r.edit.do = "add" => r.edit.asset \notin memory.assets

\* Past the frames, the copy is consistent and its media are written.
Vetted(r) == r.phase \notin {"frames", "remove"} => Consistent(r.next) /\ Whole(r.next)

\* Between the rename and the publication.
Stored(r) == r.phase = "publish" => disk = r.next

\* An apply: the assignment it read, and the one it made.
Shown(r) ==
    r.edit.do = "bind" =>
       /\ r.edit.display \in attached
       /\ r.phase # "publish" /\ ~r.direct => r.old = Wanted(memory, r.edit.display)
       /\ r.phase \in {"commit", "rollback"} =>
             r.edit.display \in rerouted \/ live[r.edit.display] = r.edit.view

\* Every client at work.
RequestsSound ==
    \A c \in Clients : request[c] # Idle =>
        Planned(request[c]) /\ Vetted(request[c]) /\ Stored(request[c]) /\ Shown(request[c])

\* An apply has assigned the display and not yet committed or turned back.
AtWork(d) == \E c \in Clients : /\ request[c] # Idle /\ request[c].phase \in {"commit", "rollback"}
                                /\ request[c].edit.do = "bind" /\ request[c].edit.display = d

\* A display shows what is saved, or there is a reason why not.
Settled == \A d \in attached :
               d \in rerouted \/ AtWork(d) \/ live[d] = Wanted(Load(disk), d)

IInv == /\ TypeOK /\ Quiet /\ Locked /\ DurableSound /\ MemorySound /\ Remembered
        /\ Accounted /\ RequestsSound /\ Settled

-----------------------------------------------------------------------------
(* Requests. *)

\* The fields of the request of a client at work.
LEMMA RequestFields ==
    ASSUME TypeOK, NEW c \in Clients
    PROVE  /\ request[c] = Idle <=> request[c].phase = "idle"
           /\ request[c] # Idle =>
                 /\ request[c] \in Request
                 /\ request[c].phase \in Phase \ {"idle"}
                 /\ request[c].edit \in Edits /\ request[c].next \in Catalogs
                 /\ request[c].old \in Views \cup {Elsewhere}
                 /\ request[c].direct \in BOOLEAN
<1>1. request[c] \in Request \cup {Idle}
  BY DEF TypeOK
<1>2. \A r \in Request : r.phase \in Phase \ {"idle"}
  BY DEF Request
<1>3. Idle.phase = "idle"
  BY DEF Idle
<1>4. \A r \in Request : /\ r.edit \in Edits /\ r.next \in Catalogs
                         /\ r.old \in Views \cup {Elsewhere} /\ r.direct \in BOOLEAN
  BY DEF Request
<1> QED BY <1>1, <1>2, <1>3, <1>4

\* The client at work holds the mutex, and no other is at work.
LEMMA Alone ==
    ASSUME TypeOK, Quiet, Locked, NEW c \in Clients, request[c] # Idle
    PROVE  running /\ mutation = c /\ mutation # None /\ \A o \in Clients \ {c} : request[o] = Idle
BY ConfiguratorAssumption DEF TypeOK, Quiet, Locked

\* A request that goes on keeps everything but its phase.
LEMMA Goes ==
    ASSUME TypeOK, Quiet, Locked, NEW c \in Clients, request[c] # Idle,
           NEW p \in Phase \ {"idle"}, Goto(c, p)
    PROVE  /\ request' \in [Clients -> Request \cup {Idle}]
           /\ request'[c] # Idle /\ request'[c].phase = p
           /\ request'[c].edit = request[c].edit /\ request'[c].next = request[c].next
           /\ request'[c].old = request[c].old /\ request'[c].direct = request[c].direct
           /\ \A o \in Clients \ {c} : request'[o] = Idle
           /\ mutation' = c
<1> DEFINE r == request[c]
           s == [phase |-> p, edit |-> r.edit, next |-> r.next, old |-> r.old,
                 direct |-> r.direct]
<1>1. /\ r \in Request /\ r.edit \in Edits /\ r.next \in Catalogs
      /\ r.old \in Views \cup {Elsewhere} /\ r.direct \in BOOLEAN
  BY RequestFields
<1>2. [r EXCEPT !.phase = p] = s
  <2>1. r \in [phase : Phase \ {"idle"}, edit : Edits, next : Catalogs,
               old : Views \cup {Elsewhere}, direct : BOOLEAN]
    BY <1>1 DEF Request
  <2> HIDE DEF r
  <2> QED BY <2>1
<1>3. s \in Request
  BY <1>1 DEF Request
<1>4. request' = [request EXCEPT ![c] = [r EXCEPT !.phase = p]]
  BY DEF Goto
<1>5. request \in [Clients -> Request \cup {Idle}]
  BY DEF TypeOK
<1>6. request' \in [Clients -> Request \cup {Idle}] /\ request'[c] = s
      /\ \A o \in Clients \ {c} : request'[o] = request[o]
  BY <1>2, <1>3, <1>4, <1>5
<1>7. s # Idle
  BY <1>3 DEF Request, Idle
<1>8. mutation' = c /\ \A o \in Clients \ {c} : request[o] = Idle
  BY Alone DEF Goto
<1> QED BY <1>6, <1>7, <1>8

\* A request that ends leaves nobody at work.
LEMMA Ends ==
    ASSUME TypeOK, Quiet, Locked, NEW c \in Clients, request[c] # Idle, Finish(c)
    PROVE  /\ request' \in [Clients -> Request \cup {Idle}]
           /\ \A o \in Clients : request'[o] = Idle
           /\ mutation' = None
BY Alone DEF Finish, TypeOK

\* What holds while a client is at a phase of its edit.
LEMMA AtWorkFacts ==
    ASSUME IInv, NEW c \in Clients, NEW p \in Phase \ {"idle"}, At(c, p)
    PROVE  /\ request[c] # Idle /\ request[c].phase = p /\ running /\ mutation = c
           /\ request[c].edit \in Edits /\ request[c].next \in Catalogs
           /\ request[c].old \in Views \cup {Elsewhere} /\ request[c].direct \in BOOLEAN
           /\ Planned(request[c]) /\ Vetted(request[c]) /\ Stored(request[c])
           /\ Shown(request[c])
           /\ \A o \in Clients \ {c} : request[o] = Idle
           /\ Consistent(memory) /\ Whole(memory) /\ memory \in Catalogs
           /\ p # "publish" => memory = Load(disk)
<1>1. request[c].phase = p /\ running
  BY DEF At
<1>2. request[c] # Idle
  BY <1>1, RequestFields DEF IInv
<1>3. \A o \in Clients \ {c} : request[o] = Idle
  BY <1>2, Alone DEF IInv
<1>4. Consistent(memory) /\ Whole(memory) /\ memory \in Catalogs
  BY <1>1 DEF IInv, MemorySound, TypeOK
<1>5. p # "publish" => memory = Load(disk)
  <2>1. \A o \in Clients \ {c} : request[o].phase = "idle"
    BY <1>3, RequestFields DEF IInv
  <2> QED BY <1>1, <2>1 DEF IInv, Remembered
<1>6. /\ request[c].edit \in Edits /\ request[c].next \in Catalogs
      /\ request[c].old \in Views \cup {Elsewhere} /\ request[c].direct \in BOOLEAN
  BY <1>2, RequestFields DEF IInv
<1>7. mutation = c
  BY <1>2, Alone DEF IInv
<1> QED BY <1>1, <1>2, <1>3, <1>4, <1>5, <1>6, <1>7 DEF IInv, RequestsSound

\* The edits of uploads write media and those of applies assign: what a change of the
\* folders or of the assignments alone must not disturb.
LEMMA OthersKept ==
    ASSUME IInv, UNCHANGED <<disk, running, memory>>, running,
           \A a \in memory.assets \cup Load(disk).assets :
               folder[a] = "complete" => folder'[a] = "complete"
    PROVE  Quiet' /\ DurableSound' /\ MemorySound'
<1>1. Quiet'
  BY DEF Quiet
<1>2. DurableSound'
  BY DEF IInv, DurableSound, Whole
<1>3. MemorySound'
  BY DEF IInv, MemorySound, Whole
<1> QED BY <1>1, <1>2, <1>3

-----------------------------------------------------------------------------
(* Every action keeps the invariant. *)

\* Any file of this or an earlier version starts the invariant.
LEMMA InitSound == Init => IInv
<1> SUFFICES ASSUME Init PROVE IInv
  OBVIOUS
<1>1. disk \in Catalogs \cup {None} /\ (disk # None => Legacy(disk))
  BY NoneApart DEF Init
<1>2. Load(disk) \in Catalogs /\ (disk # None => Load(disk).assets = disk.assets)
  BY <1>1, LoadConsistent
<1>3. disk = None => Load(disk).assets = {}
  BY DEF Load, Fresh
<1>4. Whole(Load(disk))
  BY <1>2, <1>3, CatalogFields DEF Whole, Init
<1>5. TypeOK
  BY <1>1, FreshConsistent, ConfiguratorAssumption DEF TypeOK, Init, Down
<1>6. Quiet /\ Locked
  BY DEF Init, Down, Quiet, Locked
<1>7. DurableSound /\ MemorySound /\ Remembered /\ Accounted
  BY <1>1, <1>4 DEF DurableSound, MemorySound, Remembered, Accounted, Init, Down
<1>8. RequestsSound /\ Settled
  BY DEF RequestsSound, Settled, Init, Down
<1> QED BY <1>5, <1>6, <1>7, <1>8 DEF IInv

\* Cleaning up removes only folders that the loaded catalog does not name.
LEMMA CleanFolders ==
    ASSUME IInv, NEW gone \in SUBSET Orphans, Clean(gone)
    PROVE  /\ folder' \in [Assets -> {"none", "partial", "complete"}]
           /\ \A a \in Assets : folder'[a] = IF a \in gone THEN "none" ELSE folder[a]
           /\ \A a \in Load(disk).assets : folder'[a] = "complete"
<1>1. folder \in [Assets -> {"none", "partial", "complete"}]
  BY DEF IInv, TypeOK
<1>2. Load(disk).assets \subseteq Assets
  BY LoadConsistent, CatalogFields DEF IInv, TypeOK, DurableSound
<1> QED BY <1>1, <1>2 DEF Clean, Orphans, IInv, DurableSound, Whole

\* Start: memory, assignments and folders agree with the file.
LEMMA StartKeeps == ASSUME IInv, Start PROVE IInv'
<1>1. PICK present \in SUBSET Displays :
          /\ attached' = present
          /\ live' = [d \in Displays |->
                         IF d \notin present THEN Elsewhere
                         ELSE IF Load(disk).bindings[d] # None THEN Load(disk).bindings[d]
                         ELSE Configured[d]]
  BY DEF Start
<1>2. /\ running' = TRUE /\ memory' = Load(disk) /\ ~running
      /\ UNCHANGED <<disk, mutation, request, putting, rerouted, strays>>
  BY DEF Start
<1>3. Load(disk) \in Catalogs /\ Consistent(Load(disk))
  BY LoadConsistent DEF IInv, TypeOK, DurableSound
<1>4. /\ folder' \in [Assets -> {"none", "partial", "complete"}]
      /\ \A a \in Assets : folder'[a] = IF a \in Orphans THEN "none" ELSE folder[a]
      /\ \A a \in Load(disk).assets : folder'[a] = "complete"
  BY CleanFolders DEF Start
<1>5. /\ mutation = None /\ putting = None /\ rerouted = {} /\ strays = {}
      /\ \A c \in Clients : request[c] = Idle
  BY <1>2, ConfiguratorAssumption DEF IInv, Quiet, Locked
<1>6. TypeOK'
  <2>1. live' \in [Displays -> Views \cup {Elsewhere}]
    BY <1>1, <1>3, CatalogFields, ConfiguratorAssumption
  <2> QED BY <1>1, <1>2, <1>3, <1>4, <1>5, <2>1 DEF IInv, TypeOK
<1>7. Quiet' /\ Locked'
  BY <1>2, <1>5 DEF Quiet, Locked
<1>8. DurableSound' /\ MemorySound' /\ Remembered'
  BY <1>2, <1>3, <1>4 DEF IInv, DurableSound, MemorySound, Remembered, Whole
<1>9. Accounted'
  BY <1>2, <1>4 DEF Accounted, Orphans
<1>10. RequestsSound'
  BY <1>2, <1>5 DEF RequestsSound
<1>11. Settled'
  BY <1>1, <1>2 DEF Settled, Wanted
<1> QED BY <1>6, <1>7, <1>8, <1>9, <1>10, <1>11 DEF IInv

\* A start that fails half way has removed orphans only.
LEMMA StartFailsKeeps == ASSUME IInv, StartFails PROVE IInv'
<1>1. PICK gone \in SUBSET Orphans : Clean(gone)
  BY DEF StartFails
<1>2. ~running /\ UNCHANGED <<disk, running, memory, mutation, request, putting, attached,
                             live, rerouted, strays>>
  BY DEF StartFails, output
<1>3. /\ folder' \in [Assets -> {"none", "partial", "complete"}]
      /\ \A a \in Load(disk).assets : folder'[a] = "complete"
  BY <1>1, CleanFolders
<1>4. TypeOK' /\ Quiet' /\ Locked'
  BY <1>2, <1>3 DEF IInv, TypeOK, Quiet, Locked
<1>5. DurableSound' /\ MemorySound' /\ Remembered' /\ Accounted'
  BY <1>2, <1>3 DEF IInv, DurableSound, MemorySound, Remembered, Accounted, Whole
<1>6. /\ mutation = None /\ attached = {} /\ \A c \in Clients : request[c] = Idle
  BY <1>2, ConfiguratorAssumption DEF IInv, Quiet, Locked
<1>7. RequestsSound' /\ Settled'
  BY <1>2, <1>6 DEF RequestsSound, Settled
<1> QED BY <1>4, <1>5, <1>7 DEF IInv

\* The end of the process leaves the file and complete folders.
LEMMA CrashKeeps == ASSUME IInv, Crash PROVE IInv'
<1>1. /\ running' = FALSE /\ memory' = Fresh /\ mutation' = None
      /\ request' = [c \in Clients |-> Idle] /\ putting' = None /\ attached' = {}
      /\ live' = [d \in Displays |-> Elsewhere] /\ rerouted' = {} /\ strays' = {}
      /\ UNCHANGED <<disk, folder>>
  BY DEF Crash, durable
<1>2. TypeOK'
  BY <1>1, FreshConsistent DEF IInv, TypeOK
<1>3. Quiet' /\ Locked'
  BY <1>1 DEF Quiet, Locked
<1>4. DurableSound' /\ MemorySound' /\ Remembered' /\ Accounted'
  BY <1>1 DEF IInv, DurableSound, MemorySound, Remembered, Accounted, Whole
<1>5. RequestsSound' /\ Settled'
  BY <1>1 DEF RequestsSound, Settled
<1> QED BY <1>2, <1>3, <1>4, <1>5 DEF IInv

\* The validation of a direct assignment changes nothing else.
LEMMA ValidateKeeps == ASSUME IInv, ValidateDirect PROVE IInv'
<1>1. PICK d \in attached, v \in Saved(memory) \cup {Elsewhere} :
          putting' = [display |-> d, view |-> v]
  BY DEF ValidateDirect
<1>2. running /\ UNCHANGED <<disk, folder, running, memory, mutation, request, attached, live,
                            rerouted, strays>>
  BY DEF ValidateDirect, durable
<1>3. TypeOK'
  <2>1. d \in Displays /\ v \in Views \cup {Elsewhere}
    BY DEF IInv, TypeOK, Saved
  <2>2. putting' \in [display : Displays, view : Views \cup {Elsewhere}]
    BY <1>1, <2>1
  <2> QED BY <1>2, <2>2 DEF IInv, TypeOK
<1>4. Quiet' /\ Locked'
  BY <1>1, <1>2 DEF IInv, Quiet, Locked
<1>5. DurableSound' /\ MemorySound' /\ Remembered' /\ Accounted'
  BY <1>2 DEF IInv, DurableSound, MemorySound, Remembered, Accounted, Whole, Claimed
<1>6. RequestsSound' /\ Settled'
  BY <1>2 DEF IInv, RequestsSound, Planned, Vetted, Stored, Shown, Whole, Settled, AtWork
<1> QED BY <1>3, <1>4, <1>5, <1>6 DEF IInv

\* A direct assignment, at any step of an apply, is counted as such.
LEMMA AssignDirectKeeps == ASSUME IInv, AssignDirect PROVE IInv'
<1> DEFINE d == putting.display
<1>1. /\ putting # None /\ putting' = None
      /\ live' = [live EXCEPT ![d] = putting.view] /\ rerouted' = rerouted \cup {d}
      /\ UNCHANGED <<disk, folder, running, memory, mutation, request, attached, strays>>
  BY DEF AssignDirect, durable
<1>2. putting \in [display : Displays, view : Views \cup {Elsewhere}] /\ d \in attached
  BY <1>1 DEF IInv, TypeOK, Locked
<1>3. d \in Displays /\ putting.view \in Views \cup {Elsewhere}
  BY <1>2
<1> HIDE DEF d
<1>4. TypeOK'
  BY <1>1, <1>2, <1>3 DEF IInv, TypeOK
<1>5. Quiet' /\ Locked'
  BY <1>1, <1>2 DEF IInv, Quiet, Locked
<1>6. DurableSound' /\ MemorySound' /\ Remembered' /\ Accounted'
  BY <1>1 DEF IInv, DurableSound, MemorySound, Remembered, Accounted, Whole, Claimed
<1>7. /\ rerouted \subseteq rerouted' /\ d \in rerouted'
      /\ \A o \in attached : o # d => live'[o] = live[o]
  BY <1>1 DEF IInv, TypeOK
<1>8. RequestsSound'
  <2>1. ASSUME NEW c \in Clients, request[c] # Idle
        PROVE  (Planned(request[c]) /\ Vetted(request[c]) /\ Stored(request[c]))'
    BY <1>1, <2>1 DEF IInv, RequestsSound, Planned, Vetted, Stored, Whole
  <2>2. ASSUME NEW c \in Clients, request[c] # Idle PROVE Shown(request[c])'
    BY <1>1, <1>7, <2>2 DEF IInv, RequestsSound, Shown
  <2> QED BY <1>1, <2>1, <2>2 DEF RequestsSound
<1>9. Settled'
  BY <1>1, <1>7 DEF IInv, Settled, AtWork
<1> QED BY <1>4, <1>5, <1>6, <1>8, <1>9 DEF IInv

\* An edit that passes its checks: the copy it makes is consistent but for the quota.
LEMMA BeginKeeps == ASSUME IInv, NEW c \in Clients, Begin(c) PROVE IInv'
<1>1. /\ running /\ mutation = None /\ request[c] = Idle /\ mutation' = c
      /\ UNCHANGED <<disk, running, memory, putting, attached, live, rerouted, strays>>
  BY DEF Begin, output
<1>2. PICK e \in Edits :
          /\ Allowed(e)
          /\ request' = [request EXCEPT ![c] =
                [phase |-> IF e.do = "add" THEN "frames" ELSE "stage",
                 edit |-> e, next |-> Edited(memory, e),
                 old |-> IF e.do = "bind" THEN live[e.display] ELSE Elsewhere,
                 direct |-> e.do = "bind" /\ e.display \in rerouted]]
          /\ folder' = IF e.do = "add" THEN [folder EXCEPT ![e.asset] = "partial"] ELSE folder
  BY DEF Begin
<1> DEFINE q == [phase |-> IF e.do = "add" THEN "frames" ELSE "stage",
                 edit |-> e, next |-> Edited(memory, e),
                 old |-> IF e.do = "bind" THEN live[e.display] ELSE Elsewhere,
                 direct |-> e.do = "bind" /\ e.display \in rerouted]
<1>3. /\ memory \in Catalogs /\ Consistent(memory) /\ Whole(memory)
      /\ \A o \in Clients : request[o] = Idle
  BY <1>1, ConfiguratorAssumption DEF IInv, TypeOK, MemorySound, Locked
<1>4. memory = Load(disk)
  <2>1. \A o \in Clients : request[o].phase = "idle"
    BY <1>3, RequestFields DEF IInv
  <2> QED BY <1>1, <2>1 DEF IInv, Remembered
<1>5. /\ e.do \in {"add", "remove"} => e.asset \in Assets
      /\ e.do = "bind" => e.display \in Displays /\ e.view \in Views
      /\ e.do = "bind" => e.display \in attached
  BY <1>2, EditFields DEF Allowed, MayBind
<1>6. Edited(memory, e) \in Catalogs /\ Tidy(Edited(memory, e))
      /\ (e.do # "add" => Consistent(Edited(memory, e)))
  BY <1>2, <1>3, EditedFields, EditKeeps
<1>7. e.do = "add" => folder[e.asset] = "none" /\ e.asset \notin memory.assets
  <2>1. e.do = "add" => folder[e.asset] = "none"
    BY <1>2 DEF Allowed, MayAdd
  <2> QED BY <2>1, <1>3 DEF Whole
<1>8. q \in Request
  <2>1. live \in [Displays -> Views \cup {Elsewhere}]
    BY DEF IInv, TypeOK
  <2> QED BY <1>5, <1>6, <2>1 DEF Request, Phase
<1>9. PICK r \in Request :
          /\ r = q /\ r.phase = IF e.do = "add" THEN "frames" ELSE "stage"
          /\ r.edit = e /\ r.next = Edited(memory, e)
          /\ e.do = "bind" => r.old = live[e.display] /\ (~r.direct => e.display \notin rerouted)
  BY <1>8
<1> HIDE DEF q
<1>10. r # Idle
  BY DEF Request, Idle
<1>11. /\ request' \in [Clients -> Request \cup {Idle}] /\ request'[c] = r
       /\ \A o \in Clients \ {c} : request'[o] = Idle
  <2>1. request' = [request EXCEPT ![c] = r]
    BY <1>2, <1>9 DEF q
  <2> QED BY <1>3, <2>1 DEF IInv, TypeOK
<1>12. /\ folder' \in [Assets -> {"none", "partial", "complete"}]
       /\ \A a \in memory.assets : folder'[a] = folder[a]
       /\ \A a \in Assets : folder'[a] # "none" =>
             folder[a] # "none" \/ (e.do = "add" /\ e.asset = a)
       /\ e.do # "add" => folder' = folder
  <2>1. folder \in [Assets -> {"none", "partial", "complete"}] /\ memory.assets \subseteq Assets
    BY <1>3, CatalogFields DEF IInv, TypeOK
  <2> QED BY <1>2, <1>5, <1>7, <2>1
<1>13. TypeOK'
  BY <1>1, <1>11, <1>12 DEF IInv, TypeOK
<1>14. Quiet' /\ DurableSound' /\ MemorySound'
  BY <1>1, <1>4, <1>12, OthersKept
<1>15. Locked'
  BY <1>1, <1>10, <1>11 DEF IInv, Locked
<1>16. Remembered'
  BY <1>1, <1>4 DEF Remembered
<1>17. Accounted'
  <2>1. e.do = "add" => Claimed(e.asset)'
    BY <1>9, <1>10, <1>11 DEF Claimed
  <2>2. \A a \in Assets : folder[a] # "none" => a \in memory.assets \/ a \in strays
    BY <1>1, <1>3 DEF IInv, Accounted, Claimed
  <2> QED BY <1>1, <1>12, <2>1, <2>2 DEF Accounted
<1>18. RequestsSound'
  <2>1. Planned(r)'
    BY <1>1, <1>6, <1>7, <1>9 DEF Planned
  <2>2. Vetted(r)'
    <3>1. CASE e.do = "add"
      BY <1>9, <3>1 DEF Vetted
    <3>2. CASE e.do # "add"
      <4>1. Edited(memory, e).assets \subseteq memory.assets
        BY <1>3, <3>2, EditedFields
      <4> QED BY <1>3, <1>6, <1>9, <1>12, <3>2, <4>1 DEF Vetted, Whole
    <3> QED BY <3>1, <3>2
  <2>3. Stored(r)'
    BY <1>9 DEF Stored
  <2>4. Shown(r)'
    <3>1. ASSUME e.do = "bind", e.display \notin rerouted
          PROVE  live[e.display] = Wanted(memory, e.display)
      BY <1>3, <1>4, <1>5, <3>1 DEF IInv, Settled, AtWork
    <3> QED BY <1>1, <1>5, <1>9, <3>1 DEF Shown, Wanted
  <2> QED BY <1>11, <2>1, <2>2, <2>3, <2>4 DEF RequestsSound
<1>19. Settled'
  BY <1>1, <1>3 DEF IInv, Settled, AtWork, Wanted
<1> QED BY <1>13, <1>14, <1>15, <1>16, <1>17, <1>18, <1>19 DEF IInv

\* The frames are within the quota and written.
LEMMA WriteFramesKeeps ==
    ASSUME IInv, NEW c \in Clients, At(c, "frames"),
           Total(request[c].next.assets) <= MaxTotal,
           folder' = [folder EXCEPT ![request[c].edit.asset] = "complete"],
           Goto(c, "stage"), UNCHANGED <<strays, disk, running, memory, output>>
    PROVE  IInv'
<1>1. PICK r \in Request \cup {Idle} : r = request[c]
  BY DEF IInv, TypeOK
<1>2. /\ r # Idle /\ r.phase = "frames" /\ running /\ mutation = c /\ r.edit \in Edits
      /\ r.next \in Catalogs /\ Planned(r)
      /\ \A o \in Clients \ {c} : request[o] = Idle
      /\ Whole(memory) /\ memory \in Catalogs /\ memory = Load(disk)
  BY <1>1, AtWorkFacts DEF Phase
<1>3. /\ r.edit.do = "add" /\ r.next = Edited(memory, r.edit) /\ Tidy(r.next)
      /\ r.edit.asset \notin memory.assets /\ r.edit.asset \in Assets
  BY <1>2, EditFields DEF Planned
<1>4. /\ request' \in [Clients -> Request \cup {Idle}] /\ request'[c] # Idle
      /\ request'[c].phase = "stage" /\ request'[c].edit = r.edit /\ request'[c].next = r.next
      /\ \A o \in Clients \ {c} : request'[o] = Idle
      /\ mutation' = c
  BY <1>1, <1>2, Goes DEF IInv, Phase
<1>5. /\ folder' \in [Assets -> {"none", "partial", "complete"}]
      /\ folder'[r.edit.asset] = "complete"
      /\ \A a \in Assets : a # r.edit.asset => folder'[a] = folder[a]
  BY <1>1, <1>3 DEF IInv, TypeOK
<1>6. /\ memory.assets \subseteq Assets
      /\ Edited(memory, r.edit).assets = memory.assets \cup {r.edit.asset}
  BY <1>2, <1>3, EditedFields, CatalogFields
<1>7. TypeOK'
  BY <1>2, <1>4, <1>5 DEF IInv, TypeOK, output
<1>8. Quiet' /\ DurableSound' /\ MemorySound'
  BY <1>2, <1>3, <1>5, <1>6, OthersKept
<1>9. Locked' /\ Remembered'
  BY <1>2, <1>4 DEF IInv, Locked, Remembered, output
<1>10. Accounted'
  <2>1. Claimed(r.edit.asset)'
    BY <1>3, <1>4 DEF Claimed
  <2>2. \A a \in Assets : a # r.edit.asset => ~Claimed(a)
    BY <1>1, <1>2 DEF Claimed
  <2> QED BY <1>2, <1>5, <2>1, <2>2 DEF IInv, Accounted
<1>11. RequestsSound'
  <2>1. Planned(request[c])'
    BY <1>3, <1>4 DEF Planned
  <2>2. Vetted(request[c])'
    <3>1. Consistent(r.next)
      BY <1>1, <1>3, TidyWithin
    <3>2. Whole(r.next)'
      BY <1>2, <1>3, <1>5, <1>6 DEF Whole
    <3> QED BY <1>4, <3>1, <3>2 DEF Vetted, Whole
  <2>3. Stored(request[c])' /\ Shown(request[c])'
    BY <1>3, <1>4 DEF Stored, Shown
  <2> QED BY <1>4, <2>1, <2>2, <2>3 DEF RequestsSound
<1>12. Settled'
  BY <1>1, <1>2 DEF IInv, Settled, AtWork, Wanted, output
<1> QED BY <1>7, <1>8, <1>9, <1>10, <1>11, <1>12 DEF IInv

\* An edit that ends with nothing published: the folder it made is removed, or counted.
LEMMA AbandonKeeps ==
    ASSUME IInv, NEW c \in Clients, NEW p \in {"frames", "stage", "commit"}, At(c, p),
           p = "commit" => request[c].edit.do # "bind",
           Abandon(c), UNCHANGED <<disk, running, memory, output>>
    PROVE  IInv'
<1>1. PICK r \in Request \cup {Idle} : r = request[c]
  BY DEF IInv, TypeOK
<1>2. /\ r # Idle /\ r.phase = p /\ running /\ mutation = c /\ r.edit \in Edits /\ Planned(r)
      /\ \A o \in Clients \ {c} : request[o] = Idle
      /\ memory \in Catalogs /\ memory = Load(disk)
  BY <1>1, AtWorkFacts DEF Phase
<1>3. r.edit.do = "add" => r.edit.asset \notin memory.assets /\ r.edit.asset \in Assets
  BY <1>2, EditFields DEF Planned
<1>4. /\ request' \in [Clients -> Request \cup {Idle}] /\ \A o \in Clients : request'[o] = Idle
      /\ mutation' = None
  BY <1>1, <1>2, Ends DEF IInv, Abandon
<1>5. \/ r.edit.do # "add" /\ UNCHANGED <<folder, strays>>
      \/ r.edit.do = "add" /\ folder' = [folder EXCEPT ![r.edit.asset] = "none"]
         /\ UNCHANGED strays
      \/ r.edit.do = "add" /\ folder' = [folder EXCEPT ![r.edit.asset] = "partial"]
         /\ strays' = strays \cup {r.edit.asset}
  BY <1>1 DEF Abandon, RemoveFolder
<1>6. /\ folder' \in [Assets -> {"none", "partial", "complete"}] /\ strays' \subseteq Assets
      /\ \A a \in memory.assets : folder'[a] = folder[a]
  BY <1>2, <1>3, <1>5, CatalogFields DEF IInv, TypeOK
<1>7. TypeOK'
  BY <1>4, <1>6, ConfiguratorAssumption DEF IInv, TypeOK, output
<1>8. Quiet' /\ DurableSound' /\ MemorySound'
  BY <1>2, <1>6, OthersKept
<1>9. Locked' /\ Remembered' /\ RequestsSound'
  BY <1>2, <1>4 DEF IInv, Locked, Remembered, RequestsSound, output
<1>10. Accounted'
  <2>1. ASSUME NEW a \in Assets, folder'[a] # "none"
        PROVE  a \in memory.assets \/ a \in strays'
    <3>1. Claimed(a) => r.edit.do = "add" /\ a = r.edit.asset
      BY <1>1, <1>2 DEF Claimed
    <3>2. folder \in [Assets -> {"none", "partial", "complete"}]
      BY DEF IInv, TypeOK
    <3>3. CASE folder[a] # "none" /\ ~Claimed(a)
      BY <1>2, <1>5, <3>3 DEF IInv, Accounted
    <3>4. CASE r.edit.do = "add" /\ a = r.edit.asset
      BY <1>5, <2>1, <3>2, <3>4
    <3>5. CASE folder[a] = "none" /\ ~(r.edit.do = "add" /\ a = r.edit.asset)
      BY <1>3, <1>5, <2>1, <3>2, <3>5
    <3> QED BY <3>1, <3>3, <3>4, <3>5
  <2> QED BY <1>2, <2>1 DEF Accounted
<1>11. Settled'
  <2>1. \A d : ~AtWork(d)
    BY <1>1, <1>2 DEF AtWork
  <2> QED BY <2>1 DEF IInv, Settled, Wanted, output
<1> QED BY <1>7, <1>8, <1>9, <1>10, <1>11 DEF IInv

\* Staging leaves disk, memory and assignments alone.
LEMMA StageKeeps ==
    ASSUME IInv, NEW c \in Clients, At(c, "stage"),
           Goto(c, IF request[c].edit.do = "bind" THEN "assign" ELSE "commit"),
           UNCHANGED <<folder, strays, disk, running, memory, output>>
    PROVE  IInv'
<1>1. PICK r \in Request \cup {Idle} : r = request[c]
  BY DEF IInv, TypeOK
<1>2. /\ r # Idle /\ r.phase = "stage" /\ running /\ mutation = c
      /\ Planned(r) /\ Vetted(r) /\ Shown(r)
      /\ \A o \in Clients \ {c} : request[o] = Idle
      /\ memory = Load(disk)
  BY <1>1, AtWorkFacts DEF Phase
<1>3. /\ request' \in [Clients -> Request \cup {Idle}] /\ request'[c] # Idle
      /\ request'[c].phase = (IF r.edit.do = "bind" THEN "assign" ELSE "commit")
      /\ request'[c].edit = r.edit /\ request'[c].next = r.next
      /\ request'[c].old = r.old /\ request'[c].direct = r.direct
      /\ \A o \in Clients \ {c} : request'[o] = Idle
      /\ mutation' = c
  BY <1>1, <1>2, Goes DEF IInv, Phase
<1>4. TypeOK'
  BY <1>2, <1>3 DEF IInv, TypeOK, output
<1>5. Quiet' /\ DurableSound' /\ MemorySound'
  BY <1>2, OthersKept
<1>6. Locked' /\ Remembered'
  BY <1>2, <1>3 DEF IInv, Locked, Remembered, output
<1>7. Accounted'
  BY <1>1, <1>2, <1>3 DEF IInv, Accounted, Claimed
<1>8. RequestsSound'
  <2>1. Planned(request[c])'
    BY <1>2, <1>3 DEF Planned
  <2>2. Vetted(request[c])' /\ Stored(request[c])'
    BY <1>2, <1>3 DEF Vetted, Stored, Whole
  <2>3. Shown(request[c])'
    BY <1>2, <1>3 DEF Shown, Wanted, output
  <2> QED BY <1>3, <2>1, <2>2, <2>3 DEF RequestsSound
<1>9. Settled'
  <2>1. \A d : ~AtWork(d)
    BY <1>1, <1>2 DEF AtWork
  <2> QED BY <2>1 DEF IInv, Settled, Wanted, output
<1> QED BY <1>4, <1>5, <1>6, <1>7, <1>8, <1>9 DEF IInv

\* apply's assignment comes before the file says so.
LEMMA AssignKeeps == ASSUME IInv, NEW c \in Clients, Assign(c) PROVE IInv'
<1>1. PICK r \in Request \cup {Idle} : r = request[c]
  BY DEF IInv, TypeOK
<1>2. /\ r # Idle /\ r.phase = "assign" /\ running /\ mutation = c /\ r.edit \in Edits
      /\ Planned(r) /\ Vetted(r) /\ Shown(r)
      /\ \A o \in Clients \ {c} : request[o] = Idle
      /\ memory = Load(disk)
  BY <1>1, AtWorkFacts DEF Phase, Assign
<1>3. /\ r.edit.do = "bind" /\ r.edit.display \in Displays /\ r.edit.view \in Views
      /\ r.edit.display \in attached
  BY <1>2, EditFields DEF Planned, Shown
<1>4. /\ request' \in [Clients -> Request \cup {Idle}] /\ request'[c] # Idle
      /\ request'[c].phase = "commit" /\ request'[c].edit = r.edit /\ request'[c].next = r.next
      /\ request'[c].old = r.old /\ request'[c].direct = r.direct
      /\ \A o \in Clients \ {c} : request'[o] = Idle
      /\ mutation' = c
  BY <1>1, <1>2, Goes DEF IInv, Phase, Assign
<1>5. /\ live' = [live EXCEPT ![r.edit.display] = r.edit.view]
      /\ rerouted' = rerouted \ {r.edit.display}
      /\ UNCHANGED <<disk, folder, running, memory, putting, attached, strays>>
  BY <1>1 DEF Assign, durable
<1>6. TypeOK'
  BY <1>2, <1>3, <1>4, <1>5 DEF IInv, TypeOK
<1>7. DurableSound' /\ MemorySound' /\ Quiet'
  BY <1>2, <1>5, OthersKept
<1>8. Locked' /\ Remembered'
  BY <1>2, <1>4, <1>5 DEF IInv, Locked, Remembered
<1>9. Accounted'
  BY <1>1, <1>2, <1>3, <1>4, <1>5 DEF IInv, Accounted, Claimed
<1>10. RequestsSound'
  <2>1. Planned(request[c])'
    BY <1>2, <1>3, <1>4, <1>5 DEF Planned
  <2>2. Vetted(request[c])' /\ Stored(request[c])'
    BY <1>2, <1>4, <1>5 DEF Vetted, Stored, Whole
  <2>3. live'[r.edit.display] = r.edit.view
    BY <1>3, <1>5 DEF IInv, TypeOK
  <2>4. Shown(request[c])'
    BY <1>2, <1>3, <1>4, <1>5, <2>3 DEF Shown, Wanted
  <2> QED BY <1>4, <2>1, <2>2, <2>4 DEF RequestsSound
<1>11. Settled'
  <2>1. \A d : ~AtWork(d)
    BY <1>1, <1>2 DEF AtWork
  <2>2. AtWork(r.edit.display)'
    BY <1>3, <1>4 DEF AtWork
  <2>3. \A d \in attached : d # r.edit.display => live'[d] = live[d]
    BY <1>5 DEF IInv, TypeOK
  <2> QED BY <1>5, <2>1, <2>2, <2>3 DEF IInv, Settled, Wanted
<1> QED BY <1>6, <1>7, <1>8, <1>9, <1>10, <1>11 DEF IInv

\* The rename makes the edit durable: what a restart would load is now the edited catalog.
LEMMA RenameKeeps ==
    ASSUME IInv, NEW c \in Clients, At(c, "commit"), disk' = request[c].next,
           Goto(c, "publish"), UNCHANGED <<folder, strays, running, memory, output>>
    PROVE  /\ IInv'
           /\ request[c].edit \in Edits
           /\ Load(disk)' = Edited(Load(disk), request[c].edit) /\ Consistent(Load(disk)')
<1>1. PICK r \in Request \cup {Idle} : r = request[c]
  BY DEF IInv, TypeOK
<1>2. /\ r # Idle /\ r.phase = "commit" /\ running /\ mutation = c /\ r.edit \in Edits
      /\ r.next \in Catalogs /\ Planned(r) /\ Vetted(r) /\ Shown(r)
      /\ \A o \in Clients \ {c} : request[o] = Idle
      /\ memory = Load(disk) /\ memory \in Catalogs /\ Whole(memory) /\ Consistent(memory)
  BY <1>1, AtWorkFacts DEF Phase
<1>3. r.next = Edited(memory, r.edit) /\ Consistent(r.next) /\ Whole(r.next)
  BY <1>2 DEF Planned, Vetted
<1>4. /\ request' \in [Clients -> Request \cup {Idle}] /\ request'[c] # Idle
      /\ request'[c].phase = "publish" /\ request'[c].edit = r.edit /\ request'[c].next = r.next
      /\ request'[c].old = r.old /\ request'[c].direct = r.direct
      /\ \A o \in Clients \ {c} : request'[o] = Idle
      /\ mutation' = c
  BY <1>1, <1>2, Goes DEF IInv, Phase
<1>5. disk' = r.next /\ Load(disk)' = r.next
  <2>1. Load(r.next) = r.next
    BY <1>2, <1>3, LoadSame
  <2>2. disk' = r.next
    BY <1>1
  <2>3. Load(disk)' = Load(disk')
    BY DEF Load, Fresh
  <2> QED BY <2>1, <2>2, <2>3
<1>6. TypeOK'
  BY <1>2, <1>4, <1>5 DEF IInv, TypeOK, output
<1>7. Quiet' /\ Locked'
  BY <1>2, <1>4 DEF IInv, Quiet, Locked, output
<1>8. DurableSound'
  BY <1>3, <1>5 DEF DurableSound, Whole
<1>9. MemorySound'
  BY <1>2 DEF MemorySound, Whole
<1>10. Remembered'
  BY <1>4 DEF Remembered
<1>11. Accounted'
  BY <1>1, <1>2, <1>4 DEF IInv, Accounted, Claimed
<1>12. RequestsSound'
  <2>1. Planned(request[c])'
    BY <1>2, <1>4 DEF Planned
  <2>2. Vetted(request[c])' /\ Stored(request[c])'
    BY <1>3, <1>4, <1>5 DEF Vetted, Stored, Whole
  <2>3. Shown(request[c])'
    BY <1>2, <1>4 DEF Shown, output
  <2> QED BY <1>4, <2>1, <2>2, <2>3 DEF RequestsSound
<1>13. Settled'
  <2>1. CASE r.edit.do = "bind"
    <3>1. /\ r.edit.display \in Displays /\ r.edit.view \in Views
          /\ Edited(memory, r.edit).bindings =
                 [memory.bindings EXCEPT ![r.edit.display] = r.edit.view]
      BY <1>2, <2>1, EditFields, EditedFields
    <3>2. /\ Wanted(r.next, r.edit.display) = r.edit.view
          /\ \A d \in Displays : d # r.edit.display => Wanted(r.next, d) = Wanted(memory, d)
      BY <1>2, <1>3, <3>1, CatalogFields, NoneApart DEF Wanted
    <3>3. r.edit.display \in rerouted \/ live[r.edit.display] = r.edit.view
      BY <1>2, <2>1 DEF Shown
    <3>4. \A d : AtWork(d) => d = r.edit.display
      BY <1>1, <1>2 DEF AtWork
    <3>5. attached \subseteq Displays
      BY DEF IInv, TypeOK
    <3> QED BY <1>2, <1>5, <3>2, <3>3, <3>4, <3>5 DEF IInv, Settled, Wanted, output
  <2>2. CASE r.edit.do # "bind"
    <3>1. Edited(memory, r.edit).bindings = memory.bindings
      BY <1>2, <2>2, EditedFields
    <3>2. \A d : ~AtWork(d)
      BY <1>1, <1>2, <2>2 DEF AtWork
    <3> QED BY <1>2, <1>3, <1>5, <3>1, <3>2 DEF IInv, Settled, Wanted, output
  <2> QED BY <2>1, <2>2
<1>14. IInv'
  BY <1>6, <1>7, <1>8, <1>9, <1>10, <1>11, <1>12, <1>13 DEF IInv
<1> QED BY <1>1, <1>2, <1>3, <1>5, <1>14

\* An apply whose rename failed is about to restore the assignment it read.
LEMMA TurnBackKeeps ==
    ASSUME IInv, NEW c \in Clients, At(c, "commit"), request[c].edit.do = "bind",
           Goto(c, "rollback"), UNCHANGED <<folder, strays, disk, running, memory, output>>
    PROVE  IInv'
<1>1. PICK r \in Request \cup {Idle} : r = request[c]
  BY DEF IInv, TypeOK
<1>2. /\ r # Idle /\ r.phase = "commit" /\ running /\ mutation = c
      /\ Planned(r) /\ Vetted(r) /\ Shown(r)
      /\ \A o \in Clients \ {c} : request[o] = Idle
      /\ memory = Load(disk)
  BY <1>1, AtWorkFacts DEF Phase
<1>3. /\ request' \in [Clients -> Request \cup {Idle}] /\ request'[c] # Idle
      /\ request'[c].phase = "rollback" /\ request'[c].edit = r.edit /\ request'[c].next = r.next
      /\ request'[c].old = r.old /\ request'[c].direct = r.direct
      /\ \A o \in Clients \ {c} : request'[o] = Idle
      /\ mutation' = c
  BY <1>1, <1>2, Goes DEF IInv, Phase
<1>4. TypeOK'
  BY <1>2, <1>3 DEF IInv, TypeOK, output
<1>5. Quiet' /\ DurableSound' /\ MemorySound'
  BY <1>2, OthersKept
<1>6. Locked' /\ Remembered'
  BY <1>2, <1>3 DEF IInv, Locked, Remembered, output
<1>7. Accounted'
  BY <1>1, <1>2, <1>3 DEF IInv, Accounted, Claimed
<1>8. RequestsSound'
  <2>1. Planned(request[c])'
    BY <1>1, <1>2, <1>3 DEF Planned
  <2>2. Vetted(request[c])' /\ Stored(request[c])'
    BY <1>2, <1>3 DEF Vetted, Stored, Whole
  <2>3. Shown(request[c])'
    BY <1>2, <1>3 DEF Shown, Wanted, output
  <2> QED BY <1>3, <2>1, <2>2, <2>3 DEF RequestsSound
<1>9. Settled'
  <2>1. \A d : AtWork(d) => AtWork(d)'
    BY <1>1, <1>2, <1>3 DEF AtWork
  <2> QED BY <2>1 DEF IInv, Settled, Wanted, output
<1> QED BY <1>4, <1>5, <1>6, <1>7, <1>8, <1>9 DEF IInv

\* The memory follows the file.
LEMMA PublishKeeps == ASSUME IInv, NEW c \in Clients, Publish(c) PROVE IInv'
<1>1. PICK r \in Request \cup {Idle} : r = request[c]
  BY DEF IInv, TypeOK
<1>2. /\ r # Idle /\ r.phase = "publish" /\ running /\ mutation = c /\ r.edit \in Edits
      /\ r.next \in Catalogs /\ Planned(r) /\ Vetted(r) /\ Stored(r)
      /\ \A o \in Clients \ {c} : request[o] = Idle
      /\ memory \in Catalogs
  BY <1>1, AtWorkFacts DEF Phase, Publish
<1>3. r.next = Edited(memory, r.edit) /\ Consistent(r.next) /\ Whole(r.next) /\ disk = r.next
  BY <1>2 DEF Planned, Vetted, Stored
<1>4. Load(disk) = r.next
  BY <1>2, <1>3, LoadSame
<1>5. /\ memory' = r.next
      /\ UNCHANGED <<disk, folder, running, putting, attached, live, rerouted, strays>>
  BY <1>1 DEF Publish, durable, output
<1>6. /\ request' \in [Clients -> Request \cup {Idle}]
      /\ \A o \in Clients \ {c} : request'[o] = Idle
      /\ \/ /\ r.edit.do = "remove" /\ mutation' = c /\ request'[c] # Idle
            /\ request'[c].phase = "remove" /\ request'[c].edit = r.edit
         \/ r.edit.do # "remove" /\ mutation' = None /\ request'[c] = Idle
  <2>1. CASE r.edit.do = "remove"
    <3>1. Goto(c, "remove")
      BY <1>1, <2>1 DEF Publish
    <3> QED BY <1>1, <1>2, <2>1, <3>1, Goes DEF IInv, Phase
  <2>2. CASE r.edit.do # "remove"
    <3>1. Finish(c)
      BY <1>1, <2>2 DEF Publish
    <3> QED BY <1>1, <1>2, <2>2, <3>1, Ends DEF IInv
  <2> QED BY <2>1, <2>2
<1>7. /\ r.edit.do = "add" => r.next.assets = memory.assets \cup {r.edit.asset}
      /\ r.edit.do = "remove" => r.next.assets = memory.assets \ {r.edit.asset}
      /\ r.edit.do \notin {"add", "remove"} => r.next.assets = memory.assets
  <2>1. Edited(memory, r.edit).assets = IF r.edit.do = "add" THEN memory.assets \cup {r.edit.asset}
                                        ELSE IF r.edit.do = "remove"
                                        THEN memory.assets \ {r.edit.asset}
                                        ELSE memory.assets
    BY <1>2, EditedFields
  <2> QED BY <1>3, <2>1
<1>8. TypeOK'
  BY <1>2, <1>5, <1>6, ConfiguratorAssumption DEF IInv, TypeOK
<1>9. Quiet' /\ Locked'
  BY <1>2, <1>5, <1>6 DEF IInv, Quiet, Locked
<1>10. DurableSound' /\ MemorySound' /\ Remembered'
  BY <1>3, <1>4, <1>5 DEF IInv, DurableSound, MemorySound, Remembered, Whole
<1>11. Accounted'
  <2>1. ASSUME NEW a \in Assets, folder[a] # "none"
        PROVE  a \in r.next.assets \/ a \in strays \/ Claimed(a)'
    <3>1. a \in memory.assets \/ a \in strays \/ Claimed(a)
      BY <1>2, <2>1 DEF IInv, Accounted
    <3>2. Claimed(a) => r.edit.do = "add" /\ r.edit.asset = a
      BY <1>1, <1>2 DEF Claimed
    <3>3. r.edit.do = "remove" /\ r.edit.asset = a => Claimed(a)'
      BY <1>6 DEF Claimed
    <3> QED BY <1>7, <3>1, <3>2, <3>3
  <2> QED BY <1>5, <2>1 DEF Accounted
<1>12. RequestsSound'
  <2>1. ASSUME r.edit.do = "remove"
        PROVE  (/\ Planned(request[c]) /\ Vetted(request[c]) /\ Stored(request[c])
                /\ Shown(request[c]))'
    <3>1. Planned(request[c])'
      BY <1>5, <1>6, <1>7, <2>1 DEF Planned
    <3> QED BY <1>6, <2>1, <3>1 DEF Vetted, Stored, Shown
  <2> QED BY <1>6, <2>1 DEF RequestsSound
<1>13. Settled'
  <2>1. \A d : ~AtWork(d)
    BY <1>1, <1>2 DEF AtWork
  <2> QED BY <1>5, <2>1 DEF IInv, Settled, Wanted
<1> QED BY <1>8, <1>9, <1>10, <1>11, <1>12, <1>13 DEF IInv

\* The folder of a deleted asset goes, or is counted as stray.
LEMMA RemoveKeeps == ASSUME IInv, NEW c \in Clients, Remove(c) PROVE IInv'
<1>1. PICK r \in Request \cup {Idle} : r = request[c]
  BY DEF IInv, TypeOK
<1>2. /\ r # Idle /\ r.phase = "remove" /\ running /\ mutation = c /\ r.edit \in Edits
      /\ Planned(r) /\ \A o \in Clients \ {c} : request[o] = Idle
      /\ memory \in Catalogs /\ memory = Load(disk)
  BY <1>1, AtWorkFacts DEF Phase, Remove
<1>3. r.edit.asset \notin memory.assets /\ r.edit.asset \in Assets
  BY <1>2, EditFields DEF Planned
<1>4. /\ request' \in [Clients -> Request \cup {Idle}] /\ \A o \in Clients : request'[o] = Idle
      /\ mutation' = None
  BY <1>1, <1>2, Ends DEF IInv, Remove
<1>5. /\ \/ folder' = [folder EXCEPT ![r.edit.asset] = "none"] /\ UNCHANGED strays
         \/ folder' = [folder EXCEPT ![r.edit.asset] = "partial"]
            /\ strays' = strays \cup {r.edit.asset}
      /\ UNCHANGED <<disk, running, memory, putting, attached, live, rerouted>>
  BY <1>1 DEF Remove, RemoveFolder, output
<1>6. /\ folder' \in [Assets -> {"none", "partial", "complete"}] /\ strays' \subseteq Assets
      /\ \A a \in memory.assets : folder'[a] = folder[a]
      /\ \A a \in Assets : a # r.edit.asset => folder'[a] = folder[a]
      /\ folder'[r.edit.asset] # "none" => r.edit.asset \in strays'
      /\ strays \subseteq strays'
  BY <1>2, <1>3, <1>5, CatalogFields DEF IInv, TypeOK
<1>7. TypeOK'
  BY <1>4, <1>5, <1>6, ConfiguratorAssumption DEF IInv, TypeOK
<1>8. Quiet' /\ DurableSound' /\ MemorySound'
  BY <1>2, <1>5, <1>6, OthersKept
<1>9. Locked' /\ Remembered' /\ RequestsSound'
  BY <1>2, <1>4, <1>5 DEF IInv, Locked, Remembered, RequestsSound
<1>10. Accounted'
  <2>1. \A a \in Assets : Claimed(a) => a = r.edit.asset
    BY <1>1, <1>2 DEF Claimed
  <2> QED BY <1>2, <1>5, <1>6, <2>1 DEF IInv, Accounted
<1>11. Settled'
  <2>1. \A d : ~AtWork(d)
    BY <1>1, <1>2 DEF AtWork
  <2> QED BY <1>5, <2>1 DEF IInv, Settled, Wanted
<1> QED BY <1>7, <1>8, <1>9, <1>10, <1>11 DEF IInv

\* The display shows what is saved for it again, or the failure is reported.
LEMMA RollbackKeeps == ASSUME IInv, NEW c \in Clients, Rollback(c) PROVE IInv'
<1>1. PICK r \in Request \cup {Idle} : r = request[c]
  BY DEF IInv, TypeOK
<1>2. /\ r # Idle /\ r.phase = "rollback" /\ running /\ mutation = c /\ r.edit \in Edits
      /\ r.old \in Views \cup {Elsewhere} /\ r.direct \in BOOLEAN
      /\ Planned(r) /\ Shown(r)
      /\ \A o \in Clients \ {c} : request[o] = Idle
      /\ memory = Load(disk)
  BY <1>1, AtWorkFacts DEF Phase, Rollback
<1>3. /\ r.edit.do = "bind" /\ r.edit.display \in Displays /\ r.edit.display \in attached
      /\ ~r.direct => r.old = Wanted(memory, r.edit.display)
  BY <1>2, EditFields DEF Planned, Shown
<1> DEFINE d == r.edit.display
           restored == r.old \in Saved(memory) \cup {Elsewhere}
<1>4. /\ live' = IF restored THEN [live EXCEPT ![d] = r.old] ELSE live
      /\ rerouted' = IF restored /\ ~r.direct THEN rerouted \ {d} ELSE rerouted \cup {d}
      /\ UNCHANGED <<disk, folder, running, memory, putting, attached, strays>>
  BY <1>1 DEF Rollback, durable
<1>5. /\ request' \in [Clients -> Request \cup {Idle}] /\ \A o \in Clients : request'[o] = Idle
      /\ mutation' = None
  BY <1>1, <1>2, Ends DEF IInv, Rollback
<1>6. /\ live' \in [Displays -> Views \cup {Elsewhere}]
      /\ \A o \in Displays : o # d => live'[o] = live[o]
      /\ d \in rerouted' \/ (~r.direct /\ live'[d] = r.old)
  BY <1>2, <1>3, <1>4 DEF IInv, TypeOK
<1>7. TypeOK'
  BY <1>3, <1>4, <1>5, <1>6, ConfiguratorAssumption DEF IInv, TypeOK
<1>8. Quiet' /\ DurableSound' /\ MemorySound'
  BY <1>2, <1>4, OthersKept
<1>9. Locked' /\ Remembered' /\ RequestsSound'
  BY <1>2, <1>4, <1>5 DEF IInv, Locked, Remembered, RequestsSound
<1>10. Accounted'
  <2>1. \A a \in Assets : ~Claimed(a)
    BY <1>1, <1>2, <1>3 DEF Claimed
  <2> QED BY <1>2, <1>4, <2>1 DEF IInv, Accounted
<1>11. Settled'
  <2>1. \A o : AtWork(o) => o = d
    BY <1>1, <1>2 DEF AtWork
  <2>2. \A o \in attached : o # d => (o \in rerouted' <=> o \in rerouted) /\ live'[o] = live[o]
    BY <1>4, <1>6 DEF IInv, TypeOK
  <2>3. d \in rerouted' \/ live'[d] = Wanted(Load(disk), d)
    BY <1>2, <1>3, <1>6
  <2> QED BY <1>4, <2>1, <2>2, <2>3 DEF IInv, Settled, Wanted
<1> QED BY <1>7, <1>8, <1>9, <1>10, <1>11 DEF IInv

-----------------------------------------------------------------------------
(* The theorems. *)

\* What a step does to what a restart would load: nothing, or one allowed edit.
LEMMA EditStep ==
    ASSUME IInv, NEW c \in Clients, Edit(c)
    PROVE  /\ IInv'
           /\ \/ UNCHANGED disk
              \/ \E e \in Edits : /\ Load(disk)' = Edited(Load(disk), e)
                                  /\ Consistent(Load(disk)')
<1>1. CASE Begin(c)
  BY <1>1, BeginKeeps DEF Begin
<1>2. CASE WriteFrames(c)
  BY <1>2, WriteFramesKeeps, AbandonKeeps DEF WriteFrames
<1>3. CASE Stage(c)
  BY <1>3, StageKeeps, AbandonKeeps DEF Stage
<1>4. CASE Assign(c)
  BY <1>4, AssignKeeps DEF Assign, durable
<1>5. CASE Rename(c)
  <2>1. CASE disk' = request[c].next /\ Goto(c, "publish") /\ UNCHANGED <<folder, strays>>
    BY <1>5, <2>1, RenameKeeps DEF Rename
  <2>2. CASE /\ request[c].edit.do = "bind" /\ Goto(c, "rollback")
             /\ UNCHANGED <<folder, strays, disk>>
    BY <1>5, <2>2, TurnBackKeeps DEF Rename
  <2>3. CASE request[c].edit.do # "bind" /\ Abandon(c) /\ UNCHANGED disk
    BY <1>5, <2>3, AbandonKeeps DEF Rename
  <2> QED BY <1>5, <2>1, <2>2, <2>3 DEF Rename
<1>6. CASE Publish(c)
  BY <1>6, PublishKeeps DEF Publish, durable
<1>7. CASE Remove(c)
  BY <1>7, RemoveKeeps DEF Remove
<1>8. CASE Rollback(c)
  BY <1>8, RollbackKeeps DEF Rollback, durable
<1> QED BY <1>1, <1>2, <1>3, <1>4, <1>5, <1>6, <1>7, <1>8 DEF Edit

\* The same for every step, stuttering included.
LEMMA Step ==
    ASSUME IInv, [Next]_vars
    PROVE  /\ IInv'
           /\ \/ UNCHANGED disk
              \/ \E e \in Edits : /\ Load(disk)' = Edited(Load(disk), e)
                                  /\ Consistent(Load(disk)')
<1>1. CASE Start
  BY <1>1, StartKeeps DEF Start
<1>2. CASE StartFails
  BY <1>2, StartFailsKeeps DEF StartFails
<1>3. CASE Crash
  BY <1>3, CrashKeeps DEF Crash, durable
<1>4. CASE ValidateDirect
  BY <1>4, ValidateKeeps DEF ValidateDirect, durable
<1>5. CASE AssignDirect
  BY <1>5, AssignDirectKeeps DEF AssignDirect, durable
<1>6. CASE \E c \in Clients : Edit(c)
  BY <1>6, EditStep
<1>7. CASE UNCHANGED vars
  <2>1. UNCHANGED <<disk, folder, running, memory, mutation, request, putting, attached, live,
                    rerouted, strays>>
    BY <1>7 DEF vars, durable, output
  <2>2. TypeOK' /\ Quiet' /\ Locked' /\ DurableSound' /\ MemorySound' /\ Remembered'
    BY <2>1 DEF IInv, TypeOK, Quiet, Locked, DurableSound, MemorySound, Remembered, Whole
  <2>3. Accounted' /\ RequestsSound' /\ Settled'
    BY <2>1 DEF IInv, Accounted, Claimed, RequestsSound, Planned, Vetted, Stored, Shown, Whole,
                Settled, AtWork
  <2> QED BY <2>1, <2>2, <2>3 DEF IInv
<1> QED BY <1>1, <1>2, <1>3, <1>4, <1>5, <1>6, <1>7 DEF Next

\* The inductive invariant.
LEMMA Invariant == Spec => []IInv
<1>1. Init => IInv
  BY InitSound
<1>2. IInv /\ [Next]_vars => IInv'
  BY Step
<1> QED BY <1>1, <1>2, PTL DEF Spec

\* Whatever edit a crash cuts off, and wherever: the next start accepts the file, and the
\* media folders are accounted for.
THEOREM RestartsSoundly == Spec => []RestartSound
<1>1. IInv => RestartSound
  <2> SUFFICES ASSUME IInv PROVE RestartSound
    OBVIOUS
  <2>1. AlwaysLoadable
    <3>1. disk # None => Intact(disk) /\ WithinLimits(disk)
      BY DEF IInv, DurableSound, Legacy, Consistent
    <3>2. disk # None => Load(disk).assets = disk.assets
      BY LoadConsistent DEF IInv, TypeOK, DurableSound
    <3> QED BY <3>1, <3>2 DEF AlwaysLoadable, Loadable, IInv, DurableSound, Whole
  <2>2. MediaAccounted
    <3>1. mutation = None => \A a \in Assets : ~Claimed(a)
      BY ConfiguratorAssumption DEF IInv, Locked, Claimed
    <3> QED BY <3>1 DEF MediaAccounted, IInv, Accounted
  <2> QED BY <2>1, <2>2 DEF RestartSound, IInv
<1> QED BY <1>1, Invariant, PTL

\* A render beside the edits: what it holds has its type.
RenderInv == rendering # None => /\ rendering \in Render
                                 /\ rendering.found # None => rendering.found \in rendering.design.assets

\* The fields of a render.
LEMMA RenderFields ==
    ASSUME NEW r \in Render
    PROVE  /\ r.view \in Views /\ r.design \in Designs /\ r.drawn \in SUBSET Assets
           /\ r.found \in Assets \cup {None} /\ r.failed \in BOOLEAN
           /\ r.design.assets \in SUBSET Assets
BY CatalogAssumption DEF Render, Layout

\* What the next step makes of a render, field by field.
LEMMA RenderSteps ==
    ASSUME NEW r \in Render, NEW s
    PROVE  /\ s = [r EXCEPT !.failed = TRUE] =>
                 s \in Render /\ s.failed /\ s.found = r.found /\ s.design = r.design
           /\ \A a \in Assets : s = [r EXCEPT !.found = a] =>
                 s \in Render /\ s.failed = r.failed /\ s.found = a /\ s.design = r.design
           /\ \A d \in SUBSET Assets : s = [r EXCEPT !.drawn = d, !.found = None] =>
                 s \in Render /\ s.failed = r.failed /\ s.found = None
<1>1. r \in [view : Views, design : Designs, drawn : SUBSET Assets,
            found : Assets \cup {None}, failed : BOOLEAN]
  BY DEF Render
<1>2. ASSUME s = [r EXCEPT !.failed = TRUE]
      PROVE  s = [view |-> r.view, design |-> r.design, drawn |-> r.drawn,
                  found |-> r.found, failed |-> TRUE]
  BY <1>1, <1>2
<1>3. ASSUME NEW a \in Assets, s = [r EXCEPT !.found = a]
      PROVE  s = [view |-> r.view, design |-> r.design, drawn |-> r.drawn,
                  found |-> a, failed |-> r.failed]
  BY <1>1, <1>3
<1>4. ASSUME NEW d \in SUBSET Assets, s = [r EXCEPT !.drawn = d, !.found = None]
      PROVE  s = [view |-> r.view, design |-> r.design, drawn |-> d,
                  found |-> None, failed |-> r.failed]
  BY <1>1, <1>4
<1>5. ASSUME s = [r EXCEPT !.failed = TRUE]
      PROVE  s \in Render /\ s.failed /\ s.found = r.found /\ s.design = r.design
  BY <1>2, <1>5, RenderFields DEF Render
<1>6. ASSUME NEW a \in Assets, s = [r EXCEPT !.found = a]
      PROVE  s \in Render /\ s.failed = r.failed /\ s.found = a /\ s.design = r.design
  BY <1>3, <1>6, RenderFields DEF Render
<1>7. ASSUME NEW d \in SUBSET Assets, s = [r EXCEPT !.drawn = d, !.found = None]
      PROVE  s \in Render /\ s.failed = r.failed /\ s.found = None
  BY <1>4, <1>7, RenderFields DEF Render
<1> QED BY <1>5, <1>6, <1>7, Zenon

\* The invariants hold after every step of an edit and of a render.
LEMMA RenderInvariant == RenderSpec => [](IInv /\ RenderInv)
<1>1. RenderInit => IInv /\ RenderInv
  BY InitSound DEF RenderInit, RenderInv
<1>2. IInv /\ RenderInv /\ [RenderNext]_rendervars => IInv' /\ RenderInv'
  <2> SUFFICES ASSUME IInv, RenderInv, [RenderNext]_rendervars PROVE IInv' /\ RenderInv'
    OBVIOUS
  <2>1. [Next]_vars
    BY DEF RenderNext, Beside, rendervars
  <2>2. IInv'
    BY <2>1, Step
  <2>3. CASE Beside \/ UNCHANGED rendervars
    <3>1. rendering' = rendering \/ rendering' = None
      BY <2>3 DEF Beside, rendervars
    <3>2. RenderInv'
      BY <3>1, Zenon DEF RenderInv
    <3> QED BY <2>2, <3>2
  <2>4. CASE ReadLayout
    <3>1. PICK v \in Saved(memory) :
             rendering' = [view |-> v, design |-> memory.layouts[v], drawn |-> {},
                           found |-> None, failed |-> FALSE]
      BY <2>4 DEF ReadLayout
    <3>2. v \in Views /\ memory.layouts[v] \in Designs
      BY CatalogFields DEF IInv, TypeOK, Saved
    <3>3. rendering' \in Render
      BY <3>1, <3>2 DEF Render
    <3> QED BY <2>2, <3>1, <3>3 DEF RenderInv
  <2>5. CASE LookUp
    <3>1. PICK a \in rendering.design.assets \ rendering.drawn :
             IF a \in memory.assets THEN rendering' = [rendering EXCEPT !.found = a] ELSE Fail
      BY <2>5 DEF LookUp
    <3>2. rendering \in Render /\ rendering.found = None
      BY <2>5 DEF LookUp, Drawing, RenderInv
    <3>3. a \in Assets
      BY <3>1, <3>2, RenderFields
    <3>4. CASE rendering' = [rendering EXCEPT !.found = a]
      <4>1. rendering' \in Render /\ rendering'.found = a /\ rendering'.design = rendering.design
        BY <3>2, <3>3, <3>4, RenderSteps, Zenon
      <4> QED BY <2>2, <3>1, <4>1 DEF RenderInv
    <3>5. CASE Fail
      <4>1. rendering' \in Render /\ rendering'.found = None
        BY <3>2, <3>5, RenderSteps, Zenon DEF Fail
      <4> QED BY <2>2, <4>1 DEF RenderInv
    <3> QED BY <3>1, <3>4, <3>5
  <2>6. CASE OpenFile
    <3>1. rendering \in Render /\ rendering.found \in Assets
      BY <2>6, RenderFields DEF OpenFile, Drawing, RenderInv
    <3>2. CASE rendering' = [rendering EXCEPT !.drawn = @ \cup {rendering.found}, !.found = None]
      <4>1. rendering.drawn \cup {rendering.found} \in SUBSET Assets
        BY <3>1, RenderFields
      <4>2. rendering' \in Render /\ rendering'.found = None
        <5> DEFINE d == rendering.drawn \cup {rendering.found}
        <5>1. rendering' = [rendering EXCEPT !.drawn = d, !.found = None] /\ d \in SUBSET Assets
          BY <3>2, <4>1
        <5> HIDE DEF d
        <5> QED BY <3>1, <5>1, RenderSteps, Zenon
      <4> QED BY <2>2, <4>2 DEF RenderInv
    <3>3. CASE Fail
      <4>1. /\ rendering' \in Render
            /\ rendering'.found = rendering.found /\ rendering'.design = rendering.design
        BY <3>1, <3>3, RenderSteps, Zenon DEF Fail
      <4>2. rendering # None /\ rendering.found \in rendering.design.assets
        BY <2>6 DEF OpenFile, Drawing, RenderInv
      <4> QED BY <2>2, <4>1, <4>2 DEF RenderInv
    <3> QED BY <2>6, <3>2, <3>3 DEF OpenFile
  <2>7. CASE FinishRender
    BY <2>2, <2>7 DEF FinishRender, RenderInv
  <2> QED BY <2>3, <2>4, <2>5, <2>6, <2>7 DEF RenderNext, RenderStep
<1> QED BY <1>1, <1>2, PTL DEF RenderSpec

\* A layout in memory has all its media, so that one which misses any is another.
LEMMA Overtaken ==
    ASSUME IInv, running, NEW v \in Views, NEW l \in Designs, NEW a \in l.assets,
           a \in Assets, a \notin memory.assets \/ folder[a] # "complete"
    PROVE  memory.layouts[v] # l
<1>1. SUFFICES ASSUME memory.layouts[v] = l PROVE FALSE
  OBVIOUS
<1>2. v \in Saved(memory)
  BY <1>1, NoneApart DEF Saved
<1> QED BY <1>1, <1>2 DEF IInv, MemorySound, Consistent, Intact, Whole

\* No edit, at any of its steps, takes the media from a layout that a render copied, unless
\* that layout is saved anew or deleted first.
THEOREM RendersMissOnlyIfStale == RenderSpec => OnlyStaleRendersFail
<1> DEFINE Overtakes == rendering # None /\ rendering' # None
                         /\ ~rendering.failed /\ rendering'.failed
                         => memory.layouts[rendering.view] # rendering.design
<1>1. IInv /\ RenderInv /\ [RenderNext]_rendervars => [Overtakes]_rendervars
  <2> SUFFICES ASSUME IInv, RenderInv, RenderNext, rendering # None, rendering' # None,
                      ~rendering.failed, rendering'.failed
               PROVE  memory.layouts[rendering.view] # rendering.design
    BY DEF rendervars
  <2>1. rendering \in Render
    BY DEF RenderInv
  <2>2. rendering' # rendering
    OBVIOUS
  <2>3. ~Beside /\ ~FinishRender
    BY <2>2 DEF Beside, FinishRender
  <2>4. ~ReadLayout
    <3> SUFFICES ASSUME ReadLayout PROVE FALSE
      OBVIOUS
    <3>1. PICK v \in Saved(memory) :
             rendering' = [view |-> v, design |-> memory.layouts[v], drawn |-> {},
                           found |-> None, failed |-> FALSE]
      BY DEF ReadLayout
    <3> QED BY <3>1
  <2>5. CASE LookUp
    <3>1. PICK a \in rendering.design.assets \ rendering.drawn :
             IF a \in memory.assets THEN rendering' = [rendering EXCEPT !.found = a] ELSE Fail
      BY <2>5 DEF LookUp
    <3>2. a \in Assets /\ rendering.design \in Designs /\ rendering.view \in Views
      BY <2>1, <3>1, RenderFields
    <3>3. a \notin memory.assets
      <4> SUFFICES ASSUME rendering' = [rendering EXCEPT !.found = a] PROVE FALSE
        BY <3>1
      <4>1. rendering'.failed = rendering.failed
        BY <2>1, <3>2, RenderSteps, Zenon
      <4> QED BY <4>1
    <3> QED BY <2>5, <3>1, <3>2, <3>3, Overtaken DEF LookUp, Drawing
  <2>6. CASE OpenFile
    <3>1. /\ rendering.found \in rendering.design.assets /\ rendering.found \in Assets
          /\ rendering.design \in Designs /\ rendering.view \in Views
      BY <2>1, <2>6, RenderFields DEF OpenFile, RenderInv
    <3>2. folder[rendering.found] # "complete"
      <4> SUFFICES ASSUME rendering' = [rendering EXCEPT !.drawn = @ \cup {rendering.found},
                                                         !.found = None]
                   PROVE  FALSE
        BY <2>6 DEF OpenFile
      <4> DEFINE d == rendering.drawn \cup {rendering.found}
      <4>1. rendering' = [rendering EXCEPT !.drawn = d, !.found = None] /\ d \in SUBSET Assets
        BY <2>1, <3>1, RenderFields
      <4> HIDE DEF d
      <4>2. rendering'.failed = rendering.failed
        BY <2>1, <4>1, RenderSteps, Zenon
      <4> QED BY <4>2
    <3> QED BY <2>6, <3>1, <3>2, Overtaken DEF OpenFile, Drawing
  <2> QED BY <2>3, <2>4, <2>5, <2>6 DEF RenderNext, RenderStep
<1> QED BY <1>1, RenderInvariant, PTL DEF RenderSpec, OnlyStaleRendersFail

\* A display shows what is saved for it, through failed applies, rollbacks and restarts.
THEOREM BindingShown == Spec => []BoundIsLive
<1>1. IInv => BoundIsLive
  <2> SUFFICES ASSUME IInv, NEW d \in attached, d \notin rerouted,
                      d \notin {request[c].edit.display : c \in Applying}
               PROVE  live[d] = IF Load(disk).bindings[d] # None THEN Load(disk).bindings[d]
                                ELSE Configured[d]
    BY DEF BoundIsLive
  <2>1. ~AtWork(d)
    BY DEF AtWork, Applying
  <2> QED BY <2>1 DEF IInv, Settled, Wanted
<1> QED BY <1>1, Invariant, PTL

\* Library speaks of catalogs and edits as Configurator does.
LEMMA SameCatalogs ==
    /\ Store!Catalogs = Catalogs /\ Store!Edits = Edits
    /\ \A c : Store!Consistent(c) <=> Consistent(c)
    /\ \A c, e : Store!Edited(c, e) = Edited(c, e)
<1>1. Store!Catalogs = Catalogs
  BY DEF Store!Catalogs, Catalogs, Store!Layout, Layout
<1>2. Store!Edits = Edits
  BY DEF Store!Edits, Edits
<1>3. ASSUME NEW c PROVE Store!Consistent(c) <=> Consistent(c)
  <2>1. Store!Saved(c) = Saved(c) /\ Store!Bound(c) = Bound(c)
    BY DEF Store!Saved, Saved, Store!Bound, Bound
  <2>2. Store!Used(c) = Used(c)
    BY <2>1 DEF Store!Used, Used
  <2>3. Store!Total(c.assets) = Total(c.assets)
    BY DEF Store!Total, Total, Store!MapThenSumSet, MapThenSumSet, Store!MapThenFoldSet,
           MapThenFoldSet
  <2>4. Store!Intact(c) <=> Intact(c)
    BY <2>1, <2>2 DEF Store!Intact, Intact
  <2>5. Store!Fits(c) <=> Fits(c)
    BY <2>1 DEF Store!Fits, Fits
  <2>6. Store!WithinLimits(c) <=> WithinLimits(c)
    <3>1. \A s : Store!Cardinality(s) = Cardinality(s)
      BY DEF Store!Cardinality, Cardinality
    <3> QED BY <2>1, <2>3, <3>1 DEF Store!WithinLimits, WithinLimits
  <2> QED BY <2>1, <2>4, <2>5, <2>6 DEF Store!Consistent, Consistent
<1>4. \A c, e : Store!Edited(c, e) = Edited(c, e)
  BY DEF Store!Edited, Edited
<1> QED BY <1>1, <1>2, <1>3, <1>4

\* The files, the memory, the mutex and the failures between them implement one store that
\* each edit changes in one step or not at all.
THEOREM ImplementsStore == Spec => ImplementsLibrary
<1>1. Init => Store!LibraryInit
  <2> SUFFICES ASSUME Init PROVE Store!LibraryInit
    OBVIOUS
  <2>1. Load(disk) \in Catalogs /\ Consistent(Load(disk))
    BY InitSound, LoadConsistent DEF IInv, TypeOK, DurableSound
  <2> QED BY <2>1, SameCatalogs DEF Store!LibraryInit
<1>2. IInv /\ [Next]_vars => [Store!LibraryNext]_(Load(disk))
  <2> SUFFICES ASSUME IInv, [Next]_vars PROVE [Store!LibraryNext]_(Load(disk))
    OBVIOUS
  <2>1. CASE UNCHANGED disk
    BY <2>1 DEF Load, Fresh
  <2>2. CASE \E e \in Edits : Load(disk)' = Edited(Load(disk), e) /\ Consistent(Load(disk)')
    BY <2>2, SameCatalogs DEF Store!LibraryNext
  <2> QED BY <2>1, <2>2, Step
<1> QED BY <1>1, <1>2, Invariant, PTL DEF Spec, ImplementsLibrary, Store!LibrarySpec
=============================================================================
