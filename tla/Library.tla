------------------------------- MODULE Library --------------------------------
(***************************************************************************)
(* What the configurator promises its clients: one durable library that    *)
(* every edit changes in one step or not at all, on top of every edit      *)
(* before it, and that no edit can leave inconsistent.  There are no       *)
(* files, no memory, no locks, no crashes and no failures.                 *)
(***************************************************************************)
EXTENDS Catalog

VARIABLE store

LibraryInit == store \in Catalogs /\ Consistent(store)

LibraryNext == \E e \in Edits :
    /\ store' = Edited(store, e)
    /\ Consistent(store')

LibrarySpec == LibraryInit /\ [][LibraryNext]_store
=============================================================================
