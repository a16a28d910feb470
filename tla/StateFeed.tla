------------------------------ MODULE StateFeed ------------------------------
(***************************************************************************)
(* What the runtime promises the readers of its snapshots, without locks,  *)
(* channels or goroutines.  There is one authoritative snapshot that only  *)
(* moves forward.  A reader is shown snapshots from time to time: it may   *)
(* skip some, it is never shown one older than the one before, and never   *)
(* one that the runtime has not reached.                                   *)
(***************************************************************************)
EXTENDS Snapshots

CONSTANTS Readers,      \* subscriptions
          None          \* no snapshot yet

VARIABLES state,        \* the authoritative snapshot
          view          \* the last snapshot each reader was shown, or None

feedVars == <<state, view>>

FeedInit == /\ state = [m \in Modules |-> NoEntry]
            /\ view = [r \in Readers |-> None]

\* The runtime moves on.
Advance == /\ state' \in Snapshot
           /\ Follows(state, state')
           /\ UNCHANGED view

\* Reader r is shown a snapshot between its last one and the current one.
Show(r) == \E s \in Snapshot :
    /\ view[r] # None => Follows(view[r], s)
    /\ Follows(s, state)
    /\ view' = [view EXCEPT ![r] = s]
    /\ UNCHANGED state

FeedNext == Advance \/ \E r \in Readers : Show(r)

FeedSpec == FeedInit /\ [][FeedNext]_feedVars
=============================================================================
