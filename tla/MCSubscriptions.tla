--------------------------- MODULE MCSubscriptions ----------------------------
(* A history of one day of two ticks, so that the instant and the date of    *)
(* expiry differ.  One configuration is about accounts and requests, of which  *)
(* r2 is attributed to a1, the other about sessions.                         *)
EXTENDS Subscriptions, TLC

CONSTANTS a1, a2, r1, r2, s1, s2

MCAccountOf == [r \in Requests |-> IF r = r2 THEN a1 ELSE None]
MCSessionOf == [r \in Requests |-> s1]
MCModeOf == [r \in Requests |-> IF r = r2 THEN "subscription" ELSE "unknown"]
MCThreshold == "browser" :> 0 @@ "native" :> 1
=============================================================================
