---------------------------- MODULE MCConfigurator ----------------------------
(* Two displays, one saved layout beside two default views, two assets of   *)
(* which the larger one fills the media quota.  Renders are looked at on a  *)
(* server without displays, which have no part in them.                     *)
EXTENDS Renderer, TLC

CONSTANTS pump, cyclops, mine, a1, a2, d1, d2, c1, c2

Wide == [canvas |-> "640x480", assets |-> {}]
Photo == [canvas |-> "640x480", assets |-> {a1}]
Round == [canvas |-> "240x240", assets |-> {}]

MCDesigns == {Wide, Photo, Round}
MCDefaultDesign == pump :> Wide @@ cyclops :> Round
MCDisplayCanvas == d1 :> "640x480" @@ d2 :> "240x240"
MCBytes == a1 :> 1 @@ a2 :> 2
MCConfigured == d1 :> mine @@ d2 :> Elsewhere

RenderBound == rendering # None => attached = {}

Symmetry == Permutations(Clients)
=============================================================================
