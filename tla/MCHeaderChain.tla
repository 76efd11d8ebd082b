---------------------------- MODULE MCHeaderChain --------------------------
(***************************************************************************)
(* HeaderChain on a small block tree: a fork b that ties with and then     *)
(* overtakes branch a, a header a3 that contradicts the checkpoint at its  *)
(* height, one without proof of work and one with unexpected bits.  A      *)
(* batch that leaves a parent out presents an orphan.                      *)
(***************************************************************************)
EXTENDS HeaderChain, TLC

CONSTANTS g, a1, a2, a3, b1, b2, nopow, oddbits, pinned

MCHeader == {g, a1, a2, a3, b1, b2, nopow, oddbits}
MCPrevBlock == g :> None @@ a1 :> g @@ a2 :> a1 @@ a3 :> a2 @@ b1 :> g @@ b2 :> b1
               @@ nopow :> a1 @@ oddbits :> b1
\* b1 ties with a1; b2 outweighs a2.
MCWork == [h \in MCHeader |-> IF h = b2 THEN 2 ELSE 1]
MCValidBits == MCHeader \ {oddbits}
MCValidPow == MCHeader \ {nopow}
MCCheckpoint == 3 :> pinned
============================================================================
