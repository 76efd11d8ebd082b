---------------------------- MODULE MCProofCache ---------------------------
(***************************************************************************)
(* ProofCache on a chain h0 - hA and a heavier branch h0 - hB - hC, each   *)
(* with a name tree of its own.  The name has a value at hA and another    *)
(* one at hB, which the cache limit evicts at every tick, and is gone at   *)
(* hC.  Two resolutions, an honest peer y and a faulty peer x that is      *)
(* asked first.                                                            *)
(***************************************************************************)
EXTENDS ProofCache, TLC

CONSTANTS h0, hA, hB, hC, n, v, w, x, y, t1, t2

MCHeader == {h0, hA, hB, hC}
MCPrevBlock == h0 :> None @@ hA :> h0 @@ hB :> h0 @@ hC :> hB
MCHeight == h0 :> 0 @@ hA :> 1 @@ hB :> 1 @@ hC :> 2
MCChainWork == h0 :> 1 @@ hA :> 2 @@ hB :> 3 @@ hC :> 4
MCTreeRoot == h0 :> "g" @@ hA :> "a" @@ hB :> "b" @@ hC :> "c"
MCCommitted == [root \in {"g", "a", "b", "c"} |->
                 [k \in Name |-> IF root = "a" THEN v ELSE IF root = "b" THEN w ELSE Absent]]

MCRank == x :> 1 @@ y :> 2
MCGroup == x :> 1 @@ y :> 2
============================================================================
