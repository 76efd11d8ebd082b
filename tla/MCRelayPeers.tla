--------------------------- MODULE MCRelayPeers ----------------------------
(***************************************************************************)
(* RelayPeers on two addresses, x and y, that share a group.  Scores       *)
(* keep the order of the real ones: reward <= transient < ban.             *)
(***************************************************************************)
EXTENDS RelayPeers, TLC

CONSTANTS x, y

MCRank == x :> 1 @@ y :> 2
MCGroup == x :> 1 @@ y :> 1
============================================================================
