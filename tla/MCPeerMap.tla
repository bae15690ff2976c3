----------------------------- MODULE MCPeerMap ------------------------------
(***************************************************************************)
(* Two addresses, one of them configured and one known to the seeds.       *)
(***************************************************************************)
EXTENDS PeerMap

CONSTANTS a1, a2, i1, i2

OneConfigured == <<a1>>
=============================================================================
