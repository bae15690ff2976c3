------------------------------ MODULE MCThreads ------------------------------
(***************************************************************************)
(* Two peers for the tasks of a node.                                      *)
(***************************************************************************)
EXTENDS Threads

CONSTANTS p1, p2

TwoPeers == {p1, p2}
=============================================================================
