----------------------------- MODULE MCBlockTree -----------------------------
(***************************************************************************)
(* Small header graphs for BlockTree.  z0 is the anchor; a1, a2, ... and    *)
(* b1, b2, ... are two chains on top of it, c2 a second child of a1 and x3 *)
(* a second child of b2.                                                   *)
(***************************************************************************)
EXTENDS BlockTree, TLC

CONSTANTS z0, a1, a2, a3, a4, b1, b2, b3, c2, x3, fc

Parents ==
    z0 :> NoHash @@ a1 :> z0 @@ a2 :> a1 @@ a3 :> a2 @@ a4 :> a3
    @@ b1 :> z0 @@ b2 :> b1 @@ b3 :> b2 @@ c2 :> a1 @@ x3 :> b2

Depths ==
    z0 :> 0 @@ a1 :> 1 @@ a2 :> 2 @@ a3 :> 3 @@ a4 :> 4
    @@ b1 :> 1 @@ b2 :> 2 @@ b3 :> 3 @@ c2 :> 2 @@ x3 :> 3

MCPrevOf == [h \in Hash |-> Parents[h]]
MCRank == [h \in Hash |-> Depths[h]]

(* One difficulty for all headers: regtest, or a stretch without retarget. *)
OneBits == {"low"}
AllLow == [h \in Hash |-> "low"]
KeepLow == [e \in Hash \X Hash |-> "low"]

(* Two difficulties; a "high" header has the work of three "low" ones. *)
TwoBits == {"low", "high"}
MCWorkOf == [b \in Bits |-> IF b = "low" THEN 1 ELSE 3]

\* x3 claims other bits than its chain has.
OddX3 == [h \in Hash |-> IF h = x3 THEN "high" ELSE "low"]

\* Both chains raise their difficulty at height 2; c2 and x3 do not.
RaisedAtTwo == [h \in Hash |-> IF h \in {a2, a3, a4, b2, b3} THEN "high" ELSE "low"]

\* The first epoch asks for more work, each later one for what it had.
RaiseFirst == [e \in Hash \X Hash |-> IF e[1] = z0 THEN "high" ELSE BitsOf[e[2]]]

\* What an epoch asks for depends on its last block: more after a1.
RaiseAfterA == [e \in Hash \X Hash |-> IF e[2] = a1 THEN "high" ELSE "low"]

\* Only b2 raises its difficulty.
RaisedB2 == [h \in Hash |-> IF h = b2 THEN "high" ELSE "low"]

\* The b chain is harder from its first block on.
HarderB == [h \in Hash |-> IF h \in {b1, b2} THEN "high" ELSE "low"]
=============================================================================
