--------------------------- MODULE MCHeaderStore ----------------------------
(***************************************************************************)
(* Small instances of HeaderStore: the anchor z0, the chain a1, a2, ... on  *)
(* it, the chain b2, b3, b4 on a1, and x4, a child of a3 like a4.          *)
(***************************************************************************)
EXTENDS HeaderStore, TLC

CONSTANTS z0, a1, a2, a3, a4, b2, b3, b4, x4

Parents ==
    z0 :> NoHash @@ a1 :> z0 @@ a2 :> a1 @@ a3 :> a2 @@ a4 :> a3
    @@ b2 :> a1 @@ b3 :> b2 @@ b4 :> b3 @@ x4 :> a3

Depths ==
    z0 :> 0 @@ a1 :> 1 @@ a2 :> 2 @@ a3 :> 3 @@ a4 :> 4
    @@ b2 :> 2 @@ b3 :> 3 @@ b4 :> 4 @@ x4 :> 4

MCPrevOf == [h \in Hash |-> Parents[h]]
MCRank == [h \in Hash |-> Depths[h]]

OneBits == {"low"}
AllLow == [h \in Hash |-> "low"]
UnitWork == [b \in Bits |-> 1]
KeepLow == [e \in Hash \X Hash |-> "low"]

At(h) == [hash |-> h, height |-> Depths[h]]

FromRoot == {At(z0)}
\* Built-in checkpoints: the last of each list is on branch a alone.
Spaced == <<At(z0), At(a1), At(a4)>>
OnBranch == <<At(z0), At(a3)>>

Apart == {At(z0), At(a3)}
=============================================================================
