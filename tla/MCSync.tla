------------------------------- MODULE MCSync -------------------------------
(***************************************************************************)
(* Small instances of Sync.  The filter of a block is named like the       *)
(* block; bad is the filter of none.  A filter header is the sequence of   *)
(* the filters it commits to.                                              *)
(***************************************************************************)
EXTENDS Sync, TLC

CONSTANTS z0, a1, a2, b1, b2, b3, bad, p1, p2, s1

Parents == z0 :> NoHash @@ a1 :> z0 @@ a2 :> a1 @@ b1 :> z0 @@ b2 :> b1 @@ b3 :> b2
Depths == z0 :> 0 @@ a1 :> 1 @@ a2 :> 2 @@ b1 :> 1 @@ b2 :> 2 @@ b3 :> 3

MCPrevOf == [h \in Hash |-> Parents[h]]
MCRank == [h \in Hash |-> Depths[h]]
OneBits == {"low"}
AllLow == [h \in Hash |-> "low"]
UnitWork == [b \in Bits |-> 1]
KeepLow == [e \in Hash \X Hash |-> "low"]

MCFilterHash == Hash \cup {bad}
MCFilterOf == [h \in Hash |-> h]
MCFilterHeader == UNION {[1 .. n -> FilterHash] : n \in 0 .. 4}
MCNextHeader(hash, prev) == Append(prev, hash)
MCCommitment == [header : FilterHeader, filter_hash : FilterHash]
NoHeader == <<>>

\* Every block but the first is relevant.
TouchAll == [e \in Hash \X FilterHash |-> IF e[1] = z0 THEN {} ELSE Script]

Reorganized == <<a1, b2>>
ReorganizedTwice == <<a1, b2, b3>>
Overtaken == <<a2, b3>>
Extended == <<a1, a2>>
OneTip == <<a2>>
OneBack == <<1>>
=============================================================================
