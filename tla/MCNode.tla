------------------------------- MODULE MCNode -------------------------------
(***************************************************************************)
(* Small instances of Node.  z0 is the header the node starts from, a1, a2, *)
(* a3 and b1, b2 are two chains on top of it.  A filter header is the      *)
(* sequence of the filter hashes it commits to.                            *)
(***************************************************************************)
EXTENDS Node, TLC

CONSTANTS z0, a1, a2, a3, b1, b2, p1, p2, p3, f, g, s1, s2

Parents == z0 :> NoHash @@ a1 :> z0 @@ a2 :> a1 @@ a3 :> a2 @@ b1 :> z0 @@ b2 :> b1
Depths == z0 :> 0 @@ a1 :> 1 @@ a2 :> 2 @@ a3 :> 3 @@ b1 :> 1 @@ b2 :> 2

MCPrevOf == [h \in Hash |-> Parents[h]]
MCRank == [h \in Hash |-> Depths[h]]
OneBits == {"low"}
AllLow == [h \in Hash |-> "low"]
UnitWork == [b \in Bits |-> 1]
KeepLow == [e \in Hash \X Hash |-> "low"]

\* Long enough for the highest block of an instance.
MaxFilters == 4
MCFilterHeader == UNION {[1 .. n -> FilterHash] : n \in 0 .. MaxFilters}
MCNextHeader(hash, prev) == Append(prev, hash)
MCCommitment == [header : FilterHeader, filter_hash : FilterHash]

EmptyBase == {<<>>}
TwoBases == {<<>>, <<f>>}

\* Every block but the first is relevant for every script.
TouchAll == [e \in Hash \X FilterHash |-> IF e[1] = z0 THEN {} ELSE Script]

\* Only the first block of the a chain is relevant.
TouchA1 == [e \in Hash \X FilterHash |-> IF e[1] = a1 THEN Script ELSE {}]

NothingLoaded == <<>>
OneLoaded == <<a1>>
=============================================================================
