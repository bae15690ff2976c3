--------------------------- MODULE TreeShape_proofs ---------------------------
(***************************************************************************)
(* Lemmas about block trees: the walks along prev_blockhash, heights, what  *)
(* one more header does, and that accept_header keeps the shape of a tree.  *)
(***************************************************************************)
EXTENDS TreeShape, TLAPS, WellFoundedInduction, NaturalsInduction

-----------------------------------------------------------------------------
(* Numbers *)

\* A set of numbers has a least one.
LEMMA LeastNumber ==
    ASSUME NEW T \in SUBSET Nat, T # {}
    PROVE  \E m \in T : \A n \in T : m <= n
<1> DEFINE R == OpToRel(<, Nat)
<1>1. IsWellFoundedOn(R, Nat)
  BY NatLessThanWellFounded
<1> HIDE DEF R
<1>2. PICK m \in T : \A n \in T : ~ (<<n, m>> \in R)
  BY <1>1, WFMin
<1>3. \A n \in T : ~ (n < m)
  BY <1>2 DEF R, OpToRel
<1> QED
  BY <1>2, <1>3

\* Induction, for a set in place of a predicate.
LEMMA Induction ==
    ASSUME NEW S, 0 \in S, \A n \in Nat : n \in S => n + 1 \in S
    PROVE  Nat \subseteq S
<1> DEFINE T == Nat \ S
<1> SUFFICES ASSUME T # {} PROVE FALSE
  OBVIOUS
<1>1. PICK m \in T : \A n \in T : m <= n
  <2>1. T \in SUBSET Nat
    OBVIOUS
  <2> HIDE DEF T
  <2> QED
    BY <2>1, LeastNumber
<1>2. m # 0 /\ m - 1 \in Nat /\ m - 1 \notin T
  BY <1>1
<1>3. m - 1 \in S
  BY <1>2
<1> QED
  BY <1>1, <1>2, <1>3

-----------------------------------------------------------------------------
(* Ancestry: the walks along prev_blockhash. *)

\* A walk starts at its own header.
LEMMA AncestrySelf ==
    ASSUME NEW h \in Hash
    PROVE  h \in Ancestry[h] /\ Ancestry[h] \subseteq Hash
BY DEF Ancestry

\* A set that holds h and the parents of its members holds the walk from h.
LEMMA AncestryLeast ==
    ASSUME NEW h \in Hash, NEW S \in SUBSET Hash, h \in S, PrevClosed(S)
    PROVE  Ancestry[h] \subseteq S
BY DEF Ancestry

\* A walk goes on to the parent of each header it meets.
LEMMA AncestryClosed ==
    ASSUME NEW h \in Hash
    PROVE  PrevClosed(Ancestry[h])
BY DEF Ancestry, PrevClosed

\* The walk from h is h and the walk from its parent.
LEMMA AncestryStep ==
    ASSUME NEW h \in Hash
    PROVE  /\ PrevOf[h] \in Hash => Ancestry[h] = {h} \cup Ancestry[PrevOf[h]]
           /\ PrevOf[h] \notin Hash => Ancestry[h] = {h}
<1>1. ASSUME PrevOf[h] \in Hash
      PROVE  Ancestry[h] = {h} \cup Ancestry[PrevOf[h]]
  <2> DEFINE S == {h} \cup Ancestry[PrevOf[h]]
  <2>1. S \in SUBSET Hash /\ h \in S
    BY <1>1, AncestrySelf
  <2>2. PrevClosed(S)
    BY <1>1, AncestrySelf, AncestryClosed DEF PrevClosed
  <2>3. Ancestry[h] \subseteq S
    BY <2>1, <2>2, AncestryLeast
  <2>4. PrevOf[h] \in Ancestry[h]
    BY <1>1, AncestrySelf, AncestryClosed DEF PrevClosed
  <2>5. Ancestry[PrevOf[h]] \subseteq Ancestry[h]
    BY <1>1, <2>4, AncestrySelf, AncestryClosed, AncestryLeast
  <2> QED
    BY <2>3, <2>5, AncestrySelf
<1>2. ASSUME PrevOf[h] \notin Hash
      PROVE  Ancestry[h] = {h}
  <2>1. PrevClosed({h})
    BY <1>2 DEF PrevClosed
  <2> QED
    BY <2>1, AncestrySelf, AncestryLeast
<1> QED
  BY <1>1, <1>2

\* The walk from a header of a walk is part of it.
LEMMA AncestryTransitive ==
    ASSUME NEW h \in Hash, NEW x \in Ancestry[h]
    PROVE  Ancestry[x] \subseteq Ancestry[h]
BY AncestrySelf, AncestryClosed, AncestryLeast

\* Ranks fall along a walk, so a walk never meets its start again.
LEMMA AncestryRank ==
    ASSUME NEW h \in Hash, NEW x \in Ancestry[h], x # h
    PROVE  Rank[x] < Rank[h]
<1> DEFINE S == {y \in Hash : y = h \/ Rank[y] < Rank[h]}
<1>1. PrevClosed(S)
  BY RankAssumption, HeaderAssumption DEF PrevClosed
<1>2. Ancestry[h] \subseteq S
  BY <1>1, AncestryLeast
<1> QED
  BY <1>2

\* Of two headers on one walk, one is on the walk from the other.
LEMMA AncestryLinear ==
    ASSUME NEW h \in Hash, NEW x \in Ancestry[h], NEW y \in Ancestry[h]
    PROVE  x \in Ancestry[y] \/ y \in Ancestry[x]
<1>1. x \in Hash /\ y \in Hash
  BY AncestrySelf
<1> DEFINE S == {z \in Hash : z \in Ancestry[x] \/ x \in Ancestry[z]}
<1>2. ASSUME NEW z \in S, PrevOf[z] \in Hash
      PROVE  PrevOf[z] \in S
  <2>1. CASE z \in Ancestry[x]
    BY <1>1, <1>2, <2>1, AncestryClosed DEF PrevClosed
  <2>2. CASE z \notin Ancestry[x] /\ x \in Ancestry[z]
    <3>1. x # z
      BY <1>1, <2>2, AncestrySelf
    <3>2. x \in Ancestry[PrevOf[z]]
      BY <1>2, <2>2, <3>1, AncestryStep
    <3> QED
      BY <1>2, <3>2
  <2> QED
    BY <1>2, <2>1, <2>2
<1>3. PrevClosed(S)
  BY <1>2 DEF PrevClosed
<1>4. Ancestry[h] \subseteq S
  BY <1>3, AncestryLeast
<1> QED
  BY <1>4

-----------------------------------------------------------------------------
(* Heights along the walks of a linked tree. *)

\* A linked tree has an anchor.
LEMMA RootType ==
    ASSUME NEW root, NEW t, HeadersLinked(t, root)
    PROVE  root.hash \in Hash /\ root.height \in Nat
BY DEF HeadersLinked, Anchors, Height

\* Known headers do not rank below the anchor.
LEMMA KnownRank ==
    ASSUME NEW root, NEW t, TreeType(t), HeadersLinked(t, root), NEW h \in Known(t)
    PROVE  Rank[root.hash] <= Rank[h]
<1>1. PICK g \in Known(t) : FirstOK(t, g, root) /\ g \in Ancestry[h]
  BY DEF HeadersLinked
<1>2. g \in Hash /\ h \in Hash
  BY DEF TreeType
<1>3. Rank[root.hash] <= Rank[g]
  BY <1>1, <1>2, RankAssumption, RootType DEF FirstOK
<1>4. Rank[g] <= Rank[h]
  BY <1>1, <1>2, AncestryRank, RankAssumption
<1> QED
  BY <1>2, <1>3, <1>4, RankAssumption, RootType

\* Ancestors that are known are not higher, the others are the anchor or lie
\* below it.
LEMMA WalkHeights ==
    ASSUME NEW root, NEW t, TreeType(t), HeadersLinked(t, root), NEW h \in Known(t),
           NEW x \in Ancestry[h]
    PROVE  IF x \in Known(t) THEN HeightOf(t, x) <= HeightOf(t, h)
           ELSE x = root.hash \/ Rank[x] < Rank[root.hash]
<1> DEFINE S == {y \in Hash : IF y \in Known(t) THEN HeightOf(t, y) <= HeightOf(t, h)
                              ELSE y = root.hash \/ Rank[y] < Rank[root.hash]}
<1>0. /\ Known(t) \subseteq Hash
      /\ \A y \in Known(t) : HeightOf(t, y) \in Nat
  BY DEF TreeType, NodeType, HeightOf, Height
<1>1. ASSUME NEW y \in S, PrevOf[y] \in Hash
      PROVE  PrevOf[y] \in S
  <2>1. CASE y \in Known(t) /\ PrevOf[y] \in Known(t)
    BY <1>0, <1>1, <2>1 DEF HeadersLinked, IsFirst
  <2>2. CASE y \in Known(t) /\ PrevOf[y] \notin Known(t)
    <3>1. FirstOK(t, y, root)
      BY <2>2 DEF HeadersLinked, IsFirst
    <3> QED
      BY <1>1, <2>2, <3>1, RankAssumption, RootType DEF FirstOK
  <2>3. CASE y \notin Known(t)
    <3>1. Rank[PrevOf[y]] < Rank[root.hash]
      BY <1>1, <2>3, RankAssumption, RootType
    <3>2. PrevOf[y] \notin Known(t)
      BY <1>1, <3>1, KnownRank, RankAssumption, RootType
    <3> QED
      BY <1>1, <3>1, <3>2
  <2> QED
    BY <2>1, <2>2, <2>3
<1>2. PrevClosed(S)
  BY <1>1 DEF PrevClosed
<1>3. h \in Hash /\ h \in S
  BY <1>0
<1>4. Ancestry[h] \subseteq S
  BY <1>2, <1>3, AncestryLeast
<1> QED
  BY <1>4

\* A proper ancestor that is known is lower.
LEMMA WalkDescends ==
    ASSUME NEW root, NEW t, TreeType(t), HeadersLinked(t, root), NEW h \in Known(t),
           NEW x \in Ancestry[h] \cap Known(t), x # h
    PROVE  HeightOf(t, x) < HeightOf(t, h)
<1>0. /\ h \in Hash /\ x \in Hash
      /\ \A y \in Known(t) : HeightOf(t, y) \in Nat
  BY DEF TreeType, NodeType, HeightOf, Height
<1>1. PrevOf[h] \in Hash /\ x \in Ancestry[PrevOf[h]]
  BY <1>0, AncestryStep
<1>2. PrevOf[h] \in Known(t)
  <2> SUFFICES ASSUME PrevOf[h] \notin Known(t) PROVE FALSE
    OBVIOUS
  <2>1. FirstOK(t, h, root) /\ h \in Ancestry[x]
    BY DEF HeadersLinked, IsFirst
  <2>2. Rank[x] < Rank[h] /\ Rank[h] < Rank[x]
    BY <1>0, <2>1, AncestryRank
  <2> QED
    BY <1>0, <2>2, RankAssumption
<1>3. HeightOf(t, x) <= HeightOf(t, PrevOf[h])
  BY <1>1, <1>2, WalkHeights
<1>4. HeightOf(t, h) = HeightOf(t, PrevOf[h]) + 1
  BY <1>2 DEF HeadersLinked, IsFirst
<1> QED
  BY <1>0, <1>2, <1>3, <1>4

\* A walk has at most one header at each height.
LEMMA WalkUnique ==
    ASSUME NEW root, NEW t, TreeType(t), HeadersLinked(t, root), NEW h \in Known(t),
           NEW x \in Walk(t, h), NEW y \in Walk(t, h), HeightOf(t, x) = HeightOf(t, y)
    PROVE  x = y
<1>0. /\ h \in Hash /\ x \in Known(t) /\ y \in Known(t)
      /\ x \in Ancestry[h] /\ y \in Ancestry[h]
      /\ HeightOf(t, x) \in Nat /\ HeightOf(t, y) \in Nat
  BY DEF TreeType, NodeType, HeightOf, Height, Walk
<1>1. x \in Ancestry[y] \/ y \in Ancestry[x]
  BY <1>0, AncestryLinear
<1> QED
  BY <1>0, <1>1, WalkDescends

\* A walk has a header at each height from the first header of the tree up to
\* its start.
LEMMA WalkFull ==
    ASSUME NEW root, NEW t, TreeType(t), HeadersLinked(t, root), NEW h \in Known(t),
           NEW g \in Known(t), IsFirst(t, g),
           NEW k \in Nat, HeightOf(t, g) <= k, k <= HeightOf(t, h)
    PROVE  \E x \in Walk(t, h) : HeightOf(t, x) = k
<1>0. /\ Known(t) \subseteq Hash
      /\ \A y \in Known(t) : HeightOf(t, y) \in Nat
  BY DEF TreeType, NodeType, HeightOf, Height
<1> SUFFICES ASSUME \A x \in Walk(t, h) : HeightOf(t, x) # k
             PROVE  FALSE
  OBVIOUS
<1> DEFINE S == {y \in Walk(t, h) : HeightOf(t, y) > k}
<1>1. h \in S /\ S \in SUBSET Hash /\ S \subseteq Known(t)
  BY <1>0, AncestrySelf DEF Walk
<1>2. ASSUME NEW y \in S
      PROVE  PrevOf[y] \in S
  <2>1. y \in Known(t) /\ HeightOf(t, y) > k
    BY <1>1
  <2>2. ~IsFirst(t, y)
    <3>1. IsFirst(t, y) => y = g
      BY <2>1 DEF HeadersLinked
    <3> QED
      BY <1>0, <2>1, <3>1
  <2>3. PrevOf[y] \in Known(t) /\ HeightOf(t, y) = HeightOf(t, PrevOf[y]) + 1
    BY <2>1, <2>2 DEF HeadersLinked, IsFirst
  <2>4. PrevOf[y] \in Walk(t, h)
    <3>1. PrevOf[y] \in Hash /\ y \in Ancestry[h]
      BY <1>0, <1>1, <2>3 DEF Walk
    <3>2. PrevOf[y] \in Ancestry[h]
      BY <1>0, <3>1, AncestryClosed DEF PrevClosed
    <3> QED
      BY <2>3, <3>2 DEF Walk
  <2> QED
    BY <1>0, <2>1, <2>3, <2>4
<1>3. PrevClosed(S)
  BY <1>2 DEF PrevClosed
<1>4. Ancestry[h] \subseteq S
  BY <1>0, <1>1, <1>3, AncestryLeast
<1>5. g \in Ancestry[h]
  BY DEF HeadersLinked
<1> QED
  BY <1>0, <1>4, <1>5

-----------------------------------------------------------------------------
(* A header joins the tree. *)

\* h is new and its parent is known, or it is the first header after an anchor.
Attaches(t, h, height, root) ==
    /\ h \in Hash \ Known(t)
    /\ IF PrevOf[h] \in Known(t) THEN height = HeightOf(t, PrevOf[h]) + 1
       ELSE Known(t) = {} /\ PrevOf[h] = root.hash /\ height = root.height + 1

Grown(t, t2, h, height, root) ==
    /\ TreeType(t) /\ HeadersLinked(t, root)
    /\ Attaches(t, h, height, root)
    /\ t2.headers = AddNode(t, h, height)

\* AddNode adds one node and leaves the others alone.
LEMMA GrowFields ==
    ASSUME NEW root, NEW t, NEW t2, NEW h, NEW height, Grown(t, t2, h, height, root)
    PROVE  /\ Known(t2) = Known(t) \cup {h} /\ h \notin Known(t) /\ h \in Hash
           /\ Known(t2) \subseteq Hash
           /\ \A x \in Known(t) : t2.headers[x] = t.headers[x]
           /\ t2.headers[h] = NewNode(height, AccWork(t, PrevOf[h]) + Work(h))
           /\ AccWork(t, PrevOf[h]) \in Nat /\ Work(h) \in Nat \ {0}
           /\ height \in Nat
           /\ t2.headers \in [Known(t2) -> NodeType]
<1> USE DEF Grown, Attaches
<1>1. /\ Known(t2) = Known(t) \cup {h}
      /\ h \notin Known(t) /\ h \in Hash /\ Known(t2) \subseteq Hash
      /\ \A x \in Known(t) : t2.headers[x] = t.headers[x]
      /\ t2.headers[h] = NewNode(height, AccWork(t, PrevOf[h]) + Work(h))
  BY DEF AddNode, Known, TreeType
<1>2. \A x \in Known(t) : HeightOf(t, x) \in Nat /\ t.headers[x].acc_work \in Nat
  BY DEF TreeType, NodeType, HeightOf, Height
<1>3. AccWork(t, PrevOf[h]) \in Nat /\ Work(h) \in Nat \ {0} /\ height \in Nat
  BY <1>1, <1>2, HeaderAssumption, RootType DEF AccWork, Work
<1>4. NewNode(height, AccWork(t, PrevOf[h]) + Work(h)) \in NodeType
  BY <1>3 DEF NewNode, NodeType, Height
<1>5. t2.headers \in [Known(t2) -> NodeType]
  BY <1>1, <1>4 DEF AddNode, TreeType, Known
<1> QED
  BY <1>1, <1>3, <1>5

\* The same in terms of heights and accumulated work.
LEMMA GrowHeights ==
    ASSUME NEW root, NEW t, NEW t2, NEW h, NEW height, Grown(t, t2, h, height, root)
    PROVE  /\ Known(t2) = Known(t) \cup {h} /\ h \notin Known(t)
           /\ \A x \in Known(t) : HeightOf(t2, x) = HeightOf(t, x)
           /\ HeightOf(t2, h) = height
           /\ \A x \in Known(t) : AccWork(t2, x) = AccWork(t, x)
           /\ AccWork(t2, h) = AccWork(t, PrevOf[h]) + Work(h)
<1>1. /\ Known(t2) = Known(t) \cup {h} /\ h \notin Known(t)
      /\ \A x \in Known(t) : t2.headers[x] = t.headers[x]
      /\ t2.headers[h] = NewNode(height, AccWork(t, PrevOf[h]) + Work(h))
  BY GrowFields
<1>2. /\ t2.headers[h].height = height
      /\ t2.headers[h].acc_work = AccWork(t, PrevOf[h]) + Work(h)
  BY <1>1 DEF NewNode
<1> QED
  BY <1>1, <1>2 DEF HeightOf, AccWork

\* The new header outranks the anchor and is the parent of no known header.
LEMMA GrowNoChild ==
    ASSUME NEW root, NEW t, NEW t2, NEW h, NEW height, Grown(t, t2, h, height, root)
    PROVE  Rank[root.hash] < Rank[h] /\ \A x \in Known(t2) : PrevOf[x] # h
<1>1. h \in Hash /\ h \notin Known(t) /\ Known(t2) = Known(t) \cup {h}
      /\ Known(t) \subseteq Hash /\ root.hash \in Hash
  BY GrowFields, RootType DEF Grown, TreeType
<1>2. PrevOf[h] \in Hash /\ Rank[root.hash] <= Rank[PrevOf[h]]
  BY <1>1, KnownRank, RootType, RankAssumption DEF Grown, Attaches
<1>3. Rank[PrevOf[h]] < Rank[h] /\ Rank[root.hash] < Rank[h]
  BY <1>1, <1>2, RankAssumption
<1>4. ASSUME NEW x \in Known(t), PrevOf[x] = h
      PROVE  FALSE
  <2>1. FirstOK(t, x, root)
    BY <1>1, <1>4 DEF Grown, HeadersLinked, IsFirst
  <2>2. CASE x = root.hash
    <3>1. Rank[h] < Rank[root.hash]
      BY <1>1, <1>4, <2>2, RankAssumption
    <3> QED
      BY <1>1, <1>3, <3>1, RankAssumption
  <2>3. CASE PrevOf[x] = root.hash
    BY <1>1, <1>3, <1>4, <2>3, RankAssumption
  <2> QED
    BY <2>1, <2>2, <2>3 DEF FirstOK
<1> QED
  BY <1>1, <1>3, <1>4, RankAssumption

\* The walks from known headers stay what they were, and the walk from the new
\* header is that header and the walk from its parent.
LEMMA GrowWalk ==
    ASSUME NEW root, NEW t, NEW t2, NEW h, NEW height, Grown(t, t2, h, height, root)
    PROVE  /\ \A x \in Known(t) : Walk(t2, x) = Walk(t, x)
           /\ Walk(t2, h) = {h} \cup Walk(t, PrevOf[h])
<1>1. h \in Hash /\ h \notin Known(t) /\ Known(t2) = Known(t) \cup {h}
      /\ Known(t) \subseteq Hash /\ Known(t2) \subseteq Hash
  BY GrowFields DEF Grown, TreeType
<1>2. Rank[root.hash] < Rank[h]
  BY GrowNoChild
<1>3. \A x \in Known(t) : h \notin Ancestry[x]
  BY <1>1, <1>2, WalkHeights, RankAssumption, RootType DEF Grown
<1>4. \A x \in Known(t) : Walk(t2, x) = Walk(t, x)
  BY <1>1, <1>3 DEF Walk
<1>5. CASE PrevOf[h] \in Known(t)
  <2>1. Ancestry[h] = {h} \cup Ancestry[PrevOf[h]]
    BY <1>1, <1>5, AncestryStep
  <2> QED
    BY <1>1, <1>3, <1>4, <1>5, <2>1 DEF Walk
<1>6. CASE PrevOf[h] \notin Known(t)
  BY <1>1, <1>6, AncestrySelf DEF Walk, Grown, Attaches
<1> QED
  BY <1>4, <1>5, <1>6

\* The tree stays linked.
LEMMA GrowLinked ==
    ASSUME NEW root, NEW t, NEW t2, NEW h, NEW height, Grown(t, t2, h, height, root)
    PROVE  HeadersLinked(t2, root)
<1>1. /\ h \in Hash /\ h \notin Known(t) /\ Known(t2) = Known(t) \cup {h}
      /\ Known(t) \subseteq Hash
      /\ \A x \in Known(t) : t2.headers[x] = t.headers[x]
      /\ t2.headers[h] = NewNode(height, AccWork(t, PrevOf[h]) + Work(h))
      /\ AccWork(t, PrevOf[h]) \in Nat /\ Work(h) \in Nat
  <2>1. Known(t) \subseteq Hash
    BY DEF Grown, TreeType
  <2> QED
    BY <2>1, GrowFields
<1>2. \A x \in Known(t2) : PrevOf[x] # h
  BY GrowNoChild
<1>3. \A x \in Known(t2) : IsFirst(t2, x) <=> PrevOf[x] \notin Known(t)
  BY <1>1, <1>2 DEF IsFirst
<1>4. /\ HeightOf(t2, h) = height
      /\ t2.headers[h].acc_work = AccWork(t, PrevOf[h]) + Work(h)
      /\ \A x \in Known(t) : HeightOf(t2, x) = HeightOf(t, x)
  BY <1>1 DEF HeightOf, NewNode
<1>5. ASSUME NEW x \in Known(t2), ~IsFirst(t2, x)
      PROVE  /\ HeightOf(t2, x) = HeightOf(t2, PrevOf[x]) + 1
             /\ t2.headers[x].acc_work = t2.headers[PrevOf[x]].acc_work + Work(x)
  <2>1. CASE x = h
    BY <1>1, <1>3, <1>4, <1>5, <2>1 DEF Grown, Attaches, AccWork
  <2>2. CASE x \in Known(t)
    BY <1>1, <1>3, <1>4, <1>5, <2>2 DEF Grown, HeadersLinked, IsFirst
  <2> QED
    BY <1>1, <2>1, <2>2
<1>6. \E g \in Known(t2) :
        /\ IsFirst(t2, g)
        /\ FirstOK(t2, g, root)
        /\ \A x \in Known(t2) : g \in Ancestry[x] /\ (IsFirst(t2, x) => x = g)
  <2>1. CASE Known(t) = {}
    <3>1. Known(t2) = {h} /\ IsFirst(t2, h)
      BY <1>1, <1>3, <2>1
    <3>2. FirstOK(t2, h, root)
      BY <1>1, <1>4, <2>1 DEF FirstOK, Grown, Attaches, AccWork
    <3> QED
      BY <1>1, <3>1, <3>2, AncestrySelf
  <2>2. CASE Known(t) # {}
    <3>1. PICK g \in Known(t) :
            /\ IsFirst(t, g)
            /\ FirstOK(t, g, root)
            /\ \A x \in Known(t) : g \in Ancestry[x] /\ (IsFirst(t, x) => x = g)
      BY <2>2 DEF Grown, HeadersLinked
    <3>2. PrevOf[h] \in Known(t) /\ PrevOf[h] \in Hash
      BY <1>1, <2>2 DEF Grown, Attaches
    <3>3. g \in Ancestry[h]
      BY <1>1, <3>1, <3>2, AncestryStep
    <3>4. FirstOK(t2, g, root)
      BY <1>1, <1>4, <3>1 DEF FirstOK
    <3>5. \A x \in Known(t2) : g \in Ancestry[x] /\ (IsFirst(t2, x) => x = g)
      BY <1>1, <1>3, <3>1, <3>2, <3>3 DEF IsFirst
    <3>6. IsFirst(t2, g)
      BY <1>1, <1>3, <3>1 DEF IsFirst
    <3> QED
      BY <1>1, <3>1, <3>4, <3>5, <3>6
  <2> QED
    BY <2>1, <2>2
<1>7. root \in Anchors
  BY DEF Grown, HeadersLinked
<1> QED
  BY <1>5, <1>6, <1>7 DEF HeadersLinked

-----------------------------------------------------------------------------
(* accept_header, one lemma for each of its outcomes. *)

Sound(t, root) == TreeType(t) /\ HeadersLinked(t, root) /\ ForkTips(t, root)

Fields == {"canonical", "headers", "tip", "forks"}

\* next is what the difficulty rule asks of h at this height, going by its parent
\* or by what the tip it extends carries, and h has these bits.
Asked(t, h, height, next) ==
    /\ BitsAccepted(h, next)
    /\ \/ next = NextWork(t, height, BitsOf[PrevOf[h]])
       \/ \E f \in t.forks \cup {t.tip} :
            f.hash = PrevOf[h] /\ next = NextWork(t, height, f.next)

\* Some difficulty is not that of h: only then its bits can be refused.
Refusable(h) == \E b \in Bits : BitsOf[h] # b

\* h is the new active tip on top of the old one.
TipExtended(t, u, h, root) ==
    /\ Grown(t, u, h, t.tip.height + 1, root)
    /\ DOMAIN u = Fields
    /\ u.tip \in TipType /\ u.tip.hash = h /\ u.tip.height = t.tip.height + 1
    /\ Asked(t, h, u.tip.height, u.tip.next)
    /\ u.forks = t.forks
    /\ u.canonical = SetCanonical(t, t.tip.height + 1, h)

\* h is a new candidate next to the candidates in others.
ForkGrown(t, u, h, others, root) ==
    /\ \E k : /\ Grown(t, u, h, k, root)
              /\ \E f \in TipType : /\ f.hash = h /\ f.height = k
                                    /\ Asked(t, h, k, f.next)
                                    /\ u.forks = others \cup {f}
    /\ DOMAIN u = Fields
    /\ u.tip = t.tip /\ u.canonical = t.canonical

\* h is the new active tip and the old one a candidate; canonical_hashes still
\* has to follow.
ForkWins(t, s, h, others, root) ==
    /\ \E k : Grown(t, s, h, k, root) /\ s.tip.height = k
    /\ DOMAIN s = Fields
    /\ s.tip \in TipType /\ s.tip.hash = h
    /\ Asked(t, h, s.tip.height, s.tip.next)
    /\ s.canonical = t.canonical
    /\ s.forks = others \cup {t.tip}
    /\ AccWork(s, h) > AccWork(s, t.tip.hash)

\* Only the candidates changed.
ForksAre(t, u, others) ==
    /\ DOMAIN u = Fields
    /\ u.headers = t.headers /\ u.canonical = t.canonical
    /\ u.tip = t.tip /\ u.forks = others

\* The difficulty asked of the next header is None or a difficulty.
LEMMA NextWorkType ==
    ASSUME NEW t, TreeType(t), NEW height, NEW carried \in Bits \cup {None}
    PROVE  NextWork(t, height, carried) \in Bits \cup {None}
<1>1. \A k : HeaderAtHeight(t, k) \in Hash \cup {None}
  BY DEF TreeType, HeaderAtHeight
<1>2. ComputeNextWorkRequired(t, height) \in Bits \cup {None}
  BY <1>1, HeaderAssumption DEF ComputeNextWorkRequired
<1> QED
  BY <1>2 DEF NextWork

\* A header on the active tip is new, and becomes the tip unless it is refused.
LEMMA ExtendTipCase ==
    ASSUME NEW root, NEW t, Sound(t, root), NEW h \in Hash, PrevOf[h] = t.tip.hash,
           NEW r, r = ExtendTip(t, h)
    PROVE  \/ r.tree = t /\ r.changes = Unaccepted("InvalidPow") /\ Refusable(h)
           \/ TipExtended(t, r.tree, h, root) /\ r.changes = Change("Accepted", {h}, {})
<1> DEFINE k == t.tip.height + 1
           next == NextWork(t, k, t.tip.next)
<1>1. /\ t.tip \in TipType /\ t.tip.height \in Nat /\ t.tip.hash \in Hash
      /\ t.tip.next \in Bits \cup {None}
  BY DEF Sound, TreeType, TipType, Height
<1>2. next \in Bits \cup {None}
  BY <1>1, NextWorkType DEF Sound
<1>3. Attaches(t, h, k, root)
  BY <1>1 DEF Sound, ForkTips, Attaches, Tip
<1>4. Tip(h, k, next) \in TipType /\ Tip(h, k, next).hash = h /\ Tip(h, k, next).height = k
      /\ Tip(h, k, next).next = next
  BY <1>1, <1>2 DEF Tip, TipType, Height
<1>5. CASE ~BitsAccepted(h, next)
  <2>1. Refusable(h)
    BY <1>2, <1>5 DEF BitsAccepted, Refusable
  <2> QED
    BY <1>5, <2>1 DEF ExtendTip
<1>6. CASE BitsAccepted(h, next)
  <2>1. Asked(t, h, k, next)
    BY <1>6 DEF Asked
  <2> HIDE DEF next
  <2> QED
    BY <1>3, <1>4, <1>6, <2>1 DEF ExtendTip, Grown, Sound, next, TipExtended, Fields
<1> QED
  BY <1>5, <1>6

\* A header on a known header that is no tip opens a fork unless it is refused.
LEMMA CreateForkCase ==
    ASSUME NEW root, NEW t, Sound(t, root), NEW h \in Hash \ Known(t), PrevOf[h] \in Known(t),
           NEW r, r = CreateFork(t, h)
    PROVE  \/ r.tree = t /\ r.changes = Unaccepted("InvalidPow") /\ Refusable(h)
           \/ ForkGrown(t, r.tree, h, t.forks, root)
              /\ r.changes = Change("ExtendedFork", {h}, {})
<1> DEFINE k == HeightOf(t, PrevOf[h]) + 1
           next == NextWork(t, k, BitsOf[PrevOf[h]])
           f == Tip(h, k, next)
<1>1. PrevOf[h] \in Hash /\ k \in Nat /\ BitsOf[PrevOf[h]] \in Bits
  BY HeaderAssumption DEF Sound, TreeType, NodeType, HeightOf, Height
<1>2. next \in Bits \cup {None}
  BY <1>1, NextWorkType DEF Sound
<1>3. Attaches(t, h, k, root)
  BY DEF Attaches
<1>4. f \in TipType /\ f.hash = h /\ f.height = k /\ f.next = next
  BY <1>1, <1>2 DEF Tip, TipType, Height
<1>5. CASE ~BitsAccepted(h, next)
  <2>1. Refusable(h)
    BY <1>2, <1>5 DEF BitsAccepted, Refusable
  <2> QED
    BY <1>5, <2>1 DEF CreateFork
<1>6. CASE BitsAccepted(h, next)
  <2> DEFINE u == [t EXCEPT !.headers = AddNode(t, h, k), !.forks = t.forks \cup {f}]
  <2>1. r = [tree |-> u, changes |-> Change("ExtendedFork", {h}, {})]
    BY <1>6 DEF CreateFork
  <2>2. /\ DOMAIN u = Fields
        /\ u.headers = AddNode(t, h, k) /\ u.forks = t.forks \cup {f}
        /\ u.tip = t.tip /\ u.canonical = t.canonical
    BY DEF Sound, TreeType, Fields
  <2>3. Grown(t, u, h, k, root) /\ Asked(t, h, k, f.next)
    BY <1>3, <1>4, <1>6, <2>2 DEF Grown, Sound, Asked
  <2> HIDE DEF u, f, k
  <2>4. ForkGrown(t, u, h, t.forks, root)
    BY <1>4, <2>2, <2>3 DEF ForkGrown
  <2> QED
    BY <2>1, <2>4
<1> QED
  BY <1>5, <1>6

\* A header on the tip of a fork is refused and the fork forgotten, or extends
\* the fork, or turns it into the active chain when it has more work.
LEMMA ExtendForkCase ==
    ASSUME NEW root, NEW t, Sound(t, root), NEW h \in Hash \ Known(t), NEW fork \in t.forks,
           PrevOf[h] = fork.hash, NEW r, r = ExtendFork(t, h, fork)
    PROVE  \/ ForksAre(t, r.tree, t.forks \ {fork}) /\ r.changes = Unaccepted("InvalidPow")
              /\ Refusable(h)
           \/ ForkGrown(t, r.tree, h, t.forks \ {fork}, root)
              /\ r.changes = Change("ExtendedFork", {h}, {})
              /\ ~(AccWork(r.tree, h) > AccWork(r.tree, t.tip.hash))
           \/ \E s : ForkWins(t, s, h, t.forks \ {fork}, root) /\ r = SwitchToFork(s, h)
<1> DEFINE k == HeightOf(t, fork.hash) + 1
           next == NextWork(t, k, fork.next)
           others == t.forks \ {fork}
           grown == [t EXCEPT !.headers = AddNode(t, h, k)]
           f == Tip(h, k, next)
           s == [grown EXCEPT !.forks = others \cup {t.tip}, !.tip = f]
           e == [grown EXCEPT !.forks = others \cup {f}]
           d == [t EXCEPT !.forks = others]
<1>1. /\ fork.hash \in Known(t) /\ k \in Nat /\ fork.next \in Bits \cup {None}
      /\ DOMAIN t = Fields
  BY DEF Sound, ForkTips, TreeType, NodeType, TipType, HeightOf, Height, Fields
<1>2. next \in Bits \cup {None}
  BY <1>1, NextWorkType DEF Sound
<1>3. Attaches(t, h, k, root)
  BY <1>1 DEF Attaches
<1>4. f \in TipType /\ f.hash = h /\ f.height = k /\ f.next = next
  BY <1>1, <1>2 DEF Tip, TipType, Height
<1>5. /\ DOMAIN grown = Fields /\ grown.headers = AddNode(t, h, k)
      /\ grown.tip = t.tip /\ grown.forks = t.forks /\ grown.canonical = t.canonical
  BY <1>1 DEF Fields
<1> HIDE DEF grown, f, k, others
<1>6. /\ DOMAIN s = Fields /\ s.headers = AddNode(t, h, k)
      /\ s.tip = f /\ s.forks = others \cup {t.tip} /\ s.canonical = t.canonical
  BY <1>5 DEF Fields
<1>7. /\ DOMAIN e = Fields /\ e.headers = AddNode(t, h, k)
      /\ e.tip = t.tip /\ e.forks = others \cup {f} /\ e.canonical = t.canonical
  BY <1>5 DEF Fields
<1>8. ForksAre(t, d, others)
  BY <1>1 DEF Fields, ForksAre
<1>9. Grown(t, s, h, k, root) /\ Grown(t, e, h, k, root)
  BY <1>3, <1>6, <1>7 DEF Grown, Sound
<1>10. \A x : AccWork(grown, x) = AccWork(s, x) /\ AccWork(grown, x) = AccWork(e, x)
  BY <1>5, <1>6, <1>7 DEF AccWork, Known
<1>11. BitsAccepted(h, next) => Asked(t, h, k, f.next)
  BY <1>4 DEF Asked
<1> HIDE DEF s, e, d, next
<1>12. CASE ~BitsAccepted(h, next)
  <2>1. r = [tree |-> d, changes |-> Unaccepted("InvalidPow")] /\ Refusable(h)
    BY <1>2, <1>12 DEF ExtendFork, MoreWork, next, k, others, d, BitsAccepted, Refusable
  <2> QED
    BY <1>8, <2>1 DEF others
<1>13. CASE BitsAccepted(h, next) /\ AccWork(grown, h) > AccWork(grown, t.tip.hash)
  <2>1. r = SwitchToFork(s, h)
    BY <1>13 DEF ExtendFork, MoreWork, next, k, others, s, grown, f
  <2>2. ForkWins(t, s, h, others, root)
    BY <1>4, <1>6, <1>9, <1>10, <1>13, <1>11 DEF ForkWins
  <2> QED
    BY <2>1, <2>2 DEF others
<1>14. CASE BitsAccepted(h, next) /\ ~(AccWork(grown, h) > AccWork(grown, t.tip.hash))
  <2>1. r = [tree |-> e, changes |-> Change("ExtendedFork", {h}, {})]
    BY <1>14 DEF ExtendFork, MoreWork, next, k, others, e, grown, f
  <2>2. ForkGrown(t, e, h, others, root)
    BY <1>4, <1>7, <1>9, <1>14, <1>11 DEF ForkGrown
  <2> QED
    BY <1>10, <1>14, <2>1, <2>2 DEF others
<1> QED
  BY <1>12, <1>13, <1>14

\* The outcomes of accept_header together.
Outcome(t, h, r, root) ==
    \/ r.tree = t /\ r.changes.kind \in {"InvalidPow", "Duplicate", "UnknownPrevHash"}
    \/ /\ PrevOf[h] = t.tip.hash
       /\ TipExtended(t, r.tree, h, root) /\ r.changes = Change("Accepted", {h}, {})
    \/ /\ PrevOf[h] # t.tip.hash /\ h \notin Known(t)
       /\ ForksAt(t, PrevOf[h]) = {} /\ PrevOf[h] \in Known(t)
       /\ ForkGrown(t, r.tree, h, t.forks, root)
       /\ r.changes = Change("ExtendedFork", {h}, {})
    \/ \E fork \in t.forks :
       /\ h \notin Known(t) /\ PrevOf[h] = fork.hash
       /\ \/ /\ ForksAre(t, r.tree, t.forks \ {fork})
             /\ r.changes = Unaccepted("InvalidPow") /\ Refusable(h)
          \/ /\ ForkGrown(t, r.tree, h, t.forks \ {fork}, root)
             /\ r.changes = Change("ExtendedFork", {h}, {})
             /\ ~(AccWork(r.tree, h) > AccWork(r.tree, t.tip.hash))
          \/ \E s : ForkWins(t, s, h, t.forks \ {fork}, root) /\ r = SwitchToFork(s, h)

\* accept_header ends in one of these outcomes.
LEMMA AcceptHeaderCases ==
    ASSUME NEW root, NEW t, Sound(t, root), NEW h \in Hash, NEW r, r = AcceptHeader(t, h)
    PROVE  Outcome(t, h, r, root)
<1> USE DEF Outcome
<1>0. \A kind : Unaccepted(kind).kind = kind
  BY DEF Unaccepted, Change
<1>1. CASE PrevOf[h] = t.tip.hash
  <2>1. r = ExtendTip(t, h)
    BY <1>1 DEF AcceptHeader
  <2> QED
    BY <1>0, <1>1, <2>1, ExtendTipCase
<1>2. CASE PrevOf[h] # t.tip.hash /\ h \in Known(t)
  <2>1. r = [tree |-> t, changes |-> Unaccepted("Duplicate")]
    BY <1>2 DEF AcceptHeader
  <2> QED
    BY <1>0, <2>1
<1>3. CASE PrevOf[h] # t.tip.hash /\ h \notin Known(t) /\ ForksAt(t, PrevOf[h]) # {}
  <2>1. PICK fork \in t.forks : PrevOf[h] = fork.hash /\ r = ExtendFork(t, h, fork)
    BY <1>3 DEF AcceptHeader, ForksAt
  <2>2. \/ ForksAre(t, r.tree, t.forks \ {fork}) /\ r.changes = Unaccepted("InvalidPow")
           /\ Refusable(h)
        \/ ForkGrown(t, r.tree, h, t.forks \ {fork}, root)
           /\ r.changes = Change("ExtendedFork", {h}, {})
           /\ ~(AccWork(r.tree, h) > AccWork(r.tree, t.tip.hash))
        \/ \E s : ForkWins(t, s, h, t.forks \ {fork}, root) /\ r = SwitchToFork(s, h)
    BY <1>3, <2>1, ExtendForkCase
  <2> QED
    BY <1>3, <2>1, <2>2
<1>4. CASE /\ PrevOf[h] # t.tip.hash /\ h \notin Known(t)
           /\ ForksAt(t, PrevOf[h]) = {} /\ PrevOf[h] \in Known(t)
  <2>1. r = CreateFork(t, h)
    BY <1>4 DEF AcceptHeader
  <2> QED
    BY <1>0, <1>4, <2>1, CreateForkCase
<1>5. CASE /\ PrevOf[h] # t.tip.hash /\ h \notin Known(t)
           /\ ForksAt(t, PrevOf[h]) = {} /\ PrevOf[h] \notin Known(t)
  <2>1. r = [tree |-> t, changes |-> Unaccepted("UnknownPrevHash")]
    BY <1>5 DEF AcceptHeader
  <2> QED
    BY <1>0, <2>1
<1> QED
  BY <1>1, <1>2, <1>3, <1>4, <1>5

\* switch_to_fork changes canonical_hashes at the heights it walks over and
\* nothing else.
LEMMA SwitchCase ==
    ASSUME NEW s, TreeType(s), NEW h
    PROVE  LET u == SwitchToFork(s, h).tree
               conn == Reconnected(s, h)
               D == {HeightOf(s, x) : x \in conn}
           IN  /\ DOMAIN u = {"canonical", "headers", "tip", "forks"}
               /\ u.headers = s.headers /\ u.tip = s.tip /\ u.forks = s.forks
               /\ DOMAIN u.canonical = DOMAIN s.canonical \cup D
               /\ u.canonical \in [DOMAIN u.canonical -> Hash]
               /\ DOMAIN u.canonical \subseteq Height
               /\ \A k \in D : u.canonical[k] \in conn
                               /\ HeightOf(s, u.canonical[k]) = k
               /\ \A k \in DOMAIN s.canonical \ D : u.canonical[k] = s.canonical[k]
               /\ SwitchToFork(s, h).changes =
                    Change("Reorganization", conn,
                           {s.canonical[k] : k \in D \cap DOMAIN s.canonical}
                               \cap Known(s))
<1> DEFINE conn == Reconnected(s, h)
           D == {HeightOf(s, x) : x \in conn}
           at == [k \in D |-> CHOOSE x \in conn : HeightOf(s, x) = k]
           can == [k \in DOMAIN s.canonical \cup DOMAIN at |->
                      IF k \in DOMAIN at THEN at[k] ELSE s.canonical[k]]
           u == [s EXCEPT !.canonical = can]
<1>1. /\ SwitchToFork(s, h).tree = u
      /\ SwitchToFork(s, h).changes =
            Change("Reorganization", conn,
                   {s.canonical[k] : k \in DOMAIN at \cap DOMAIN s.canonical}
                       \cap Known(s))
  BY DEF SwitchToFork
<1>2. DOMAIN at = D
  OBVIOUS
<1>3. conn \subseteq Known(s) /\ conn \subseteq Hash
  BY DEF TreeType, Reconnected, Walk
<1>4. D \subseteq Nat
  BY <1>3 DEF TreeType, NodeType, HeightOf, Height
<1> HIDE DEF conn
<1>5. \A k \in D : at[k] \in conn /\ HeightOf(s, at[k]) = k
  OBVIOUS
<1> HIDE DEF D, at
<1>6. /\ DOMAIN can = DOMAIN s.canonical \cup D
      /\ \A k \in D : can[k] = at[k]
      /\ \A k \in DOMAIN s.canonical \ D : can[k] = s.canonical[k]
  BY <1>2
<1>7. can \in [DOMAIN can -> Hash] /\ DOMAIN can \subseteq Height
  BY <1>2, <1>3, <1>4, <1>5 DEF TreeType, Height
<1> HIDE DEF can
<1>8. /\ DOMAIN u = {"canonical", "headers", "tip", "forks"}
      /\ u.headers = s.headers /\ u.tip = s.tip /\ u.forks = s.forks
      /\ u.canonical = can
  BY DEF TreeType
<1> HIDE DEF u
<1>9. \A k \in D : u.canonical[k] \in conn /\ HeightOf(s, u.canonical[k]) = k
  BY <1>5, <1>6, <1>8
<1> QED
  BY <1>1, <1>2, <1>6, <1>7, <1>8, <1>9 DEF D, conn

\* With a new header among the tips, and its parent no longer one of them, the
\* tips are still leaves.
LEMMA GrowTips ==
    ASSUME NEW root, NEW t, NEW u, NEW h, NEW k, Sound(t, root), Grown(t, u, h, k, root),
           NEW n, n.hash = h, n.height = k,
           NEW O \in SUBSET (t.forks \cup {t.tip}),
           \A f \in O : f.hash # PrevOf[h],
           u.forks \cup {u.tip} = O \cup {n}, u.tip \notin u.forks
    PROVE  ForkTips(u, root)
<1>1. /\ Known(u) = Known(t) \cup {h} /\ h \notin Known(t)
      /\ \A x \in Known(t) : HeightOf(u, x) = HeightOf(t, x)
      /\ HeightOf(u, h) = k
  BY GrowHeights
<1>2. \A x \in Known(u) : PrevOf[x] # h
  BY GrowNoChild
<1>3. \A f \in O : f.hash \in Known(t)
  <2>1. CASE Known(t) = {}
    <3>1. t.tip.hash = PrevOf[h]
      BY <2>1 DEF Sound, ForkTips, Grown, Attaches, Tip
    <3>2. t.forks = {}
      BY <2>1 DEF Sound, ForkTips
    <3> QED
      BY <3>1, <3>2
  <2>2. CASE Known(t) # {}
    BY <2>2 DEF Sound, ForkTips
  <2> QED
    BY <2>1, <2>2
<1>4. \A f, g \in O : f.hash = g.hash => f = g
  BY DEF Sound, ForkTips
<1>5. \A f, g \in O \cup {n} : f.hash = g.hash => f = g
  BY <1>1, <1>3, <1>4
<1>6. ASSUME NEW f \in O \cup {n}
      PROVE  /\ f.hash \in Known(u) /\ f.height = HeightOf(u, f.hash)
             /\ \A x \in Known(u) : PrevOf[x] # f.hash
  <2>1. CASE f = n
    BY <1>1, <1>2, <2>1
  <2>2. CASE f \in O
    <3>1. /\ f.height = HeightOf(t, f.hash)
          /\ \A x \in Known(t) : PrevOf[x] # f.hash
      BY <1>3, <2>2 DEF Sound, ForkTips
    <3> QED
      BY <1>1, <1>3, <2>2, <3>1
  <2> QED
    BY <1>6, <2>1, <2>2
<1>7. u.tip \in O \cup {n} /\ u.forks \subseteq O \cup {n}
  OBVIOUS
<1>8. \A f \in u.forks : f.hash # u.tip.hash
  BY <1>5, <1>7
<1> QED
  BY <1>1, <1>5, <1>6, <1>7, <1>8 DEF ForkTips

\* Trees with the same nodes and tips, up to the filter state of the nodes.
SameShape(t, u) ==
    /\ DOMAIN u = Fields
    /\ u.tip = t.tip /\ u.forks = t.forks
    /\ Known(u) = Known(t)
    /\ u.headers \in [Known(u) -> NodeType]
    /\ \A x \in Known(t) : /\ u.headers[x].height = t.headers[x].height
                           /\ u.headers[x].acc_work = t.headers[x].acc_work
    /\ DOMAIN u.canonical \subseteq Height
    /\ u.canonical \in [DOMAIN u.canonical -> Hash]

\* What keeps the shape of a tree keeps it sound, with the same walks and work.
LEMMA SameShapeSound ==
    ASSUME NEW root, NEW t, Sound(t, root), NEW u, SameShape(t, u)
    PROVE  /\ Sound(u, root)
           /\ \A x : Walk(u, x) = Walk(t, x)
           /\ MainChain(u) = MainChain(t)
           /\ \A x \in Known(t) : HeightOf(u, x) = HeightOf(t, x)
           /\ \A x : AccWork(u, x) = AccWork(t, x)
<1>1. TreeType(u)
  BY DEF Sound, SameShape, TreeType, Fields
<1>2. HeadersLinked(u, root)
  BY DEF Sound, SameShape, HeadersLinked, IsFirst, FirstOK, HeightOf
<1>3. ForkTips(u, root)
  BY DEF Sound, SameShape, ForkTips, HeightOf
<1> QED
  BY <1>1, <1>2, <1>3 DEF Sound, SameShape, Walk, MainChain, HeightOf, AccWork

\* Extending the active tip keeps the tree sound.
LEMMA TipExtendedSound ==
    ASSUME NEW root, NEW t, Sound(t, root), NEW h \in Hash, PrevOf[h] = t.tip.hash,
           NEW u, TipExtended(t, u, h, root)
    PROVE  Sound(u, root)
<1> DEFINE k == t.tip.height + 1
<1>1. Grown(t, u, h, k, root) /\ u.tip.hash = h /\ u.tip.height = k /\ u.forks = t.forks
  BY DEF TipExtended
<1> HIDE DEF k
<1>2. HeadersLinked(u, root) /\ Known(u) \subseteq Hash /\ k \in Nat /\ h \notin Known(t)
      /\ u.headers \in [Known(u) -> NodeType]
  BY <1>1, GrowLinked, GrowFields
<1>3. TreeType(u)
  BY <1>2 DEF TreeType, SetCanonical, Sound, Height, TipExtended, Fields, k
<1>4. \A f \in t.forks : f.hash # PrevOf[h] /\ f.hash # h
  BY <1>2 DEF Sound, ForkTips
<1>5. u.forks \cup {u.tip} = t.forks \cup {u.tip} /\ u.tip \notin u.forks
  BY <1>1, <1>4
<1>6. ForkTips(u, root)
  BY <1>1, <1>4, <1>5, GrowTips
<1> QED
  BY <1>2, <1>3, <1>6 DEF Sound

\* So does extending or opening a fork, with the candidates that are no parent
\* of the new header.
LEMMA ForkGrownSound ==
    ASSUME NEW root, NEW t, Sound(t, root), NEW h \in Hash, NEW others \in SUBSET t.forks,
           PrevOf[h] \in Known(t), PrevOf[h] # t.tip.hash,
           \A f \in others : f.hash # PrevOf[h],
           NEW u, ForkGrown(t, u, h, others, root)
    PROVE  Sound(u, root)
<1>0. PICK k : /\ Grown(t, u, h, k, root)
               /\ \E f \in TipType : f.hash = h /\ f.height = k /\ u.forks = others \cup {f}
  BY DEF ForkGrown
<1>1. PICK n \in TipType : n.hash = h /\ n.height = k /\ u.forks = others \cup {n}
  BY <1>0
<1>2. HeadersLinked(u, root) /\ Known(u) \subseteq Hash /\ h \notin Known(t)
      /\ u.headers \in [Known(u) -> NodeType]
  BY <1>0, GrowLinked, GrowFields
<1>3. TreeType(u)
  BY <1>1, <1>2 DEF TreeType, Sound, ForkGrown, Fields
<1>4. /\ t.tip.hash \in Known(t) /\ t.tip \notin others
  BY DEF Sound, ForkTips
<1>5. u.tip = t.tip /\ u.tip \notin u.forks
  BY <1>1, <1>2, <1>4 DEF ForkGrown
<1> DEFINE O == others \cup {t.tip}
<1>6. u.forks \cup {u.tip} = O \cup {n}
  BY <1>1, <1>5
<1>7. O \in SUBSET (t.forks \cup {t.tip}) /\ \A f \in O : f.hash # PrevOf[h]
  OBVIOUS
<1> HIDE DEF O
<1>8. ForkTips(u, root)
  BY <1>0, <1>1, <1>5, <1>6, <1>7, GrowTips
<1> QED
  BY <1>2, <1>3, <1>8 DEF Sound

\* So does making a fork the active chain, before canonical_hashes follows.
LEMMA ForkWinsSound ==
    ASSUME NEW root, NEW t, Sound(t, root), NEW h \in Hash, NEW others \in SUBSET t.forks,
           PrevOf[h] \in Known(t), PrevOf[h] # t.tip.hash,
           \A f \in others : f.hash # PrevOf[h],
           NEW s, ForkWins(t, s, h, others, root)
    PROVE  Sound(s, root)
<1>1. PICK k : Grown(t, s, h, k, root) /\ s.tip.height = k
  BY DEF ForkWins
<1>2. HeadersLinked(s, root) /\ Known(s) \subseteq Hash /\ h \notin Known(t)
      /\ s.headers \in [Known(s) -> NodeType]
  BY <1>1, GrowLinked, GrowFields
<1>3. t.tip \in TipType /\ s.tip.hash = h /\ s.forks = others \cup {t.tip}
  BY DEF ForkWins, Sound, TreeType
<1>4. TreeType(s)
  BY <1>2, <1>3 DEF TreeType, Sound, ForkWins, Fields
<1>5. \A f \in others \cup {t.tip} : f.hash \in Known(t)
  BY DEF Sound, ForkTips
<1>6. s.tip \notin s.forks
  BY <1>2, <1>3, <1>5
<1>7. /\ s.forks \cup {s.tip} = (others \cup {t.tip}) \cup {s.tip}
      /\ others \cup {t.tip} \in SUBSET (t.forks \cup {t.tip})
      /\ \A f \in others \cup {t.tip} : f.hash # PrevOf[h]
  BY <1>3
<1>8. ForkTips(s, root)
  BY <1>1, <1>3, <1>6, <1>7, GrowTips
<1> QED
  BY <1>2, <1>4, <1>8 DEF Sound

\* switch_to_fork keeps the shape of the tree.
LEMMA SwitchShape ==
    ASSUME NEW root, NEW s, Sound(s, root), NEW h
    PROVE  SameShape(s, SwitchToFork(s, h).tree)
<1> DEFINE u == SwitchToFork(s, h).tree
<1>1. /\ DOMAIN u = Fields
      /\ u.headers = s.headers /\ u.tip = s.tip /\ u.forks = s.forks
      /\ u.canonical \in [DOMAIN u.canonical -> Hash]
      /\ DOMAIN u.canonical \subseteq Height
  BY SwitchCase DEF Sound, Fields
<1> HIDE DEF u
<1>2. SameShape(s, u)
  BY <1>1 DEF SameShape, Sound, TreeType, Known
<1> QED
  BY <1>2 DEF u

\* Whatever header arrives, the tree stays sound.
LEMMA AcceptHeaderSound ==
    ASSUME NEW root, NEW t, Sound(t, root), NEW h \in Hash, NEW r, r = AcceptHeader(t, h)
    PROVE  Sound(r.tree, root)
<1>1. CASE r.tree = t
  BY <1>1
<1>2. CASE PrevOf[h] = t.tip.hash /\ TipExtended(t, r.tree, h, root)
  BY <1>2, TipExtendedSound
<1>3. CASE /\ PrevOf[h] # t.tip.hash /\ ForksAt(t, PrevOf[h]) = {}
           /\ PrevOf[h] \in Known(t) /\ ForkGrown(t, r.tree, h, t.forks, root)
  <2>1. \A f \in t.forks : f.hash # PrevOf[h]
    BY <1>3 DEF ForksAt
  <2> QED
    BY <1>3, <2>1, ForkGrownSound
<1>4. ASSUME NEW fork \in t.forks, PrevOf[h] = fork.hash,
             \/ ForksAre(t, r.tree, t.forks \ {fork})
             \/ ForkGrown(t, r.tree, h, t.forks \ {fork}, root)
             \/ \E s : ForkWins(t, s, h, t.forks \ {fork}, root) /\ r = SwitchToFork(s, h)
      PROVE  Sound(r.tree, root)
  <2> DEFINE others == t.forks \ {fork}
  <2>1. /\ PrevOf[h] \in Known(t) /\ PrevOf[h] # t.tip.hash
        /\ \A f \in others : f.hash # PrevOf[h]
    BY <1>4 DEF Sound, ForkTips
  <2>2. others \in SUBSET t.forks
    OBVIOUS
  <2>3. CASE ForksAre(t, r.tree, others)
    <3>1. Known(r.tree) = Known(t)
      BY <2>3 DEF ForksAre, Known
    <3>2. TreeType(r.tree)
      BY <2>3, <3>1 DEF Sound, TreeType, ForksAre, Fields
    <3>3. HeadersLinked(r.tree, root)
      BY <2>3, <3>1 DEF Sound, HeadersLinked, HeightOf, IsFirst, FirstOK, ForksAre
    <3>4. ForkTips(r.tree, root)
      BY <2>3, <3>1 DEF Sound, ForkTips, HeightOf, ForksAre
    <3> QED
      BY <3>2, <3>3, <3>4 DEF Sound
  <2>4. CASE ForkGrown(t, r.tree, h, others, root)
    BY <2>1, <2>2, <2>4, ForkGrownSound
  <2>5. ASSUME NEW s, ForkWins(t, s, h, others, root), r = SwitchToFork(s, h)
        PROVE  Sound(r.tree, root)
    <3>1. Sound(s, root)
      BY <2>1, <2>2, <2>5, ForkWinsSound
    <3> QED
      BY <2>5, <3>1, SwitchShape, SameShapeSound
  <2> QED
    BY <1>4, <2>3, <2>4, <2>5
<1>5. Outcome(t, h, r, root)
  BY AcceptHeaderCases
<1>6. CASE \E fork \in t.forks :
             /\ PrevOf[h] = fork.hash
             /\ \/ ForksAre(t, r.tree, t.forks \ {fork})
                \/ ForkGrown(t, r.tree, h, t.forks \ {fork}, root)
                \/ \E s : ForkWins(t, s, h, t.forks \ {fork}, root) /\ r = SwitchToFork(s, h)
  BY <1>4, <1>6, Zenon
<1> QED
  BY <1>1, <1>2, <1>3, <1>5, <1>6, Zenon DEF Outcome

-----------------------------------------------------------------------------
(* The operations on filter state keep the shape of the tree. *)

\* set_commitment keeps the shape of the tree.
LEMMA SetCommitmentShape ==
    ASSUME NEW root, NEW t, Sound(t, root), NEW c \in Commitment, NEW h
    PROVE  LET u == SetCommitment(t, c, h)
           IN  SameShape(t, u) /\ u.canonical = t.canonical
<1> USE DEF Sound, TreeType
<1>1. CASE h \notin Known(t)
  BY <1>1 DEF SetCommitment, SameShape, Fields
<1>2. CASE h \in Known(t)
  <2> DEFINE u == [t EXCEPT !.headers[h].commitment = c]
  <2>1. /\ DOMAIN u = Fields /\ u.tip = t.tip /\ u.forks = t.forks
        /\ u.canonical = t.canonical
        /\ u.headers = [t.headers EXCEPT ![h].commitment = c]
    BY DEF Fields
  <2> HIDE DEF u
  <2>2. Known(u) = Known(t) /\ u.headers \in [Known(u) -> NodeType]
    <3>1. t.headers[h] \in NodeType
      BY <1>2
    <3>2. [t.headers[h] EXCEPT !.commitment = c] \in NodeType
      BY <3>1 DEF NodeType
    <3> QED
      BY <1>2, <2>1, <3>2 DEF Known
  <2>3. \A x \in Known(t) : /\ u.headers[x].height = t.headers[x].height
                            /\ u.headers[x].acc_work = t.headers[x].acc_work
    BY <1>2, <2>1 DEF Known, NodeType
  <2>4. SameShape(t, u)
    BY <2>1, <2>2, <2>3 DEF SameShape
  <2> QED
    BY <1>2, <2>1, <2>4 DEF SetCommitment, u
<1> QED
  BY <1>1, <1>2

\* check_filter keeps the shape of the tree.
LEMMA CheckFilterShape ==
    ASSUME NEW root, NEW t, Sound(t, root), NEW h
    PROVE  LET u == CheckFilter(t, h)
           IN  SameShape(t, u) /\ u.canonical = t.canonical
<1> USE DEF Sound, TreeType
<1>1. CASE h \notin Known(t)
  BY <1>1 DEF CheckFilter, SameShape, Fields
<1>2. CASE h \in Known(t)
  <2> DEFINE u == [t EXCEPT !.headers[h].checked = TRUE]
  <2>1. /\ DOMAIN u = Fields /\ u.tip = t.tip /\ u.forks = t.forks
        /\ u.canonical = t.canonical
        /\ u.headers = [t.headers EXCEPT ![h].checked = TRUE]
    BY DEF Fields
  <2> HIDE DEF u
  <2>2. Known(u) = Known(t) /\ u.headers \in [Known(u) -> NodeType]
    <3>1. t.headers[h] \in NodeType
      BY <1>2
    <3>2. [t.headers[h] EXCEPT !.checked = TRUE] \in NodeType
      BY <3>1 DEF NodeType
    <3> QED
      BY <1>2, <2>1, <3>2 DEF Known
  <2>3. \A x \in Known(t) : /\ u.headers[x].height = t.headers[x].height
                            /\ u.headers[x].acc_work = t.headers[x].acc_work
    BY <1>2, <2>1 DEF Known, NodeType
  <2>4. SameShape(t, u)
    BY <2>1, <2>2, <2>3 DEF SameShape
  <2> QED
    BY <1>2, <2>1, <2>4 DEF CheckFilter, u
<1> QED
  BY <1>1, <1>2

\* reset_all_filters keeps the shape of the tree.
LEMMA ResetShape ==
    ASSUME NEW root, NEW t, Sound(t, root)
    PROVE  LET u == ResetAllFilters(t)
           IN  SameShape(t, u) /\ u.canonical = t.canonical
<1> USE DEF Sound, TreeType
<1> DEFINE reset == MainChain(t) \cup UNION {ForkReset(t, f) : f \in t.forks}
           hd == [h \in Known(t) |->
                    IF h \in reset THEN [t.headers[h] EXCEPT !.checked = FALSE]
                    ELSE t.headers[h]]
           u == [t EXCEPT !.headers = hd]
<1>1. ResetAllFilters(t) = u
  BY DEF ResetAllFilters
<1> HIDE DEF reset
<1>2. /\ DOMAIN hd = Known(t) /\ hd \in [Known(t) -> NodeType]
      /\ \A x \in Known(t) : /\ hd[x].height = t.headers[x].height
                             /\ hd[x].acc_work = t.headers[x].acc_work
  BY DEF NodeType
<1> HIDE DEF hd
<1>3. /\ DOMAIN u = Fields /\ u.tip = t.tip /\ u.forks = t.forks
      /\ u.canonical = t.canonical /\ u.headers = hd
  BY DEF Fields
<1> HIDE DEF u
<1>4. SameShape(t, u)
  BY <1>2, <1>3 DEF SameShape, Known
<1> QED
  BY <1>1, <1>3, <1>4

\* assume_checked_to keeps the shape of the tree, and the commitments.
LEMMA AssumeCheckedShape ==
    ASSUME NEW root, NEW t, Sound(t, root), NEW k
    PROVE  LET u == AssumeCheckedTo(t, k)
           IN  /\ SameShape(t, u) /\ u.canonical = t.canonical
               /\ \A x \in Known(t) : u.headers[x].commitment = t.headers[x].commitment
<1> DEFINE hd == [h \in Known(t) |->
                    IF h \in MainChain(t) /\ HeightOf(t, h) <= k
                    THEN [t.headers[h] EXCEPT !.checked = TRUE] ELSE t.headers[h]]
           u == [t EXCEPT !.headers = hd]
<1>0. /\ DOMAIN t = Fields /\ t.headers \in [Known(t) -> NodeType]
      /\ DOMAIN t.canonical \subseteq Height /\ t.canonical \in [DOMAIN t.canonical -> Hash]
  BY DEF Sound, TreeType, Fields
<1>1. u = AssumeCheckedTo(t, k)
  BY DEF AssumeCheckedTo
<1>2. ASSUME NEW x \in Known(t)
      PROVE  /\ hd[x] \in NodeType
             /\ hd[x].height = t.headers[x].height /\ hd[x].acc_work = t.headers[x].acc_work
             /\ hd[x].commitment = t.headers[x].commitment
  <2>1. t.headers[x] \in NodeType
    BY <1>0
  <2>2. hd[x] \in {t.headers[x], [t.headers[x] EXCEPT !.checked = TRUE]}
    OBVIOUS
  <2> HIDE DEF hd
  <2> QED
    BY <2>1, <2>2 DEF NodeType
<1>3. hd \in [Known(t) -> NodeType] /\ DOMAIN hd = Known(t)
  <2>1. DOMAIN hd = Known(t) /\ hd = [x \in Known(t) |-> hd[x]]
    OBVIOUS
  <2> HIDE DEF hd
  <2> QED
    BY <1>2, <2>1
<1> HIDE DEF hd
<1>4. /\ DOMAIN u = Fields /\ u.headers = hd /\ u.tip = t.tip /\ u.forks = t.forks
      /\ u.canonical = t.canonical
  BY <1>0 DEF Fields
<1> HIDE DEF u
<1>5. Known(u) = Known(t)
  BY <1>3, <1>4 DEF Known
<1>6. SameShape(t, u)
  BY <1>0, <1>2, <1>3, <1>4, <1>5 DEF SameShape
<1> QED
  BY <1>1, <1>2, <1>4, <1>6

-----------------------------------------------------------------------------
(* Trees to start with. *)

\* A tree that has the header of its anchor and nothing else is sound.
LEMMA AnchoredSound ==
    ASSUME NEW root \in Anchors, NEW u, DOMAIN u = {"canonical", "headers", "tip", "forks"},
           u.tip = Tip(root.hash, root.height, BitsOf[root.hash]), u.forks = {},
           u.headers = [h \in {root.hash} |-> NewNode(root.height, Work(root.hash))],
           DOMAIN u.canonical \subseteq Height,
           u.canonical \in [DOMAIN u.canonical -> Hash]
    PROVE  Sound(u, root) /\ Known(u) = {root.hash} /\ Known(u) \subseteq Hash
<1> USE HeaderAssumption DEF Anchors
<1>0. Work(root.hash) \in Nat /\ BitsOf[root.hash] \in Bits
  BY DEF Work
<1>1. Known(u) = {root.hash} /\ u.headers[root.hash] = NewNode(root.height, Work(root.hash))
  BY DEF Known
<1>2. NewNode(root.height, Work(root.hash)) \in NodeType /\ u.tip \in TipType
  BY <1>0 DEF NewNode, NodeType, Tip, TipType, Height
<1>3. TreeType(u)
  BY <1>1, <1>2 DEF TreeType
<1>4. PrevOf[root.hash] # root.hash
  BY RankAssumption
<1>5. HeadersLinked(u, root)
  BY <1>1, <1>4, AncestrySelf DEF HeadersLinked, IsFirst, FirstOK, HeightOf, NewNode
<1>6. ForkTips(u, root)
  BY <1>1, <1>4 DEF ForkTips, HeightOf, NewNode, Tip
<1> QED
  BY <1>1, <1>3, <1>5, <1>6 DEF Sound

-----------------------------------------------------------------------------
(* Reports *)

\* The blocks that a report names are headers.
LEMMA ReportType ==
    ASSUME NEW root, NEW t, Sound(t, root), NEW h \in Hash, NEW r, r = AcceptHeader(t, h),
           NEW chain \in SUBSET Hash
    PROVE  ApplyReport(chain, r.changes) \in SUBSET Hash
<1>1. Outcome(t, h, r, root)
  BY AcceptHeaderCases
<1>2. CASE r.changes.kind \in {"InvalidPow", "Duplicate", "UnknownPrevHash"}
  BY <1>2 DEF ApplyReport
<1>3. CASE r.changes = Change("Accepted", {h}, {})
  BY <1>3 DEF ApplyReport, Change
<1>4. CASE r.changes = Change("ExtendedFork", {h}, {})
  BY <1>4 DEF ApplyReport, Change
<1>5. CASE r.changes = Unaccepted("InvalidPow")
  BY <1>5 DEF ApplyReport, Change, Unaccepted
<1>6. ASSUME NEW fork \in t.forks, PrevOf[h] = fork.hash,
             NEW s, ForkWins(t, s, h, t.forks \ {fork}, root), r = SwitchToFork(s, h)
      PROVE  ApplyReport(chain, r.changes) \in SUBSET Hash
  <2>1. PICK k : Grown(t, s, h, k, root)
    BY <1>6 DEF ForkWins
  <2>2. Reconnected(s, h) \subseteq Hash
    BY <2>1, GrowFields DEF Reconnected, Walk
  <2>3. r.changes.kind = "Reorganization" /\ r.changes.accepted = Reconnected(s, h)
    BY <1>6 DEF SwitchToFork, Change
  <2> QED
    BY <2>2, <2>3 DEF ApplyReport
<1>7. CASE \E fork \in t.forks : PrevOf[h] = fork.hash /\
             \E s : ForkWins(t, s, h, t.forks \ {fork}, root) /\ r = SwitchToFork(s, h)
  BY <1>6, <1>7, Zenon
<1> QED
  BY <1>1, <1>2, <1>3, <1>4, <1>5, <1>7, Zenon DEF Outcome

\* A known header that another walk passes has a known child.
LEMMA WalkPastLeaf ==
    ASSUME NEW root, NEW t, TreeType(t), HeadersLinked(t, root), NEW h \in Known(t),
           NEW x \in Walk(t, h), x # h
    PROVE  \E y \in Known(t) : PrevOf[y] = x
<1> SUFFICES ASSUME \A y \in Known(t) : PrevOf[y] # x
             PROVE  FALSE
  OBVIOUS
<1>0. h \in Hash /\ x \in Known(t) /\ x \in Ancestry[h]
  BY DEF TreeType, Walk
<1> DEFINE S == {z \in Ancestry[h] : z # x}
<1>1. h \in S /\ S \in SUBSET Hash
  BY <1>0, AncestrySelf
<1>2. ASSUME NEW z \in S, PrevOf[z] \in Hash
      PROVE  PrevOf[z] \in S
  <2>1. PrevOf[z] \in Ancestry[h]
    BY <1>0, <1>2, AncestryClosed DEF PrevClosed
  <2>2. CASE z \in Known(t)
    BY <2>1, <2>2
  <2>3. CASE z \notin Known(t)
    <3>1. z \in Hash /\ (z = root.hash \/ Rank[z] < Rank[root.hash])
      BY <1>1, <2>3, WalkHeights
    <3>2. Rank[PrevOf[z]] < Rank[root.hash]
      BY <1>2, <3>1, RankAssumption, RootType
    <3>3. Rank[root.hash] <= Rank[x] /\ x \in Hash
      BY <1>0, KnownRank DEF TreeType
    <3> QED
      BY <1>2, <2>1, <3>2, <3>3, RankAssumption, RootType
  <2> QED
    BY <2>2, <2>3
<1>3. PrevClosed(S)
  BY <1>2 DEF PrevClosed
<1>4. Ancestry[h] \subseteq S
  BY <1>0, <1>1, <1>3, AncestryLeast
<1> QED
  BY <1>0, <1>4

-----------------------------------------------------------------------------
(* Trees whose headers all have the same work. *)

UniformWork == \A b, c \in Bits : WorkOf[b] = WorkOf[c]

\* One difficulty, as on a network for tests: no header is refused for its bits.
OneDifficulty == \A b, c \in Bits : b = c

\* With equal work per header, work is ordered like height.
WorkOrder(t) ==
    \A x, y \in Known(t) :
        /\ HeightOf(t, x) = HeightOf(t, y) =>
               t.headers[x].acc_work = t.headers[y].acc_work
        /\ HeightOf(t, x) < HeightOf(t, y) =>
               t.headers[x].acc_work < t.headers[y].acc_work

\* With equal work per header, work still grows with height after a new header.
LEMMA GrowOrder ==
    ASSUME NEW root, UniformWork, NEW t, NEW u, NEW h, NEW k, Grown(t, u, h, k, root), WorkOrder(t)
    PROVE  WorkOrder(u)
<1> DEFINE Acc(x) == u.headers[x].acc_work
           Hgt(x) == HeightOf(u, x)
           p == PrevOf[h]
<1>1. /\ Known(u) = Known(t) \cup {h} /\ h \notin Known(t) /\ h \in Hash
      /\ Known(u) \subseteq Hash /\ u.headers \in [Known(u) -> NodeType]
      /\ \A x \in Known(t) : u.headers[x] = t.headers[x]
      /\ Work(h) \in Nat \ {0}
  BY GrowFields
<1>2. HeadersLinked(u, root)
  BY GrowLinked
<1>3. \A x \in Known(u) : Acc(x) \in Nat /\ Hgt(x) \in Nat
  BY <1>1 DEF NodeType, HeightOf, Height
<1>4. CASE Known(t) = {}
  BY <1>1, <1>3, <1>4 DEF WorkOrder
<1>5. CASE Known(t) # {}
  <2>1. p \in Known(t) /\ ~IsFirst(u, h)
    BY <1>1, <1>5 DEF Grown, Attaches, IsFirst
  <2>2. Hgt(h) = Hgt(p) + 1 /\ Acc(h) = Acc(p) + Work(h)
    BY <1>1, <1>2, <2>1 DEF HeadersLinked
  <2>3. \A x, y \in Known(t) : /\ Hgt(x) = Hgt(y) => Acc(x) = Acc(y)
                               /\ Hgt(x) < Hgt(y) => Acc(x) < Acc(y)
    BY <1>1 DEF WorkOrder, HeightOf
  <2>4. ASSUME NEW y \in Known(t), Hgt(y) > Hgt(p)
        PROVE  /\ PrevOf[y] \in Known(t)
               /\ Hgt(y) = Hgt(PrevOf[y]) + 1 /\ Acc(y) = Acc(PrevOf[y]) + Work(h)
    <3>1. PrevOf[y] \in Known(t)
      <4> SUFFICES ASSUME PrevOf[y] \notin Known(t) PROVE FALSE
        OBVIOUS
      <4>1. y \in Ancestry[p]
        BY <2>1 DEF Grown, HeadersLinked, IsFirst
      <4>2. HeightOf(t, y) <= HeightOf(t, p)
        BY <2>1, <4>1, WalkHeights DEF Grown
      <4>3. Hgt(y) <= Hgt(p)
        BY <1>1, <2>1, <4>2 DEF HeightOf
      <4> QED
        BY <1>1, <1>3, <2>1, <2>4, <4>3
    <3>2. Work(y) = Work(h)
      BY <1>1, HeaderAssumption DEF UniformWork, Work
    <3>3. ~IsFirst(u, y) /\ y \in Known(u)
      BY <1>1, <3>1 DEF IsFirst
    <3> QED
      BY <1>2, <3>1, <3>2, <3>3 DEF HeadersLinked
  <2>5. ASSUME NEW y \in Known(t)
        PROVE  /\ Hgt(y) = Hgt(h) => Acc(y) = Acc(h)
               /\ Hgt(y) < Hgt(h) => Acc(y) < Acc(h)
               /\ Hgt(h) < Hgt(y) => Acc(h) < Acc(y)
    <3> HIDE DEF Acc, Hgt, p
    <3>0. y \in Known(u) /\ p \in Known(u) /\ h \in Known(u)
      BY <1>1, <2>1
    <3>1. CASE Hgt(y) <= Hgt(p)
      BY <1>1, <1>3, <2>1, <2>2, <2>3, <3>0, <3>1
    <3>2. CASE Hgt(y) > Hgt(p)
      <4>1. /\ PrevOf[y] \in Known(t) /\ PrevOf[y] \in Known(u)
            /\ Hgt(y) = Hgt(PrevOf[y]) + 1 /\ Acc(y) = Acc(PrevOf[y]) + Work(h)
        BY <1>1, <2>4, <3>2
      <4> QED
        BY <1>1, <1>3, <2>1, <2>2, <2>3, <3>0, <4>1
    <3> QED
      BY <1>3, <3>0, <3>1, <3>2
  <2>6. WorkOrder(u)
    BY <1>1, <1>3, <2>3, <2>5 DEF WorkOrder
  <2> QED
    BY <2>6
<1> QED
  BY <1>4, <1>5

\* Higher blocks are the ones with more work.
LEMMA MoreWorkHigher ==
    ASSUME NEW t, TreeType(t), WorkOrder(t), NEW x \in Known(t), NEW y \in Known(t),
           AccWork(t, x) > AccWork(t, y)
    PROVE  HeightOf(t, x) > HeightOf(t, y)
<1>1. /\ HeightOf(t, x) \in Nat /\ HeightOf(t, y) \in Nat
      /\ t.headers[x].acc_work \in Nat /\ t.headers[y].acc_work \in Nat
  BY DEF TreeType, NodeType, HeightOf, Height
<1> QED
  BY <1>1 DEF AccWork, WorkOrder

\* canonical indexes the walk from old.
IndexedFrom(t, old, canonical, root) ==
    /\ \A x \in Walk(t, old) \ {root.hash} :
        HeightOf(t, x) \in DOMAIN canonical /\ canonical[HeightOf(t, x)] = x
    /\ \A k \in DOMAIN canonical :
        canonical[k] \in Walk(t, old) /\ HeightOf(t, canonical[k]) = k

\* switch_to_fork from a chain to a higher one: the index follows, and the
\* blocks that it connects and disconnects are the difference of the chains.
LEMMA SwitchIndexed ==
    ASSUME NEW root, NEW s, Sound(s, root), NEW old \in Known(s), NEW h \in Known(s),
           HeightOf(s, old) < HeightOf(s, h),
           IndexedFrom(s, old, s.canonical, root),
           NEW r, r = SwitchToFork(s, h)
    PROVE  /\ IndexedFrom(s, h, r.tree.canonical, root)
           /\ Walk(s, h) = (Walk(s, old) \ r.changes.disconnected) \cup r.changes.accepted
<1> DEFINE M == Walk(s, old)
           W == Walk(s, h)
           conn == Reconnected(s, h)
           D == {HeightOf(s, x) : x \in conn}
           can == s.canonical
           new == r.tree.canonical
<1>1. TreeType(s) /\ HeadersLinked(s, root)
  BY DEF Sound
<1>2. /\ M \subseteq Known(s) /\ W \subseteq Known(s) /\ conn \subseteq W
      /\ Known(s) \subseteq Hash
      /\ M \subseteq Ancestry[old] /\ W \subseteq Ancestry[h]
      /\ \A x \in Known(s) : HeightOf(s, x) \in Nat
  BY <1>1 DEF Walk, Reconnected, TreeType, NodeType, HeightOf, Height
<1>3. /\ \A x \in M \ {root.hash} : HeightOf(s, x) \in DOMAIN can /\ can[HeightOf(s, x)] = x
      /\ \A k \in DOMAIN can : can[k] \in M /\ HeightOf(s, can[k]) = k
  BY DEF IndexedFrom
<1>4. /\ DOMAIN new = DOMAIN can \cup D
      /\ \A k \in D : new[k] \in conn /\ HeightOf(s, new[k]) = k
      /\ \A k \in DOMAIN can \ D : new[k] = can[k]
      /\ r.changes = Change("Reorganization", conn,
                            {can[k] : k \in D \cap DOMAIN can} \cap Known(s))
  BY <1>1, SwitchCase
<1>5. /\ \A x, y \in W : HeightOf(s, x) = HeightOf(s, y) => x = y
      /\ \A x, y \in M : HeightOf(s, x) = HeightOf(s, y) => x = y
  BY <1>1, WalkUnique
\* What is not on the old chain is connected.
<1>6. ASSUME NEW x \in W, x \notin conn
      PROVE  x \in M
  <2>1. PICK y \in W : /\ HeightOf(s, y) >= HeightOf(s, x)
                       /\ HeightOf(s, y) \in DOMAIN can /\ can[HeightOf(s, y)] = y
    BY <1>6 DEF Reconnected
  <2>2. y \in M /\ x \in Ancestry[h] /\ y \in Ancestry[h] /\ h \in Hash
    BY <1>2, <1>3, <2>1
  <2>3. CASE x \in Ancestry[y]
    <3>1. x \in Ancestry[old]
      BY <1>2, <2>2, <2>3, AncestryTransitive
    <3> QED
      BY <1>2, <3>1 DEF Walk
  <2>4. CASE y \in Ancestry[x]
    <3>1. y = x
      BY <1>1, <1>2, <2>1, <2>4, WalkDescends
    <3> QED
      BY <2>2, <3>1
  <2> QED
    BY <2>2, <2>3, <2>4, AncestryLinear
\* The new chain has a block at each height of the old one.
<1>7. ASSUME NEW x \in M
      PROVE  \E w \in W : HeightOf(s, w) = HeightOf(s, x)
  <2>1. PICK g \in Known(s) : IsFirst(s, g) /\ g \in Ancestry[x]
    BY <1>1, <1>2 DEF HeadersLinked
  <2>2. HeightOf(s, g) <= HeightOf(s, x)
    BY <1>1, <1>2, <2>1, WalkHeights
  <2>3. HeightOf(s, x) <= HeightOf(s, old)
    BY <1>1, <1>2, WalkHeights
  <2>4. HeightOf(s, x) \in Nat /\ HeightOf(s, x) <= HeightOf(s, h)
    BY <1>2, <2>3
  <2> QED
    BY <1>1, <2>1, <2>2, <2>4, WalkFull
<1>8. ASSUME NEW x \in M, HeightOf(s, x) \notin D
      PROVE  x \in W
  <2>1. PICK w \in W : HeightOf(s, w) = HeightOf(s, x)
    BY <1>7
  <2>2. w \notin conn
    BY <1>8, <2>1
  <2>3. w \in M
    BY <1>6, <2>2
  <2> QED
    BY <1>5, <2>1, <2>3
<1> HIDE DEF M, W, conn, can, new
<1>9. ASSUME NEW x \in W \ {root.hash}
      PROVE  HeightOf(s, x) \in DOMAIN new /\ new[HeightOf(s, x)] = x
  <2>1. CASE x \in conn
    <3>1. HeightOf(s, x) \in D
      BY <2>1
    <3>2. new[HeightOf(s, x)] \in W /\ HeightOf(s, new[HeightOf(s, x)]) = HeightOf(s, x)
      BY <1>2, <1>4, <3>1
    <3> QED
      BY <1>4, <1>5, <3>1, <3>2
  <2>2. CASE x \notin conn
    <3>1. HeightOf(s, x) \in DOMAIN can /\ can[HeightOf(s, x)] = x
      BY <1>3, <1>6, <2>2
    <3>2. HeightOf(s, x) \notin D
      BY <1>2, <1>5, <2>2
    <3> QED
      BY <1>4, <3>1, <3>2
  <2> QED
    BY <2>1, <2>2
<1>10. ASSUME NEW k \in DOMAIN new
       PROVE  new[k] \in W /\ HeightOf(s, new[k]) = k
  <2>1. CASE k \in D
    BY <1>2, <1>4, <2>1
  <2>2. CASE k \notin D
    <3>1. k \in DOMAIN can /\ new[k] = can[k]
      BY <1>4, <2>2
    <3> QED
      BY <1>3, <1>8, <2>2, <3>1
  <2> QED
    BY <2>1, <2>2
<1>11. IndexedFrom(s, h, new, root)
  BY <1>9, <1>10 DEF IndexedFrom, W
<1> DEFINE disc == {can[k] : k \in D \cap DOMAIN can} \cap Known(s)
<1>12. r.changes.disconnected = disc /\ r.changes.accepted = conn
  BY <1>4 DEF Change
<1>13. ASSUME NEW x \in W, x \notin conn
       PROVE  x \in M \ disc
  <2>1. x \in M
    BY <1>6, <1>13
  <2>2. ASSUME NEW k \in D \cap DOMAIN can, x = can[k]
        PROVE  FALSE
    <3>1. HeightOf(s, x) = k
      BY <1>3, <2>2
    <3> QED
      BY <1>2, <1>5, <1>13, <2>2, <3>1
  <2> QED
    BY <2>1, <2>2
<1>14. ASSUME NEW x \in M, x \notin disc
       PROVE  x \in W
  <2>1. CASE HeightOf(s, x) \notin D
    BY <1>8, <2>1
  <2>2. CASE HeightOf(s, x) \in D /\ x # root.hash
    <3>1. HeightOf(s, x) \in DOMAIN can /\ can[HeightOf(s, x)] = x
      BY <1>3, <2>2
    <3> QED
      BY <1>2, <1>14, <2>2, <3>1
  <2>3. CASE HeightOf(s, x) \in D /\ x = root.hash
    <3>1. PICK z \in conn : HeightOf(s, z) = HeightOf(s, x)
      BY <2>3
    <3>2. x \in Known(s) /\ z \in Known(s) /\ x \in Hash
      BY <1>2
    <3>3. IsFirst(s, x)
      <4> SUFFICES ASSUME PrevOf[x] \in Known(s) PROVE FALSE
        BY DEF IsFirst
      <4>1. Rank[root.hash] <= Rank[PrevOf[x]] /\ PrevOf[x] \in Hash
        BY <1>1, <1>2, KnownRank
      <4> QED
        BY <1>1, <2>3, <3>2, <4>1, RankAssumption
    <3>4. x \in Ancestry[z]
      BY <1>1, <3>2, <3>3 DEF HeadersLinked
    <3>5. z = x
      BY <1>1, <1>2, <3>1, <3>2, <3>4, WalkDescends
    <3> QED
      BY <1>2, <3>1, <3>5
  <2> QED
    BY <2>1, <2>2, <2>3
<1>15. W = (M \ disc) \cup conn
  BY <1>2, <1>13, <1>14
<1> QED
  BY <1>11, <1>12, <1>15 DEF W, M, new

\* What accept_header keeps of the active chain, its index and its reports.
Followed(t, chain, root) == WorkOrder(t) /\ Indexed(t, root) /\ chain = MainChain(t)

\* What keeps the shape and the index keeps the reports right.
LEMMA SameShapeFollowed ==
    ASSUME NEW root, NEW t, Sound(t, root), NEW u, SameShape(t, u), u.canonical = t.canonical,
           NEW chain, Followed(t, chain, root)
    PROVE  Followed(u, chain, root)
<1>1. /\ MainChain(u) = MainChain(t) /\ Known(u) = Known(t)
      /\ MainChain(t) \subseteq Known(t)
      /\ \A x \in Known(t) : HeightOf(u, x) = HeightOf(t, x)
      /\ \A x \in Known(t) : u.headers[x].acc_work = t.headers[x].acc_work
  BY SameShapeSound DEF SameShape, MainChain, Walk
<1> QED
  BY <1>1 DEF Followed, WorkOrder, Indexed

\* So does extending the active tip, with the header it reports.
LEMMA TipExtendedFollowed ==
    ASSUME NEW root, UniformWork, NEW t, Sound(t, root), NEW h \in Hash, PrevOf[h] = t.tip.hash,
           NEW u, TipExtended(t, u, h, root), NEW chain, Followed(t, chain, root)
    PROVE  Followed(u, chain \cup {h}, root)
<1> DEFINE k == t.tip.height + 1
<1>1. Grown(t, u, h, k, root) /\ u.tip.hash = h /\ u.canonical = SetCanonical(t, k, h)
      /\ t.tip.height \in Nat
  BY DEF TipExtended, Sound, TreeType, TipType, Height
<1>2. WorkOrder(u)
  BY <1>1, GrowOrder DEF Followed
<1>3. MainChain(u) = MainChain(t) \cup {h}
  BY <1>1, GrowWalk, GrowHeights DEF MainChain
<1>4. ASSUME NEW x \in MainChain(t)
      PROVE  /\ x \in Known(t) /\ HeightOf(t, x) \in Nat
             /\ HeightOf(t, x) <= t.tip.height
  <2>1. x \in Known(t) /\ t.tip.hash \in Known(t) /\ x \in Ancestry[t.tip.hash]
    BY <1>4 DEF MainChain, Walk
  <2>2. HeightOf(t, t.tip.hash) = t.tip.height
    BY <2>1 DEF Sound, ForkTips
  <2>3. HeightOf(t, x) <= HeightOf(t, t.tip.hash)
    BY <2>1, WalkHeights DEF Sound
  <2>4. HeightOf(t, x) \in Nat
    BY <2>1 DEF Sound, TreeType, NodeType, HeightOf, Height
  <2> QED
    BY <2>1, <2>2, <2>3, <2>4
<1>5. /\ \A x \in Known(t) : HeightOf(u, x) = HeightOf(t, x)
      /\ HeightOf(u, h) = k /\ h \notin Known(t)
  BY <1>1, GrowHeights
<1>6. \A j \in DOMAIN t.canonical : j \in Nat /\ j <= t.tip.height
  BY <1>4 DEF Followed, Indexed
<1>7. /\ DOMAIN u.canonical = DOMAIN t.canonical \cup {k}
      /\ u.canonical[k] = h
      /\ \A j \in DOMAIN t.canonical : u.canonical[j] = t.canonical[j]
  BY <1>1, <1>6 DEF SetCanonical
<1>8. Indexed(u, root)
  BY <1>3, <1>4, <1>5, <1>7 DEF Followed, Indexed
<1> QED
  BY <1>2, <1>3, <1>8 DEF Followed

\* So does growing a fork, which reports nothing.
LEMMA ForkGrownFollowed ==
    ASSUME NEW root, UniformWork, NEW t, Sound(t, root), NEW h \in Hash, NEW others,
           t.tip.hash \in Known(t),
           NEW u, ForkGrown(t, u, h, others, root), NEW chain, Followed(t, chain, root)
    PROVE  Followed(u, chain, root)
<1>1. PICK k : Grown(t, u, h, k, root)
  BY DEF ForkGrown
<1>2. WorkOrder(u)
  BY <1>1, GrowOrder DEF Followed
<1>3. MainChain(u) = MainChain(t) /\ u.canonical = t.canonical
  BY <1>1, GrowWalk DEF MainChain, ForkGrown
<1>4. /\ \A x \in Known(t) : HeightOf(u, x) = HeightOf(t, x)
      /\ MainChain(t) \subseteq Known(t)
  BY <1>1, GrowHeights DEF MainChain, Walk
<1>5. Indexed(u, root)
  BY <1>3, <1>4 DEF Followed, Indexed
<1> QED
  BY <1>2, <1>3, <1>5 DEF Followed

\* So does a reorganization, with the blocks it connects and disconnects.
LEMMA ForkWinsFollowed ==
    ASSUME NEW root, UniformWork, NEW t, Sound(t, root), NEW h \in Hash, NEW fork \in t.forks,
           PrevOf[h] = fork.hash, NEW s, ForkWins(t, s, h, t.forks \ {fork}, root),
           NEW r, r = SwitchToFork(s, h), NEW chain, Followed(t, chain, root)
    PROVE  Followed(r.tree, ApplyReport(chain, r.changes), root)
<1> DEFINE others == t.forks \ {fork}
           old == t.tip.hash
<1>1. /\ PrevOf[h] \in Known(t) /\ PrevOf[h] # old /\ old \in Known(t)
      /\ \A f \in others : f.hash # PrevOf[h]
  BY DEF Sound, ForkTips
<1>2. Sound(s, root)
  BY <1>1, ForkWinsSound
<1>3. PICK k : Grown(t, s, h, k, root)
  BY DEF ForkWins
<1>4. /\ Known(s) = Known(t) \cup {h} /\ Walk(s, old) = Walk(t, old)
      /\ \A x \in Known(t) : HeightOf(s, x) = HeightOf(t, x)
  BY <1>1, <1>3, GrowWalk, GrowHeights
<1>5. WorkOrder(s)
  BY <1>3, GrowOrder DEF Followed
<1>6. /\ AccWork(s, h) > AccWork(s, old) /\ s.canonical = t.canonical /\ s.tip.hash = h
  BY DEF ForkWins
<1>7. HeightOf(s, old) < HeightOf(s, h)
  <2>1. HeightOf(s, h) > HeightOf(s, old)
    BY <1>1, <1>2, <1>4, <1>5, <1>6, MoreWorkHigher DEF Sound
  <2> QED
    BY <2>1
<1>8. IndexedFrom(s, old, s.canonical, root)
  BY <1>4, <1>6 DEF Followed, Indexed, IndexedFrom, MainChain, Walk
<1>9. /\ IndexedFrom(s, h, r.tree.canonical, root)
      /\ Walk(s, h) = (Walk(s, old) \ r.changes.disconnected) \cup r.changes.accepted
  BY <1>1, <1>2, <1>4, <1>7, <1>8, SwitchIndexed
<1>10. SameShape(s, r.tree)
  BY <1>2, SwitchShape
<1>11. /\ MainChain(r.tree) = Walk(s, h)
       /\ Known(r.tree) = Known(s)
       /\ \A x \in Known(s) : HeightOf(r.tree, x) = HeightOf(s, x)
       /\ \A x \in Known(s) : r.tree.headers[x].acc_work = s.headers[x].acc_work
  BY <1>2, <1>6, <1>10, SameShapeSound DEF SameShape, MainChain
<1>12. Walk(s, h) \subseteq Known(s)
  BY DEF Walk
<1>13. Indexed(r.tree, root)
  BY <1>9, <1>11, <1>12 DEF Indexed, IndexedFrom
<1>14. WorkOrder(r.tree)
  BY <1>5, <1>11 DEF WorkOrder
<1>15. r.changes.kind = "Reorganization"
  BY DEF SwitchToFork, Change
<1>16. ApplyReport(chain, r.changes) = MainChain(r.tree)
  BY <1>4, <1>9, <1>11, <1>15 DEF ApplyReport, Followed, MainChain
<1> QED
  BY <1>13, <1>14, <1>16 DEF Followed

\* So does accept_header, whatever the header.
LEMMA AcceptHeaderFollowed ==
    ASSUME NEW root, UniformWork, NEW t, Sound(t, root), NEW h \in Hash,
           NEW r, r = AcceptHeader(t, h),
           NEW chain, Followed(t, chain, root)
    PROVE  Followed(r.tree, ApplyReport(chain, r.changes), root)
<1>1. Outcome(t, h, r, root)
  BY AcceptHeaderCases
<1>2. CASE r.tree = t /\ r.changes.kind \in {"InvalidPow", "Duplicate", "UnknownPrevHash"}
  BY <1>2 DEF ApplyReport
<1>3. CASE /\ PrevOf[h] = t.tip.hash
           /\ TipExtended(t, r.tree, h, root) /\ r.changes = Change("Accepted", {h}, {})
  <2>1. ApplyReport(chain, r.changes) = chain \cup {h}
    BY <1>3 DEF ApplyReport, Change
  <2> QED
    BY <1>3, <2>1, TipExtendedFollowed
<1>4. ASSUME NEW others, ForkGrown(t, r.tree, h, others, root), t.tip.hash \in Known(t),
             r.changes = Change("ExtendedFork", {h}, {})
      PROVE  Followed(r.tree, ApplyReport(chain, r.changes), root)
  <2>1. ApplyReport(chain, r.changes) = chain
    BY <1>4 DEF ApplyReport, Change
  <2> QED
    BY <1>4, <2>1, ForkGrownFollowed
<1>5. ASSUME NEW fork \in t.forks, ForksAre(t, r.tree, t.forks \ {fork}),
             r.changes = Unaccepted("InvalidPow")
      PROVE  Followed(r.tree, ApplyReport(chain, r.changes), root)
  <2>1. ApplyReport(chain, r.changes) = chain
    BY <1>5 DEF ApplyReport, Change, Unaccepted
  <2>2. /\ MainChain(r.tree) = MainChain(t) /\ r.tree.headers = t.headers
        /\ r.tree.canonical = t.canonical /\ Known(r.tree) = Known(t)
    BY <1>5 DEF ForksAre, MainChain, Walk, Known
  <2>3. \A x : HeightOf(r.tree, x) = HeightOf(t, x)
    BY <2>2 DEF HeightOf
  <2> QED
    BY <2>1, <2>2, <2>3 DEF Followed, Indexed, WorkOrder
<1>6. Known(t) # {} => t.tip.hash \in Known(t)
  BY DEF Sound, ForkTips
<1>7. \A fork \in t.forks : fork.hash \in Known(t)
  BY DEF Sound, ForkTips
<1>8. CASE /\ PrevOf[h] \in Known(t) /\ ForkGrown(t, r.tree, h, t.forks, root)
           /\ r.changes = Change("ExtendedFork", {h}, {})
  BY <1>4, <1>6, <1>8
<1>9. ASSUME NEW fork \in t.forks, PrevOf[h] = fork.hash,
             \/ /\ ForksAre(t, r.tree, t.forks \ {fork})
                /\ r.changes = Unaccepted("InvalidPow")
             \/ /\ ForkGrown(t, r.tree, h, t.forks \ {fork}, root)
                /\ r.changes = Change("ExtendedFork", {h}, {})
             \/ \E s : ForkWins(t, s, h, t.forks \ {fork}, root) /\ r = SwitchToFork(s, h)
      PROVE  Followed(r.tree, ApplyReport(chain, r.changes), root)
  <2>1. CASE \E s : ForkWins(t, s, h, t.forks \ {fork}, root) /\ r = SwitchToFork(s, h)
    BY <1>9, <2>1, ForkWinsFollowed
  <2>2. CASE /\ ForkGrown(t, r.tree, h, t.forks \ {fork}, root)
             /\ r.changes = Change("ExtendedFork", {h}, {})
    BY <1>4, <1>6, <1>7, <1>9, <2>2
  <2> QED
    BY <1>5, <1>9, <2>1, <2>2
<1> QED
  BY <1>1, <1>2, <1>3, <1>8, <1>9, Zenon DEF Outcome

\* A tree with no header but that of its anchor is indexed.
LEMMA AnchoredFollowed ==
    ASSUME NEW root, NEW u, Sound(u, root), Known(u) \subseteq {root.hash},
           DOMAIN u.canonical = {} \/ (/\ DOMAIN u.canonical = {0} /\ u.canonical[0] = root.hash
                                       /\ Known(u) = {root.hash} /\ HeightOf(u, root.hash) = 0)
    PROVE  Followed(u, Known(u), root)
<1>1. MainChain(u) = Known(u)
  <2>1. CASE Known(u) = {}
    BY <2>1 DEF MainChain, Walk
  <2>2. CASE Known(u) # {}
    <3>1. Known(u) = {root.hash} /\ u.tip.hash = root.hash
      BY <2>2 DEF Sound, ForkTips
    <3>2. root.hash \in Hash
      BY RootType DEF Sound
    <3> QED
      BY <3>1, <3>2, AncestrySelf DEF MainChain, Walk
  <2> QED
    BY <2>1, <2>2
<1>2. Indexed(u, root)
  BY <1>1 DEF Indexed
<1>3. \A x \in Known(u) : HeightOf(u, x) \in Nat
  BY DEF Sound, TreeType, NodeType, HeightOf, Height
<1>4. WorkOrder(u)
  BY <1>3 DEF WorkOrder
<1> QED
  BY <1>1, <1>2, <1>4 DEF Followed

\* The constructors for a checkpoint and for a stored header return such trees.
LEMMA NewTreeSound ==
    ASSUME NEW root \in Anchors, NEW u, u = NewTree(root.hash, root.height)
    PROVE  /\ Sound(u, root) /\ Followed(u, {}, root)
           /\ Known(u) = {} /\ DOMAIN u.canonical = {}
<1>1. /\ DOMAIN u = {"canonical", "headers", "tip", "forks"} /\ u.forks = {}
      /\ u.tip = Tip(root.hash, root.height, None) /\ u.tip \in TipType
      /\ Known(u) = {} /\ DOMAIN u.canonical = {}
      /\ u.headers \in [{} -> NodeType] /\ u.canonical \in [{} -> Hash]
  BY DEF NewTree, Tip, TipType, Known, Height, Anchors
<1>2. Sound(u, root)
  BY <1>1 DEF Sound, TreeType, HeadersLinked, ForkTips, Tip, Height
<1> QED
  BY <1>1, <1>2, AnchoredFollowed

LEMMA FromHeaderSound ==
    ASSUME NEW root \in Anchors, NEW u, u = FromHeader(root.hash, root.height)
    PROVE  /\ Sound(u, root) /\ Followed(u, {root.hash}, root)
           /\ Known(u) = {root.hash} /\ DOMAIN u.canonical = {}
<1>1. /\ DOMAIN u = {"canonical", "headers", "tip", "forks"}
      /\ u.tip = Tip(root.hash, root.height, BitsOf[root.hash]) /\ u.forks = {}
      /\ u.headers = [h \in {root.hash} |-> NewNode(root.height, Work(root.hash))]
      /\ DOMAIN u.canonical = {} /\ u.canonical \in [{} -> Hash]
  BY DEF FromHeader
<1>2. Sound(u, root) /\ Known(u) = {root.hash}
  BY <1>1, AnchoredSound
<1>3. Followed(u, Known(u), root)
  <2>1. Known(u) \subseteq {root.hash} /\ DOMAIN u.canonical = {}
    BY <1>1, <1>2
  <2> QED
    BY <1>2, <2>1, AnchoredFollowed
<1> QED
  BY <1>1, <1>2, <1>3
=============================================================================
