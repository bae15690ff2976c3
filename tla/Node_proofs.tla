---------------------------- MODULE Node_proofs ----------------------------
(***************************************************************************)
(* What Node promises whatever peers send: its filter headers form one     *)
(* chain, and all it keeps has its type.  And what it takes to break the   *)
(* two promises about scans: a block counts as checked without a test only *)
(* after a rescan that left marks on a fork, and a matching block is lost  *)
(* only when its branch comes back or its filter is replaced.              *)
(***************************************************************************)
EXTENDS Node, TreeShape_proofs, FiniteSetTheorems

-----------------------------------------------------------------------------
(* Filter headers along a walk *)

\* FilterHeadersChain of a tree.
Chained(t) ==
    \A h \in Known(t) :
        Committed(t, h) /\ PrevOf[h] \in Known(t) =>
            /\ Committed(t, PrevOf[h])
            /\ t.headers[h].commitment.header =
                 NextHeader(t.headers[h].commitment.filter_hash,
                            t.headers[PrevOf[h]].commitment.header)

\* The anchor of the tree.
LEMMA TreeRootType ==
    TreeRoot \in Anchors /\ TreeRoot.hash = Root /\ TreeRoot.height = RootHeight
BY NodeAssumption DEF TreeRoot, Anchors

\* Below a block with a filter header, all blocks have one.
LEMMA CommittedBelow ==
    ASSUME NEW t, Sound(t, TreeRoot), Chained(t), NEW y \in Known(t), Committed(t, y),
           NEW x \in Walk(t, y)
    PROVE  Committed(t, x)
<1> DEFINE S == {z \in Hash : IF z \in Known(t) THEN Committed(t, z)
                              ELSE z = Root \/ Rank[z] < Rank[Root]}
<1>0. TreeType(t) /\ HeadersLinked(t, TreeRoot) /\ Known(t) \subseteq Hash
  BY DEF Sound, TreeType
<1>1. S \in SUBSET Hash /\ y \in S
  BY <1>0
<1>2. ASSUME NEW z \in S, PrevOf[z] \in Hash
      PROVE  PrevOf[z] \in S
  <2>1. CASE z \in Known(t) /\ PrevOf[z] \in Known(t)
    BY <1>2, <2>1 DEF Chained
  <2>2. CASE z \in Known(t) /\ PrevOf[z] \notin Known(t)
    <3>1. PrevOf[z] \in Ancestry[z]
      BY <1>0, <1>2, <2>2, AncestrySelf, AncestryClosed DEF PrevClosed
    <3>2. PrevOf[z] = Root \/ Rank[PrevOf[z]] < Rank[Root]
      BY <1>0, <2>2, <3>1, WalkHeights, TreeRootType
    <3> QED
      BY <1>2, <2>2, <3>2
  <2>3. CASE z \notin Known(t)
    <3>1. Rank[PrevOf[z]] < Rank[z] /\ Rank[z] <= Rank[Root]
      BY <1>2, <2>3, RankAssumption, NodeAssumption
    <3>2. Rank[PrevOf[z]] < Rank[Root]
      BY <1>2, <3>1, RankAssumption, NodeAssumption
    <3>3. PrevOf[z] \notin Known(t)
      BY <1>0, <1>2, <3>2, KnownRank, RankAssumption, NodeAssumption, TreeRootType
    <3> QED
      BY <1>2, <3>2, <3>3
  <2> QED
    BY <2>1, <2>2, <2>3
<1>3. PrevClosed(S)
  BY <1>2 DEF PrevClosed
<1>4. Ancestry[y] \subseteq S
  BY <1>0, <1>1, <1>3, AncestryLeast
<1> QED
  BY <1>4 DEF Walk

\* What makes a request r for filter headers safe to be answered at any time:
\* below its start the blocks under its stop hash have the filter header the
\* answer must build on, and no block that branches off above the start has one.
RequestOK(t, r) ==
    /\ r.stop \in Known(t)
    /\ r.start \in Nat
    /\ r.expected \in FilterHeader \cup {None}
    /\ \A x \in Walk(t, r.stop) :
        HeightOf(t, x) = r.start - 1 =>
            Committed(t, x) /\ t.headers[x].commitment.header = r.expected
    /\ \A y \in Known(t) :
        /\ Committed(t, y)
        /\ PrevOf[y] \in Walk(t, r.stop)
        /\ HeightOf(t, PrevOf[y]) >= r.start
        => y \in Walk(t, r.stop)

\* The nodes of t are in u with their filter headers, and the other nodes of u
\* came on top of them and have none.
Grows(t, u) ==
    /\ Known(t) \subseteq Known(u)
    /\ \A x \in Known(t) : /\ u.headers[x].commitment = t.headers[x].commitment
                           /\ HeightOf(u, x) = HeightOf(t, x)
                           /\ Walk(u, x) = Walk(t, x)
    /\ \A x \in Known(u) \ Known(t) : /\ ~Committed(u, x)
                                      /\ \A y \in Known(t) : PrevOf[y] # x

\* Growing keeps the chain of filter headers and what makes a request safe.
LEMMA GrowsKeeps ==
    ASSUME NEW t, NEW u, Grows(t, u)
    PROVE  /\ Chained(t) => Chained(u)
           /\ \A r : RequestOK(t, r) => RequestOK(u, r)
<1>1. Known(t) \subseteq Known(u)
      /\ \A x \in Known(t) : /\ Committed(u, x) <=> Committed(t, x)
                             /\ u.headers[x].commitment = t.headers[x].commitment
                             /\ HeightOf(u, x) = HeightOf(t, x)
                             /\ Walk(u, x) = Walk(t, x)
  BY DEF Grows, Committed
<1>2. \A x \in Known(u) : Committed(u, x) => x \in Known(t)
  BY DEF Grows
<1>3. \A x \in Known(t) : PrevOf[x] \in Known(u) => PrevOf[x] \in Known(t)
  BY DEF Grows
<1>4. \A x : Walk(t, x) \subseteq Known(t)
  BY DEF Walk
<1>5. ASSUME Chained(t) PROVE Chained(u)
  BY <1>1, <1>2, <1>3, <1>5 DEF Chained
<1>6. ASSUME NEW r, RequestOK(t, r) PROVE RequestOK(u, r)
  BY <1>1, <1>2, <1>4, <1>6 DEF RequestOK
<1> QED
  BY <1>5, <1>6

\* Growing twice is growing.
LEMMA GrowsTrans ==
    ASSUME NEW t, NEW u, NEW v, Grows(t, u), Grows(u, v)
    PROVE  Grows(t, v)
BY DEF Grows, Committed

\* A new header has no filter header, and is nobody's parent.
LEMMA GrownGrows ==
    ASSUME NEW t, NEW u, NEW h, NEW k, Grown(t, u, h, k, TreeRoot)
    PROVE  Grows(t, u)
<1>1. /\ Known(u) = Known(t) \cup {h} /\ h \notin Known(t)
      /\ \A x \in Known(t) : u.headers[x] = t.headers[x]
      /\ u.headers[h] = NewNode(k, AccWork(t, PrevOf[h]) + Work(h))
  BY GrowFields
<1>2. \A x \in Known(t) : Walk(u, x) = Walk(t, x) /\ HeightOf(u, x) = HeightOf(t, x)
  BY GrowWalk, GrowHeights
<1>3. ~Committed(u, h)
  BY <1>1 DEF Committed, NewNode
<1>4. \A y \in Known(t) : PrevOf[y] # h
  BY <1>1, GrowNoChild
<1> QED
  BY <1>1, <1>2, <1>3, <1>4 DEF Grows

\* Trees with the same nodes, as far as filter headers go.
LEMMA SameGrows ==
    ASSUME NEW t, NEW u, Known(u) = Known(t),
           \A x \in Known(t) : /\ u.headers[x].commitment = t.headers[x].commitment
                               /\ HeightOf(u, x) = HeightOf(t, x)
    PROVE  Grows(t, u)
BY DEF Grows, Walk

\* accept_header only adds headers.
LEMMA AcceptHeaderGrows ==
    ASSUME NEW t, Sound(t, TreeRoot), NEW h \in Hash, NEW r, r = AcceptHeader(t, h)
    PROVE  Grows(t, r.tree)
<1>1. Outcome(t, h, r, TreeRoot)
  BY AcceptHeaderCases
<1>2. CASE r.tree = t
  BY <1>2, SameGrows
<1>3. CASE TipExtended(t, r.tree, h, TreeRoot)
  BY <1>3, GrownGrows DEF TipExtended
<1>4. ASSUME NEW others, ForkGrown(t, r.tree, h, others, TreeRoot)
      PROVE  Grows(t, r.tree)
  BY <1>4, GrownGrows DEF ForkGrown
<1>5. ASSUME NEW others, ForksAre(t, r.tree, others)
      PROVE  Grows(t, r.tree)
  <2>1. r.tree.headers = t.headers
    BY <1>5 DEF ForksAre
  <2> QED
    BY <2>1, SameGrows DEF Known, HeightOf
<1>6. ASSUME NEW fork \in t.forks, h \notin Known(t), PrevOf[h] = fork.hash,
             NEW s, ForkWins(t, s, h, t.forks \ {fork}, TreeRoot), r = SwitchToFork(s, h)
      PROVE  Grows(t, r.tree)
  <2>1. Grows(t, s)
    BY <1>6, GrownGrows DEF ForkWins
  <2>2. /\ \A f \in t.forks \ {fork} : f.hash # PrevOf[h]
        /\ PrevOf[h] \in Known(t) /\ PrevOf[h] # t.tip.hash
    BY <1>6 DEF Sound, ForkTips
  <2>3. Sound(s, TreeRoot)
    BY <1>6, <2>2, ForkWinsSound
  <2>4. r.tree.headers = s.headers
    <3>1. TreeType(s)
      BY <2>3 DEF Sound
    <3>2. SwitchToFork(s, h).tree.headers = s.headers
      BY <3>1, SwitchCase
    <3> QED
      BY <1>6, <3>2
  <2>5. Grows(s, r.tree)
    BY <2>4, SameGrows DEF Known, HeightOf
  <2> QED
    BY <2>1, <2>5, GrowsTrans
<1> QED
  BY <1>1, <1>2, <1>3, <1>4, <1>5, <1>6 DEF Outcome

\* What is marked as checked in u was so in t, at the same height.
NoneMarked(t, u) ==
    \A x \in Known(u) :
        u.headers[x].checked =>
            x \in Known(t) /\ t.headers[x].checked /\ HeightOf(u, x) = HeightOf(t, x)

\* A step that marks none, twice.
LEMMA NoneMarkedTrans ==
    ASSUME NEW t, NEW u, NEW v, NoneMarked(t, u), NoneMarked(u, v)
    PROVE  NoneMarked(t, v)
BY DEF NoneMarked

\* A new header is not marked.
LEMMA GrownMarksNone ==
    ASSUME NEW t, NEW u, NEW h, NEW k, Grown(t, u, h, k, TreeRoot)
    PROVE  NoneMarked(t, u)
<1>1. /\ Known(u) = Known(t) \cup {h}
      /\ \A x \in Known(t) : u.headers[x] = t.headers[x]
      /\ u.headers[h] = NewNode(k, AccWork(t, PrevOf[h]) + Work(h))
  BY GrowFields
<1>2. ~u.headers[h].checked
  BY <1>1 DEF NewNode
<1> QED
  BY <1>1, <1>2 DEF NoneMarked, HeightOf

\* accept_header marks none, not even where a branch wins.
LEMMA AcceptHeaderMarksNone ==
    ASSUME NEW t, Sound(t, TreeRoot), NEW h \in Hash, NEW r, r = AcceptHeader(t, h)
    PROVE  NoneMarked(t, r.tree)
<1>1. Outcome(t, h, r, TreeRoot)
  BY AcceptHeaderCases
<1>2. ASSUME r.tree.headers = t.headers PROVE NoneMarked(t, r.tree)
  BY <1>2 DEF NoneMarked, Known, HeightOf
<1>3. CASE TipExtended(t, r.tree, h, TreeRoot)
  BY <1>3, GrownMarksNone DEF TipExtended
<1>4. ASSUME NEW others, ForkGrown(t, r.tree, h, others, TreeRoot)
      PROVE  NoneMarked(t, r.tree)
  BY <1>4, GrownMarksNone DEF ForkGrown
<1>5. ASSUME NEW others, ForksAre(t, r.tree, others)
      PROVE  NoneMarked(t, r.tree)
  BY <1>2, <1>5 DEF ForksAre
<1>6. ASSUME NEW fork \in t.forks, h \notin Known(t), PrevOf[h] = fork.hash,
             NEW s, ForkWins(t, s, h, t.forks \ {fork}, TreeRoot), r = SwitchToFork(s, h)
      PROVE  NoneMarked(t, r.tree)
  <2>1. NoneMarked(t, s)
    BY <1>6, GrownMarksNone DEF ForkWins
  <2>2. /\ \A f \in t.forks \ {fork} : f.hash # PrevOf[h]
        /\ PrevOf[h] \in Known(t) /\ PrevOf[h] # t.tip.hash
    BY <1>6 DEF Sound, ForkTips
  <2>3. TreeType(s)
    BY <1>6, <2>2, ForkWinsSound DEF Sound
  <2>4. SwitchToFork(s, h).tree.headers = s.headers
    BY <2>3, SwitchCase
  <2> QED
    BY <1>6, <2>1, <2>4 DEF NoneMarked, Known, HeightOf
<1> QED
  BY <1>1, <1>2, <1>3, <1>4, <1>5, <1>6 DEF Outcome

-----------------------------------------------------------------------------
(* The tree of the node *)

TreeInv(t) ==
    /\ Sound(t, TreeRoot)
    /\ Known(t) # {}
    /\ WorkOrder(t)
    /\ Indexed(t, TreeRoot)
    /\ Chained(t)

\* accept_header keeps the tree of the node as it should be.
LEMMA AcceptHeaderTree ==
    ASSUME UniformWork, NEW t, TreeInv(t), NEW h \in Hash, NEW r, r = AcceptHeader(t, h)
    PROVE  TreeInv(r.tree) /\ Grows(t, r.tree)
<1>1. Sound(r.tree, TreeRoot)
  BY AcceptHeaderSound DEF TreeInv
<1>2. Followed(t, MainChain(t), TreeRoot)
  BY DEF Followed, TreeInv
<1>3. Followed(r.tree, ApplyReport(MainChain(t), r.changes), TreeRoot)
  BY <1>2, AcceptHeaderFollowed DEF TreeInv
<1>4. Grows(t, r.tree)
  BY AcceptHeaderGrows DEF TreeInv
<1>5. Known(r.tree) # {} /\ Chained(r.tree)
  BY <1>4, GrowsKeeps DEF TreeInv, Grows
<1> QED
  BY <1>1, <1>3, <1>4, <1>5 DEF TreeInv, Followed

\* So does what changes no more than the filter state of the nodes and keeps
\* their filter headers.
LEMMA SameShapeTree ==
    ASSUME NEW t, TreeInv(t), NEW u, SameShape(t, u), u.canonical = t.canonical,
           \A x \in Known(t) : u.headers[x].commitment = t.headers[x].commitment
    PROVE  TreeInv(u) /\ Grows(t, u)
<1>1. Sound(u, TreeRoot)
  BY SameShapeSound DEF TreeInv
<1>2. Followed(t, MainChain(t), TreeRoot)
  BY DEF Followed, TreeInv
<1>3. Followed(u, MainChain(t), TreeRoot)
  BY <1>2, SameShapeFollowed DEF TreeInv
<1>4. Known(u) = Known(t) /\ \A x \in Known(t) : HeightOf(u, x) = HeightOf(t, x)
  BY DEF SameShape, HeightOf
<1>5. Grows(t, u)
  BY <1>4, SameGrows
<1>6. Chained(u)
  BY <1>5, GrowsKeeps DEF TreeInv
<1> QED
  BY <1>1, <1>3, <1>4, <1>5, <1>6 DEF TreeInv, Followed

\* check_filter keeps the tree.
LEMMA CheckFilterTree ==
    ASSUME NEW t, TreeInv(t), NEW h
    PROVE  TreeInv(CheckFilter(t, h)) /\ Grows(t, CheckFilter(t, h))
<1> DEFINE u == CheckFilter(t, h)
<1>0. Sound(t, TreeRoot)
  BY DEF TreeInv
<1>1. SameShape(t, u) /\ u.canonical = t.canonical
  BY <1>0, CheckFilterShape
<1>2. \A x \in Known(t) : u.headers[x].commitment = t.headers[x].commitment
  <2>1. t.headers \in [Known(t) -> NodeType] /\ DOMAIN t = Fields
    BY <1>0 DEF Sound, TreeType, Fields
  <2> SUFFICES ASSUME NEW x \in Known(t)
               PROVE  u.headers[x].commitment = t.headers[x].commitment
    OBVIOUS
  <2>2. CASE h \in Known(t)
    <3>1. u.headers = [t.headers EXCEPT ![h].checked = TRUE]
      BY <2>1, <2>2 DEF CheckFilter, Fields
    <3> QED
      BY <2>1, <2>2, <3>1 DEF NodeType
  <2>3. CASE h \notin Known(t)
    BY <2>3 DEF CheckFilter
  <2> QED
    BY <2>2, <2>3
<1> QED
  BY <1>1, <1>2, SameShapeTree

\* reset_all_filters keeps the tree.
LEMMA ResetTree ==
    ASSUME NEW t, TreeInv(t)
    PROVE  TreeInv(ResetAllFilters(t)) /\ Grows(t, ResetAllFilters(t))
<1> DEFINE u == ResetAllFilters(t)
           reset == MainChain(t) \cup UNION {ForkReset(t, f) : f \in t.forks}
<1>0. Sound(t, TreeRoot)
  BY DEF TreeInv
<1>1. SameShape(t, u) /\ u.canonical = t.canonical
  BY <1>0, ResetShape
<1>2. ASSUME NEW x \in Known(t)
      PROVE  u.headers[x].commitment = t.headers[x].commitment
  <2>1. t.headers[x] \in NodeType /\ DOMAIN t = Fields
    BY <1>0 DEF Sound, TreeType, Fields
  <2>2. u = [t EXCEPT !.headers = [h \in Known(t) |->
                IF h \in reset THEN [t.headers[h] EXCEPT !.checked = FALSE] ELSE t.headers[h]]]
    BY DEF ResetAllFilters
  <2> HIDE DEF reset, u
  <2>3. u.headers[x] = IF x \in reset THEN [t.headers[x] EXCEPT !.checked = FALSE]
                       ELSE t.headers[x]
    BY <2>1, <2>2 DEF Fields
  <2> QED
    BY <2>1, <2>3 DEF NodeType
<1> QED
  BY <1>1, <1>2, SameShapeTree

\* assume_checked_to keeps the tree.
LEMMA AssumeCheckedTree ==
    ASSUME NEW t, TreeInv(t), NEW k
    PROVE  TreeInv(AssumeCheckedTo(t, k))
<1> DEFINE u == AssumeCheckedTo(t, k)
<1>1. Sound(t, TreeRoot)
  BY DEF TreeInv
<1>2. /\ SameShape(t, u) /\ u.canonical = t.canonical
      /\ \A x \in Known(t) : u.headers[x].commitment = t.headers[x].commitment
  BY <1>1, AssumeCheckedShape
<1> QED
  BY <1>2, SameShapeTree

-----------------------------------------------------------------------------
(* The request for filter headers *)

\* LowestHeight is the height of a lowest block.
LEMMA LowestIsLeast ==
    ASSUME NEW t, Sound(t, TreeRoot), NEW S \in SUBSET Known(t), S # {}
    PROVE  /\ LowestHeight(t, S) \in Nat
           /\ \E x \in S : HeightOf(t, x) = LowestHeight(t, S)
           /\ \A x \in S : LowestHeight(t, S) <= HeightOf(t, x)
<1> DEFINE T == {HeightOf(t, x) : x \in S}
<1>1. T \in SUBSET Nat /\ T # {}
  BY DEF Sound, TreeType, NodeType, HeightOf, Height
<1>2. \E k \in T : \A n \in T : k <= n
  <2> HIDE DEF T
  <2> QED
    BY <1>1, LeastNumber
<1>3. \E k \in T : \A x \in S : k <= HeightOf(t, x)
  BY <1>2
<1>4. LowestHeight(t, S) = CHOOSE k \in T : \A x \in S : k <= HeightOf(t, x)
  BY DEF LowestHeight
<1>5. LowestHeight(t, S) \in T /\ \A x \in S : LowestHeight(t, S) <= HeightOf(t, x)
  <2> HIDE DEF T
  <2> QED
    BY <1>3, <1>4
<1> QED
  BY <1>1, <1>5

\* Of two blocks of the active chain the lower one is on the walk from the other.
LEMMA MainOrdered ==
    ASSUME NEW t, Sound(t, TreeRoot), NEW x \in MainChain(t), NEW y \in MainChain(t),
           HeightOf(t, x) <= HeightOf(t, y)
    PROVE  x \in Walk(t, y)
<1> DEFINE h == t.tip.hash
<1>1. /\ TreeType(t) /\ HeadersLinked(t, TreeRoot) /\ Known(t) \subseteq Hash
      /\ h \in Known(t) /\ x \in Ancestry[h] \cap Known(t) /\ y \in Ancestry[h] \cap Known(t)
      /\ HeightOf(t, x) \in Nat /\ HeightOf(t, y) \in Nat
  BY DEF Sound, TreeType, NodeType, HeightOf, Height, MainChain, Walk
<1>2. CASE x \in Ancestry[y]
  BY <1>1, <1>2 DEF Walk
<1>3. CASE y \in Ancestry[x] /\ y # x
  BY <1>1, <1>3, WalkDescends
<1>4. CASE y = x
  BY <1>1, <1>4, AncestrySelf DEF Walk
<1> QED
  BY <1>1, <1>2, <1>3, <1>4, AncestryLinear

\* The hash a request stops at is on the active chain, and so is all below it.
LEMMA StopOnMain ==
    ASSUME NEW t, TreeInv(t), NEW k
    PROVE  StopHash(t, k) \in MainChain(t) /\ Walk(t, StopHash(t, k)) \subseteq MainChain(t)
<1>1. TreeType(t) /\ Known(t) \subseteq Hash /\ t.tip.hash \in Known(t)
  BY DEF TreeInv, Sound, TreeType, ForkTips
<1>2. t.tip.hash \in MainChain(t)
  BY <1>1, AncestrySelf DEF MainChain, Walk
<1>3. StopHash(t, k) \in MainChain(t)
  BY <1>2 DEF StopHash, BlockHashAtHeight, TreeInv, Indexed
<1>4. ASSUME NEW x \in MainChain(t)
      PROVE  Walk(t, x) \subseteq MainChain(t)
  BY <1>1, <1>4, AncestryTransitive DEF MainChain, Walk
<1> QED
  BY <1>3, <1>4

\* next_cf_header_message makes a request that is safe, when filter headers are
\* missing.
LEMMA NewRequest ==
    ASSUME NEW c, "headerRequest" \in DOMAIN c, TreeInv(c.tree),
           ~FilterHeadersSynced(c.tree)
    PROVE  RequestOK(c.tree, NextCFHeaderMessage(c).headerRequest)
<1> DEFINE t == c.tree
           M == MainChain(t)
           C == {x \in Known(t) : Committed(t, x)}
           open == Above(t, C)
           start == LowestHeight(t, open)
           below == {x \in M \ open : \A y \in M \ open : HeightOf(t, y) <= HeightOf(t, x)}
           prev == IF below = {} THEN None
                   ELSE t.headers[CHOOSE x \in below : TRUE].commitment.header
           stop == StopHash(t, start + HeaderBatchSize)
           r == NextCFHeaderMessage(c).headerRequest
<1>1. /\ Sound(t, TreeRoot) /\ Chained(t) /\ TreeType(t) /\ HeadersLinked(t, TreeRoot)
      /\ M \subseteq Known(t) /\ t.tip.hash \in Known(t)
      /\ t.headers \in [Known(t) -> NodeType]
      /\ \A x \in Known(t) : HeightOf(t, x) \in Nat
  BY DEF TreeInv, Sound, TreeType, ForkTips, NodeType, HeightOf, Height, MainChain, Walk
<1>2. \A x \in M : x \in open <=> \A y \in M : Committed(t, y) => HeightOf(t, y) < HeightOf(t, x)
  BY <1>1 DEF Above
<1>3. open \subseteq M
  BY DEF Above
<1>4. ASSUME NEW x \in M, x \notin open
      PROVE  Committed(t, x)
  <2>1. PICK y \in M : Committed(t, y) /\ ~(HeightOf(t, y) < HeightOf(t, x))
    BY <1>2, <1>4
  <2>2. x \in Walk(t, y)
    BY <1>1, <2>1, MainOrdered
  <2> QED
    BY <1>1, <2>1, <2>2, CommittedBelow
<1>5. open # {}
  BY <1>4 DEF FilterHeadersSynced, Committed
<1>6. r = [start |-> start, stop |-> stop, expected |-> prev]
  BY DEF NextCFHeaderMessage
<1> HIDE DEF r, stop, prev, start, below, open, M, C, t
<1>7. /\ start \in Nat /\ \E x \in open : HeightOf(t, x) = start
      /\ \A x \in open : start <= HeightOf(t, x)
  BY <1>1, <1>3, <1>5, LowestIsLeast DEF start
<1>8. \A x \in M : x \in open <=> HeightOf(t, x) >= start
  <2>1. PICK z \in open : HeightOf(t, z) = start
    BY <1>7
  <2> SUFFICES ASSUME NEW x \in M, HeightOf(t, x) >= start
               PROVE  x \in open
    BY <1>1, <1>7
  <2>2. \A y \in M : Committed(t, y) => HeightOf(t, y) < start
    BY <1>2, <1>3, <2>1
  <2> QED
    BY <1>1, <1>2, <1>7, <2>2
<1>9. r.start = start /\ r.stop = stop /\ r.expected = prev
  BY <1>6
<1>10. stop \in M /\ Walk(t, stop) \subseteq M
  BY StopOnMain DEF stop, M, t
<1>11. prev \in FilterHeader \cup {None}
  <2>1. ASSUME below # {}
        PROVE  prev \in FilterHeader
    <3>1. PICK x \in below : prev = t.headers[x].commitment.header
      BY <2>1 DEF prev
    <3>2. Committed(t, x) /\ x \in Known(t)
      BY <1>1, <1>4, <3>1 DEF below
    <3>3. t.headers[x].commitment \in Commitment
      BY <1>1, <3>2 DEF Committed, NodeType
    <3> QED
      BY <3>1, <3>3, ChainAssumption
  <2> QED
    BY <2>1 DEF prev
<1>12. ASSUME NEW x \in Walk(t, stop), HeightOf(t, x) = start - 1
       PROVE  Committed(t, x) /\ t.headers[x].commitment.header = prev
  <2>1. x \in M \ open
    BY <1>7, <1>8, <1>10, <1>12
  <2>2. \A y \in M \ open : HeightOf(t, y) <= HeightOf(t, x)
    BY <1>1, <1>7, <1>8, <1>12
  <2>3. x \in below
    BY <2>1, <2>2 DEF below
  <2>4. PICK y \in below : prev = t.headers[y].commitment.header
    BY <2>3 DEF prev
  <2>5. y \in M /\ HeightOf(t, y) = HeightOf(t, x)
    BY <1>1, <2>1, <2>2, <2>4 DEF below
  <2>6. y = x
    BY <1>1, <2>1, <2>5, WalkUnique DEF M, MainChain
  <2> QED
    BY <1>4, <2>1, <2>4, <2>6
<1>13. ASSUME NEW y \in Known(t), Committed(t, y), PrevOf[y] \in Walk(t, stop),
              HeightOf(t, PrevOf[y]) >= start
       PROVE  FALSE
  <2>1. PrevOf[y] \in M /\ PrevOf[y] \in Known(t)
    BY <1>1, <1>10, <1>13
  <2>2. Committed(t, PrevOf[y])
    BY <1>1, <1>13, <2>1 DEF Chained
  <2>3. PrevOf[y] \in open
    BY <1>8, <1>13, <2>1
  <2> QED
    BY <1>1, <1>2, <2>1, <2>2, <2>3
<1> QED
  BY <1>1, <1>7, <1>9, <1>10, <1>11, <1>12, <1>13 DEF RequestOK, t, r

-----------------------------------------------------------------------------
(* The filter headers of a batch *)

\* CFHeaderBatch::new computes each filter header from the one before it.
LEMMA ChainedHeadersStep ==
    ASSUME NEW b, Len(b.hashes) \in Nat
    PROVE  /\ ChainedHeaders(b)[0] = b.prev
           /\ \A i \in 1 .. Len(b.hashes) :
                ChainedHeaders(b)[i] = NextHeader(b.hashes[i], ChainedHeaders(b)[i - 1])
<1> DEFINE n == Len(b.hashes)
           Val(g, i) == IF i = 0 THEN b.prev ELSE NextHeader(b.hashes[i], g[i - 1])
           Def(g) == [i \in 0 .. n |-> Val(g, i)]
           S == {m \in Nat : \E g : \A i \in 0 .. m : g[i] = Val(g, i)}
<1>1. 0 \in S
  <2> DEFINE g == [i \in 0 .. 0 |-> b.prev]
  <2>1. \A i \in 0 .. 0 : g[i] = Val(g, i)
    OBVIOUS
  <2> QED
    BY <2>1
<1>2. ASSUME NEW m \in Nat, m \in S
      PROVE  m + 1 \in S
  <2>1. PICK g : \A i \in 0 .. m : g[i] = Val(g, i)
    BY <1>2
  <2> DEFINE e == [i \in 0 .. m + 1 |-> IF i = m + 1 THEN NextHeader(b.hashes[m + 1], g[m]) ELSE g[i]]
  <2>2. \A i \in 0 .. m : e[i] = g[i]
    OBVIOUS
  <2>3. e[m + 1] = NextHeader(b.hashes[m + 1], e[m])
    BY <2>2
  <2> HIDE DEF e
  <2>4. ASSUME NEW i \in 0 .. m + 1
        PROVE  e[i] = Val(e, i)
    <3>1. CASE i = m + 1
      BY <2>3, <3>1
    <3>2. CASE i = 0
      BY <2>1, <2>2, <3>2
    <3>3. CASE i \in 1 .. m
      <4>1. i \in 0 .. m /\ i - 1 \in 0 .. m
        BY <3>3
      <4> QED
        BY <2>1, <2>2, <3>3, <4>1
    <3> QED
      BY <3>1, <3>2, <3>3
  <2> QED
    BY <2>4
<1>3. n \in S
  <2> HIDE DEF S
  <2>1. \A m \in Nat : m \in S => m + 1 \in S
    BY <1>2
  <2> QED
    BY <1>1, <2>1, Induction
<1>4. PICK g : \A i \in 0 .. n : g[i] = Val(g, i)
  BY <1>3
<1> DEFINE d == Def(g)
<1>5. d = Def(d)
  <2>1. \A i \in 0 .. n : d[i] = g[i]
    BY <1>4
  <2>2. ASSUME NEW i \in 0 .. n
        PROVE  Val(g, i) = Val(d, i)
    <3> HIDE DEF d
    <3>1. CASE i = 0
      BY <3>1
    <3>2. CASE i # 0
      <4>1. i - 1 \in 0 .. n
        BY <3>2
      <4>2. d[i - 1] = g[i - 1]
        BY <2>1, <4>1
      <4> QED
        BY <3>2, <4>2
    <3> QED
      BY <3>1, <3>2
  <2> QED
    BY <2>2
<1>6. ChainedHeaders(b) = CHOOSE header : header = Def(header)
  BY DEF ChainedHeaders
<1>7. ChainedHeaders(b) = Def(ChainedHeaders(b))
  <2> HIDE DEF d
  <2> QED
    BY <1>5, <1>6
<1>8. \A i \in 0 .. n : ChainedHeaders(b)[i] = Val(ChainedHeaders(b), i)
  BY <1>7
<1> QED
  BY <1>8

\* A batch that answers the request continues the chain of filter headers, and
\* leaves the request one that may be answered again.
LEMMA PushBatchTree ==
    ASSUME NEW t, TreeInv(t), NEW r, RequestOK(t, r),
           NEW b, b.hashes \in Seq(FilterHash),
           \A i \in DOMAIN b.hashes : ChainedHeaders(b)[i] \in FilterHeader,
           r.stop = b.stop, r.expected \in {None, b.prev},
           HeightOf(t, b.stop) - (Len(b.hashes) - 1) = r.start
    PROVE  TreeInv(PushBatch(t, b)) /\ RequestOK(PushBatch(t, b), r)
<1> DEFINE u == PushBatch(t, b)
           n == Len(b.hashes)
           header == ChainedHeaders(b)
           W == Walk(t, b.stop)
           P == {x \in W : HeightOf(t, x) >= r.start}
           place(x) == HeightOf(t, x) - (r.start - 1)
           new(x) == [header |-> header[place(x)], filter_hash |-> b.hashes[place(x)]]
<1>1. /\ Sound(t, TreeRoot) /\ Chained(t) /\ TreeType(t) /\ HeadersLinked(t, TreeRoot) /\ DOMAIN t = Fields
      /\ Known(t) \subseteq Hash /\ t.headers \in [Known(t) -> NodeType]
      /\ \A x \in Known(t) : HeightOf(t, x) \in Nat
      /\ b.stop \in Known(t) /\ r.start \in Nat /\ n \in Nat /\ W \subseteq Known(t)
      /\ DOMAIN b.hashes = 1 .. n
  BY DEF TreeInv, Sound, TreeType, Fields, NodeType, HeightOf, Height, RequestOK, Walk
<1>2. HeightOf(t, b.stop) - n = r.start - 1
  BY <1>1
<1>3. \A x \in P : x \in Known(t) /\ place(x) \in 1 .. n
  <2>1. \A x \in W : HeightOf(t, x) <= HeightOf(t, b.stop)
    BY <1>1, WalkHeights DEF Walk
  <2> QED
    BY <1>1, <1>2, <2>1
<1>4. \A x \in P : new(x) \in Commitment
  <2> SUFFICES ASSUME NEW x \in P PROVE new(x) \in Commitment
    OBVIOUS
  <2>1. header[place(x)] \in FilterHeader /\ b.hashes[place(x)] \in FilterHash
    <3> HIDE DEF place, header
    <3> QED
      BY <1>1, <1>3 DEF header
  <2> HIDE DEF place, header
  <2> QED
    BY <2>1, ChainAssumption
<1> DEFINE hd == [x \in Known(t) |-> IF x \in P THEN [t.headers[x] EXCEPT !.commitment = new(x)]
                                     ELSE t.headers[x]]
<1>5. u = [t EXCEPT !.headers = hd]
  <2>1. \A x \in Known(t) : (x \in Walk(t, b.stop) /\ HeightOf(t, x) - (HeightOf(t, b.stop) - n) > 0)
                              <=> x \in P
    BY <1>1, <1>2
  <2>2. u = [t EXCEPT !.headers = [x \in Known(t) |->
            IF x \in Walk(t, b.stop) /\ HeightOf(t, x) - (HeightOf(t, b.stop) - n) > 0
            THEN [t.headers[x] EXCEPT !.commitment =
                    [header |-> header[HeightOf(t, x) - (HeightOf(t, b.stop) - n)],
                     filter_hash |-> b.hashes[HeightOf(t, x) - (HeightOf(t, b.stop) - n)]]]
            ELSE t.headers[x]]]
    BY DEF PushBatch
  <2> HIDE DEF u, P, header, n
  <2> QED
    BY <1>2, <2>1, <2>2
<1>6. /\ DOMAIN u = Fields /\ u.tip = t.tip /\ u.forks = t.forks /\ u.canonical = t.canonical
      /\ u.headers = hd
  <2> HIDE DEF hd, u
  <2> QED
    BY <1>1, <1>5 DEF Fields
<1> HIDE DEF u, P, new
<1>7. /\ \A x \in P : u.headers[x] = [t.headers[x] EXCEPT !.commitment = new(x)]
      /\ \A x \in Known(t) \ P : u.headers[x] = t.headers[x]
      /\ Known(u) = Known(t)
  BY <1>3, <1>6 DEF Known
<1>8. ASSUME NEW x \in Known(t)
      PROVE  /\ u.headers[x] \in NodeType
             /\ u.headers[x].height = t.headers[x].height
             /\ u.headers[x].acc_work = t.headers[x].acc_work
             /\ u.headers[x].commitment = IF x \in P THEN new(x) ELSE t.headers[x].commitment
  <2>1. t.headers[x] \in NodeType
    BY <1>1
  <2>2. CASE x \in P
    BY <1>4, <1>7, <2>1, <2>2 DEF NodeType
  <2>3. CASE x \notin P
    BY <1>7, <2>1, <2>3
  <2> QED
    BY <2>2, <2>3
<1>9. SameShape(t, u)
  <2>1. u.headers \in [Known(u) -> NodeType]
    BY <1>6, <1>7, <1>8
  <2>2. DOMAIN t.canonical \subseteq Height /\ t.canonical \in [DOMAIN t.canonical -> Hash]
    BY <1>1 DEF TreeType
  <2> QED
    BY <1>6, <1>7, <1>8, <2>1, <2>2 DEF SameShape
<1>10. /\ Sound(u, TreeRoot) /\ \A x : Walk(u, x) = Walk(t, x)
       /\ \A x \in Known(t) : HeightOf(u, x) = HeightOf(t, x)
  BY <1>1, <1>9, SameShapeSound
<1>11. WorkOrder(u) /\ Indexed(u, TreeRoot)
  <2>1. Followed(t, MainChain(t), TreeRoot)
    BY DEF TreeInv, Followed
  <2> QED
    BY <1>1, <1>6, <1>9, <2>1, SameShapeFollowed DEF Followed
<1>12. /\ \A x \in P : /\ Committed(u, x)
                       /\ u.headers[x].commitment.header = header[place(x)]
                       /\ u.headers[x].commitment.filter_hash = b.hashes[place(x)]
       /\ \A x \in Known(t) \ P : u.headers[x].commitment = t.headers[x].commitment
                                  /\ (Committed(u, x) <=> Committed(t, x))
  <2>1. \A x \in P : u.headers[x].commitment = new(x) /\ new(x) # None
    BY <1>3, <1>4, <1>8, HeaderAssumption
  <2>2. \A x \in Known(t) \ P : u.headers[x].commitment = t.headers[x].commitment
    BY <1>8
  <2>3. \A x : new(x).header = header[place(x)] /\ new(x).filter_hash = b.hashes[place(x)]
    BY DEF new
  <2> QED
    BY <2>1, <2>2, <2>3 DEF Committed
<1>13. \A x \in Known(t) : x \in P <=> x \in W /\ HeightOf(t, x) >= r.start
  BY DEF P
<1>14. header[0] = b.prev /\ \A i \in 1 .. n : header[i] = NextHeader(b.hashes[i], header[i - 1])
  BY <1>1, ChainedHeadersStep
<1>15. \A y \in Known(t) : Committed(t, y) /\ PrevOf[y] \in P => y \in P
  <2> SUFFICES ASSUME NEW y \in Known(t), Committed(t, y), PrevOf[y] \in P
               PROVE  y \in P
    OBVIOUS
  <2>1. PrevOf[y] \in W /\ PrevOf[y] \in Known(t) /\ HeightOf(t, PrevOf[y]) >= r.start
    BY <1>3, <1>13
  <2>2. y \in W
    BY <2>1 DEF RequestOK
  <2>3. HeightOf(t, y) = HeightOf(t, PrevOf[y]) + 1
    BY <1>1, <2>1 DEF HeadersLinked, IsFirst
  <2> QED
    BY <1>1, <1>13, <2>1, <2>2, <2>3
<1>16. ASSUME NEW h \in Known(t), Committed(u, h), PrevOf[h] \in Known(t)
       PROVE  /\ Committed(u, PrevOf[h])
              /\ u.headers[h].commitment.header =
                   NextHeader(u.headers[h].commitment.filter_hash,
                              u.headers[PrevOf[h]].commitment.header)
  <2> DEFINE p == PrevOf[h]
  <2>1. HeightOf(t, h) = HeightOf(t, p) + 1
    BY <1>1, <1>16 DEF HeadersLinked, IsFirst
  <2>2. CASE h \notin P
    <3>1. p \notin P /\ Committed(t, h)
      BY <1>12, <1>15, <1>16, <2>2
    <3> QED
      BY <1>1, <1>12, <1>16, <2>2, <3>1 DEF Chained
  <2>3. ASSUME h \in P PROVE p \in W /\ HeightOf(t, h) >= r.start
    <3>1. h \in W /\ HeightOf(t, h) >= r.start
      BY <1>13, <2>3
    <3>2. h \in Ancestry[b.stop]
      BY <1>1, <3>1 DEF Walk
    <3>3. p \in Ancestry[b.stop]
      BY <1>1, <1>16, <3>2, AncestryClosed DEF PrevClosed
    <3> QED
      BY <1>1, <1>16, <3>1, <3>3 DEF Walk
  <2>4. CASE h \in P /\ p \in P
    <3>1. place(p) = place(h) - 1
      <4>1. HeightOf(t, p) \in Nat /\ HeightOf(t, h) \in Nat /\ r.start \in Nat
        BY <1>1, <1>16
      <4> QED
        BY <2>1, <4>1
    <3>2. place(h) \in 1 .. n
      BY <1>3, <2>4
    <3> HIDE DEF place, n, p, header
    <3>3. header[place(h)] = NextHeader(b.hashes[place(h)], header[place(p)])
      BY <1>14, <3>1, <3>2
    <3> QED
      BY <1>12, <2>4, <3>3 DEF p
  <2>5. CASE h \in P /\ p \notin P
    <3>1. HeightOf(t, p) = r.start - 1 /\ place(h) = 1 /\ 1 \in 1 .. n
      <4>1. ~(HeightOf(t, p) >= r.start)
        BY <1>13, <1>16, <2>3, <2>5
      <4>2. HeightOf(t, p) \in Nat /\ HeightOf(t, h) \in Nat /\ HeightOf(t, h) >= r.start
        BY <1>1, <1>16, <2>3, <2>5
      <4>3. place(h) \in 1 .. n
        BY <1>3, <2>5
      <4>4. HeightOf(t, p) = r.start - 1 /\ place(h) = 1
        BY <1>1, <2>1, <4>1, <4>2
      <4> QED
        BY <4>3, <4>4
    <3>2. Committed(t, p) /\ t.headers[p].commitment.header = r.expected
      BY <2>3, <2>5, <3>1 DEF RequestOK
    <3>3. t.headers[p].commitment \in Commitment
      BY <1>1, <1>16, <3>2 DEF Committed, NodeType
    <3>4. r.expected = b.prev
      BY <3>2, <3>3, ChainAssumption
    <3>5. header[1] = NextHeader(b.hashes[1], b.prev)
      BY <1>14, <3>1
    <3> HIDE DEF place, header
    <3> QED
      BY <1>12, <1>16, <2>5, <3>1, <3>2, <3>4, <3>5
  <2> QED
    BY <2>2, <2>4, <2>5
<1>17. Chained(u)
  BY <1>7, <1>16 DEF Chained
<1>18. RequestOK(u, r)
  <2>1. ASSUME NEW x \in Walk(u, r.stop), HeightOf(u, x) = r.start - 1
        PROVE  Committed(u, x) /\ u.headers[x].commitment.header = r.expected
    <3>1. x \in W /\ x \in Known(t) /\ HeightOf(t, x) = r.start - 1
      BY <1>1, <1>10, <2>1
    <3>2. x \notin P
      BY <1>1, <1>13, <3>1
    <3>3. Committed(t, x) /\ t.headers[x].commitment.header = r.expected
      BY <3>1 DEF RequestOK
    <3> QED
      BY <1>12, <3>1, <3>2, <3>3
  <2>2. ASSUME NEW y \in Known(u), Committed(u, y), PrevOf[y] \in Walk(u, r.stop),
               HeightOf(u, PrevOf[y]) >= r.start
        PROVE  y \in Walk(u, r.stop)
    <3>1. y \in Known(t) /\ PrevOf[y] \in W /\ PrevOf[y] \in Known(t)
          /\ HeightOf(t, PrevOf[y]) >= r.start
      BY <1>1, <1>7, <1>10, <2>2
    <3>2. PrevOf[y] \in P
      BY <1>13, <3>1
    <3>3. y \in P
      BY <1>12, <1>15, <2>2, <3>1, <3>2
    <3> QED
      BY <1>10, <1>13, <3>1, <3>3
  <2> QED
    BY <1>7, <1>10, <2>1, <2>2 DEF RequestOK
<1> QED
  BY <1>7, <1>10, <1>11, <1>17, <1>18 DEF TreeInv, u

\* A reorganization makes the header the tip and disconnects what is not on the
\* new active chain; a header on the tip is refused or extends the chain.
LEMMA AcceptHeaderGone ==
    ASSUME UniformWork, NEW t, TreeInv(t), NEW h \in Hash, NEW r, r = AcceptHeader(t, h)
    PROVE  /\ r.changes.kind = "Reorganization" =>
                /\ r.tree.tip.hash = h
                /\ r.changes.disconnected \subseteq Known(r.tree)
                /\ r.changes.disconnected \cap MainChain(r.tree) = {}
           /\ PrevOf[h] = t.tip.hash =>
                \/ r.tree = t /\ r.changes.kind = "InvalidPow"
                \/ /\ r.changes.kind = "Accepted" /\ r.tree.tip.hash = h
                   /\ MainChain(r.tree) = MainChain(t) \cup {h} /\ h \notin Known(t)
<1>0. Sound(t, TreeRoot) /\ Indexed(t, TreeRoot) /\ Followed(t, MainChain(t), TreeRoot)
  BY DEF TreeInv, Followed
<1>1. Outcome(t, h, r, TreeRoot)
  BY <1>0, AcceptHeaderCases
<1>2. MainChain(r.tree) = ApplyReport(MainChain(t), r.changes)
  BY <1>0, AcceptHeaderFollowed DEF Followed
<1>3. ASSUME PrevOf[h] = t.tip.hash
      PROVE  \/ r.tree = t /\ r.changes.kind = "InvalidPow"
             \/ /\ r.changes.kind = "Accepted" /\ r.tree.tip.hash = h
                /\ MainChain(r.tree) = MainChain(t) \cup {h} /\ h \notin Known(t)
  <2>1. r = ExtendTip(t, h)
    BY <1>3 DEF AcceptHeader
  <2>2. CASE r.tree = t /\ r.changes = Unaccepted("InvalidPow")
    BY <2>2 DEF Unaccepted, Change
  <2>3. CASE TipExtended(t, r.tree, h, TreeRoot) /\ r.changes = Change("Accepted", {h}, {})
    <3>1. h \notin Known(t) /\ r.tree.tip.hash = h
      BY <2>3, GrowFields DEF TipExtended
    <3> QED
      BY <1>2, <2>3, <3>1 DEF ApplyReport, Change
  <2> QED
    BY <1>0, <1>3, <2>1, <2>2, <2>3, ExtendTipCase
<1>4. ASSUME r.changes.kind = "Reorganization"
      PROVE  /\ r.tree.tip.hash = h
             /\ r.changes.disconnected \subseteq Known(r.tree)
             /\ r.changes.disconnected \cap MainChain(r.tree) = {}
  <2>0. PICK fork \in t.forks : \E s :
          /\ h \notin Known(t) /\ PrevOf[h] = fork.hash
          /\ ForkWins(t, s, h, t.forks \ {fork}, TreeRoot) /\ r = SwitchToFork(s, h)
    <3>1. /\ r.changes # Change("Accepted", {h}, {})
          /\ r.changes # Change("ExtendedFork", {h}, {})
          /\ r.changes # Unaccepted("InvalidPow")
          /\ r.changes.kind \notin {"InvalidPow", "Duplicate", "UnknownPrevHash"}
      BY <1>4 DEF Change, Unaccepted
    <3> QED
      BY <1>1, <3>1, Zenon DEF Outcome
  <2>1. PICK s :
          /\ h \notin Known(t) /\ PrevOf[h] = fork.hash
          /\ ForkWins(t, s, h, t.forks \ {fork}, TreeRoot) /\ r = SwitchToFork(s, h)
    BY <2>0
  <2>2. TreeType(s)
    <3>1. /\ \A f \in t.forks \ {fork} : f.hash # PrevOf[h]
          /\ PrevOf[h] \in Known(t) /\ PrevOf[h] # t.tip.hash
      BY <1>0, <2>1 DEF Sound, ForkTips
    <3> QED
      BY <1>0, <2>1, <3>1, ForkWinsSound DEF Sound
  <2> DEFINE conn == Reconnected(s, h)
             D == {HeightOf(s, x) : x \in conn}
             disc == {s.canonical[k] : k \in D \cap DOMAIN s.canonical} \cap Known(s)
  <2>3. /\ r.tree.headers = s.headers /\ r.tree.tip = s.tip
        /\ r.changes = Change("Reorganization", conn, disc)
    <3>1. /\ SwitchToFork(s, h).tree.headers = s.headers
          /\ SwitchToFork(s, h).tree.tip = s.tip
          /\ SwitchToFork(s, h).changes = Change("Reorganization", conn, disc)
      BY <2>2, SwitchCase
    <3> QED
      BY <2>1, <3>1, Zenon
  <2>4. s.tip.hash = h /\ s.canonical = t.canonical
    BY <2>1 DEF ForkWins
  <2>5. \A x \in Known(t) : HeightOf(s, x) = HeightOf(t, x)
    BY <2>1, GrowHeights DEF ForkWins
  <2>6. ASSUME NEW x \in disc PROVE x \notin conn
    <3>1. PICK k \in DOMAIN s.canonical : x = s.canonical[k]
      OBVIOUS
    <3>2. x \in Known(t) /\ HeightOf(t, x) = k
      BY <1>0, <2>4, <3>1 DEF Indexed, MainChain, Walk
    <3>3. HeightOf(s, x) = k
      BY <2>5, <3>2
    <3>4. k \in Nat
      BY <2>2, <3>1 DEF TreeType, Height
    <3> QED
      BY <3>1, <3>3, <3>4 DEF Reconnected
  <2> HIDE DEF conn, disc
  <2>7. r.changes.accepted = conn /\ r.changes.disconnected = disc
    BY <2>3 DEF Change
  <2>8. MainChain(r.tree) = (MainChain(t) \ disc) \cup conn
    BY <1>2, <1>4, <2>7 DEF ApplyReport
  <2>9. disc \subseteq Known(r.tree)
    BY <2>3 DEF disc, Known
  <2> QED
    BY <2>3, <2>4, <2>6, <2>7, <2>8, <2>9
<1> QED
  BY <1>3, <1>4

-----------------------------------------------------------------------------
(* The chain *)

ChainFields ==
    {"tree", "headerRequest", "filterRequest", "pending", "agreed", "queue", "want"}

QueueType(c) == c.queue \in Seq(Hash) /\ c.want \in Hash \cup {None}

\* The requests and the votes on the answer.
RequestsType(c) ==
    /\ c.headerRequest \in RequestType \cup {None}
    /\ c.filterRequest \in Hash \cup {None}
    /\ c.pending # None => c.pending.peer \in Peer /\ c.pending.batch \in Batch
    /\ c.agreed \in 0 .. Required - 1

ChainInv(c) ==
    /\ DOMAIN c = ChainFields
    /\ TreeInv(c.tree)
    /\ c.headerRequest # None => RequestOK(c.tree, c.headerRequest)
    /\ RequestsType(c)
    /\ QueueType(c)

\* BlockQueue::remove leaves a queue of blocks, with all that are not to go.
LEMMA WithoutSeq ==
    ASSUME NEW queue \in Seq(Hash), NEW gone
    PROVE  LET q == Without(queue, gone)
           IN  /\ q \in Seq(Hash)
               /\ \A j \in DOMAIN queue :
                    queue[j] \notin gone => \E i \in DOMAIN q : q[i] = queue[j]
<1> DEFINE n == Len(queue)
           Val(g, i) == IF i = 0 THEN <<>>
                        ELSE IF queue[i] \in gone THEN g[i - 1] ELSE Append(g[i - 1], queue[i])
           Def(g) == [i \in 0 .. n |-> Val(g, i)]
           S == {m \in Nat : \E g : \A i \in 0 .. m : g[i] = Val(g, i)}
<1>0. n \in Nat /\ \A i \in 1 .. n : queue[i] \in Hash
  OBVIOUS
<1>1. 0 \in S
  <2> DEFINE g == [i \in 0 .. 0 |-> <<>>]
  <2>1. \A i \in 0 .. 0 : g[i] = Val(g, i)
    OBVIOUS
  <2> QED
    BY <2>1
<1>2. ASSUME NEW m \in Nat, m \in S
      PROVE  m + 1 \in S
  <2>1. PICK g : \A i \in 0 .. m : g[i] = Val(g, i)
    BY <1>2
  <2> DEFINE next == IF queue[m + 1] \in gone THEN g[m] ELSE Append(g[m], queue[m + 1])
             e == [i \in 0 .. m + 1 |-> IF i = m + 1 THEN next ELSE g[i]]
  <2> HIDE DEF next
  <2>2. /\ \A i \in 0 .. m : e[i] = g[i]
        /\ e[m + 1] = next
    OBVIOUS
  <2> HIDE DEF e
  <2>3. ASSUME NEW i \in 0 .. m + 1
        PROVE  e[i] = Val(e, i)
    <3>1. CASE i = m + 1
      BY <2>2, <3>1 DEF next
    <3>2. CASE i = 0
      BY <2>1, <2>2, <3>2
    <3>3. CASE i \in 1 .. m
      <4>1. i \in 0 .. m /\ i - 1 \in 0 .. m
        BY <3>3
      <4> QED
        BY <2>1, <2>2, <3>3, <4>1
    <3> QED
      BY <3>1, <3>2, <3>3
  <2> QED
    BY <2>3
<1>3. n \in S
  <2> HIDE DEF S
  <2>1. \A m \in Nat : m \in S => m + 1 \in S
    BY <1>2
  <2> QED
    BY <1>0, <1>1, <2>1, Induction
<1>4. PICK g : \A i \in 0 .. n : g[i] = Val(g, i)
  BY <1>3
<1> DEFINE d == Def(g)
           f == CHOOSE f : f = Def(f)
<1>5. d = Def(d)
  <2>1. \A i \in 0 .. n : d[i] = g[i]
    BY <1>4
  <2>2. ASSUME NEW i \in 0 .. n
        PROVE  Val(g, i) = Val(d, i)
    <3> HIDE DEF d
    <3>1. CASE i = 0
      BY <3>1
    <3>2. CASE i # 0
      <4>1. i - 1 \in 0 .. n
        BY <3>2
      <4>2. d[i - 1] = g[i - 1]
        BY <2>1, <4>1
      <4> QED
        BY <3>2, <4>2
    <3> QED
      BY <3>1, <3>2
  <2> QED
    BY <2>2
<1>6. Without(queue, gone) = f[n]
  BY DEF Without
<1>7. f = Def(f)
  <2> HIDE DEF d, Def
  <2> QED
    BY <1>5
<1> HIDE DEF f, n
<1>8. \A i \in 0 .. n : f[i] = Val(f, i)
  BY <1>7
<1> DEFINE Holds(q, m) == \A j \in 1 .. m :
                             queue[j] \notin gone => \E i \in DOMAIN q : q[i] = queue[j]
           Q == {m \in Nat : m <= n => f[m] \in Seq(Hash) /\ Holds(f[m], m)}
<1>9. 0 \in Q
  <2>1. f[0] = <<>>
    <3>1. Val(f, 0) = <<>>
      OBVIOUS
    <3>2. 0 \in 0 .. n
      BY <1>0
    <3> HIDE DEF Val
    <3> QED
      BY <1>8, <3>1, <3>2
  <2>2. <<>> \in Seq(Hash)
    OBVIOUS
  <2>3. f[0] \in Seq(Hash)
    BY <2>1, <2>2, Zenon
  <2> HIDE DEF f
  <2> QED
    BY <2>3
<1>10. ASSUME NEW m \in Nat, m \in Q
       PROVE  m + 1 \in Q
  <2> SUFFICES ASSUME m + 1 <= n PROVE f[m + 1] \in Seq(Hash) /\ Holds(f[m + 1], m + 1)
    OBVIOUS
  <2>1. f[m] \in Seq(Hash) /\ queue[m + 1] \in Hash /\ Holds(f[m], m)
    BY <1>0, <1>10
  <2>2. f[m + 1] = IF queue[m + 1] \in gone THEN f[m] ELSE Append(f[m], queue[m + 1])
    BY <1>0, <1>8
  <2>3. CASE queue[m + 1] \in gone
    <3>1. f[m + 1] = f[m]
      BY <2>2, <2>3
    <3> QED
      BY <2>1, <2>3, <3>1
  <2>4. CASE queue[m + 1] \notin gone
    <3> DEFINE q == f[m]
               e == f[m + 1]
    <3>1. e = Append(q, queue[m + 1])
      BY <2>2, <2>4
    <3> HIDE DEF q, e
    <3>2. /\ e \in Seq(Hash) /\ DOMAIN q \subseteq DOMAIN e
          /\ \A i \in DOMAIN q : e[i] = q[i]
          /\ Len(q) + 1 \in DOMAIN e /\ e[Len(q) + 1] = queue[m + 1]
      BY <2>1, <3>1 DEF q
    <3>3. Holds(q, m)
      BY <2>1 DEF q
    <3>4. Holds(e, m + 1)
      BY <3>2, <3>3
    <3> QED
      BY <3>2, <3>4 DEF e
  <2> QED
    BY <2>3, <2>4
<1>11. n \in Q
  <2> HIDE DEF Q
  <2>1. \A m \in Nat : m \in Q => m + 1 \in Q
    BY <1>10
  <2> QED
    BY <1>0, <1>9, <2>1, Induction
<1>12. f[n] \in Seq(Hash) /\ Holds(f[n], n)
  BY <1>0, <1>11
<1> QED
  BY <1>6, <1>12 DEF n

\* What leaves the tree alone and makes no request for filter headers.
LEMMA KeepsChain ==
    ASSUME NEW c, ChainInv(c), NEW d, DOMAIN d = ChainFields, d.tree = c.tree,
           d.headerRequest \in {c.headerRequest, None},
           RequestsType(d), QueueType(d)
    PROVE  ChainInv(d)
BY DEF ChainInv

\* BlockQueue::pop keeps the chain.
LEMMA NextBlockKeeps ==
    ASSUME NEW c, ChainInv(c)
    PROVE  ChainInv(NextBlock(c))
<1>1. CASE c.want = None /\ c.queue # <<>>
  <2> DEFINE d == [c EXCEPT !.want = Head(c.queue), !.queue = Tail(c.queue)]
  <2>1. /\ DOMAIN d = ChainFields /\ d.tree = c.tree /\ d.headerRequest = c.headerRequest
        /\ d.filterRequest = c.filterRequest /\ d.pending = c.pending /\ d.agreed = c.agreed
        /\ d.want = Head(c.queue) /\ d.queue = Tail(c.queue)
    BY DEF ChainInv, ChainFields
  <2>2. Head(c.queue) \in Hash /\ Tail(c.queue) \in Seq(Hash)
    BY <1>1 DEF ChainInv, QueueType
  <2>3. NextBlock(c) = d
    BY <1>1 DEF NextBlock
  <2> HIDE DEF d
  <2>4. RequestsType(d) /\ QueueType(d)
    BY <2>1, <2>2 DEF ChainInv, RequestsType, QueueType
  <2> QED
    BY <2>1, <2>3, <2>4, KeepsChain
<1>2. CASE ~(c.want = None /\ c.queue # <<>>)
  BY <1>2 DEF NextBlock
<1> QED
  BY <1>1, <1>2

\* next_filter_message keeps the chain: it stops on the active chain.
LEMMA NextFilterKeeps ==
    ASSUME NEW c, ChainInv(c)
    PROVE  ChainInv(NextFilterMessage(c))
<1>1. PICK k : NextFilterMessage(c) = [c EXCEPT !.filterRequest = StopHash(c.tree, k)]
  BY DEF NextFilterMessage
<1> DEFINE d == [c EXCEPT !.filterRequest = StopHash(c.tree, k)]
<1>2. /\ DOMAIN d = ChainFields /\ d.tree = c.tree /\ d.headerRequest = c.headerRequest
      /\ d.filterRequest = StopHash(c.tree, k) /\ d.pending = c.pending /\ d.agreed = c.agreed
      /\ d.want = c.want /\ d.queue = c.queue
  BY DEF ChainInv, ChainFields
<1>3. StopHash(c.tree, k) \in Hash
  <2>1. StopHash(c.tree, k) \in MainChain(c.tree)
    BY StopOnMain DEF ChainInv
  <2> QED
    BY <2>1 DEF ChainInv, TreeInv, Sound, TreeType, MainChain, Walk
<1> HIDE DEF d
<1>4. RequestsType(d) /\ QueueType(d)
  BY <1>2, <1>3 DEF ChainInv, RequestsType, QueueType
<1> QED
  BY <1>1, <1>2, <1>4, KeepsChain DEF d

\* clear_compact_filter_queue keeps the chain: it forgets the request.
LEMMA ClearQueueKeeps ==
    ASSUME NEW c, ChainInv(c)
    PROVE  ChainInv(ClearCompactFilterQueue(c))
<1> DEFINE d == ClearCompactFilterQueue(c)
<1>1. /\ DOMAIN d = ChainFields /\ d.tree = c.tree /\ d.headerRequest = None
      /\ d.filterRequest = c.filterRequest /\ d.pending = None /\ d.agreed = 0
      /\ d.want = c.want /\ d.queue = c.queue
  BY DEF ChainInv, ChainFields, ClearCompactFilterQueue
<1> HIDE DEF d
<1>2. RequestsType(d) /\ QueueType(d)
  BY <1>1, ChainAssumption DEF ChainInv, RequestsType, QueueType
<1> QED
  BY <1>1, <1>2, KeepsChain DEF d

\* BlockQueue::remove keeps the chain.
LEMMA QueueRemoveKeeps ==
    ASSUME NEW c, ChainInv(c), NEW gone
    PROVE  ChainInv(QueueRemove(c, gone))
<1> DEFINE d == QueueRemove(c, gone)
<1>1. /\ DOMAIN d = ChainFields /\ d.tree = c.tree /\ d.headerRequest = c.headerRequest
      /\ d.filterRequest = c.filterRequest /\ d.pending = c.pending /\ d.agreed = c.agreed
      /\ d.want \in {c.want, None} /\ d.queue = Without(c.queue, gone)
  BY DEF ChainInv, ChainFields, QueueRemove
<1>2. Without(c.queue, gone) \in Seq(Hash)
  BY WithoutSeq DEF ChainInv, QueueType
<1> HIDE DEF d
<1>3. RequestsType(d) /\ QueueType(d)
  BY <1>1, <1>2 DEF ChainInv, RequestsType, QueueType
<1> QED
  BY <1>1, <1>3, KeepsChain DEF d

\* It forgets no other block.
LEMMA QueueRemoveHolds ==
    ASSUME NEW c, ChainInv(c), NEW gone, NEW x, QueueContains(c, x), x \notin gone
    PROVE  QueueContains(QueueRemove(c, gone), x)
<1> DEFINE d == QueueRemove(c, gone)
<1>1. /\ d.queue = Without(c.queue, gone)
      /\ d.want = IF c.want \in gone THEN None ELSE c.want
  BY DEF QueueRemove, ChainInv, ChainFields
<1>2. c.queue \in Seq(Hash)
  BY DEF ChainInv, QueueType
<1> HIDE DEF d
<1>3. CASE c.want = x
  BY <1>1, <1>3 DEF QueueContains, d
<1>4. CASE \E i \in DOMAIN c.queue : c.queue[i] = x
  BY <1>1, <1>2, <1>4, WithoutSeq DEF QueueContains, d
<1> QED
  BY <1>3, <1>4 DEF QueueContains

\* A tree that has grown.
LEMMA GrownKeeps ==
    ASSUME NEW c, ChainInv(c), NEW u, TreeInv(u), Grows(c.tree, u)
    PROVE  ChainInv([c EXCEPT !.tree = u])
<1> DEFINE d == [c EXCEPT !.tree = u]
<1>1. /\ DOMAIN d = ChainFields /\ d.tree = u /\ d.headerRequest = c.headerRequest
      /\ d.filterRequest = c.filterRequest /\ d.pending = c.pending /\ d.agreed = c.agreed
      /\ d.want = c.want /\ d.queue = c.queue
  BY DEF ChainInv, ChainFields
<1> HIDE DEF d
<1>2. RequestsType(d) /\ QueueType(d)
  BY <1>1 DEF ChainInv, RequestsType, QueueType
<1>3. d.headerRequest # None => RequestOK(u, d.headerRequest)
  BY <1>1, GrowsKeeps DEF ChainInv
<1> QED
  BY <1>1, <1>2, <1>3 DEF ChainInv, d

\* clear_filters keeps the chain.
LEMMA ClearFiltersKeeps ==
    ASSUME NEW c, ChainInv(c)
    PROVE  ChainInv(ClearFilters(c))
<1>1. TreeInv(ResetAllFilters(c.tree)) /\ Grows(c.tree, ResetAllFilters(c.tree))
  BY ResetTree DEF ChainInv
<1> QED
  BY <1>1, GrownKeeps DEF ClearFilters

\* next_cf_header_message keeps the chain when filter headers are missing.
LEMMA RequestKeeps ==
    ASSUME NEW c, ChainInv(c), ~FilterHeadersSynced(c.tree)
    PROVE  ChainInv(NextCFHeaderMessage(c))
<1> DEFINE d == NextCFHeaderMessage(c)
<1>1. PICK start, stop, prev :
        d = [c EXCEPT !.headerRequest = [start |-> start, stop |-> stop, expected |-> prev]]
  BY DEF NextCFHeaderMessage
<1>2. "headerRequest" \in DOMAIN c /\ TreeInv(c.tree)
  BY DEF ChainInv, ChainFields
<1>3. RequestOK(c.tree, d.headerRequest)
  BY <1>2, NewRequest
<1> HIDE DEF d
<1>4. /\ DOMAIN d = ChainFields /\ d.tree = c.tree
      /\ d.headerRequest = [start |-> start, stop |-> stop, expected |-> prev]
      /\ d.filterRequest = c.filterRequest /\ d.pending = c.pending /\ d.agreed = c.agreed
      /\ d.want = c.want /\ d.queue = c.queue
  BY <1>1 DEF ChainInv, ChainFields
<1>5. d.headerRequest \in RequestType
  <2>1. start \in Nat /\ stop \in Hash /\ prev \in FilterHeader \cup {None}
    BY <1>2, <1>3, <1>4 DEF RequestOK, TreeInv, Sound, TreeType
  <2> QED
    BY <1>4, <2>1 DEF RequestType
<1>6. RequestsType(d) /\ QueueType(d)
  BY <1>4, <1>5 DEF ChainInv, RequestsType, QueueType
<1> QED
  BY <1>2, <1>3, <1>4, <1>6 DEF ChainInv, d

\* So does the next request, whichever it is.
LEMMA StatefulKeeps ==
    ASSUME NEW c, ChainInv(c)
    PROVE  ChainInv(NextStatefulMessage(c))
BY RequestKeeps, NextFilterKeeps DEF NextStatefulMessage

-----------------------------------------------------------------------------
(* sync_chain *)

\* The loop over a message, from the chain c up to the header last: what was
\* disconnected is not on the active chain, and all else that was queued is.
RunInv(run, c, last) ==
    /\ DOMAIN run = {"chain", "done", "reorg", "gone"}
    /\ ChainInv(run.chain)
    /\ NoneMarked(c.tree, run.chain.tree)
    /\ run.gone \subseteq Known(run.chain.tree)
    /\ run.gone \cap MainChain(run.chain.tree) = {}
    /\ ~run.done /\ run.gone # {} => run.chain.tree.tip.hash = last
    /\ \A x : QueueContains(c, x) => QueueContains(run.chain, x) \/ x \in run.gone

\* One header of a message keeps it: once blocks are disconnected, the headers
\* that follow are on the tip.
LEMMA SyncHeaderKeeps ==
    ASSUME UniformWork, NEW c, NEW run, NEW g, RunInv(run, c, g), NEW h \in Hash,
           run.gone # {} => PrevOf[h] = g
    PROVE  RunInv(SyncHeader(run, h), c, h)
<1> DEFINE t == run.chain.tree
           r == AcceptHeader(t, h)
           d == [run.chain EXCEPT !.tree = r.tree]
           e == SyncHeader(run, h)
<1>0. /\ ChainInv(run.chain) /\ TreeInv(t)
      /\ DOMAIN run = {"chain", "done", "reorg", "gone"}
  BY DEF RunInv, ChainInv
<1>1. TreeInv(r.tree) /\ Grows(t, r.tree)
  BY <1>0, AcceptHeaderTree
<1>2. NoneMarked(t, r.tree)
  BY <1>0, AcceptHeaderMarksNone DEF TreeInv
<1>3. /\ r.changes.kind = "Reorganization" =>
            /\ r.tree.tip.hash = h
            /\ r.changes.disconnected \subseteq Known(r.tree)
            /\ r.changes.disconnected \cap MainChain(r.tree) = {}
      /\ PrevOf[h] = t.tip.hash =>
            \/ r.tree = t /\ r.changes.kind = "InvalidPow"
            \/ /\ r.changes.kind = "Accepted" /\ r.tree.tip.hash = h
               /\ MainChain(r.tree) = MainChain(t) \cup {h} /\ h \notin Known(t)
  BY <1>0, AcceptHeaderGone
<1>4. e = IF run.done THEN run ELSE ApplyChange(run, d, r.changes)
  BY DEF SyncHeader
<1> HIDE DEF r
<1>5. ChainInv(d)
  BY <1>0, <1>1, GrownKeeps
<1>6. d.tree = r.tree /\ d.queue = run.chain.queue /\ d.want = run.chain.want
  BY <1>0 DEF ChainInv, ChainFields
<1> HIDE DEF d, e, t
<1>7. NoneMarked(c.tree, d.tree)
  BY <1>2, <1>6, NoneMarkedTrans DEF RunInv, t
<1>8. \A x : QueueContains(d, x) <=> QueueContains(run.chain, x)
  BY <1>6 DEF QueueContains
<1>9. run.gone \subseteq Known(d.tree)
  BY <1>1, <1>6 DEF RunInv, Grows, t
<1>10. CASE run.done
  BY <1>4, <1>10 DEF RunInv, e
<1>11. CASE ~run.done /\ run.gone # {}
  <2>1. PrevOf[h] = t.tip.hash
    BY <1>11 DEF RunInv, t
  <2>2. CASE r.tree = t /\ r.changes.kind = "InvalidPow"
    <3>1. e = [run EXCEPT !.chain = d, !.done = TRUE]
      BY <1>4, <1>11, <2>2 DEF ApplyChange
    <3>2. e.chain = d /\ e.done = TRUE /\ e.gone = run.gone /\ DOMAIN e = DOMAIN run
      BY <1>0, <3>1
    <3>3. run.gone \cap MainChain(d.tree) = {}
      BY <1>6, <2>2 DEF RunInv, t
    <3> QED
      BY <1>0, <1>5, <1>7, <1>8, <1>9, <3>2, <3>3 DEF RunInv, e
  <2>3. CASE /\ r.changes.kind = "Accepted" /\ r.tree.tip.hash = h
             /\ MainChain(r.tree) = MainChain(t) \cup {h} /\ h \notin Known(t)
    <3>1. e = [run EXCEPT !.chain = d]
      BY <1>4, <1>11, <2>3 DEF ApplyChange
    <3>2. e.chain = d /\ e.done = run.done /\ e.gone = run.gone /\ DOMAIN e = DOMAIN run
      BY <1>0, <3>1
    <3>3. run.gone \cap MainChain(d.tree) = {}
      BY <1>6, <2>3 DEF RunInv, t
    <3> QED
      BY <1>0, <1>5, <1>6, <1>7, <1>8, <1>9, <2>3, <3>2, <3>3 DEF RunInv, e
  <2> QED
    BY <1>3, <2>1, <2>2, <2>3
<1>12. CASE ~run.done /\ run.gone = {} /\ r.changes.kind = "Reorganization"
  <2> DEFINE gone == r.changes.disconnected
             q == QueueRemove(d, gone)
  <2>1. e = [chain |-> q, done |-> FALSE, reorg |-> TRUE, gone |-> run.gone \cup gone]
    BY <1>4, <1>12 DEF ApplyChange
  <2>2. ChainInv(q) /\ \A x : QueueContains(d, x) => QueueContains(q, x) \/ x \in gone
    BY <1>5, QueueRemoveKeeps, QueueRemoveHolds
  <2>3. q.tree = d.tree
    BY <1>5 DEF QueueRemove, ChainInv, ChainFields
  <2> HIDE DEF q, gone
  <2>4. e.chain = q /\ e.done = FALSE /\ e.gone = gone /\ DOMAIN e = DOMAIN run
    BY <1>0, <1>12, <2>1
  <2>5. /\ gone \subseteq Known(q.tree) /\ gone \cap MainChain(q.tree) = {}
        /\ q.tree.tip.hash = h
    BY <1>3, <1>6, <1>12, <2>3 DEF gone
  <2>6. \A x : QueueContains(c, x) => QueueContains(run.chain, x)
    BY <1>12 DEF RunInv
  <2> QED
    BY <1>0, <1>7, <1>8, <2>2, <2>3, <2>4, <2>5, <2>6 DEF RunInv, e
<1>13. CASE ~run.done /\ run.gone = {} /\ r.changes.kind # "Reorganization"
  <2>1. e \in {[run EXCEPT !.chain = d, !.done = TRUE], [run EXCEPT !.chain = d]}
    BY <1>4, <1>13 DEF ApplyChange
  <2>2. e.chain = d /\ e.gone = run.gone /\ DOMAIN e = DOMAIN run
    BY <1>0, <2>1
  <2> QED
    BY <1>0, <1>5, <1>7, <1>8, <1>13, <2>2 DEF RunInv, e
<1> QED
  BY <1>10, <1>11, <1>12, <1>13

\* The headers of a message, one after the other.
LEMMA SyncedHeadersKeeps ==
    ASSUME UniformWork, NEW c, ChainInv(c), NEW msg \in Seq(Hash),
           \A i \in 2 .. Len(msg) : PrevOf[msg[i]] = msg[i - 1]
    PROVE  RunInv(SyncedHeaders(c, msg), c, msg[Len(msg)])
<1> DEFINE n == Len(msg)
           base == [chain |-> c, done |-> FALSE, reorg |-> FALSE, gone |-> {}]
           Val(g, i) == IF i = 0 THEN base ELSE SyncHeader(g[i - 1], msg[i])
           Def(g) == [i \in 0 .. n |-> Val(g, i)]
           S == {m \in Nat : \E g : \A i \in 0 .. m : g[i] = Val(g, i)}
<1>0. n \in Nat /\ \A i \in 1 .. n : msg[i] \in Hash
  OBVIOUS
<1>b. RunInv(base, c, msg[0])
  BY DEF RunInv, NoneMarked
<1>p. base.gone = {} /\ \A m \in Nat : m + 1 <= n /\ m # 0 => PrevOf[msg[m + 1]] = msg[m]
  BY <1>0
<1> HIDE DEF base, n
<1>1. 0 \in S
  <2> DEFINE g == [i \in 0 .. 0 |-> base]
  <2>1. \A i \in 0 .. 0 : g[i] = Val(g, i)
    OBVIOUS
  <2> QED
    BY <2>1
<1>2. ASSUME NEW m \in Nat, m \in S
      PROVE  m + 1 \in S
  <2>1. PICK g : \A i \in 0 .. m : g[i] = Val(g, i)
    BY <1>2
  <2> DEFINE next == SyncHeader(g[m], msg[m + 1])
             e == [i \in 0 .. m + 1 |-> IF i = m + 1 THEN next ELSE g[i]]
  <2> HIDE DEF next
  <2>2. /\ \A i \in 0 .. m : e[i] = g[i]
        /\ e[m + 1] = next
    OBVIOUS
  <2> HIDE DEF e
  <2>3. ASSUME NEW i \in 0 .. m + 1
        PROVE  e[i] = Val(e, i)
    <3>1. CASE i = m + 1
      BY <2>2, <3>1 DEF next
    <3>2. CASE i = 0
      BY <2>1, <2>2, <3>2
    <3>3. CASE i \in 1 .. m
      <4>1. i \in 0 .. m /\ i - 1 \in 0 .. m
        BY <3>3
      <4> QED
        BY <2>1, <2>2, <3>3, <4>1
    <3> QED
      BY <3>1, <3>2, <3>3
  <2> QED
    BY <2>3
<1>3. n \in S
  <2> HIDE DEF S
  <2>1. \A m \in Nat : m \in S => m + 1 \in S
    BY <1>2
  <2> QED
    BY <1>0, <1>1, <2>1, Induction
<1>4. PICK g : \A i \in 0 .. n : g[i] = Val(g, i)
  BY <1>3
<1> DEFINE d == Def(g)
           f == CHOOSE f : f = Def(f)
<1>5. d = Def(d)
  <2>1. \A i \in 0 .. n : d[i] = g[i]
    BY <1>4
  <2>2. ASSUME NEW i \in 0 .. n
        PROVE  Val(g, i) = Val(d, i)
    <3> HIDE DEF d
    <3>1. CASE i = 0
      BY <3>1
    <3>2. CASE i # 0
      <4>1. i - 1 \in 0 .. n
        BY <1>0, <3>2
      <4>2. d[i - 1] = g[i - 1]
        BY <2>1, <4>1
      <4> QED
        BY <3>2, <4>2
    <3> QED
      BY <3>1, <3>2
  <2> QED
    BY <2>2
<1>6. SyncedHeaders(c, msg) = f[n]
  BY DEF SyncedHeaders, n, base
<1>7. f = Def(f)
  <2> HIDE DEF d, Def
  <2> QED
    BY <1>5
<1> HIDE DEF f
<1>8. \A i \in 0 .. n : f[i] = Val(f, i)
  BY <1>7
<1> DEFINE Q == {m \in Nat : m <= n => RunInv(f[m], c, msg[m])}
<1>9. 0 \in Q
  <2>1. f[0] = base
    BY <1>0, <1>8
  <2> QED
    BY <1>b, <2>1
<1>10. ASSUME NEW m \in Nat, m \in Q
       PROVE  m + 1 \in Q
  <2> SUFFICES ASSUME m + 1 <= n PROVE RunInv(f[m + 1], c, msg[m + 1])
    OBVIOUS
  <2>1. RunInv(f[m], c, msg[m]) /\ msg[m + 1] \in Hash
    BY <1>0, <1>10
  <2>2. f[m + 1] = SyncHeader(f[m], msg[m + 1])
    BY <1>0, <1>8
  <2>3. f[m].gone # {} => PrevOf[msg[m + 1]] = msg[m]
    BY <1>0, <1>8, <1>p
  <2> QED
    BY <2>1, <2>2, <2>3, SyncHeaderKeeps
<1>11. n \in Q
  <2> HIDE DEF Q
  <2>1. \A m \in Nat : m \in Q => m + 1 \in Q
    BY <1>10
  <2> QED
    BY <1>0, <1>9, <2>1, Induction
<1>12. RunInv(f[n], c, msg[n])
  BY <1>0, <1>11
<1> QED
  BY <1>6, <1>12 DEF n

\* sync_chain, with the errors that leave it half way.
LEMMA SyncChainKeeps ==
    ASSUME UniformWork, NEW c, ChainInv(c), NEW msg \in Seq(Hash),
           \A i \in 2 .. Len(msg) : PrevOf[msg[i]] = msg[i - 1]
    PROVE  LET r == SyncChain(c, msg)
           IN  /\ ChainInv(r.chain)
               /\ NoneMarked(c.tree, r.chain.tree)
               /\ \A x \in MainChain(r.chain.tree) :
                    x \notin r.gone /\ (QueueContains(c, x) => QueueContains(r.chain, x))
<1> DEFINE run == SyncedHeaders(c, msg)
           r == SyncChain(c, msg)
           d == ClearCompactFilterQueue(run.chain)
<1>1. RunInv(run, c, msg[Len(msg)])
  BY SyncedHeadersKeeps
<1> HIDE DEF run
<1>2. ChainInv(run.chain)
  BY <1>1 DEF RunInv
<1>3. d.tree = run.chain.tree /\ d.queue = run.chain.queue /\ d.want = run.chain.want
  BY <1>2 DEF ClearCompactFilterQueue, ChainInv, ChainFields
<1>4. ChainInv(d)
  BY <1>2, ClearQueueKeeps
<1>5. \/ r.chain = c /\ r.gone = {}
      \/ r.chain \in {d, run.chain} /\ r.gone = run.gone
  BY DEF SyncChain, FinishSync, run
<1>6. NoneMarked(c.tree, c.tree)
  BY DEF NoneMarked
<1>7. \A x : QueueContains(d, x) <=> QueueContains(run.chain, x)
  BY <1>3 DEF QueueContains
<1> HIDE DEF r, d
<1>8. CASE r.chain = c /\ r.gone = {}
  BY <1>6, <1>8 DEF r
<1>9. CASE r.chain \in {d, run.chain} /\ r.gone = run.gone
  <2>1. ChainInv(r.chain) /\ r.chain.tree = run.chain.tree
    BY <1>2, <1>3, <1>4, <1>9
  <2>2. \A x : QueueContains(r.chain, x) <=> QueueContains(run.chain, x)
    BY <1>7, <1>9
  <2>3. ASSUME NEW x \in MainChain(r.chain.tree)
        PROVE  x \notin r.gone /\ (QueueContains(c, x) => QueueContains(r.chain, x))
    BY <1>1, <1>9, <2>1, <2>2 DEF RunInv
  <2> QED
    BY <1>1, <2>1, <2>3 DEF RunInv, r
<1> QED
  BY <1>5, <1>8, <1>9

-----------------------------------------------------------------------------
(* sync_cf_headers and sync_filter *)

\* A batch is counted or taken.
LEMMA CountAgreementKeeps ==
    ASSUME NEW c, ChainInv(c), c.headerRequest # None, NEW first \in Peer, NEW b \in Batch,
           \A i \in DOMAIN b.hashes : ChainedHeaders(b)[i] \in FilterHeader,
           c.headerRequest.expected \in {None, b.prev}, AnswersRequest(c, b)
    PROVE  ChainInv(CountAgreement(c, first, b).chain)
<1> DEFINE r == c.headerRequest
<1>1. CASE c.agreed + 1 >= Required
  <2> DEFINE u == PushBatch(c.tree, b)
             d == [c EXCEPT !.agreed = 0, !.pending = None, !.tree = u]
  <2>1. /\ RequestOK(c.tree, r) /\ TreeInv(c.tree) /\ b.hashes \in Seq(FilterHash)
        /\ r.stop = b.stop /\ HeightOf(c.tree, b.stop) - (Len(b.hashes) - 1) = r.start
    BY DEF ChainInv, AnswersRequest, Batch
  <2>2. TreeInv(u) /\ RequestOK(u, r)
    BY <2>1, PushBatchTree
  <2>3. CountAgreement(c, first, b).chain = d
    BY <1>1 DEF CountAgreement
  <2> HIDE DEF u
  <2>4. /\ DOMAIN d = ChainFields /\ d.tree = u /\ d.headerRequest = c.headerRequest
        /\ d.filterRequest = c.filterRequest /\ d.pending = None /\ d.agreed = 0
        /\ d.want = c.want /\ d.queue = c.queue
    BY DEF ChainInv, ChainFields
  <2> HIDE DEF d
  <2>5. RequestsType(d) /\ QueueType(d)
    BY <2>4, ChainAssumption DEF ChainInv, RequestsType, QueueType
  <2> QED
    BY <2>2, <2>3, <2>4, <2>5 DEF ChainInv
<1>2. CASE ~(c.agreed + 1 >= Required)
  <2> DEFINE w == [peer |-> first, batch |-> b]
             d == [c EXCEPT !.agreed = @ + 1, !.pending = w]
  <2>1. CountAgreement(c, first, b).chain = d
    BY <1>2 DEF CountAgreement
  <2>2. w.peer \in Peer /\ w.batch \in Batch
    OBVIOUS
  <2> HIDE DEF w
  <2>3. /\ DOMAIN d = ChainFields /\ d.tree = c.tree /\ d.headerRequest = c.headerRequest
        /\ d.filterRequest = c.filterRequest /\ d.pending = w /\ d.agreed = c.agreed + 1
        /\ d.want = c.want /\ d.queue = c.queue
    BY DEF ChainInv, ChainFields
  <2> HIDE DEF d
  <2>4. d.agreed \in 0 .. Required - 1
    BY <1>2, <2>3, ChainAssumption DEF ChainInv, RequestsType
  <2>5. RequestsType(d) /\ QueueType(d)
    BY <2>2, <2>3, <2>4 DEF ChainInv, RequestsType, QueueType
  <2> QED
    BY <2>1, <2>3, <2>5, KeepsChain
<1> QED
  BY <1>1, <1>2

\* Two batches are compared, or a repeated one takes the pending one away.
LEMMA WeighBatchKeeps ==
    ASSUME NEW c, ChainInv(c), c.headerRequest # None, NEW p \in Peer, NEW b \in Batch,
           \A i \in DOMAIN b.hashes : ChainedHeaders(b)[i] \in FilterHeader,
           c.headerRequest.expected \in {None, b.prev}, AnswersRequest(c, b)
    PROVE  ChainInv(WeighBatch(c, p, b).chain)
<1>1. ASSUME NEW k \in {c.agreed, 0}, NEW d, d = [c EXCEPT !.pending = None, !.agreed = k]
      PROVE  ChainInv(d)
  <2>1. /\ DOMAIN d = ChainFields /\ d.tree = c.tree /\ d.headerRequest = c.headerRequest
        /\ d.filterRequest = c.filterRequest /\ d.pending = None /\ d.agreed = k
        /\ d.want = c.want /\ d.queue = c.queue
    BY <1>1 DEF ChainInv, ChainFields
  <2>2. RequestsType(d) /\ QueueType(d)
    BY <2>1, ChainAssumption DEF ChainInv, RequestsType, QueueType
  <2> QED
    BY <2>1, <2>2, KeepsChain
<1>2. [c EXCEPT !.pending = None] = [c EXCEPT !.pending = None, !.agreed = c.agreed]
  BY DEF ChainInv, ChainFields
<1>3. c.pending # None => c.pending.peer \in Peer
  BY DEF ChainInv, RequestsType
<1>4. CASE c.pending = None
  BY <1>4, CountAgreementKeeps DEF WeighBatch
<1>5. CASE c.pending # None /\ c.pending.peer = p
  BY <1>1, <1>2, <1>5 DEF WeighBatch
<1>6. CASE c.pending # None /\ c.pending.peer # p /\ c.pending.batch # b
  BY <1>1, <1>6 DEF WeighBatch
<1>7. CASE c.pending # None /\ c.pending.peer # p /\ c.pending.batch = b
  BY <1>3, <1>7, CountAgreementKeeps DEF WeighBatch
<1> QED
  BY <1>4, <1>5, <1>6, <1>7

\* sync_cf_headers keeps the chain, whatever the batch says.
LEMMA SyncCFHeadersKeeps ==
    ASSUME NEW c, ChainInv(c), NEW p \in Peer, NEW b \in Batch,
           \A i \in DOMAIN b.hashes : ChainedHeaders(b)[i] \in FilterHeader
    PROVE  ChainInv(SyncCFHeaders(c, p, b).chain)
<1>1. CASE c.headerRequest = None \/ c.headerRequest.expected \notin {None, b.prev}
           \/ ~AnswersRequest(c, b)
  <2>1. SyncCFHeaders(c, p, b).chain = c
    BY <1>1 DEF SyncCFHeaders
  <2> QED
    BY <2>1
<1>2. CASE c.headerRequest # None /\ c.headerRequest.expected \in {None, b.prev}
           /\ AnswersRequest(c, b)
  <2>1. SyncCFHeaders(c, p, b) = WeighBatch(c, p, b)
    BY <1>2 DEF SyncCFHeaders
  <2> QED
    BY <1>2, <2>1, WeighBatchKeeps
<1> QED
  BY <1>1, <1>2

\* sync_filter keeps the chain.
LEMMA SyncFilterKeeps ==
    ASSUME NEW c, ChainInv(c), NEW watched, NEW h \in Hash, NEW f
    PROVE  ChainInv(SyncFilter(c, watched, h, f).chain)
<1> DEFINE u == CheckFilter(c.tree, h)
           match == Scanned(c, h) /\ Touches[h, f] \cap watched # {}
           d == [c EXCEPT !.tree = u, !.queue = IF match THEN Append(@, h) ELSE @]
           e == [c EXCEPT !.tree = u]
<1>1. SyncFilter(c, watched, h, f).chain \in {c, d, NextFilterMessage(d)}
  BY DEF SyncFilter
<1>2. TreeInv(u) /\ Grows(c.tree, u)
  BY CheckFilterTree DEF ChainInv
<1> HIDE DEF u, match
<1>3. ChainInv(e)
  BY <1>2, GrownKeeps
<1>4. /\ DOMAIN d = ChainFields /\ d.tree = e.tree /\ d.headerRequest = e.headerRequest
      /\ d.filterRequest = e.filterRequest /\ d.pending = e.pending /\ d.agreed = e.agreed
      /\ d.want = e.want /\ d.queue = IF match THEN Append(e.queue, h) ELSE e.queue
  BY DEF ChainInv, ChainFields
<1> HIDE DEF d, e
<1>5. d.queue \in Seq(Hash)
  BY <1>3, <1>4 DEF ChainInv, QueueType
<1>6. RequestsType(d) /\ QueueType(d)
  BY <1>3, <1>4, <1>5 DEF ChainInv, RequestsType, QueueType
<1>7. ChainInv(d)
  BY <1>3, <1>4, <1>6, KeepsChain
<1>8. ChainInv(NextFilterMessage(d))
  BY <1>7, NextFilterKeeps
<1> QED
  BY <1>1, <1>7, <1>8

-----------------------------------------------------------------------------
(* The tree that load_headers builds *)

\* The first header alone.
LEMMA FirstTree ==
    TreeInv(FromHeader(Root, RootHeight))
<1> DEFINE u == FromHeader(Root, RootHeight)
<1>1. u.headers = [h \in {Root} |-> NewNode(RootHeight, Work(Root))]
  BY DEF FromHeader
<1>3. Sound(u, TreeRoot) /\ Followed(u, Known(u), TreeRoot) /\ Known(u) = {Root}
  BY TreeRootType, FromHeaderSound
<1> HIDE DEF u
<1>5. ~Committed(u, Root)
  BY <1>1 DEF Committed, NewNode
<1>6. Chained(u)
  BY <1>3, <1>5 DEF Chained
<1> QED
  BY <1>3, <1>6 DEF TreeInv, Followed, u

\* The headers of the store on top of it.
LEMMA LoadedTreeInv ==
    ASSUME UniformWork
    PROVE  /\ TreeInv(LoadedTree)
           /\ \A x \in Known(LoadedTree) :
                LoadedTree.headers[x].checked => HeightOf(LoadedTree, x) <= ScanHeight
<1> DEFINE n == Len(Loaded)
           base == FromHeader(Root, RootHeight)
           Val(g, i) == IF i = 0 THEN base ELSE AcceptHeader(g[i - 1], Loaded[i]).tree
           Def(g) == [i \in 0 .. n |-> Val(g, i)]
           S == {m \in Nat : \E g : \A i \in 0 .. m : g[i] = Val(g, i)}
<1>0. n \in Nat /\ \A i \in 1 .. n : Loaded[i] \in Hash
  BY NodeAssumption
<1>b. TreeInv(base) /\ NoneMarked(base, base)
  BY FirstTree DEF NoneMarked
<1> HIDE DEF base, n
<1>1. 0 \in S
  <2> DEFINE g == [i \in 0 .. 0 |-> base]
  <2>1. \A i \in 0 .. 0 : g[i] = Val(g, i)
    OBVIOUS
  <2> QED
    BY <2>1
<1>2. ASSUME NEW m \in Nat, m \in S
      PROVE  m + 1 \in S
  <2>1. PICK g : \A i \in 0 .. m : g[i] = Val(g, i)
    BY <1>2
  <2> DEFINE next == AcceptHeader(g[m], Loaded[m + 1]).tree
             e == [i \in 0 .. m + 1 |-> IF i = m + 1 THEN next ELSE g[i]]
  <2> HIDE DEF next
  <2>2. /\ \A i \in 0 .. m : e[i] = g[i]
        /\ e[m + 1] = next
    OBVIOUS
  <2> HIDE DEF e
  <2>3. ASSUME NEW i \in 0 .. m + 1
        PROVE  e[i] = Val(e, i)
    <3>1. CASE i = m + 1
      BY <2>2, <3>1 DEF next
    <3>2. CASE i = 0
      BY <2>1, <2>2, <3>2
    <3>3. CASE i \in 1 .. m
      <4>1. i \in 0 .. m /\ i - 1 \in 0 .. m
        BY <3>3
      <4> QED
        BY <2>1, <2>2, <3>3, <4>1
    <3> QED
      BY <3>1, <3>2, <3>3
  <2> QED
    BY <2>3
<1>3. n \in S
  <2> HIDE DEF S
  <2>1. \A m \in Nat : m \in S => m + 1 \in S
    BY <1>2
  <2> QED
    BY <1>0, <1>1, <2>1, Induction
<1>4. PICK g : \A i \in 0 .. n : g[i] = Val(g, i)
  BY <1>3
<1> DEFINE d == Def(g)
           f == CHOOSE f : f = Def(f)
<1>5. d = Def(d)
  <2>1. \A i \in 0 .. n : d[i] = g[i]
    BY <1>4
  <2>2. ASSUME NEW i \in 0 .. n
        PROVE  Val(g, i) = Val(d, i)
    <3> HIDE DEF d
    <3>1. CASE i = 0
      BY <3>1
    <3>2. CASE i # 0
      <4>1. i - 1 \in 0 .. n
        BY <1>0, <3>2
      <4>2. d[i - 1] = g[i - 1]
        BY <2>1, <4>1
      <4> QED
        BY <3>2, <4>2
    <3> QED
      BY <3>1, <3>2
  <2> QED
    BY <2>2
<1>6. LoadedTree = AssumeCheckedTo(f[n], ScanHeight)
  BY DEF LoadedTree, n, base
<1>7. f = Def(f)
  <2> HIDE DEF d, Def
  <2> QED
    BY <1>5
<1> HIDE DEF f
<1>8. \A i \in 0 .. n : f[i] = Val(f, i)
  BY <1>7
<1> DEFINE Q == {m \in Nat : m <= n => TreeInv(f[m]) /\ NoneMarked(base, f[m])}
<1>9. 0 \in Q
  <2>1. f[0] = base
    BY <1>0, <1>8
  <2> QED
    BY <1>b, <2>1
<1>10. ASSUME NEW m \in Nat, m \in Q
       PROVE  m + 1 \in Q
  <2> SUFFICES ASSUME m + 1 <= n
               PROVE  TreeInv(f[m + 1]) /\ NoneMarked(base, f[m + 1])
    OBVIOUS
  <2>1. TreeInv(f[m]) /\ NoneMarked(base, f[m]) /\ Loaded[m + 1] \in Hash
    BY <1>0, <1>10
  <2>2. f[m + 1] = AcceptHeader(f[m], Loaded[m + 1]).tree
    BY <1>0, <1>8
  <2>3. NoneMarked(f[m], f[m + 1])
    BY <2>1, <2>2, AcceptHeaderMarksNone DEF TreeInv
  <2>4. NoneMarked(base, f[m + 1])
    BY <2>1, <2>3, NoneMarkedTrans
  <2> QED
    BY <2>1, <2>2, <2>4, AcceptHeaderTree
<1>11. n \in Q
  <2> HIDE DEF Q
  <2>1. \A m \in Nat : m \in Q => m + 1 \in Q
    BY <1>10
  <2> QED
    BY <1>0, <1>9, <2>1, Induction
<1>12. TreeInv(f[n]) /\ NoneMarked(base, f[n])
  BY <1>0, <1>11
<1> DEFINE last == f[n]
           u == AssumeCheckedTo(last, ScanHeight)
<1>13. \A x \in Known(last) : ~last.headers[x].checked
  <2>1. \A x \in Known(base) : ~base.headers[x].checked
    BY DEF base, FromHeader, Known, NewNode
  <2> QED
    BY <1>12, <2>1 DEF NoneMarked
<1>14. \A x \in Known(u) : u.headers[x].checked => HeightOf(u, x) <= ScanHeight
  <2> HIDE DEF last
  <2>1. /\ last.headers \in [Known(last) -> NodeType] /\ "headers" \in DOMAIN last
    BY <1>12 DEF last, TreeInv, Sound, TreeType
  <2> DEFINE low(x) == x \in MainChain(last) /\ HeightOf(last, x) <= ScanHeight
             node(x) == IF low(x) THEN [last.headers[x] EXCEPT !.checked = TRUE]
                        ELSE last.headers[x]
  <2>2. u.headers = [x \in Known(last) |-> node(x)]
    BY <2>1 DEF AssumeCheckedTo
  <2>3. Known(u) = Known(last)
    BY <2>2 DEF Known
  <2>4. ASSUME NEW x \in Known(last)
        PROVE  node(x).height = last.headers[x].height /\ (node(x).checked => low(x))
    <3>1. last.headers[x] \in NodeType /\ ~last.headers[x].checked
      BY <1>13, <2>1 DEF last
    <3> HIDE DEF low
    <3> QED
      BY <3>1 DEF NodeType
  <2> HIDE DEF u, node
  <2> QED
    BY <2>2, <2>3, <2>4 DEF HeightOf
<1> QED
  BY <1>6, <1>12, <1>14, AssumeCheckedTree

-----------------------------------------------------------------------------
(* The theorems *)

\* The inductive invariant.
NodeInv ==
    /\ ChainInv(chain)
    /\ state \in States
    /\ DOMAIN heights \subseteq Peer
    /\ heights \in [DOMAIN heights -> 0 .. MaxHeight]
    /\ scripts \subseteq Script
    /\ pc \in {"top", "select"}
    /\ tested \in [Hash -> SUBSET Script]

\* The node starts with the invariant.
LEMMA InitInv ==
    ASSUME UniformWork, Init
    PROVE  NodeInv
<1>1. TreeInv(LoadedTree)
  BY LoadedTreeInv
<1> DEFINE c == [tree |-> LoadedTree, headerRequest |-> None, filterRequest |-> None,
                 pending |-> None, agreed |-> 0, queue |-> <<>>, want |-> None]
<1>2. /\ DOMAIN c = ChainFields /\ c.tree = LoadedTree /\ c.headerRequest = None
      /\ c.filterRequest = None /\ c.pending = None /\ c.agreed = 0
      /\ c.want = None /\ c.queue = <<>>
  BY DEF ChainFields
<1>3. chain = c
  BY DEF Init
<1> HIDE DEF c
<1>4. RequestsType(c)
  BY <1>2, ChainAssumption DEF RequestsType
<1>5. QueueType(c)
  BY <1>2 DEF QueueType
<1>6. ChainInv(c)
  BY <1>1, <1>2, <1>4, <1>5 DEF ChainInv
<1>7. DOMAIN heights = {} /\ heights \in [DOMAIN heights -> 0 .. MaxHeight]
  BY DEF Init
<1> QED
  BY <1>3, <1>6, <1>7 DEF NodeInv, Init, States

\* Every step keeps it.
LEMMA StepInv ==
    ASSUME UniformWork, NodeInv, [Next]_vars
    PROVE  NodeInv'
<1> USE DEF NodeInv
<1>1. CASE LoopTop
  <2>1. ChainInv(chain')
    BY <1>1, NextBlockKeeps DEF LoopTop
  <2>2. state' \in States
    BY <1>1 DEF LoopTop, AdvanceState, States
  <2> QED
    BY <1>1, <2>1, <2>2 DEF LoopTop, history
<1>2. CASE Timeout
  BY <1>2 DEF Timeout, history
<1>3. ASSUME NEW p \in Peer, NEW k \in 0 .. MaxHeight, Version(p, k)
      PROVE  NodeInv'
  <2>1. heights' \in [DOMAIN heights' -> 0 .. MaxHeight] /\ DOMAIN heights' \subseteq Peer
    BY <1>3 DEF Version
  <2> QED
    BY <1>3, <2>1 DEF Version, Turn, history
<1>4. ASSUME NEW p \in Peer, Leave(p)
      PROVE  NodeInv'
  <2>1. heights' \in [DOMAIN heights' -> 0 .. MaxHeight] /\ DOMAIN heights' \subseteq Peer
    BY <1>4 DEF Leave
  <2> QED
    BY <1>4, <2>1 DEF Leave, history
<1>5. ASSUME NEW msg \in HeadersMessages, HandleHeaders(msg)
      PROVE  NodeInv'
  <2>1. msg \in Seq(Hash) /\ \A i \in 2 .. Len(msg) : PrevOf[msg[i]] = msg[i - 1]
    <3>1. PICK n \in 0 .. MaxHeaders : msg \in [1 .. n -> Hash]
      BY <1>5 DEF HeadersMessages
    <3> QED
      BY <1>5, <3>1, NodeAssumption DEF HeadersMessages
  <2>2. CASE msg = <<>>
    BY <1>5, <2>2, StatefulKeeps DEF HandleHeaders, Turn
  <2>3. CASE msg # <<>>
    <3>1. ChainInv(SyncChain(chain, msg).chain)
      BY <2>1, SyncChainKeeps
    <3>2. HeadersTaken(SyncChain(chain, msg))
      BY <1>5, <2>3 DEF HandleHeaders
    <3>3. ChainInv(chain')
      BY <3>1, <3>2, StatefulKeeps DEF HeadersTaken
    <3> QED
      BY <1>5, <3>3 DEF HandleHeaders, Turn
  <2> QED
    BY <2>2, <2>3
<1>6. ASSUME NEW p \in Peer, NEW b \in CFHeadersMessages, HandleCFHeaders(p, b)
      PROVE  NodeInv'
  <2>1. b \in Batch
    <3>1. PICK n \in 0 .. HeaderBatchSize + 1 : b.hashes \in [1 .. n -> FilterHash]
      BY <1>6 DEF CFHeadersMessages
    <3>2. b.hashes \in Seq(FilterHash)
      <4>1. n \in Nat
        BY <3>1, ChainAssumption
      <4> HIDE DEF NodeInv
      <4> QED
        BY <3>1, <4>1
    <3>3. b.prev \in FilterHeader
      <4>1. ASSUME NEW h \in Known(chain.tree), Committed(chain.tree, h)
            PROVE  chain.tree.headers[h].commitment.header \in FilterHeader
        <5>1. chain.tree.headers[h] \in NodeType
          BY <4>1 DEF ChainInv, TreeInv, Sound, TreeType
        <5>2. chain.tree.headers[h].commitment \in Commitment
          BY <4>1, <5>1 DEF NodeType, Committed
        <5> QED
          BY <5>2, ChainAssumption
      <4> QED
        BY <1>6, <4>1, NodeAssumption DEF CFHeadersMessages
    <3>4. b = [prev |-> b.prev, hashes |-> b.hashes, stop |-> b.stop] /\ b.stop \in Hash
      BY <1>6 DEF CFHeadersMessages
    <3> QED
      BY <3>2, <3>3, <3>4 DEF Batch
  <2>2. ChainInv(SyncCFHeaders(chain, p, b).chain)
    BY <1>6, <2>1, SyncCFHeadersKeeps DEF HandleCFHeaders
  <2>3. ChainInv(chain')
    BY <1>6, <2>2, StatefulKeeps DEF HandleCFHeaders
  <2> QED
    BY <1>6, <2>3 DEF HandleCFHeaders, Turn
<1>7. ASSUME NEW h \in Hash, NEW f \in FilterHash, HandleFilter(h, f)
      PROVE  NodeInv'
  <2>1. ChainInv(chain')
    BY <1>7, SyncFilterKeeps DEF HandleFilter
  <2>2. tested' \in {[tested EXCEPT ![h] = scripts], tested}
    BY <1>7 DEF HandleFilter
  <2> QED
    BY <1>7, <2>1, <2>2 DEF HandleFilter, Turn
<1>8. ASSUME NEW h \in Hash, HandleBlock(h)
      PROVE  NodeInv'
  <2> DEFINE d == [chain EXCEPT !.want = None]
  <2>1. /\ DOMAIN d = ChainFields /\ d.tree = chain.tree /\ d.headerRequest = chain.headerRequest
        /\ d.filterRequest = chain.filterRequest /\ d.pending = chain.pending
        /\ d.agreed = chain.agreed /\ d.want = None /\ d.queue = chain.queue
    BY DEF ChainInv, ChainFields
  <2>2. chain' = d
    BY <1>8 DEF HandleBlock
  <2> HIDE DEF d
  <2>3. RequestsType(d) /\ QueueType(d)
    BY <2>1 DEF ChainInv, RequestsType, QueueType
  <2>4. ChainInv(d)
    BY <2>1, <2>3, KeepsChain
  <2> QED
    BY <1>8, <2>2, <2>4 DEF HandleBlock, Turn
<1>9. ASSUME NEW p \in Peer, NEW blocks \in (SUBSET Hash) \ {{}},
             HandleInventoryBlocks(p, blocks)
      PROVE  NodeInv'
  <2>1. Cardinality(blocks) \in Nat
    <3>1. IsFiniteSet(blocks)
      BY <1>9, FS_Subset, NodeAssumption
    <3> QED
      BY <3>1, FS_CardinalityType
  <2>2. heights' \in [DOMAIN heights' -> 0 .. MaxHeight] /\ DOMAIN heights' \subseteq Peer
    <3>1. /\ heights' = [q \in DOMAIN heights |->
                           IF q = p THEN heights[q] + Cardinality(blocks) ELSE heights[q]]
          /\ p \in DOMAIN heights => heights[p] + Cardinality(blocks) <= MaxHeight
      BY <1>9 DEF HandleInventoryBlocks
    <3> QED
      BY <2>1, <3>1, NodeAssumption
  <2>3. state' \in States /\ ChainInv(chain')
    BY <1>9, ClearQueueKeeps DEF HandleInventoryBlocks, States
  <2> QED
    BY <1>9, <2>2, <2>3 DEF HandleInventoryBlocks, Turn, history
<1>10. CASE Rescan
  <2>1. state' \in States /\ ChainInv(chain')
    BY <1>10, ClearFiltersKeeps, NextFilterKeeps DEF Rescan, States
  <2> QED
    BY <1>10, <2>1 DEF Rescan, Turn
<1>11. ASSUME NEW s \in Script, AddScript(s)
       PROVE  NodeInv'
  BY <1>11 DEF AddScript, Turn, history
<1>12. CASE UNCHANGED vars
  BY <1>12 DEF vars
<1> QED
  BY <1>1, <1>2, <1>3, <1>4, <1>5, <1>6, <1>7, <1>8, <1>9, <1>10, <1>11, <1>12
  DEF Next, PeerMessage, ClientMessage

\* So it always holds.
LEMMA InvAlways ==
    ASSUME UniformWork
    PROVE  Spec => []NodeInv
<1>1. Init => NodeInv
  BY InitInv
<1>2. NodeInv /\ [Next]_vars => NodeInv'
  BY StepInv
<1> QED
  BY <1>1, <1>2, PTL DEF Spec

\* The chain, its requests and the sync state keep their types, whatever peers
\* send and in whatever order.
THEOREM TypeCorrect ==
    ASSUME UniformWork
    PROVE  Spec => []TypeOK
<1>1. NodeInv => TypeOK
  <2> SUFFICES ASSUME NodeInv PROVE TypeOK
    OBVIOUS
  <2>1. TreeType(Tree)
    BY DEF NodeInv, ChainInv, TreeInv, Sound, Tree
  <2>2. /\ Tree.headers \in [Known(Tree) -> NodeType]
        /\ Tree.tip \in TipType /\ Tree.forks \subseteq TipType
    BY <2>1 DEF TreeType
  <2>3. RequestsType(chain) /\ QueueType(chain)
    BY DEF NodeInv, ChainInv
  <2>4. \A p \in DOMAIN heights : heights[p] \in 0 .. MaxHeight
    BY DEF NodeInv
  <2> QED
    BY <2>2, <2>3, <2>4 DEF TypeOK, NodeInv, RequestsType, QueueType
<1> QED
  BY <1>1, InvAlways, PTL

\* Whatever peers send, the filter headers of the node form one chain: a batch is
\* taken (SyncCFHeaders, PushBatch) only where it continues the filter headers
\* below it, even when the request it answers is older than a reorganization or
\* has been answered before.
THEOREM FilterHeadersAlways ==
    ASSUME UniformWork
    PROVE  Spec => []FilterHeadersChain
<1>1. NodeInv => FilterHeadersChain
  BY DEF NodeInv, ChainInv, TreeInv, Chained, FilterHeadersChain, Tree
<1> QED
  BY <1>1, InvAlways, PTL

-----------------------------------------------------------------------------
(* What is marked as checked *)

\* Requests and pops leave the tree alone.
LEMMA TreeLeftAlone ==
    ASSUME NEW c, DOMAIN c = ChainFields
    PROVE  /\ NextBlock(c).tree = c.tree
           /\ NextFilterMessage(c).tree = c.tree
           /\ NextStatefulMessage(c).tree = c.tree
           /\ ClearCompactFilterQueue(c).tree = c.tree
<1>1. ASSUME NEW r PROVE [c EXCEPT !.headerRequest = r].tree = c.tree
  BY DEF ChainFields
<1>2. ASSUME NEW r PROVE [c EXCEPT !.filterRequest = r].tree = c.tree
  BY DEF ChainFields
<1>3. NextFilterMessage(c).tree = c.tree
  BY <1>2 DEF NextFilterMessage
<1>4. NextCFHeaderMessage(c).tree = c.tree
  BY <1>1 DEF NextCFHeaderMessage
<1>5. NextBlock(c).tree = c.tree
  BY DEF NextBlock, ChainFields
<1>6. ClearCompactFilterQueue(c).tree = c.tree
  BY DEF ClearCompactFilterQueue, ChainFields
<1> QED
  BY <1>3, <1>4, <1>5, <1>6 DEF NextStatefulMessage

\* Trees with the same marks and heights.
LEMMA SameMarks ==
    ASSUME NEW t, NEW u, Known(u) = Known(t),
           \A x \in Known(t) : /\ u.headers[x].checked => t.headers[x].checked
                               /\ u.headers[x].height = t.headers[x].height
    PROVE  NoneMarked(t, u)
BY DEF NoneMarked, HeightOf

\* A batch of filter headers marks none.
LEMMA PushBatchMarksNone ==
    ASSUME NEW t, TreeInv(t), NEW b
    PROVE  NoneMarked(t, PushBatch(t, b))
<1>1. t.headers \in [Known(t) -> NodeType] /\ "headers" \in DOMAIN t
  BY DEF TreeInv, Sound, TreeType
<1> DEFINE bottom == HeightOf(t, b.stop) - Len(b.hashes)
           place(x) == HeightOf(t, x) - bottom
           mark(x) == [header |-> ChainedHeaders(b)[place(x)], filter_hash |-> b.hashes[place(x)]]
           taken(x) == x \in Walk(t, b.stop) /\ place(x) > 0
           node(x) == IF taken(x) THEN [t.headers[x] EXCEPT !.commitment = mark(x)]
                      ELSE t.headers[x]
           u == PushBatch(t, b)
<1>2. u.headers = [x \in Known(t) |-> node(x)]
  BY <1>1 DEF PushBatch
<1>3. ASSUME NEW x \in Known(t)
      PROVE  node(x).checked = t.headers[x].checked /\ node(x).height = t.headers[x].height
  <2>1. t.headers[x] \in NodeType
    BY <1>1
  <2> HIDE DEF taken, mark
  <2> QED
    BY <2>1 DEF NodeType
<1> HIDE DEF u, node
<1>4. Known(u) = Known(t)
  BY <1>2 DEF Known
<1>5. \A x \in Known(t) : u.headers[x] = node(x)
  BY <1>2
<1>6. NoneMarked(t, u)
  BY <1>3, <1>4, <1>5, SameMarks
<1> QED
  BY <1>6 DEF u

\* sync_cf_headers marks none.
LEMMA SyncCFHeadersMarksNone ==
    ASSUME NEW c, ChainInv(c), NEW p, NEW b
    PROVE  NoneMarked(c.tree, SyncCFHeaders(c, p, b).chain.tree)
<1>1. NoneMarked(c.tree, c.tree)
  BY DEF NoneMarked
<1>2. NoneMarked(c.tree, PushBatch(c.tree, b))
  BY PushBatchMarksNone DEF ChainInv
<1>3. ASSUME NEW first
      PROVE  CountAgreement(c, first, b).chain.tree \in {c.tree, PushBatch(c.tree, b)}
  BY DEF CountAgreement, ChainInv, ChainFields
<1>4. WeighBatch(c, p, b).chain.tree \in {c.tree, PushBatch(c.tree, b)}
  <2>1. /\ [c EXCEPT !.pending = None].tree = c.tree
        /\ [c EXCEPT !.pending = None, !.agreed = 0].tree = c.tree
    BY DEF ChainInv, ChainFields
  <2> QED
    BY <1>3, <2>1 DEF WeighBatch
<1>5. SyncCFHeaders(c, p, b).chain.tree \in {c.tree, PushBatch(c.tree, b)}
  BY <1>4 DEF SyncCFHeaders
<1> QED
  BY <1>1, <1>2, <1>5

\* sync_cf_headers returns a chain.
LEMMA SyncCFHeadersDomain ==
    ASSUME NEW c, DOMAIN c = ChainFields, NEW p, NEW b
    PROVE  DOMAIN SyncCFHeaders(c, p, b).chain = ChainFields
<1>1. ASSUME NEW first PROVE DOMAIN CountAgreement(c, first, b).chain = ChainFields
  BY DEF CountAgreement
<1>2. DOMAIN WeighBatch(c, p, b).chain = ChainFields
  BY <1>1 DEF WeighBatch
<1> QED
  BY <1>2 DEF SyncCFHeaders

\* sync_filter marks no more than the block of the filter.
LEMMA SyncFilterMarks ==
    ASSUME NEW c, ChainInv(c), NEW watched, NEW h \in Hash, NEW f
    PROVE  LET u == SyncFilter(c, watched, h, f).chain.tree
           IN  /\ Known(u) = Known(c.tree)
               /\ \A x \in Known(u) :
                    /\ HeightOf(u, x) = HeightOf(c.tree, x)
                    /\ x # h => u.headers[x].checked = c.tree.headers[x].checked
<1> DEFINE t == c.tree
           v == CheckFilter(t, h)
           match == Scanned(c, h) /\ Touches[h, f] \cap watched # {}
           d == [c EXCEPT !.tree = v, !.queue = IF match THEN Append(@, h) ELSE @]
           e == SyncFilter(c, watched, h, f).chain
<1>1. e \in {c, d, NextFilterMessage(d)}
  BY DEF SyncFilter
<1>2. d.tree = v /\ DOMAIN d = ChainFields
  <2> HIDE DEF v, match
  <2> QED
    BY DEF ChainInv, ChainFields
<1>3. e.tree \in {t, v}
  <2> HIDE DEF d, e, v
  <2> QED
    BY <1>1, <1>2, TreeLeftAlone
<1>4. /\ Known(v) = Known(t)
      /\ \A x \in Known(t) : /\ HeightOf(v, x) = HeightOf(t, x)
                             /\ x # h => v.headers[x].checked = t.headers[x].checked
  <2>1. t.headers \in [Known(t) -> NodeType] /\ "headers" \in DOMAIN t
    BY DEF ChainInv, TreeInv, Sound, TreeType
  <2>2. CASE h \in Known(t)
    <3>1. v.headers = [t.headers EXCEPT ![h].checked = TRUE]
      BY <2>1, <2>2 DEF CheckFilter
    <3> QED
      BY <2>1, <2>2, <3>1 DEF NodeType, Known, HeightOf
  <2>3. CASE h \notin Known(t)
    BY <2>3 DEF CheckFilter
  <2> QED
    BY <2>2, <2>3
<1> HIDE DEF e, v
<1> QED
  BY <1>3, <1>4 DEF e

\* reset_all_filters marks none, and clears the active chain.
LEMMA ResetMarksNone ==
    ASSUME NEW t, TreeInv(t)
    PROVE  LET u == ResetAllFilters(t)
           IN  /\ NoneMarked(t, u)
               /\ Known(u) = Known(t)
               /\ \A x \in MainChain(t) : ~u.headers[x].checked
<1>1. t.headers \in [Known(t) -> NodeType] /\ "headers" \in DOMAIN t
  BY DEF TreeInv, Sound, TreeType
<1> DEFINE reset == MainChain(t) \cup UNION {ForkReset(t, f) : f \in t.forks}
           node(x) == IF x \in reset THEN [t.headers[x] EXCEPT !.checked = FALSE]
                      ELSE t.headers[x]
           u == ResetAllFilters(t)
<1>2. u.headers = [x \in Known(t) |-> node(x)]
  BY <1>1 DEF ResetAllFilters
<1>3. ASSUME NEW x \in Known(t)
      PROVE  /\ node(x).checked => t.headers[x].checked
             /\ node(x).height = t.headers[x].height
             /\ x \in MainChain(t) => ~node(x).checked
  <2>1. t.headers[x] \in NodeType /\ (x \in MainChain(t) => x \in reset)
    BY <1>1
  <2> HIDE DEF reset
  <2> QED
    BY <2>1 DEF NodeType
<1> HIDE DEF u, node
<1>4. Known(u) = Known(t) /\ MainChain(t) \subseteq Known(t)
  BY <1>2 DEF Known, MainChain, Walk
<1>5. \A x \in Known(t) : u.headers[x] = node(x)
  BY <1>2
<1>6. NoneMarked(t, u)
  BY <1>3, <1>4, <1>5, SameMarks
<1> QED
  BY <1>3, <1>4, <1>5, <1>6 DEF u

\* What a rescan makes of the tree, if it does anything.
LEMMA RescanTree ==
    ASSUME DOMAIN chain = ChainFields, Rescan
    PROVE  /\ chain'.tree \in {chain.tree, ResetAllFilters(chain.tree)}
           /\ asked' # asked => chain'.tree = ResetAllFilters(chain.tree)
<1> DEFINE d == ClearFilters(chain)
<1>1. d.tree = ResetAllFilters(chain.tree) /\ DOMAIN d = ChainFields
  BY DEF ClearFilters, ChainFields
<1> HIDE DEF d
<1>2. NextFilterMessage(d).tree = d.tree
  BY <1>1, TreeLeftAlone
<1>3. CASE state \in {"Behind", "HeadersSynced"}
  BY <1>3 DEF Rescan
<1>4. CASE state \notin {"Behind", "HeadersSynced"}
  BY <1>1, <1>2, <1>4 DEF Rescan, d
<1> QED
  BY <1>3, <1>4

\* A block above the checkpoint, on whichever branch, is marked as checked only
\* if its filter was tested for the scripts of the last scan.
ScanInv ==
    /\ asked \subseteq scripts
    /\ \A x \in Known(chain.tree) :
        chain.tree.headers[x].checked /\ HeightOf(chain.tree, x) > ScanHeight
            => asked \subseteq tested[x]

\* Rescan clears every mark when other scripts are to be scanned for.
RescanClears ==
    asked' # asked => \A x \in Known(Tree') : ~Tree'.headers[x].checked

\* What marks none and asks for no other scripts keeps ScanInv.
LEMMA NoneMarkedKeeps ==
    ASSUME ScanInv, NoneMarked(chain.tree, chain'.tree), asked' = asked,
           scripts \subseteq scripts', tested' = tested
    PROVE  ScanInv'
BY DEF ScanInv, NoneMarked

\* The node starts with what load_headers takes to be checked.
LEMMA InitScan ==
    ASSUME UniformWork, Init
    PROVE  ScanInv
<1>1. chain.tree = LoadedTree
  BY DEF Init
<1>2. \A x \in Known(LoadedTree) :
        LoadedTree.headers[x].checked => HeightOf(LoadedTree, x) <= ScanHeight
  BY LoadedTreeInv
<1>3. \A x \in Known(LoadedTree) : HeightOf(LoadedTree, x) \in Int
  <2>1. LoadedTree.headers \in [Known(LoadedTree) -> NodeType]
    BY LoadedTreeInv DEF TreeInv, Sound, TreeType
  <2> QED
    BY <2>1 DEF NodeType, HeightOf, Height
<1>4. asked = scripts /\ tested = [h \in Hash |-> {}]
  BY DEF Init
<1> HIDE DEF LoadedTree
<1>5. \A x \in Known(LoadedTree) :
        ~(LoadedTree.headers[x].checked /\ HeightOf(LoadedTree, x) > ScanHeight)
  BY <1>2, <1>3, NodeAssumption
<1> QED
  BY <1>1, <1>4, <1>5 DEF ScanInv

\* Every step keeps it, if a rescan clears every mark.
LEMMA StepScan ==
    ASSUME UniformWork, NodeInv, ScanInv, [Next]_vars, [RescanClears]_vars
    PROVE  ScanInv'
<1>0. /\ ChainInv(chain) /\ DOMAIN chain = ChainFields /\ TreeInv(chain.tree)
      /\ scripts \subseteq Script /\ NoneMarked(chain.tree, chain.tree)
  BY DEF NodeInv, ChainInv, NoneMarked
<1>1. CASE LoopTop
  BY <1>0, <1>1, TreeLeftAlone, NoneMarkedKeeps DEF LoopTop, history
<1>2. CASE Timeout
  BY <1>0, <1>2, NoneMarkedKeeps DEF Timeout, history
<1>3. ASSUME NEW p \in Peer, NEW k \in 0 .. MaxHeight, Version(p, k)
      PROVE  ScanInv'
  BY <1>0, <1>3, NoneMarkedKeeps DEF Version, history
<1>4. ASSUME NEW p \in Peer, Leave(p)
      PROVE  ScanInv'
  BY <1>0, <1>4, NoneMarkedKeeps DEF Leave, history
<1>5. ASSUME NEW msg \in HeadersMessages, HandleHeaders(msg)
      PROVE  ScanInv'
  <2>1. msg \in Seq(Hash) /\ \A i \in 2 .. Len(msg) : PrevOf[msg[i]] = msg[i - 1]
    <3>1. PICK n \in 0 .. MaxHeaders : msg \in [1 .. n -> Hash]
      BY <1>5 DEF HeadersMessages
    <3> QED
      BY <1>5, <3>1, NodeAssumption DEF HeadersMessages
  <2>2. NoneMarked(chain.tree, chain'.tree)
    <3>1. CASE msg = <<>>
      BY <1>0, <1>5, <3>1, TreeLeftAlone DEF HandleHeaders
    <3>2. CASE msg # <<>>
      <4> DEFINE c == SyncChain(chain, msg).chain
      <4>1. ChainInv(c) /\ NoneMarked(chain.tree, c.tree)
        BY <1>0, <2>1, SyncChainKeeps
      <4>2. HeadersTaken(SyncChain(chain, msg))
        BY <1>5, <3>2 DEF HandleHeaders
      <4>3. chain' \in {c, NextStatefulMessage(c)}
        BY <4>2 DEF HeadersTaken
      <4> HIDE DEF c
      <4>4. chain'.tree = c.tree
        BY <4>1, <4>3, TreeLeftAlone DEF ChainInv
      <4> QED
        BY <4>1, <4>4
    <3> QED
      BY <3>1, <3>2
  <2> QED
    BY <1>5, <2>2, NoneMarkedKeeps DEF HandleHeaders
<1>6. ASSUME NEW p \in Peer, NEW b \in CFHeadersMessages, HandleCFHeaders(p, b)
      PROVE  ScanInv'
  <2> DEFINE c == SyncCFHeaders(chain, p, b).chain
  <2>1. NoneMarked(chain.tree, c.tree)
    BY <1>0, SyncCFHeadersMarksNone
  <2>2. DOMAIN c = ChainFields
    BY <1>0, <1>6, SyncCFHeadersDomain
  <2>3. chain' \in {c, NextStatefulMessage(c)}
    BY <1>6 DEF HandleCFHeaders
  <2> HIDE DEF c
  <2>4. chain'.tree = c.tree
    BY <2>2, <2>3, TreeLeftAlone
  <2> QED
    BY <1>6, <2>1, <2>4, NoneMarkedKeeps DEF HandleCFHeaders
<1>7. ASSUME NEW h \in Hash, NEW f \in FilterHash, HandleFilter(h, f)
      PROVE  ScanInv'
  <2> DEFINE t == chain.tree
             u == chain'.tree
  <2>1. /\ chain' = SyncFilter(chain, scripts, h, f).chain
        /\ tested' = IF h \in Known(t) /\ ~t.headers[h].checked /\ u.headers[h].checked
                     THEN [tested EXCEPT ![h] = scripts] ELSE tested
        /\ asked' = asked /\ scripts' = scripts
    BY <1>7 DEF HandleFilter
  <2>2. /\ Known(u) = Known(t)
        /\ \A x \in Known(u) : /\ HeightOf(u, x) = HeightOf(t, x)
                               /\ x # h => u.headers[x].checked = t.headers[x].checked
    BY <1>0, <2>1, SyncFilterMarks
  <2> HIDE DEF t, u
  <2>4. ASSUME NEW x \in Known(u), u.headers[x].checked, HeightOf(u, x) > ScanHeight
        PROVE  asked \subseteq tested'[x]
    <3>0. x \in Hash
      BY <1>0, <2>2 DEF TreeInv, Sound, TreeType, t
    <3>1. CASE t.headers[x].checked
      <4>1. asked \subseteq tested[x]
        BY <2>2, <2>4, <3>1 DEF ScanInv, t
      <4>2. tested'[x] = tested[x]
        BY <2>1, <3>0, <3>1 DEF NodeInv
      <4> QED
        BY <4>1, <4>2
    <3>2. CASE ~t.headers[x].checked
      <4>1. x = h
        BY <2>2, <2>4, <3>2
      <4>2. tested'[x] = scripts
        BY <2>1, <2>2, <2>4, <3>0, <3>2, <4>1 DEF NodeInv
      <4> QED
        BY <4>2 DEF ScanInv
    <3> QED
      BY <3>1, <3>2
  <2> QED
    BY <2>1, <2>4 DEF ScanInv, u
<1>8. ASSUME NEW h \in Hash, HandleBlock(h)
      PROVE  ScanInv'
  <2>1. chain'.tree = chain.tree
    BY <1>0, <1>8 DEF HandleBlock, ChainFields
  <2> QED
    BY <1>0, <1>8, <2>1, NoneMarkedKeeps DEF HandleBlock
<1>9. ASSUME NEW p \in Peer, NEW blocks \in (SUBSET Hash) \ {{}},
             HandleInventoryBlocks(p, blocks)
      PROVE  ScanInv'
  <2>1. chain' \in {chain, ClearCompactFilterQueue(chain)}
    BY <1>9 DEF HandleInventoryBlocks
  <2>2. chain'.tree = chain.tree
    BY <1>0, <2>1, TreeLeftAlone
  <2> QED
    BY <1>0, <1>9, <2>2, NoneMarkedKeeps DEF HandleInventoryBlocks, history
<1>10. CASE Rescan
  <2>1. NoneMarked(chain.tree, chain'.tree)
    BY <1>0, <1>10, RescanTree, ResetMarksNone
  <2>2. CASE asked' = asked
    BY <1>10, <2>1, <2>2, NoneMarkedKeeps DEF Rescan
  <2>3. CASE asked' # asked
    <3>1. \A x \in Known(chain'.tree) : ~chain'.tree.headers[x].checked
      BY <2>3 DEF RescanClears, vars, Tree
    <3>2. asked' = scripts /\ scripts' = scripts /\ tested' = tested
      BY <1>10, <2>3 DEF Rescan
    <3> QED
      BY <3>1, <3>2 DEF ScanInv
  <2> QED
    BY <2>2, <2>3
<1>11. ASSUME NEW s \in Script, AddScript(s)
       PROVE  ScanInv'
  BY <1>0, <1>11, NoneMarkedKeeps DEF AddScript, history
<1>12. CASE UNCHANGED vars
  BY <1>0, <1>12, NoneMarkedKeeps DEF vars
<1> QED
  BY <1>1, <1>2, <1>3, <1>4, <1>5, <1>6, <1>7, <1>8, <1>9, <1>10, <1>11, <1>12
  DEF Next, PeerMessage, ClientMessage

\* While rescans clear every mark, a block of the active chain counts as checked
\* only if its filter was tested for the scripts of the last scan, however
\* filters, new scripts, rescans and reorganizations interleave.  So the one way
\* to break RescanTestsAll is a rescan that leaves marks on a fork
\* (reset_all_filters stops at the first block of a fork that is not checked).
THEOREM RescanTestsAlways ==
    ASSUME UniformWork
    PROVE  Spec /\ [][RescanClears]_vars => []RescanTestsAll
<1>1. Init => ScanInv
  BY InitScan
<1>2. NodeInv /\ ScanInv /\ [Next]_vars /\ [RescanClears]_vars => ScanInv'
  BY StepScan
<1>3. ScanInv => RescanTestsAll
  BY DEF ScanInv, RescanTestsAll, Tree, MainChain, Walk
<1> QED
  BY <1>1, <1>2, <1>3, InvAlways, PTL DEF Spec

\* As long as the node knows of one branch only, rescans clear every mark.
THEOREM OneBranchRescanned ==
    ASSUME UniformWork
    PROVE  Spec /\ [](Known(Tree) = MainChain(Tree)) => []RescanTestsAll
<1>1. NodeInv /\ Known(Tree) = MainChain(Tree) /\ [Next]_vars => [RescanClears]_vars
  <2> SUFFICES ASSUME NodeInv, Known(Tree) = MainChain(Tree), [Next]_vars, asked' # asked
               PROVE  \A x \in Known(Tree') : ~Tree'.headers[x].checked
    BY DEF RescanClears
  <2>1. Rescan
    BY DEF Next, PeerMessage, ClientMessage, LoopTop, Timeout, Version, HandleHeaders,
           HandleCFHeaders, HandleFilter, HandleBlock, HandleInventoryBlocks, AddScript, Leave,
           history, vars
  <2>2. ChainInv(chain)
    BY DEF NodeInv
  <2>3. chain'.tree = ResetAllFilters(chain.tree)
    BY <2>1, <2>2, RescanTree DEF ChainInv
  <2> QED
    BY <2>2, <2>3, ResetMarksNone DEF ChainInv, Tree
<1> QED
  BY <1>1, InvAlways, RescanTestsAlways, PTL DEF Spec

-----------------------------------------------------------------------------
(* The blocks that match *)

\* A block of the active chain that matches is with the client or queued.
FoundInv ==
    \A x \in MainChain(Tree) : Relevant(x) => x \in client \/ QueueContains(chain, x)

\* A block whose filter was tested does not come to the active chain again, and
\* is not given another filter.
TestedStays ==
    \A x \in MainChain(Tree') :
        tested[x] # {} =>
            /\ x \in MainChain(Tree)
            /\ Committed(Tree, x)
            /\ Tree'.headers[x].commitment.filter_hash = Tree.headers[x].commitment.filter_hash

\* What tests no filter and loses no block of the active chain keeps FoundInv.
LEMMA NoneLost ==
    ASSUME FoundInv, TestedStays, tested' = tested,
           \A x \in MainChain(Tree') :
             /\ x \in client => x \in client'
             /\ QueueContains(chain, x) => QueueContains(chain', x) \/ x \in client'
    PROVE  FoundInv'
<1> SUFFICES ASSUME NEW x \in MainChain(Tree'), Relevant(x)'
             PROVE  x \in client' \/ QueueContains(chain', x)
  BY DEF FoundInv
<1>1. tested[x] # {} /\ Touches[x, Tree'.headers[x].commitment.filter_hash] \cap tested[x] # {}
  BY DEF Relevant
<1>2. /\ x \in MainChain(Tree) /\ Committed(Tree, x)
      /\ Tree'.headers[x].commitment.filter_hash = Tree.headers[x].commitment.filter_hash
  BY <1>1 DEF TestedStays
<1>3. Relevant(x)
  BY <1>1, <1>2 DEF Relevant
<1> QED
  BY <1>2, <1>3 DEF FoundInv

\* Requests keep what is queued, and a pop moves it on.
LEMMA QueueKept ==
    ASSUME NEW c, DOMAIN c = ChainFields, c.queue \in Seq(Hash), NEW x, QueueContains(c, x)
    PROVE  /\ x # None => QueueContains(NextBlock(c), x)
           /\ QueueContains(NextFilterMessage(c), x)
           /\ QueueContains(NextStatefulMessage(c), x)
           /\ QueueContains(ClearCompactFilterQueue(c), x)
           /\ \A u : QueueContains([c EXCEPT !.tree = u], x)
<1>0. ASSUME NEW d, d.queue = c.queue, d.want = c.want PROVE QueueContains(d, x)
  BY <1>0 DEF QueueContains
<1>1. ASSUME NEW r, NEW d, d = [c EXCEPT !.headerRequest = r] PROVE QueueContains(d, x)
  <2>1. d.queue = c.queue /\ d.want = c.want
    BY <1>1 DEF ChainFields
  <2> QED
    BY <1>0, <2>1
<1>2. ASSUME NEW r, NEW d, d = [c EXCEPT !.filterRequest = r] PROVE QueueContains(d, x)
  <2>1. d.queue = c.queue /\ d.want = c.want
    BY <1>2 DEF ChainFields
  <2> QED
    BY <1>0, <2>1
<1>3. QueueContains(NextFilterMessage(c), x)
  BY <1>2 DEF NextFilterMessage
<1>4. QueueContains(NextCFHeaderMessage(c), x)
  BY <1>1 DEF NextCFHeaderMessage
<1>5. QueueContains(NextStatefulMessage(c), x)
  BY <1>3, <1>4 DEF NextStatefulMessage
<1>6. QueueContains(ClearCompactFilterQueue(c), x)
  <2> DEFINE d == ClearCompactFilterQueue(c)
  <2>1. d.queue = c.queue /\ d.want = c.want
    BY DEF ChainFields, ClearCompactFilterQueue
  <2> QED
    BY <1>0, <2>1
<1>7. ASSUME NEW u, NEW d, d = [c EXCEPT !.tree = u] PROVE QueueContains(d, x)
  <2>1. d.queue = c.queue /\ d.want = c.want
    BY <1>7 DEF ChainFields
  <2> QED
    BY <1>0, <2>1
<1>8. ASSUME x # None PROVE QueueContains(NextBlock(c), x)
  <2>1. CASE c.want = None /\ c.queue # <<>>
    <3> DEFINE d == NextBlock(c)
               q == c.queue
    <3>1. d.want = Head(q) /\ d.queue = Tail(q)
      BY <2>1 DEF NextBlock, ChainFields
    <3>2. PICK i \in DOMAIN q : q[i] = x
      BY <1>8, <2>1 DEF QueueContains
    <3> HIDE DEF d
    <3>3. CASE i = 1
      <4>1. Head(q) = x
        BY <3>2, <3>3
      <4> QED
        BY <3>1, <4>1 DEF QueueContains, d
    <3>4. CASE i # 1
      <4>1. i - 1 \in DOMAIN Tail(q) /\ Tail(q)[i - 1] = x
        BY <2>1, <3>2, <3>4
      <4> QED
        BY <3>1, <4>1 DEF QueueContains, d
    <3> QED
      BY <3>3, <3>4
  <2>2. CASE ~(c.want = None /\ c.queue # <<>>)
    BY <2>2 DEF NextBlock
  <2> QED
    BY <2>1, <2>2
<1> QED
  BY <1>3, <1>5, <1>6, <1>7, <1>8

\* sync_cf_headers does not touch the queue.
LEMMA SyncCFHeadersQueue ==
    ASSUME NEW c, DOMAIN c = ChainFields, NEW p, NEW b
    PROVE  LET d == SyncCFHeaders(c, p, b).chain IN d.queue = c.queue /\ d.want = c.want
<1> DEFINE Same(d) == d.queue = c.queue /\ d.want = c.want
<1>1. ASSUME NEW first PROVE Same(CountAgreement(c, first, b).chain)
  BY DEF CountAgreement, ChainFields
<1>2. Same([c EXCEPT !.pending = None]) /\ Same([c EXCEPT !.pending = None, !.agreed = 0])
  BY DEF ChainFields
<1> HIDE DEF Same
<1>3. Same(WeighBatch(c, p, b).chain)
  BY <1>1, <1>2 DEF WeighBatch
<1>4. Same(c)
  BY DEF Same
<1>5. Same(SyncCFHeaders(c, p, b).chain)
  BY <1>3, <1>4 DEF SyncCFHeaders
<1> QED
  BY <1>5 DEF Same

\* sync_filter keeps what is queued and queues the block if its filter is tested
\* and matches.
LEMMA SyncFilterQueues ==
    ASSUME NEW c, ChainInv(c), NEW watched, NEW h \in Hash, NEW f
    PROVE  LET e == SyncFilter(c, watched, h, f).chain
           IN  /\ \A x : QueueContains(c, x) => QueueContains(e, x)
               /\ /\ h \in Known(c.tree) /\ ~c.tree.headers[h].checked
                  /\ e.tree.headers[h].checked
                  => \/ QueueContains(e, h)
                     \/ /\ e.tree.headers[h].commitment.filter_hash = f
                        /\ Touches[h, f] \cap watched = {}
<1> DEFINE t == c.tree
           v == CheckFilter(t, h)
           match == Scanned(c, h) /\ Touches[h, f] \cap watched # {}
           d == [c EXCEPT !.tree = v, !.queue = IF match THEN Append(@, h) ELSE @]
           e == SyncFilter(c, watched, h, f).chain
<1>1. \/ e = c
      \/ e \in {d, NextFilterMessage(d)} /\ t.headers[h].commitment.filter_hash = f
         /\ h \in Known(t)
  BY DEF SyncFilter
<1>2. /\ d.tree = v /\ DOMAIN d = ChainFields /\ d.want = c.want
      /\ d.queue = IF match THEN Append(c.queue, h) ELSE c.queue
  <2> HIDE DEF v, match
  <2> QED
    BY DEF ChainInv, ChainFields
<1>3. c.queue \in Seq(Hash)
  BY DEF ChainInv, QueueType
<1>4. /\ \A x : QueueContains(c, x) => QueueContains(d, x)
      /\ match => QueueContains(d, h)
      /\ d.queue \in Seq(Hash)
  <2> DEFINE q == d.queue
  <2> HIDE DEF d, match
  <2>1. CASE match
    <3>1. q = Append(c.queue, h)
      BY <1>2, <2>1
    <3> HIDE DEF q
    <3>2. /\ q \in Seq(Hash) /\ DOMAIN c.queue \subseteq DOMAIN q
          /\ \A i \in DOMAIN c.queue : q[i] = c.queue[i]
          /\ Len(c.queue) + 1 \in DOMAIN q /\ q[Len(c.queue) + 1] = h
      BY <1>3, <3>1
    <3> QED
      BY <1>2, <3>2 DEF QueueContains, q
  <2>2. CASE ~match
    <3>1. d.queue = c.queue
      BY <1>2, <2>2
    <3> QED
      BY <1>2, <1>3, <2>2, <3>1 DEF QueueContains
  <2> QED
    BY <2>1, <2>2
<1>5. v.headers[h].commitment = t.headers[h].commitment \/ h \notin Known(t)
  BY CheckFilterTree DEF ChainInv, Grows
<1>6. /\ \A x : QueueContains(d, x) => QueueContains(NextFilterMessage(d), x)
      /\ NextFilterMessage(d).tree = d.tree
  <2> HIDE DEF d
  <2> QED
    BY <1>2, <1>4, QueueKept, TreeLeftAlone
<1>7. ~match /\ ~t.headers[h].checked => QueueContains(c, h) \/ Touches[h, f] \cap watched = {}
  BY DEF Scanned
<1> HIDE DEF d, e, v, match
<1>8. CASE e = c
  BY <1>8 DEF e
<1>9. CASE e \in {d, NextFilterMessage(d)} /\ t.headers[h].commitment.filter_hash = f
           /\ h \in Known(t)
  <2>1. /\ \A x : QueueContains(d, x) => QueueContains(e, x)
        /\ e.tree = v
    BY <1>2, <1>6, <1>9
  <2>2. e.tree.headers[h].commitment.filter_hash = f
    BY <1>5, <1>9, <2>1
  <2>3. \A x : QueueContains(c, x) => QueueContains(e, x)
    BY <1>4, <2>1
  <2>4. ASSUME ~t.headers[h].checked
        PROVE  QueueContains(e, h) \/ Touches[h, f] \cap watched = {}
    BY <1>4, <1>7, <2>1, <2>3, <2>4
  <2> QED
    BY <2>2, <2>3, <2>4 DEF e
<1> QED
  BY <1>1, <1>8, <1>9

\* Every step keeps FoundInv, if blocks whose filters were tested stay.
LEMMA StepFound ==
    ASSUME UniformWork, NodeInv, FoundInv, [Next]_vars, [TestedStays]_vars
    PROVE  FoundInv'
<1>0. /\ ChainInv(chain) /\ DOMAIN chain = ChainFields /\ chain.queue \in Seq(Hash)
      /\ TreeInv(Tree)
  BY DEF NodeInv, ChainInv, QueueType, Tree
<1>1. CASE UNCHANGED vars
  BY <1>1 DEF FoundInv, vars, Tree, Relevant, Known, MainChain, Walk, Committed, QueueContains
<1>2. ASSUME TestedStays, LoopTop
      PROVE  FoundInv'
  <2>1. client' = client /\ tested' = tested /\ chain' \in {chain, NextBlock(chain)}
    BY <1>2 DEF LoopTop, history
  <2>2. \A x \in MainChain(Tree') : x # None
    <3>1. chain'.tree = chain.tree
      BY <1>0, <2>1, TreeLeftAlone
    <3> QED
      BY <1>0, <3>1, HeaderAssumption DEF TreeInv, Sound, TreeType, MainChain, Walk, Tree
  <2> QED
    BY <1>0, <1>2, <2>1, <2>2, QueueKept, NoneLost
<1>3. ASSUME TestedStays, tested' = tested, client' = client,
             \A x : QueueContains(chain, x) => QueueContains(chain', x)
      PROVE  FoundInv'
  BY <1>3, NoneLost
<1>4. ASSUME TestedStays, Timeout
      PROVE  FoundInv'
  BY <1>3, <1>4 DEF Timeout, history
<1>5. ASSUME TestedStays, NEW p \in Peer, NEW k \in 0 .. MaxHeight, Version(p, k)
      PROVE  FoundInv'
  BY <1>3, <1>5 DEF Version, history
<1>6. ASSUME TestedStays, NEW p \in Peer, Leave(p)
      PROVE  FoundInv'
  BY <1>3, <1>6 DEF Leave, history
<1>7. ASSUME TestedStays, NEW msg \in HeadersMessages, HandleHeaders(msg)
      PROVE  FoundInv'
  <2>1. msg \in Seq(Hash) /\ \A i \in 2 .. Len(msg) : PrevOf[msg[i]] = msg[i - 1]
    <3>1. PICK n \in 0 .. MaxHeaders : msg \in [1 .. n -> Hash]
      BY <1>7 DEF HeadersMessages
    <3> QED
      BY <1>7, <3>1, NodeAssumption DEF HeadersMessages
  <2>2. CASE msg = <<>>
    BY <1>0, <1>3, <1>7, <2>2, QueueKept DEF HandleHeaders
  <2>3. CASE msg # <<>>
    <3> DEFINE r == SyncChain(chain, msg)
               c == r.chain
    <3>1. /\ ChainInv(c)
          /\ \A x \in MainChain(c.tree) :
               x \notin r.gone /\ (QueueContains(chain, x) => QueueContains(c, x))
      BY <1>0, <2>1, SyncChainKeeps
    <3>2. chain' \in {c, NextStatefulMessage(c)} /\ client' = client \ r.gone
      BY <1>7, <2>3 DEF HandleHeaders, HeadersTaken
    <3>3. tested' = tested
      BY <1>7 DEF HandleHeaders
    <3> HIDE DEF c, r
    <3>4. DOMAIN c = ChainFields /\ c.queue \in Seq(Hash)
      BY <3>1 DEF ChainInv, QueueType
    <3>5. Tree' = c.tree
      BY <3>2, <3>4, TreeLeftAlone DEF Tree
    <3>6. \A x : QueueContains(c, x) => QueueContains(chain', x)
      BY <3>2, <3>4, QueueKept
    <3> QED
      BY <1>7, <3>1, <3>2, <3>3, <3>5, <3>6, NoneLost
  <2> QED
    BY <2>2, <2>3
<1>8. ASSUME TestedStays, NEW p \in Peer, NEW b \in CFHeadersMessages, HandleCFHeaders(p, b)
      PROVE  FoundInv'
  <2> DEFINE c == SyncCFHeaders(chain, p, b).chain
  <2>1. DOMAIN c = ChainFields /\ c.queue = chain.queue /\ c.want = chain.want
    BY <1>0, SyncCFHeadersDomain, SyncCFHeadersQueue
  <2>2. /\ chain' \in {c, NextStatefulMessage(c)}
        /\ tested' = tested /\ client' = client
    BY <1>8 DEF HandleCFHeaders
  <2> HIDE DEF c
  <2>3. \A x : QueueContains(chain, x) => QueueContains(c, x)
    BY <2>1 DEF QueueContains
  <2>4. \A x : QueueContains(c, x) => QueueContains(chain', x)
    BY <1>0, <2>1, <2>2, QueueKept
  <2> QED
    BY <1>3, <1>8, <2>2, <2>3, <2>4
<1>9. ASSUME TestedStays, NEW h \in Hash, NEW f \in FilterHash, HandleFilter(h, f)
      PROVE  FoundInv'
  <2> DEFINE e == SyncFilter(chain, scripts, h, f).chain
             new == h \in Known(Tree) /\ ~Tree.headers[h].checked /\ e.tree.headers[h].checked
  <2>1. /\ chain' = e /\ client' = client
        /\ tested' = IF new THEN [tested EXCEPT ![h] = scripts] ELSE tested
    BY <1>9 DEF HandleFilter, Tree
  <2>2. /\ \A x : QueueContains(chain, x) => QueueContains(e, x)
        /\ new => \/ QueueContains(e, h)
                  \/ /\ e.tree.headers[h].commitment.filter_hash = f
                     /\ Touches[h, f] \cap scripts = {}
    BY <1>0, SyncFilterQueues DEF Tree
  <2> HIDE DEF e
  <2>3. CASE ~new
    BY <1>3, <1>9, <2>1, <2>2, <2>3
  <2>4. CASE new
    <3> HIDE DEF new
    <3>1. tested' = [tested EXCEPT ![h] = scripts] /\ tested'[h] = scripts
      BY <1>9, <2>1, <2>4 DEF NodeInv
    <3> SUFFICES ASSUME NEW x \in MainChain(Tree'), Relevant(x)'
                 PROVE  x \in client' \/ QueueContains(chain', x)
      BY DEF FoundInv
    <3>2. CASE x = h
      <4>1. Touches[h, Tree'.headers[h].commitment.filter_hash] \cap scripts # {}
        BY <3>1, <3>2 DEF Relevant
      <4>2. Tree' = e.tree
        BY <2>1 DEF Tree
      <4> QED
        BY <2>1, <2>2, <2>4, <3>2, <4>1, <4>2
    <3>3. CASE x # h
      <4>1. tested'[x] = tested[x]
        BY <3>1, <3>3 DEF NodeInv
      <4>2. /\ tested[x] # {}
            /\ Touches[x, Tree'.headers[x].commitment.filter_hash] \cap tested[x] # {}
        BY <4>1 DEF Relevant
      <4>3. /\ x \in MainChain(Tree) /\ Committed(Tree, x)
            /\ Tree'.headers[x].commitment.filter_hash = Tree.headers[x].commitment.filter_hash
        BY <1>9, <4>2 DEF TestedStays
      <4>4. Relevant(x)
        BY <4>2, <4>3 DEF Relevant
      <4> QED
        BY <2>1, <2>2, <4>3, <4>4 DEF FoundInv
    <3> QED
      BY <3>2, <3>3
  <2> QED
    BY <2>3, <2>4
<1>10. ASSUME TestedStays, NEW h \in Hash, HandleBlock(h)
       PROVE  FoundInv'
  <2>1. /\ chain'.queue = chain.queue /\ chain.want = h
        /\ client' = client \cup {h} /\ tested' = tested
    BY <1>0, <1>10 DEF HandleBlock, ChainFields
  <2>2. \A x : QueueContains(chain, x) => QueueContains(chain', x) \/ x \in client'
    BY <2>1 DEF QueueContains
  <2> QED
    BY <1>10, <2>1, <2>2, NoneLost
<1>11. ASSUME TestedStays, NEW p \in Peer, NEW blocks \in (SUBSET Hash) \ {{}},
              HandleInventoryBlocks(p, blocks)
       PROVE  FoundInv'
  <2>1. /\ chain' \in {chain, ClearCompactFilterQueue(chain)}
        /\ tested' = tested /\ client' = client
    BY <1>11 DEF HandleInventoryBlocks, history
  <2> QED
    BY <1>0, <1>3, <1>11, <2>1, QueueKept
<1>12. ASSUME TestedStays, Rescan
       PROVE  FoundInv'
  <2> DEFINE d == ClearFilters(chain)
  <2>1. /\ chain' \in {chain, NextFilterMessage(d)}
        /\ tested' = tested /\ client' = client
    BY <1>12 DEF Rescan
  <2>2. /\ DOMAIN d = ChainFields /\ d.queue = chain.queue
        /\ \A x : QueueContains(chain, x) => QueueContains(d, x)
    BY <1>0, QueueKept DEF ClearFilters, ChainFields
  <2> HIDE DEF d
  <2>3. \A x : QueueContains(d, x) => QueueContains(NextFilterMessage(d), x)
    BY <1>0, <2>2, QueueKept
  <2> QED
    BY <1>3, <1>12, <2>1, <2>2, <2>3
<1>13. ASSUME TestedStays, NEW s \in Script, AddScript(s)
       PROVE  FoundInv'
  BY <1>3, <1>13 DEF AddScript, history
<1>14. CASE TestedStays /\ Next
  BY <1>2, <1>4, <1>5, <1>6, <1>7, <1>8, <1>9, <1>10, <1>11, <1>12, <1>13, <1>14
  DEF Next, PeerMessage, ClientMessage
<1> QED
  BY <1>1, <1>14

\* While blocks whose filters were tested neither come back to the active chain
\* nor are given another filter, every block of the active chain that matched
\* reaches the client, however scripts, rescans, filters, blocks and
\* reorganizations interleave.  So a matching block is lost in two ways only: its
\* branch is left and comes back, or a second batch of filter headers replaces
\* its filter (sync_filter, BlockQueue::remove, sync_cf_headers).
THEOREM RelevantDelivered ==
    ASSUME UniformWork
    PROVE  Spec /\ [][TestedStays]_vars => []ClientHasRelevant
<1>1. Init => FoundInv
  <2> SUFFICES ASSUME Init, NEW x \in MainChain(Tree) PROVE ~Relevant(x)
    BY DEF FoundInv
  <2>1. x \in Hash
    BY InitInv DEF NodeInv, ChainInv, TreeInv, Sound, TreeType, MainChain, Walk, Tree
  <2>2. tested[x] = {}
    BY <2>1 DEF Init
  <2> QED
    BY <2>2 DEF Relevant
<1>2. NodeInv /\ FoundInv /\ [Next]_vars /\ [TestedStays]_vars => FoundInv'
  BY StepFound
<1>3. NodeInv /\ FoundInv => ClientHasRelevant
  <2> SUFFICES ASSUME NodeInv, FoundInv, BlockQueueEmpty(chain),
                      NEW x \in MainChain(Tree), Relevant(x)
               PROVE  x \in client
    BY DEF ClientHasRelevant
  <2>1. x # None
    BY HeaderAssumption
    DEF NodeInv, ChainInv, TreeInv, Sound, TreeType, MainChain, Walk, Tree
  <2>2. ~QueueContains(chain, x)
    BY <2>1 DEF BlockQueueEmpty, QueueContains
  <2> QED
    BY <2>2 DEF FoundInv
<1> QED
  BY <1>1, <1>2, <1>3, InvAlways, PTL DEF Spec
=============================================================================
