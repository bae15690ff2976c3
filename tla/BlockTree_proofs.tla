--------------------------- MODULE BlockTree_proofs ---------------------------
(***************************************************************************)
(* What BlockTree promises, proved for every set of headers.               *)
(***************************************************************************)
EXTENDS BlockTree, TreeShape_proofs

-----------------------------------------------------------------------------
(* Type correctness and structure, from every start and for all headers. *)

\* The anchor of the tree.
LEMMA TreeRootType ==
    TreeRoot \in Anchors /\ TreeRoot.hash = Root /\ TreeRoot.height = RootHeight
BY StartAssumption DEF TreeRoot, Anchors

\* Each constructor returns a sound tree.
LEMMA StartSound ==
    ASSUME NEW start \in Starts
    PROVE  Sound(StartTree(start), TreeRoot) /\ Known(StartTree(start)) \subseteq Hash
<1> USE StartAssumption, HeaderAssumption
<1>0. TreeRoot \in Anchors /\ TreeRoot.hash = Root /\ TreeRoot.height = RootHeight
  BY TreeRootType
<1>1. CASE start = "new"
  BY <1>0, <1>1, NewTreeSound DEF StartTree
<1>3. CASE start = "from_header"
  BY <1>0, <1>3, FromHeaderSound DEF StartTree
<1>4. CASE start = "from_genesis"
  <2> DEFINE u == FromGenesis(Root)
  <2>1. /\ DOMAIN u = {"canonical", "headers", "tip", "forks"} /\ u.forks = {}
        /\ u.tip = Tip(Root, 0, BitsOf[Root])
        /\ u.headers = [h \in {Root} |-> NewNode(0, Work(Root))]
        /\ DOMAIN u.canonical = {0} /\ u.canonical \in [{0} -> Hash]
    BY DEF FromGenesis, FromHeader
  <2> HIDE DEF u
  <2>2. RootHeight = 0
    BY <1>4
  <2>3. DOMAIN u.canonical \subseteq Height
    BY <2>1 DEF Height
  <2>4. /\ u.tip = Tip(TreeRoot.hash, TreeRoot.height, BitsOf[TreeRoot.hash])
        /\ u.headers = [h \in {TreeRoot.hash} |->
                           NewNode(TreeRoot.height, Work(TreeRoot.hash))]
        /\ u.canonical \in [DOMAIN u.canonical -> Hash]
    BY <1>0, <2>1, <2>2
  <2>5. Sound(u, TreeRoot) /\ Known(u) \subseteq Hash
    BY <1>0, <2>1, <2>3, <2>4, AnchoredSound
  <2> QED
    BY <1>4, <2>5 DEF StartTree, u
<1> QED
  BY <1>1, <1>3, <1>4 DEF Constructors

\* The inductive invariant: types and structure need each other.
TreeInv == TypeOK /\ Structure

\* The inductive invariant says that the tree is sound.
LEMMA TreeInvSound == TreeInv <=> Sound(tree, TreeRoot) /\ reported \in SUBSET Hash
BY DEF TreeInv, TypeOK, Structure, Sound

\* It holds initially.
LEMMA TreeInvInit == Init => TreeInv
<1> SUFFICES ASSUME Init PROVE Sound(tree, TreeRoot) /\ reported \in SUBSET Hash
  BY TreeInvSound
<1> QED
  BY StartSound DEF Init

\* Every operation preserves it.
LEMMA TreeInvStep == TreeInv /\ [Next]_vars => TreeInv'
<1> SUFFICES ASSUME Sound(tree, TreeRoot), reported \in SUBSET Hash, [Next]_vars
             PROVE  Sound(tree', TreeRoot) /\ reported' \in SUBSET Hash
  BY TreeInvSound DEF TreeInv, TypeOK, Structure, Sound
<1>1. ASSUME NEW h \in Hash, Receive(h)
      PROVE  Sound(tree', TreeRoot) /\ reported' \in SUBSET Hash
  BY <1>1, AcceptHeaderSound, ReportType DEF Receive
<1>2. ASSUME NEW c \in Commitment, NEW h \in Hash, Commit(c, h)
      PROVE  Sound(tree', TreeRoot) /\ reported' \in SUBSET Hash
  BY <1>2, SetCommitmentShape, SameShapeSound DEF Commit
<1>3. ASSUME NEW h \in Hash, Check(h)
      PROVE  Sound(tree', TreeRoot) /\ reported' \in SUBSET Hash
  BY <1>3, CheckFilterShape, SameShapeSound DEF Check
<1>4. ASSUME Rescan
      PROVE  Sound(tree', TreeRoot) /\ reported' \in SUBSET Hash
  BY <1>4, ResetShape, SameShapeSound DEF Rescan
<1>5. CASE UNCHANGED vars
  BY <1>5 DEF vars
<1> QED
  BY <1>1, <1>2, <1>3, <1>4, <1>5 DEF Next

\* So it always holds.
LEMMA TreeInvAlways == Spec => []TreeInv
BY TreeInvInit, TreeInvStep, PTL DEF Spec

\* Every operation of the block tree keeps its state well-typed: accept_header
\* on any header in any order, commitments, filter checks and rescans.
THEOREM TypeCorrect == Spec => []TypeOK
BY TreeInvAlways, PTL DEF TreeInv

\* The block tree stays one linked tree with consistent heights and work, and
\* with distinct leaves as tips, whatever headers arrive: no difficulty or work
\* is assumed.
THEOREM StructurePreserved == Spec => []Structure
BY TreeInvAlways, PTL DEF TreeInv

-----------------------------------------------------------------------------
(* The active tip only changes for one with more work. *)

\* A header that moves the active tip moves it to more accumulated work.
LEMMA TipWorkStep ==
    ASSUME NEW t, Sound(t, TreeRoot), NEW h \in Hash, NEW r, r = AcceptHeader(t, h),
           r.tree.tip.hash # t.tip.hash
    PROVE  AccWork(r.tree, r.tree.tip.hash) > AccWork(t, t.tip.hash)
<1>1. Outcome(t, h, r, TreeRoot)
  BY AcceptHeaderCases
<1>2. CASE PrevOf[h] = t.tip.hash /\ TipExtended(t, r.tree, h, TreeRoot)
  <2> DEFINE k == t.tip.height + 1
  <2>1. Grown(t, r.tree, h, k, TreeRoot) /\ r.tree.tip.hash = h
    BY <1>2 DEF TipExtended
  <2> HIDE DEF k
  <2>2. AccWork(r.tree, h) = AccWork(t, PrevOf[h]) + Work(h)
    BY <2>1, GrowHeights
  <2>3. AccWork(t, PrevOf[h]) \in Nat /\ Work(h) \in Nat \ {0}
    BY <2>1, GrowFields
  <2> QED
    BY <1>2, <2>1, <2>2, <2>3
<1>3. ASSUME NEW fork \in t.forks, PrevOf[h] = fork.hash,
             NEW s, ForkWins(t, s, h, t.forks \ {fork}, TreeRoot), r = SwitchToFork(s, h)
      PROVE  AccWork(r.tree, r.tree.tip.hash) > AccWork(t, t.tip.hash)
  <2> DEFINE others == t.forks \ {fork}
  <2>1. /\ PrevOf[h] \in Known(t) /\ PrevOf[h] # t.tip.hash /\ t.tip.hash \in Known(t)
        /\ \A f \in others : f.hash # PrevOf[h]
    BY <1>3 DEF Sound, ForkTips
  <2>2. Sound(s, TreeRoot)
    BY <1>3, <2>1, ForkWinsSound
  <2>3. SameShape(s, r.tree)
    BY <1>3, <2>2, SwitchShape
  <2>4. \A x : AccWork(r.tree, x) = AccWork(s, x)
    BY <2>2, <2>3, SameShapeSound
  <2>5. r.tree.tip.hash = h
    BY <1>3, <2>3 DEF SameShape, ForkWins
  <2>6. PICK k : Grown(t, s, h, k, TreeRoot)
    BY <1>3 DEF ForkWins
  <2>7. AccWork(s, t.tip.hash) = AccWork(t, t.tip.hash)
    BY <2>1, <2>6, GrowHeights
  <2> QED
    BY <1>3, <2>4, <2>5, <2>7 DEF ForkWins
<1>4. CASE \E fork \in t.forks : PrevOf[h] = fork.hash /\
             \E s : ForkWins(t, s, h, t.forks \ {fork}, TreeRoot) /\ r = SwitchToFork(s, h)
  BY <1>3, <1>4, Zenon
<1>5. ~ForkGrown(t, r.tree, h, t.forks, TreeRoot)
  BY DEF ForkGrown
<1>6. \A fork : ~ForkGrown(t, r.tree, h, t.forks \ {fork}, TreeRoot)
                /\ ~ForksAre(t, r.tree, t.forks \ {fork})
  BY DEF ForkGrown, ForksAre
<1> QED
  BY <1>1, <1>2, <1>4, <1>5, <1>6, Zenon DEF Outcome

\* The active tip is only exchanged for one with more accumulated work, by an
\* extension or by a reorganization, at any mix of difficulties.
THEOREM TipGainsWorkAlways == Spec => TipGainsWork
<1> DEFINE Gain == tree'.tip.hash # tree.tip.hash =>
                     AccWork(tree', tree'.tip.hash) > AccWork(tree, tree.tip.hash)
<1>1. TreeInv /\ [Next]_vars => [Gain]_vars
  <2> SUFFICES ASSUME Sound(tree, TreeRoot), Next, tree'.tip.hash # tree.tip.hash
               PROVE  AccWork(tree', tree'.tip.hash) > AccWork(tree, tree.tip.hash)
    BY TreeInvSound
  <2>1. ASSUME NEW h \in Hash, Receive(h)
        PROVE  AccWork(tree', tree'.tip.hash) > AccWork(tree, tree.tip.hash)
    BY <2>1, TipWorkStep DEF Receive
  <2>2. ASSUME NEW c \in Commitment, NEW h \in Hash, Commit(c, h)
        PROVE  FALSE
    BY <2>2, SetCommitmentShape DEF Commit, SameShape
  <2>3. ASSUME NEW h \in Hash, Check(h)
        PROVE  FALSE
    BY <2>3, CheckFilterShape DEF Check, SameShape
  <2>4. ASSUME Rescan
        PROVE  FALSE
    BY <2>4, ResetShape DEF Rescan, SameShape
  <2> QED
    BY <2>1, <2>2, <2>3, <2>4 DEF Next
<1> QED
  BY <1>1, TreeInvAlways, PTL DEF Spec, TipGainsWork

-----------------------------------------------------------------------------
(* The index by height and the reports, when all headers have the same work.*)

\* The tree a node starts with is indexed: its only chain is the anchor.
LEMMA StartFollowed ==
    ASSUME NEW start \in Starts
    PROVE  Followed(StartTree(start), Known(StartTree(start)), TreeRoot)
<1> DEFINE u == StartTree(start)
<1> USE StartAssumption
<1>1. Sound(u, TreeRoot)
  BY StartSound
<1>2. /\ Known(u) \subseteq {Root}
      /\ DOMAIN u.canonical = {} \/ (/\ DOMAIN u.canonical = {0} /\ u.canonical[0] = Root
                                     /\ Known(u) = {Root} /\ HeightOf(u, Root) = 0)
  <2>1. CASE start = "new"
    BY <2>1 DEF StartTree, NewTree, Known
  <2>2. CASE start = "from_header"
    BY <2>2 DEF StartTree, FromHeader, Known
  <2>3. CASE start = "from_genesis"
    BY <2>3 DEF StartTree, FromGenesis, FromHeader, Known, HeightOf, NewNode
  <2> QED
    BY <2>1, <2>2, <2>3 DEF Constructors
<1> HIDE DEF u
<1>7. Followed(u, Known(u), TreeRoot)
  BY <1>1, <1>2, AnchoredFollowed, TreeRootType
<1> QED
  BY <1>7 DEF u

\* So the index and the reports are always right.
LEMMA FollowedAlways ==
    ASSUME UniformWork
    PROVE  Spec => [](TreeInv /\ Followed(tree, reported, TreeRoot))
<1>1. Init => Followed(tree, reported, TreeRoot)
  BY StartFollowed DEF Init
<1>2. TreeInv /\ Followed(tree, reported, TreeRoot) /\ [Next]_vars => Followed(tree, reported, TreeRoot)'
  <2> SUFFICES ASSUME Sound(tree, TreeRoot), Followed(tree, reported, TreeRoot), [Next]_vars
               PROVE  Followed(tree', reported', TreeRoot)
    BY TreeInvSound
  <2>1. ASSUME NEW h \in Hash, Receive(h)
        PROVE  Followed(tree', reported', TreeRoot)
    BY <2>1, AcceptHeaderFollowed DEF Receive
  <2>2. ASSUME NEW c \in Commitment, NEW h \in Hash, Commit(c, h)
        PROVE  Followed(tree', reported', TreeRoot)
    BY <2>2, SetCommitmentShape, SameShapeFollowed DEF Commit
  <2>3. ASSUME NEW h \in Hash, Check(h)
        PROVE  Followed(tree', reported', TreeRoot)
    BY <2>3, CheckFilterShape, SameShapeFollowed DEF Check
  <2>4. ASSUME Rescan
        PROVE  Followed(tree', reported', TreeRoot)
    BY <2>4, ResetShape, SameShapeFollowed DEF Rescan
  <2>5. CASE UNCHANGED vars
    BY <2>5 DEF vars
  <2> QED
    BY <2>1, <2>2, <2>3, <2>4, <2>5 DEF Next
<1> QED
  BY <1>1, <1>2, TreeInvInit, TreeInvStep, PTL DEF Spec

\* When all headers have the same work, canonical_hashes is the index of the
\* active chain by height, through any number of forks and reorganizations.
THEOREM CanonicalIndex ==
    ASSUME UniformWork
    PROVE  Spec => []CanonicalMatchesTip
<1>1. Followed(tree, reported, TreeRoot) => CanonicalMatchesTip
  BY DEF Followed, CanonicalMatchesTip
<1> QED
  BY <1>1, FollowedAlways, PTL

\* When all headers have the same work, the changes that accept_header reports
\* are exactly the changes of the active chain.
THEOREM ReportsExact ==
    ASSUME UniformWork
    PROVE  Spec => []ReportsMainChain
<1>1. Followed(tree, reported, TreeRoot) => ReportsMainChain
  BY DEF Followed, ReportsMainChain
<1> QED
  BY <1>1, FollowedAlways, PTL

-----------------------------------------------------------------------------
(* The tree implements one growing chain. *)

\* The active chain has no gap above the anchor and no two blocks at a height.
LEMMA MainChainIsChain ==
    ASSUME NEW t, Sound(t, TreeRoot)
    PROVE  Best!IsChain(MainChain(t))
<1> DEFINE tip == t.tip.hash
<1>1. CASE tip \notin Known(t)
  BY <1>1 DEF MainChain, Walk, Best!IsChain
<1>2. CASE tip \in Known(t)
  <2>0. /\ tip \in Hash /\ TreeType(t) /\ HeadersLinked(t, TreeRoot)
        /\ MainChain(t) = Ancestry[tip] \cap Known(t) /\ MainChain(t) \subseteq Hash
        /\ \A y \in Known(t) : HeightOf(t, y) \in Nat
    BY <1>2 DEF Sound, TreeType, MainChain, Walk, NodeType, HeightOf, Height
  <2> HIDE DEF tip
  <2>1. ASSUME NEW h \in MainChain(t)
        PROVE  h = Root \/ PrevOf[h] \in MainChain(t) \cup {Root}
    <3>1. CASE PrevOf[h] \in Known(t)
      <4>1. PrevOf[h] \in Hash /\ h \in Ancestry[tip]
        BY <2>0, <2>1, <3>1 DEF TreeType
      <4>2. PrevOf[h] \in Ancestry[tip]
        BY <2>0, <4>1, AncestryClosed DEF PrevClosed
      <4> QED
        BY <2>0, <3>1, <4>2
    <3>2. CASE PrevOf[h] \notin Known(t)
      <4>1. FirstOK(t, h, TreeRoot)
        BY <2>0, <2>1, <3>2 DEF HeadersLinked, IsFirst
      <4> QED
        BY <4>1, TreeRootType DEF FirstOK
    <3> QED
      BY <3>1, <3>2
  <2>2. ASSUME NEW g \in MainChain(t), NEW h \in MainChain(t), PrevOf[g] = PrevOf[h]
        PROVE  g = h
    <3>1. CASE PrevOf[h] \notin Known(t)
      BY <2>0, <2>2, <3>1 DEF HeadersLinked, IsFirst
    <3>2. CASE PrevOf[h] \in Known(t)
      <4>1. HeightOf(t, g) = HeightOf(t, h)
        BY <2>0, <2>2, <3>2 DEF HeadersLinked, IsFirst
      <4>2. g \in Walk(t, tip) /\ h \in Walk(t, tip)
        BY <2>2 DEF MainChain, tip
      <4> QED
        BY <1>2, <2>0, <4>1, <4>2, WalkUnique
    <3> QED
      BY <3>1, <3>2
  <2> QED
    BY <2>0, <2>1, <2>2 DEF Best!IsChain
<1> QED
  BY <1>1, <1>2

\* The anchor with or without its header is a chain to start with.
LEMMA BestInit == Init => Best!Init
<1> SUFFICES ASSUME NEW start \in Starts, tree = StartTree(start), reported = Known(tree)
             PROVE  Best!Init
  BY DEF Init
<1> USE StartAssumption, HeaderAssumption
<1>1. CASE start = "new"
  <2>1. Known(tree) = {} /\ AccWork(tree, tree.tip.hash) = 0
    BY <1>1 DEF StartTree, NewTree, Known, AccWork
  <2> QED
    BY <2>1 DEF Best!Init
<1>2. CASE start = "from_header"
  <2>1. Known(tree) = {Root} /\ AccWork(tree, tree.tip.hash) = Work(Root)
    BY <1>2 DEF StartTree, FromHeader, Known, AccWork, NewNode, Tip
  <2> QED
    BY <2>1 DEF Best!Init
<1>3. CASE start = "from_genesis"
  <2>1. Known(tree) = {Root} /\ AccWork(tree, tree.tip.hash) = Work(Root)
    BY <1>3 DEF StartTree, FromGenesis, FromHeader, Known, AccWork, NewNode, Tip
  <2> QED
    BY <2>1 DEF Best!Init
<1> QED
  BY <1>1, <1>2, <1>3 DEF Constructors

\* A step that keeps the reports and the work of the tip is no step of the chain.
BestStutters == reported' = reported
                /\ AccWork(tree, tree.tip.hash)' = AccWork(tree, tree.tip.hash)

\* accept_header puts one block on the chain, exchanges its top or leaves it alone.
LEMMA ReceiveBest ==
    ASSUME UniformWork, Sound(tree, TreeRoot), Followed(tree, reported, TreeRoot), NEW h \in Hash, Receive(h)
    PROVE  BestStutters \/ Best!Extend(h) \/ Best!Exchange
<1> DEFINE r == AcceptHeader(tree, h)
<1>0. tree' = r.tree /\ reported' = ApplyReport(reported, r.changes)
  BY DEF Receive
<1>1. Outcome(tree, h, r, TreeRoot) /\ Sound(r.tree, TreeRoot) /\ Followed(r.tree, reported', TreeRoot)
  BY <1>0, AcceptHeaderCases, AcceptHeaderSound, AcceptHeaderFollowed
<1>2. r.tree.tip.hash # tree.tip.hash =>
        AccWork(tree', tree'.tip.hash) > AccWork(tree, tree.tip.hash)
  BY <1>0, TipWorkStep
<1> HIDE DEF r
<1>3. Best!IsChain(reported') /\ reported = MainChain(tree) /\ reported' = MainChain(tree')
  BY <1>0, <1>1, MainChainIsChain DEF Followed
<1>4. MainChain(tree) \subseteq Known(tree)
  BY DEF MainChain, Walk
<1>5. CASE r.tree = tree /\ r.changes.kind \in {"InvalidPow", "Duplicate", "UnknownPrevHash"}
  BY <1>0, <1>3, <1>5 DEF BestStutters
<1>6. CASE /\ PrevOf[h] = tree.tip.hash
           /\ TipExtended(tree, r.tree, h, TreeRoot) /\ r.changes = Change("Accepted", {h}, {})
  <2> DEFINE k == tree.tip.height + 1
  <2>1. Grown(tree, tree', h, k, TreeRoot) /\ tree'.tip.hash = h
    BY <1>0, <1>6 DEF TipExtended
  <2> HIDE DEF k
  <2>2. /\ AccWork(tree', h) = AccWork(tree, PrevOf[h]) + Work(h)
        /\ h \notin Known(tree)
    BY <2>1, GrowHeights
  <2>3. reported' = reported \cup {h}
    BY <1>0, <1>6 DEF ApplyReport, Change
  <2>4. AccWork(tree, tree.tip.hash)' = AccWork(tree, tree.tip.hash) + Work(h)
    BY <1>6, <2>1, <2>2
  <2> QED
    BY <1>3, <1>4, <2>2, <2>3, <2>4 DEF Best!Extend
<1>7. ASSUME NEW others, ForkGrown(tree, r.tree, h, others, TreeRoot), tree.tip.hash \in Known(tree),
             r.changes = Change("ExtendedFork", {h}, {})
      PROVE  BestStutters
  <2>1. PICK k : Grown(tree, tree', h, k, TreeRoot)
    BY <1>0, <1>7 DEF ForkGrown
  <2>2. AccWork(tree', tree.tip.hash) = AccWork(tree, tree.tip.hash)
    BY <1>7, <2>1, GrowHeights
  <2>3. tree'.tip = tree.tip
    BY <1>0, <1>7 DEF ForkGrown
  <2>4. reported' = reported
    BY <1>0, <1>7 DEF ApplyReport, Change
  <2> QED
    BY <2>2, <2>3, <2>4 DEF BestStutters
<1>8. ASSUME NEW others, ForksAre(tree, r.tree, others), r.changes = Unaccepted("InvalidPow")
      PROVE  BestStutters
  <2>1. tree'.tip = tree.tip /\ tree'.headers = tree.headers
    BY <1>0, <1>8 DEF ForksAre
  <2>2. reported' = reported
    BY <1>0, <1>8 DEF ApplyReport, Change, Unaccepted
  <2> QED
    BY <2>1, <2>2 DEF BestStutters, AccWork, Known
<1>9. ASSUME NEW fork \in tree.forks, PrevOf[h] = fork.hash,
             NEW s, ForkWins(tree, s, h, tree.forks \ {fork}, TreeRoot), r = SwitchToFork(s, h)
      PROVE  Best!Exchange
  <2> DEFINE old == tree.tip.hash
             others == tree.forks \ {fork}
  <2>1. /\ PrevOf[h] \in Known(tree) /\ PrevOf[h] # old /\ old \in Known(tree)
        /\ \A f \in others : f.hash # PrevOf[h]
        /\ \A y \in Known(tree) : PrevOf[y] # old
    BY <1>9 DEF Sound, ForkTips
  <2>2. Sound(s, TreeRoot)
    BY <1>9, <2>1, ForkWinsSound
  <2>3. SameShape(s, tree')
    BY <1>0, <1>9, <2>2, SwitchShape
  <2>4. PICK k : Grown(tree, s, h, k, TreeRoot)
    BY <1>9 DEF ForkWins
  <2>5. Known(tree') = Known(tree) \cup {h} /\ h \notin Known(tree) /\ tree'.tip.hash = h
    BY <1>9, <2>3, <2>4, GrowHeights DEF SameShape, ForkWins
  <2>6. old \notin MainChain(tree')
    <3> SUFFICES ASSUME old \in Walk(tree', h)
                 PROVE  FALSE
      BY <2>5 DEF MainChain
    <3>1. PICK y \in Known(tree') : PrevOf[y] = old
      BY <1>0, <1>1, <2>1, <2>5, WalkPastLeaf DEF Sound
    <3> QED
      BY <2>1, <2>5, <3>1
  <2>7. old \in MainChain(tree) /\ h \in MainChain(tree')
    BY <2>1, <2>5, AncestrySelf DEF MainChain, Walk, Sound, TreeType
  <2>8. AccWork(tree', tree'.tip.hash) > AccWork(tree, tree.tip.hash)
    BY <1>0, <1>2, <2>1, <2>5
  <2> QED
    BY <1>3, <1>4, <2>5, <2>6, <2>7, <2>8 DEF Best!Exchange
<1>10. /\ PrevOf[h] \in Known(tree) => tree.tip.hash \in Known(tree)
       /\ \A fork \in tree.forks : fork.hash \in Known(tree)
  BY DEF Sound, ForkTips
<1>11. CASE /\ PrevOf[h] \in Known(tree) /\ ForkGrown(tree, r.tree, h, tree.forks, TreeRoot)
            /\ r.changes = Change("ExtendedFork", {h}, {})
  BY <1>7, <1>10, <1>11
<1>12. ASSUME NEW fork \in tree.forks, PrevOf[h] = fork.hash,
              \/ /\ ForksAre(tree, r.tree, tree.forks \ {fork})
                 /\ r.changes = Unaccepted("InvalidPow")
              \/ /\ ForkGrown(tree, r.tree, h, tree.forks \ {fork}, TreeRoot)
                 /\ r.changes = Change("ExtendedFork", {h}, {})
              \/ \E s : ForkWins(tree, s, h, tree.forks \ {fork}, TreeRoot) /\ r = SwitchToFork(s, h)
       PROVE  BestStutters \/ Best!Exchange
  <2>1. CASE \E s : ForkWins(tree, s, h, tree.forks \ {fork}, TreeRoot) /\ r = SwitchToFork(s, h)
    BY <1>9, <1>12, <2>1
  <2>2. CASE /\ ForkGrown(tree, r.tree, h, tree.forks \ {fork}, TreeRoot)
             /\ r.changes = Change("ExtendedFork", {h}, {})
    BY <1>7, <1>10, <1>12, <2>2
  <2> QED
    BY <1>8, <1>12, <2>1, <2>2
<1> QED
  BY <1>1, <1>5, <1>6, <1>11, <1>12, Zenon DEF Outcome

\* When all headers have the same work, those who follow the reports of
\* accept_header see one chain without gaps that grows block by block or is
\* exchanged for one with more work: the tree implements BestChain.
THEOREM BestChainImplemented ==
    ASSUME UniformWork
    PROVE  Spec => ImplementsBestChain
<1>1. TreeInv /\ Followed(tree, reported, TreeRoot) /\ [Next]_vars => [Best!Next]_(Best!vars)
  <2> SUFFICES ASSUME Sound(tree, TreeRoot), Followed(tree, reported, TreeRoot), [Next]_vars
               PROVE  [Best!Next]_(Best!vars)
    BY TreeInvSound
  <2>0. BestStutters => [Best!Next]_(Best!vars)
    BY DEF BestStutters, Best!vars
  <2>1. ASSUME NEW h \in Hash, Receive(h)
        PROVE  [Best!Next]_(Best!vars)
    BY <2>0, <2>1, ReceiveBest DEF Best!Next
  <2>2. ASSUME SameShape(tree, tree'), reported' = reported
        PROVE  BestStutters
    <3>1. tree'.tip = tree.tip /\ \A x : AccWork(tree', x) = AccWork(tree, x)
      BY <2>2, SameShapeSound DEF SameShape
    <3> QED
      BY <2>2, <3>1 DEF BestStutters
  <2>3. ASSUME NEW c \in Commitment, NEW h \in Hash, Commit(c, h)
        PROVE  BestStutters
    BY <2>2, <2>3, SetCommitmentShape DEF Commit
  <2>4. ASSUME NEW h \in Hash, Check(h)
        PROVE  BestStutters
    BY <2>2, <2>4, CheckFilterShape DEF Check
  <2>5. ASSUME Rescan
        PROVE  BestStutters
    BY <2>2, <2>5, ResetShape DEF Rescan
  <2>6. CASE UNCHANGED vars
    BY <2>0, <2>6 DEF vars, BestStutters
  <2> QED
    BY <2>0, <2>1, <2>3, <2>4, <2>5, <2>6 DEF Next
<1> QED
  BY <1>1, BestInit, FollowedAlways, PTL DEF Spec, ImplementsBestChain, Best!Spec

-----------------------------------------------------------------------------
(* The most work, where there is one difficulty. *)

IsLeaf(t, x) == \A y \in Known(t) : PrevOf[y] # x

\* Every branch is one that accept_header will find again, by its tip.
NoneForgotten(t) ==
    \A x \in Known(t) : IsLeaf(t, x) => \E f \in t.forks \cup {t.tip} : f.hash = x

Heaviest(t) == \A x \in Known(t) : AccWork(t, x) <= AccWork(t, t.tip.hash)

\* A new leaf takes the place of its parent among the tips.
LEMMA GrowLeaves ==
    ASSUME NEW t, NoneForgotten(t), NEW u, NEW h, NEW k, Grown(t, u, h, k, TreeRoot),
           \E f \in u.forks \cup {u.tip} : f.hash = h,
           \A f \in t.forks \cup {t.tip} : f.hash = PrevOf[h] \/ f \in u.forks \cup {u.tip}
    PROVE  NoneForgotten(u)
<1>1. Known(u) = Known(t) \cup {h}
  BY GrowHeights
<1>2. ASSUME NEW x \in Known(u), IsLeaf(u, x), x # h
      PROVE  \E f \in u.forks \cup {u.tip} : f.hash = x
  <2>1. x \in Known(t) /\ IsLeaf(t, x) /\ PrevOf[h] # x
    BY <1>1, <1>2 DEF IsLeaf
  <2>2. PICK f \in t.forks \cup {t.tip} : f.hash = x
    BY <2>1 DEF NoneForgotten
  <2> QED
    BY <2>1, <2>2
<1> QED
  BY <1>2 DEF NoneForgotten

\* What keeps the shape of a tree keeps its branches and its heaviest tip.
LEMMA SameShapeHeaviest ==
    ASSUME NEW t, Sound(t, TreeRoot), NEW u, SameShape(t, u)
    PROVE  /\ NoneForgotten(t) => NoneForgotten(u)
           /\ Heaviest(t) => Heaviest(u)
<1>1. /\ Known(u) = Known(t) /\ u.forks = t.forks /\ u.tip = t.tip
      /\ \A x : AccWork(u, x) = AccWork(t, x)
  BY SameShapeSound DEF SameShape
<1> QED
  BY <1>1 DEF NoneForgotten, Heaviest, IsLeaf

\* accept_header keeps the tip the heaviest: a fork that is extended is compared
\* with it, and a fork that is opened is no longer than a branch that was there.
LEMMA AcceptHeaderHeaviest ==
    ASSUME OneDifficulty, NEW t, Sound(t, TreeRoot), NEW h \in Hash, NEW r, r = AcceptHeader(t, h),
           WorkOrder(t), NoneForgotten(t), Heaviest(t)
    PROVE  NoneForgotten(r.tree) /\ Heaviest(r.tree)
<1>0. UniformWork /\ ~Refusable(h) /\ Outcome(t, h, r, TreeRoot)
  BY AcceptHeaderCases, HeaderAssumption DEF OneDifficulty, UniformWork, Refusable
<1>1. \A x : AccWork(t, x) \in Nat
  BY DEF Sound, TreeType, NodeType, AccWork
<1>2. CASE r.tree = t
  BY <1>2
<1>3. CASE PrevOf[h] = t.tip.hash /\ TipExtended(t, r.tree, h, TreeRoot)
  <2>1. PICK k : /\ Grown(t, r.tree, h, k, TreeRoot)
                 /\ r.tree.tip.hash = h /\ r.tree.forks = t.forks
    BY <1>3 DEF TipExtended
  <2>2. NoneForgotten(r.tree)
    BY <1>3, <2>1, GrowLeaves
  <2>3. /\ Known(r.tree) = Known(t) \cup {h}
        /\ \A x \in Known(t) : AccWork(r.tree, x) = AccWork(t, x)
        /\ AccWork(r.tree, h) = AccWork(t, t.tip.hash) + Work(h)
        /\ Work(h) \in Nat
    BY <1>3, <2>1, GrowHeights, GrowFields
  <2>4. Heaviest(r.tree)
    BY <1>1, <2>1, <2>3 DEF Heaviest
  <2> QED
    BY <2>2, <2>4
<1>4. ASSUME NEW others, ForkGrown(t, r.tree, h, others, TreeRoot), t.tip.hash \in Known(t),
             PrevOf[h] # t.tip.hash,
             \A f \in t.forks : f.hash = PrevOf[h] \/ f \in others,
             AccWork(r.tree, h) <= AccWork(r.tree, t.tip.hash)
      PROVE  NoneForgotten(r.tree) /\ Heaviest(r.tree)
  <2>1. PICK k : Grown(t, r.tree, h, k, TreeRoot) /\ \E f : f.hash = h /\ r.tree.forks = others \cup {f}
    BY <1>4 DEF ForkGrown
  <2>2. r.tree.tip = t.tip
    BY <1>4 DEF ForkGrown
  <2>3. NoneForgotten(r.tree)
    BY <1>4, <2>1, <2>2, GrowLeaves
  <2>4. /\ Known(r.tree) = Known(t) \cup {h}
        /\ \A x \in Known(t) : AccWork(r.tree, x) = AccWork(t, x)
    BY <2>1, GrowHeights
  <2>5. Heaviest(r.tree)
    BY <1>4, <2>2, <2>4 DEF Heaviest
  <2> QED
    BY <2>3, <2>5
<1>5. CASE /\ PrevOf[h] # t.tip.hash /\ ForksAt(t, PrevOf[h]) = {} /\ PrevOf[h] \in Known(t)
           /\ ForkGrown(t, r.tree, h, t.forks, TreeRoot)
  <2>1. PICK y \in Known(t) : PrevOf[y] = PrevOf[h]
    BY <1>5 DEF NoneForgotten, IsLeaf, ForksAt
  <2>2. PICK k : Grown(t, r.tree, h, k, TreeRoot)
    BY <1>5 DEF ForkGrown
  <2>3. /\ Known(r.tree) = Known(t) \cup {h}
        /\ \A x \in Known(t) : AccWork(r.tree, x) = AccWork(t, x)
        /\ HeightOf(r.tree, y) = HeightOf(t, y) /\ HeightOf(r.tree, h) = k
    BY <2>2, GrowHeights
  <2>4. HeightOf(t, y) = k
    BY <1>5, <2>1, <2>2 DEF Sound, HeadersLinked, IsFirst, Grown, Attaches
  <2>5. WorkOrder(r.tree)
    BY <1>0, <2>2, GrowOrder
  <2>6. AccWork(r.tree, h) = AccWork(r.tree, y)
    BY <2>3, <2>4, <2>5 DEF WorkOrder, AccWork
  <2>7. t.tip.hash \in Known(t)
    BY <1>5 DEF Sound, ForkTips
  <2>8. AccWork(r.tree, h) <= AccWork(r.tree, t.tip.hash)
    BY <2>3, <2>6, <2>7 DEF Heaviest
  <2> QED
    BY <1>4, <1>5, <2>7, <2>8
<1>6. ASSUME NEW fork \in t.forks, PrevOf[h] = fork.hash,
             \/ /\ ForkGrown(t, r.tree, h, t.forks \ {fork}, TreeRoot)
                /\ ~(AccWork(r.tree, h) > AccWork(r.tree, t.tip.hash))
             \/ \E s : ForkWins(t, s, h, t.forks \ {fork}, TreeRoot) /\ r = SwitchToFork(s, h)
      PROVE  NoneForgotten(r.tree) /\ Heaviest(r.tree)
  <2> DEFINE others == t.forks \ {fork}
             old == t.tip.hash
  <2>1. /\ PrevOf[h] \in Known(t) /\ PrevOf[h] # old /\ old \in Known(t)
        /\ \A f \in others : f.hash # PrevOf[h]
        /\ others \in SUBSET t.forks
        /\ \A f \in t.forks : f.hash = PrevOf[h] \/ f \in others
    BY <1>6 DEF Sound, ForkTips
  <2>2. CASE /\ ForkGrown(t, r.tree, h, others, TreeRoot)
             /\ ~(AccWork(r.tree, h) > AccWork(r.tree, old))
    <3>1. AccWork(r.tree, h) \in Nat /\ AccWork(r.tree, old) \in Nat
      BY AcceptHeaderSound DEF Sound, TreeType, NodeType, AccWork
    <3>2. AccWork(r.tree, h) <= AccWork(r.tree, old)
      BY <2>2, <3>1
    <3> QED
      BY <1>4, <2>1, <2>2, <3>2
  <2>3. ASSUME NEW s, ForkWins(t, s, h, others, TreeRoot), r = SwitchToFork(s, h)
        PROVE  NoneForgotten(r.tree) /\ Heaviest(r.tree)
    <3>1. Sound(s, TreeRoot) /\ SameShape(s, r.tree)
      BY <2>1, <2>3, ForkWinsSound, SwitchShape
    <3>2. PICK k : Grown(t, s, h, k, TreeRoot)
      BY <2>3 DEF ForkWins
    <3>3. s.tip.hash = h /\ s.forks = others \cup {t.tip} /\ AccWork(s, h) > AccWork(s, old)
      BY <2>3 DEF ForkWins
    <3>4. NoneForgotten(s)
      BY <2>1, <3>2, <3>3, GrowLeaves
    <3>5. /\ Known(s) = Known(t) \cup {h}
          /\ \A x \in Known(t) : AccWork(s, x) = AccWork(t, x)
          /\ AccWork(s, h) \in Nat
      BY <3>1, <3>2, GrowHeights DEF Sound, TreeType, NodeType, AccWork
    <3>6. \A x \in Known(t) : AccWork(t, x) <= AccWork(s, h)
      BY <1>1, <2>1, <3>3, <3>5 DEF Heaviest
    <3>7. Heaviest(s)
      BY <3>3, <3>5, <3>6 DEF Heaviest
    <3> QED
      BY <3>1, <3>4, <3>7, SameShapeHeaviest
  <2> QED
    BY <1>6, <2>2, <2>3
<1>7. CASE \E fork \in t.forks : PrevOf[h] = fork.hash /\
             (\/ /\ ForkGrown(t, r.tree, h, t.forks \ {fork}, TreeRoot)
                 /\ ~(AccWork(r.tree, h) > AccWork(r.tree, t.tip.hash))
              \/ \E s : ForkWins(t, s, h, t.forks \ {fork}, TreeRoot) /\ r = SwitchToFork(s, h))
  BY <1>6, <1>7, Zenon
<1> QED
  BY <1>0, <1>2, <1>3, <1>5, <1>7, Zenon DEF Outcome

\* A tree starts with its anchor as its only branch.
LEMMA StartHeaviest ==
    ASSUME NEW start \in Starts
    PROVE  NoneForgotten(StartTree(start)) /\ Heaviest(StartTree(start))
<1> DEFINE u == StartTree(start)
<1>1. Known(u) \subseteq {u.tip.hash}
  <2> USE StartAssumption
  <2>1. CASE start = "new"
    BY <2>1 DEF StartTree, NewTree, Known
  <2>2. CASE start = "from_header"
    BY <2>2 DEF StartTree, FromHeader, Known, Tip
  <2>3. CASE start = "from_genesis"
    BY <2>3 DEF StartTree, FromGenesis, FromHeader, Known, Tip
  <2> QED
    BY <2>1, <2>2, <2>3 DEF Constructors
<1>2. Sound(u, TreeRoot)
  BY StartSound
<1> HIDE DEF u
<1>3. \A x : AccWork(u, x) \in Nat
  BY <1>2 DEF Sound, TreeType, NodeType, AccWork
<1>4. NoneForgotten(u) /\ Heaviest(u)
  BY <1>1, <1>3 DEF NoneForgotten, Heaviest
<1> QED
  BY <1>4 DEF u

\* Where all headers have one difficulty, no known header has more accumulated
\* work than the active tip: the comparison in accept_header, which a new fork
\* skips, is made often enough.
THEOREM MostWorkAlways ==
    ASSUME OneDifficulty
    PROVE  Spec => []MostWork
<1> DEFINE Inv == TreeInv /\ Followed(tree, reported, TreeRoot)
           MInv == NoneForgotten(tree) /\ Heaviest(tree)
<1>0. UniformWork
  BY DEF OneDifficulty, UniformWork
<1>1. Init => MInv
  BY StartHeaviest DEF Init
<1>2. Inv /\ MInv /\ [Next]_vars => MInv'
  <2> SUFFICES ASSUME Sound(tree, TreeRoot), Followed(tree, reported, TreeRoot), MInv, [Next]_vars
               PROVE  NoneForgotten(tree') /\ Heaviest(tree')
    BY TreeInvSound
  <2>1. ASSUME NEW h \in Hash, Receive(h)
        PROVE  NoneForgotten(tree') /\ Heaviest(tree')
    BY <2>1, AcceptHeaderHeaviest DEF Receive, Followed
  <2>2. ASSUME NEW c \in Commitment, NEW h \in Hash, Commit(c, h)
        PROVE  NoneForgotten(tree') /\ Heaviest(tree')
    BY <2>2, SetCommitmentShape, SameShapeHeaviest DEF Commit
  <2>3. ASSUME NEW h \in Hash, Check(h)
        PROVE  NoneForgotten(tree') /\ Heaviest(tree')
    BY <2>3, CheckFilterShape, SameShapeHeaviest DEF Check
  <2>4. ASSUME Rescan
        PROVE  NoneForgotten(tree') /\ Heaviest(tree')
    BY <2>4, ResetShape, SameShapeHeaviest DEF Rescan
  <2>5. CASE UNCHANGED vars
    BY <2>5 DEF vars
  <2> QED
    BY <2>1, <2>2, <2>3, <2>4, <2>5 DEF Next
<1>3. MInv => MostWork
  BY DEF MostWork, Heaviest
<1>4. Spec => []Inv
  BY <1>0, FollowedAlways
<1> QED
  BY <1>1, <1>2, <1>3, <1>4, PTL DEF Spec

-----------------------------------------------------------------------------
(* The difficulty, where it is never adjusted. *)

\* Networks without retargeting, with a tree that has the header of its anchor.
NoRetarget == ~Retargets /\ "new" \notin Starts

\* The tips carry the bits of their header, and those are the bits of its parent.
BitsKept(t) ==
    /\ \A f \in t.forks \cup {t.tip} : f.next = BitsOf[f.hash]
    /\ \A x \in Known(t) : PrevOf[x] \in Known(t) => BitsOf[x] = BitsOf[PrevOf[x]]

\* A header with the bits asked of it keeps them, with the tips it leaves.
LEMMA GrowBits ==
    ASSUME NoRetarget, NEW t, BitsKept(t), NEW u, NEW h, NEW k, Grown(t, u, h, k, TreeRoot),
           NEW tip, tip.hash = h, Asked(t, h, k, tip.next),
           u.forks \cup {u.tip} \subseteq t.forks \cup {t.tip, tip}
    PROVE  BitsKept(u)
<1>1. Known(u) = Known(t) \cup {h} /\ h \in Hash /\ Known(t) \subseteq Hash
  <2>1. Known(u) = Known(t) \cup {h} /\ h \in Hash
    BY GrowFields
  <2> QED
    BY <2>1 DEF Grown, TreeType
<1>2. PrevOf[h] \in Hash
  <2>1. TreeRoot.hash \in Hash
    BY RootType DEF Grown
  <2> QED
    BY <1>1, <2>1 DEF Grown, Attaches
<1>3. \A c : NextWork(t, k, c) = c
  BY HeaderAssumption DEF NextWork, NoRetarget
<1>4. tip.next = BitsOf[PrevOf[h]]
  BY <1>3 DEF Asked, BitsKept
<1>5. BitsOf[h] = tip.next
  BY <1>2, <1>4, HeaderAssumption DEF Asked, BitsAccepted
<1>6. \A x \in Known(t) : PrevOf[x] # h
  BY <1>1, GrowNoChild
<1>7. PrevOf[h] # h
  BY <1>1, GrowNoChild
<1> QED
  BY <1>1, <1>4, <1>5, <1>6, <1>7 DEF BitsKept

\* accept_header keeps the difficulty, whatever the header.
LEMMA AcceptHeaderBits ==
    ASSUME NoRetarget, NEW t, Sound(t, TreeRoot), NEW h \in Hash, NEW r, r = AcceptHeader(t, h),
           BitsKept(t)
    PROVE  BitsKept(r.tree)
<1>1. Outcome(t, h, r, TreeRoot)
  BY AcceptHeaderCases
<1>2. CASE r.tree = t
  BY <1>2
<1>3. CASE TipExtended(t, r.tree, h, TreeRoot)
  <2>1. PICK k : /\ Grown(t, r.tree, h, k, TreeRoot) /\ r.tree.tip.hash = h
                 /\ Asked(t, h, k, r.tree.tip.next) /\ r.tree.forks = t.forks
    BY <1>3 DEF TipExtended
  <2> QED
    BY <2>1, GrowBits
<1>4. ASSUME NEW others \in SUBSET t.forks, ForkGrown(t, r.tree, h, others, TreeRoot)
      PROVE  BitsKept(r.tree)
  <2>1. PICK k : /\ Grown(t, r.tree, h, k, TreeRoot)
                 /\ \E f : f.hash = h /\ Asked(t, h, k, f.next) /\ r.tree.forks = others \cup {f}
    BY <1>4 DEF ForkGrown
  <2>2. r.tree.tip = t.tip
    BY <1>4 DEF ForkGrown
  <2> QED
    BY <2>1, <2>2, GrowBits
<1>5. ASSUME NEW others \in SUBSET t.forks, ForksAre(t, r.tree, others)
      PROVE  BitsKept(r.tree)
  BY <1>5 DEF ForksAre, BitsKept, Known
<1>6. ASSUME NEW fork \in t.forks, PrevOf[h] = fork.hash,
             NEW s, ForkWins(t, s, h, t.forks \ {fork}, TreeRoot), r = SwitchToFork(s, h)
      PROVE  BitsKept(r.tree)
  <2>1. PICK k : Grown(t, s, h, k, TreeRoot) /\ s.tip.height = k
    BY <1>6 DEF ForkWins
  <2>2. s.tip.hash = h /\ Asked(t, h, k, s.tip.next) /\ s.forks = (t.forks \ {fork}) \cup {t.tip}
    BY <1>6, <2>1 DEF ForkWins
  <2>3. BitsKept(s)
    BY <2>1, <2>2, GrowBits
  <2>4. /\ PrevOf[h] \in Known(t) /\ PrevOf[h] # t.tip.hash
        /\ \A f \in t.forks \ {fork} : f.hash # PrevOf[h]
    BY <1>6 DEF Sound, ForkTips
  <2>5. SameShape(s, r.tree)
    BY <1>6, <2>4, ForkWinsSound, SwitchShape
  <2> QED
    BY <2>3, <2>5 DEF SameShape, BitsKept
<1>7. CASE \E fork \in t.forks : PrevOf[h] = fork.hash /\
             (\/ ForksAre(t, r.tree, t.forks \ {fork})
              \/ ForkGrown(t, r.tree, h, t.forks \ {fork}, TreeRoot)
              \/ \E s : ForkWins(t, s, h, t.forks \ {fork}, TreeRoot) /\ r = SwitchToFork(s, h))
  BY <1>4, <1>5, <1>6, <1>7
<1>8. CASE ForkGrown(t, r.tree, h, t.forks, TreeRoot)
  BY <1>4, <1>8
<1> QED
  BY <1>1, <1>2, <1>3, <1>7, <1>8, Zenon DEF Outcome

\* Where the difficulty is never adjusted and the tree starts with the header of
\* its anchor, each block of the active chain has the bits of its parent, whatever
\* forks and reorganizations there were.
THEOREM DifficultyKept ==
    ASSUME NoRetarget
    PROVE  Spec => []DifficultyFollowed
<1>1. Init => BitsKept(tree)
  <2> SUFFICES ASSUME NEW start \in Starts, tree = StartTree(start)
               PROVE  BitsKept(tree)
    BY DEF Init
  <2>1. tree.tip = Tip(Root, RootHeight, BitsOf[Root]) /\ tree.forks = {} /\ Known(tree) = {Root}
    <3>1. CASE start = "from_header"
      BY <3>1 DEF StartTree, FromHeader, Known
    <3>2. CASE start = "from_genesis"
      BY <3>2, StartAssumption DEF StartTree, FromGenesis, FromHeader, Known
    <3> QED
      BY <3>1, <3>2, StartAssumption DEF NoRetarget, Constructors
  <2>2. PrevOf[Root] # Root
    BY StartAssumption, RankAssumption
  <2> QED
    BY <2>1, <2>2 DEF BitsKept, Tip
<1>2. TreeInv /\ BitsKept(tree) /\ [Next]_vars => BitsKept(tree)'
  <2> SUFFICES ASSUME Sound(tree, TreeRoot), BitsKept(tree), [Next]_vars
               PROVE  BitsKept(tree')
    BY TreeInvSound
  <2>0. SameShape(tree, tree') => BitsKept(tree')
    BY DEF SameShape, BitsKept
  <2>1. ASSUME NEW h \in Hash, Receive(h)
        PROVE  BitsKept(tree')
    BY <2>1, AcceptHeaderBits DEF Receive
  <2>2. ASSUME NEW c \in Commitment, NEW h \in Hash, Commit(c, h)
        PROVE  BitsKept(tree')
    BY <2>0, <2>2, SetCommitmentShape DEF Commit
  <2>3. ASSUME NEW h \in Hash, Check(h)
        PROVE  BitsKept(tree')
    BY <2>0, <2>3, CheckFilterShape DEF Check
  <2>4. ASSUME Rescan
        PROVE  BitsKept(tree')
    BY <2>0, <2>4, ResetShape DEF Rescan
  <2>5. CASE UNCHANGED vars
    BY <2>5 DEF vars
  <2> QED
    BY <2>1, <2>2, <2>3, <2>4, <2>5 DEF Next
<1>3. BitsKept(tree) => DifficultyFollowed
  BY DEF BitsKept, DifficultyFollowed, NoRetarget, MainChain, Walk
<1> QED
  BY <1>1, <1>2, <1>3, TreeInvAlways, PTL DEF Spec
=============================================================================
