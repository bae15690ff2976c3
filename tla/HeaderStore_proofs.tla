-------------------------- MODULE HeaderStore_proofs --------------------------
(***************************************************************************)
(* What HeaderStore promises on every chain of headers: whatever messages  *)
(* arrive and however often the node stops, disk and staged changes make   *)
(* up the active chain, and a node that lost no staged change starts again *)
(* on it.                                                                  *)
(*                                                                         *)
(* Two things are assumed of the headers.  All have one difficulty, so     *)
(* that a higher chain has more work and no stored header is refused.  And *)
(* every header has one height, its distance from the genesis block, which *)
(* is the one that a checkpoint gives.                                     *)
(***************************************************************************)
EXTENDS HeaderStore, TreeShape_proofs, SequenceTheorems

-----------------------------------------------------------------------------
(* Heights *)

\* d gives each header the height of its parent and one, and the checkpoints
\* theirs.
IsDepth(d) ==
    /\ \A h \in Hash : PrevOf[h] \in Hash => d[h] = d[PrevOf[h]] + 1
    /\ \A cp \in Checkpoints : d[cp.hash] = cp.height

TrueHeights == \E d \in [Hash -> Nat] : IsDepth(d)

Depth == CHOOSE d \in [Hash -> Nat] : IsDepth(d)

\* A block named with its height.
Placed(b) == b \in Anchors /\ Depth[b.hash] = b.height

\* Depth is such a height.
LEMMA DepthFacts ==
    ASSUME TrueHeights
    PROVE  /\ Depth \in [Hash -> Nat]
           /\ \A h \in Hash : PrevOf[h] \in Hash => Depth[h] = Depth[PrevOf[h]] + 1
           /\ \A cp \in Checkpoints : Placed(cp)
<1>1. Depth \in [Hash -> Nat] /\ IsDepth(Depth)
  BY DEF TrueHeights, Depth
<1> QED
  BY <1>1, StoreAssumption DEF IsDepth, Placed, Anchors

\* A tree on a block with its true height has the true heights.
LEMMA TrueDepths ==
    ASSUME TrueHeights, NEW root, Placed(root), NEW t, Sound(t, root)
    PROVE  \A x \in Known(t) : HeightOf(t, x) = Depth[x]
<1> DEFINE Bad == {x \in Known(t) : HeightOf(t, x) # Depth[x]}
           T == {Rank[x] : x \in Bad}
<1> SUFFICES ASSUME Bad # {} PROVE FALSE
  OBVIOUS
<1>0. Known(t) \subseteq Hash
  BY DEF Sound, TreeType
<1>1. T \in SUBSET Nat /\ T # {}
  BY <1>0, RankAssumption
<1>2. \E m \in T : \A n \in T : m <= n
  <2> HIDE DEF T
  <2> QED
    BY <1>1, LeastNumber
<1>3. PICK x \in Bad : \A y \in Bad : Rank[x] <= Rank[y]
  BY <1>2
<1>4. x \in Known(t) /\ x \in Hash /\ HeightOf(t, x) # Depth[x]
  BY <1>0, <1>3
<1>5. CASE IsFirst(t, x)
  <2>1. FirstOK(t, x, root)
    BY <1>4, <1>5 DEF Sound, HeadersLinked
  <2> QED
    BY <1>4, <2>1, DepthFacts DEF FirstOK, Placed, Anchors
<1>6. CASE ~IsFirst(t, x)
  <2>1. PrevOf[x] \in Known(t) /\ HeightOf(t, x) = HeightOf(t, PrevOf[x]) + 1
    BY <1>4, <1>6 DEF Sound, HeadersLinked, IsFirst
  <2>2. PrevOf[x] \notin Bad
    BY <1>0, <1>3, <1>4, <2>1, RankAssumption
  <2> QED
    BY <1>0, <1>4, <2>1, <2>2, DepthFacts
<1> QED
  BY <1>5, <1>6

-----------------------------------------------------------------------------
(* Trees and reports *)

\* Known headers are above the block the tree is built on, or are that block.
LEMMA KnownAbove ==
    ASSUME NEW root, NEW t, Sound(t, root), NEW h \in Known(t)
    PROVE  /\ HeightOf(t, h) \in Nat
           /\ root.height <= HeightOf(t, h)
           /\ HeightOf(t, h) = root.height => h = root.hash
<1>0. /\ TreeType(t) /\ HeadersLinked(t, root) /\ root.height \in Nat
      /\ \A x \in Known(t) : HeightOf(t, x) \in Nat
  BY RootType DEF Sound, TreeType, NodeType, HeightOf, Height
<1>1. PICK g \in Known(t) : FirstOK(t, g, root) /\ g \in Ancestry[h]
  BY <1>0 DEF HeadersLinked
<1>2. HeightOf(t, g) \in Nat /\ HeightOf(t, h) \in Nat
  BY <1>0
<1>3. CASE g = h
  BY <1>0, <1>1, <1>2, <1>3 DEF FirstOK
<1>4. CASE g # h
  <2>1. HeightOf(t, g) < HeightOf(t, h)
    BY <1>0, <1>1, <1>4, WalkDescends
  <2> QED
    BY <1>0, <1>1, <1>2, <2>1 DEF FirstOK
<1> QED
  BY <1>3, <1>4

\* The active chain is known and not above its tip.
LEMMA ChainTop ==
    ASSUME NEW root, NEW t, Sound(t, root), NEW x \in MainChain(t)
    PROVE  /\ x \in Known(t) /\ x \in Hash /\ t.tip.hash \in Known(t)
           /\ HeightOf(t, x) <= t.tip.height
<1>1. x \in Known(t) /\ t.tip.hash \in Known(t) /\ x \in Ancestry[t.tip.hash]
  BY DEF MainChain, Walk
<1>2. HeightOf(t, t.tip.hash) = t.tip.height
  BY <1>1 DEF Sound, ForkTips
<1>3. HeightOf(t, x) <= HeightOf(t, t.tip.hash)
  BY <1>1, WalkHeights DEF Sound
<1> QED
  BY <1>1, <1>2, <1>3 DEF Sound, TreeType

\* The active chain has one block at a height.
LEMMA ChainUnique ==
    ASSUME NEW root, NEW t, Sound(t, root), NEW x \in MainChain(t), NEW y \in MainChain(t),
           HeightOf(t, x) = HeightOf(t, y)
    PROVE  x = y
<1>1. t.tip.hash \in Known(t)
  BY ChainTop
<1> QED
  BY <1>1, WalkUnique DEF Sound, MainChain

\* Going down the active chain leads to the block the tree is built on.
LEMMA ChainLinks ==
    ASSUME NEW root, NEW t, Sound(t, root), NEW x \in MainChain(t), HeightOf(t, x) > root.height
    PROVE  \/ PrevOf[x] = root.hash /\ HeightOf(t, x) = root.height + 1
           \/ PrevOf[x] \in MainChain(t) /\ HeightOf(t, x) = HeightOf(t, PrevOf[x]) + 1
<1>1. /\ x \in Known(t) /\ x \in Hash /\ t.tip.hash \in Known(t)
      /\ t.tip.hash \in Hash /\ x \in Ancestry[t.tip.hash]
      /\ root.height \in Nat
  BY ChainTop, RootType DEF MainChain, Walk, Sound, TreeType
<1>2. CASE IsFirst(t, x)
  <2>1. FirstOK(t, x, root)
    BY <1>1, <1>2 DEF Sound, HeadersLinked
  <2> QED
    BY <1>1, <2>1 DEF FirstOK
<1>3. CASE ~IsFirst(t, x)
  <2>1. PrevOf[x] \in Known(t) /\ HeightOf(t, x) = HeightOf(t, PrevOf[x]) + 1
    BY <1>1, <1>3 DEF Sound, HeadersLinked, IsFirst
  <2>2. PrevOf[x] \in Hash
    BY <2>1 DEF Sound, TreeType
  <2>3. PrevOf[x] \in Ancestry[t.tip.hash]
    BY <1>1, <2>2, AncestryClosed DEF PrevClosed
  <2> QED
    BY <1>1, <2>1, <2>3 DEF MainChain, Walk
<1> QED
  BY <1>2, <1>3

\* A header that is not taken disconnects nothing.
LEMMA AcceptHeaderQuiet ==
    ASSUME NEW t, NEW h, AcceptHeader(t, h).changes.kind \in {"InvalidPow", "Duplicate", "UnknownPrevHash"}
    PROVE  AcceptHeader(t, h).changes.disconnected = {}
<1> USE DEF Change, Unaccepted
<1>1. ExtendTip(t, h).changes.disconnected = {}
  BY DEF ExtendTip
<1>2. CreateFork(t, h).changes.disconnected = {}
  BY DEF CreateFork
<1>3. ASSUME NEW f, ExtendFork(t, h, f).changes.kind # "Reorganization"
      PROVE  ExtendFork(t, h, f).changes.disconnected = {}
  BY <1>3 DEF ExtendFork, SwitchToFork
<1> QED
  BY <1>1, <1>2, <1>3 DEF AcceptHeader

\* What the report c says of the way from t to u: the chain of u is that of t
\* without the disconnected and with the accepted blocks, and each disconnected
\* block has given way to one at its height.
Reports(t, u, c) ==
    /\ c.kind \in {"Accepted", "Reorganization"} =>
        /\ MainChain(u) = (MainChain(t) \ c.disconnected) \cup c.accepted
        /\ \A z \in c.disconnected :
            z \in Known(u) /\ \E y \in c.accepted : HeightOf(u, y) = HeightOf(u, z)
    /\ c.kind \notin {"Accepted", "Reorganization"} => MainChain(u) = MainChain(t)
    /\ c.kind # "Reorganization" => c.disconnected = {}

\* The block the tree is built on does not join it later.
LEMMA GrownIsNotRoot ==
    ASSUME NEW root, NEW t, NEW u, NEW h, NEW k, Grown(t, u, h, k, root)
    PROVE  h # root.hash
<1>1. Rank[root.hash] < Rank[h] /\ h \in Hash
  BY GrowNoChild, GrowFields
<1> QED
  BY <1>1, RankAssumption

\* A reorganization reports so.
LEMMA ForkWinsReports ==
    ASSUME NEW root, NEW t, Sound(t, root), NEW h \in Hash, NEW fork \in t.forks,
           PrevOf[h] = fork.hash, NEW s, ForkWins(t, s, h, t.forks \ {fork}, root),
           NEW r, r = SwitchToFork(s, h), Indexed(t, root)
    PROVE  /\ r.changes.kind = "Reorganization"
           /\ Known(r.tree) = Known(t) \cup {h} /\ h # root.hash
           /\ \A z \in r.changes.disconnected :
                z \in Known(r.tree)
                /\ \E y \in r.changes.accepted : HeightOf(r.tree, y) = HeightOf(r.tree, z)
<1>1. /\ PrevOf[h] \in Known(t) /\ PrevOf[h] # t.tip.hash
      /\ \A f \in t.forks \ {fork} : f.hash # PrevOf[h]
  BY DEF Sound, ForkTips
<1>2. Sound(s, root)
  BY <1>1, ForkWinsSound
<1>3. PICK k : Grown(t, s, h, k, root)
  BY DEF ForkWins
<1>4. /\ Known(s) = Known(t) \cup {h}
      /\ \A x \in Known(t) : HeightOf(s, x) = HeightOf(t, x)
      /\ h # root.hash
  BY <1>3, GrowHeights, GrownIsNotRoot
<1>5. /\ r.tree.headers = s.headers
      /\ r.changes = Change("Reorganization", Reconnected(s, h),
                       {s.canonical[j] : j \in {HeightOf(s, x) : x \in Reconnected(s, h)}
                                               \cap DOMAIN s.canonical} \cap Known(s))
  BY <1>2, SwitchCase DEF Sound
<1>6. /\ Known(r.tree) = Known(s) /\ \A x : HeightOf(r.tree, x) = HeightOf(s, x)
  BY <1>5 DEF Known, HeightOf
<1>7. s.canonical = t.canonical
  BY DEF ForkWins
<1>8. /\ r.changes.kind = "Reorganization" /\ r.changes.accepted = Reconnected(s, h)
      /\ r.changes.disconnected =
            {s.canonical[j] : j \in {HeightOf(s, x) : x \in Reconnected(s, h)}
                                    \cap DOMAIN s.canonical} \cap Known(s)
  BY <1>5 DEF Change
<1>9. ASSUME NEW z \in r.changes.disconnected
      PROVE  z \in Known(r.tree)
             /\ \E y \in r.changes.accepted : HeightOf(r.tree, y) = HeightOf(r.tree, z)
  <2>1. PICK x \in Reconnected(s, h) :
           HeightOf(s, x) \in DOMAIN s.canonical /\ z = s.canonical[HeightOf(s, x)]
    BY <1>8, <1>9
  <2>2. z \in MainChain(t) /\ HeightOf(t, z) = HeightOf(s, x)
    BY <1>7, <2>1 DEF Indexed
  <2>3. z \in Known(t)
    BY <2>2 DEF MainChain, Walk
  <2> QED
    BY <1>4, <1>6, <1>8, <2>1, <2>2, <2>3
<1> QED
  BY <1>4, <1>6, <1>8, <1>9

\* accept_header reports so, adds no header but h and leaves the heights alone.
LEMMA AcceptHeaderReports ==
    ASSUME UniformWork, NEW root, NEW t, Sound(t, root), Followed(t, MainChain(t), root),
           NEW h \in Hash, NEW r, r = AcceptHeader(t, h)
    PROVE  /\ Sound(r.tree, root) /\ Followed(r.tree, MainChain(r.tree), root)
           /\ Known(t) \subseteq Known(r.tree) /\ Known(r.tree) \subseteq Known(t) \cup {h}
           /\ root.hash \in Known(r.tree) => root.hash \in Known(t)
           /\ Reports(t, r.tree, r.changes)
<1>1. Sound(r.tree, root)
  BY AcceptHeaderSound
<1>2. Followed(r.tree, ApplyReport(MainChain(t), r.changes), root)
  BY AcceptHeaderFollowed
<1>3. /\ Followed(r.tree, MainChain(r.tree), root)
      /\ MainChain(r.tree) = ApplyReport(MainChain(t), r.changes)
  BY <1>2 DEF Followed
<1>4. Outcome(t, h, r, root)
  BY AcceptHeaderCases
<1> DEFINE Rest(d) == /\ root.hash \in Known(r.tree) => root.hash \in Known(t)
                      /\ Known(t) \subseteq Known(r.tree) /\ Known(r.tree) \subseteq Known(t) \cup {h}
                      /\ \A z \in d : z \in Known(r.tree)
                           /\ \E y \in r.changes.accepted : HeightOf(r.tree, y) = HeightOf(r.tree, z)
                      /\ r.changes.kind # "Reorganization" => d = {}
           Goal == Rest(r.changes.disconnected)
<1>5. ASSUME r.tree = t, r.changes.kind \in {"InvalidPow", "Duplicate", "UnknownPrevHash"}
      PROVE  Goal
  <2>1. r.changes.disconnected = {}
    BY <1>5, AcceptHeaderQuiet
  <2> QED
    BY <1>5, <2>1
<1>6. ASSUME TipExtended(t, r.tree, h, root), r.changes = Change("Accepted", {h}, {})
      PROVE  Goal
  <2>1. Known(r.tree) = Known(t) \cup {h} /\ h # root.hash
    BY <1>6, GrowFields, GrownIsNotRoot DEF TipExtended
  <2> QED
    BY <1>6, <2>1 DEF Change
<1>7. ASSUME NEW others, ForkGrown(t, r.tree, h, others, root),
             r.changes = Change("ExtendedFork", {h}, {})
      PROVE  Goal
  <2>1. Known(r.tree) = Known(t) \cup {h} /\ h # root.hash
    BY <1>7, GrowFields, GrownIsNotRoot DEF ForkGrown
  <2> QED
    BY <1>7, <2>1 DEF Change
<1>8. ASSUME NEW fork \in t.forks, PrevOf[h] = fork.hash,
             \/ ForksAre(t, r.tree, t.forks \ {fork}) /\ r.changes = Unaccepted("InvalidPow")
             \/ ForkGrown(t, r.tree, h, t.forks \ {fork}, root)
                /\ r.changes = Change("ExtendedFork", {h}, {})
             \/ \E s : ForkWins(t, s, h, t.forks \ {fork}, root) /\ r = SwitchToFork(s, h)
      PROVE  Goal
  <2>1. CASE ForksAre(t, r.tree, t.forks \ {fork}) /\ r.changes = Unaccepted("InvalidPow")
    <3>1. Known(r.tree) = Known(t)
      BY <2>1 DEF ForksAre, Known
    <3> QED
      BY <2>1, <3>1 DEF Change, Unaccepted
  <2>2. ASSUME NEW s, ForkWins(t, s, h, t.forks \ {fork}, root), r = SwitchToFork(s, h)
        PROVE  Goal
    <3>1. Indexed(t, root)
      BY DEF Followed
    <3> QED
      BY <1>8, <2>2, <3>1, ForkWinsReports
  <2> QED
    BY <1>7, <1>8, <2>1, <2>2
<1>9. Goal
  <2> HIDE DEF Goal
  <2> QED
    BY <1>4, <1>5, <1>6, <1>7, <1>8, Zenon DEF Outcome
<1>10. Reports(t, r.tree, r.changes)
  BY <1>3, <1>9 DEF Reports, ApplyReport
<1> QED
  BY <1>1, <1>3, <1>9, <1>10

-----------------------------------------------------------------------------
(* Tables *)

\* A table of headers, each at its height, and a highest of them.
Table(rows) ==
    /\ DOMAIN rows \subseteq Nat
    /\ rows \in [DOMAIN rows -> Hash]
    /\ \A k \in DOMAIN rows : Depth[rows[k]] = k
    /\ \E n \in Nat : \A k \in DOMAIN rows : k <= n

Has(rows, x) == Depth[x] \in DOMAIN rows /\ rows[Depth[x]] = x

\* Staged changes.
Staging(s) ==
    /\ s = [accepted |-> s.accepted, disconnected |-> s.disconnected]
    /\ Table(s.accepted)
    /\ s.disconnected \subseteq Hash

\* Overwriting a table makes a table.
LEMMA OverwriteTable ==
    ASSUME NEW rows, Table(rows), NEW new, Table(new)
    PROVE  Table(Overwrite(rows, new))
<1> DEFINE o == Overwrite(rows, new)
<1>1. /\ DOMAIN o = DOMAIN rows \cup DOMAIN new
      /\ \A k \in DOMAIN new : o[k] = new[k]
      /\ \A k \in DOMAIN rows \ DOMAIN new : o[k] = rows[k]
      /\ o = [k \in DOMAIN o |-> o[k]]
  BY DEF Overwrite
<1> HIDE DEF o
<1>2. PICK m \in Nat : \A k \in DOMAIN rows : k <= m
  BY DEF Table
<1>3. PICK n \in Nat : \A k \in DOMAIN new : k <= n
  BY DEF Table
<1>4. \A k \in DOMAIN o : k <= m + n
  BY <1>1, <1>2, <1>3 DEF Table
<1>5. /\ DOMAIN o \subseteq Nat /\ \A k \in DOMAIN o : o[k] \in Hash /\ Depth[o[k]] = k
  BY <1>1 DEF Table
<1>6. o \in [DOMAIN o -> Hash]
  BY <1>1, <1>5
<1>7. \E j \in Nat : \A k \in DOMAIN o : k <= j
  BY <1>4
<1>8. Table(o)
  BY <1>5, <1>6, <1>7 DEF Table
<1> QED
  BY <1>8 DEF o

\* So does deleting rows.
LEMMA WithoutTable ==
    ASSUME NEW rows, Table(rows), NEW gone
    PROVE  Table(Without(rows, gone))
<1> DEFINE o == Without(rows, gone)
<1>1. /\ DOMAIN o \subseteq DOMAIN rows
      /\ \A k \in DOMAIN o : o[k] = rows[k]
      /\ o = [k \in DOMAIN o |-> o[k]]
  BY DEF Without
<1> HIDE DEF o
<1>2. PICK m \in Nat : \A k \in DOMAIN rows : k <= m
  BY DEF Table
<1>3. /\ DOMAIN o \subseteq Nat /\ \A k \in DOMAIN o : o[k] \in Hash /\ Depth[o[k]] = k
  BY <1>1 DEF Table
<1>4. o \in [DOMAIN o -> Hash]
  BY <1>1, <1>3
<1>5. \E j \in Nat : \A k \in DOMAIN o : k <= j
  BY <1>1, <1>2
<1>6. Table(o)
  BY <1>3, <1>4, <1>5 DEF Table
<1> QED
  BY <1>6 DEF o

\* So does a write.
LEMMA WrittenTable ==
    ASSUME NEW rows, Table(rows), NEW s, Staging(s)
    PROVE  Table(Written(rows, s))
BY OverwriteTable, WithoutTable DEF Written, Staging

\* Blocks of the active chain as rows.
LEMMA RowsTable ==
    ASSUME TrueHeights, NEW root, Placed(root), NEW t, Sound(t, root),
           NEW S \in SUBSET MainChain(t)
    PROVE  /\ Table(Rows(t, S))
           /\ DOMAIN Rows(t, S) = {Depth[x] : x \in S}
           /\ \A x \in S : Rows(t, S)[Depth[x]] = x
           /\ \A k \in DOMAIN Rows(t, S) : Rows(t, S)[k] \in S
<1> DEFINE rows == Rows(t, S)
<1>1. \A x \in S : /\ x \in Known(t) /\ x \in Hash /\ HeightOf(t, x) = Depth[x]
                   /\ HeightOf(t, x) <= t.tip.height
  BY ChainTop, TrueDepths
<1>2. /\ DOMAIN rows = {HeightOf(t, x) : x \in S}
      /\ \A k \in DOMAIN rows : rows[k] = CHOOSE x \in S : HeightOf(t, x) = k
      /\ rows = [k \in DOMAIN rows |-> rows[k]]
  BY DEF Rows
<1> HIDE DEF rows
<1>3. DOMAIN rows = {Depth[x] : x \in S}
  BY <1>1, <1>2
<1>4. \A k \in DOMAIN rows : rows[k] \in S /\ HeightOf(t, rows[k]) = k
  BY <1>2
<1>5. \A x \in S : rows[Depth[x]] = x
  <2> TAKE x \in S
  <2>1. Depth[x] \in DOMAIN rows
    BY <1>3
  <2>2. rows[Depth[x]] \in S /\ HeightOf(t, rows[Depth[x]]) = HeightOf(t, x)
    BY <1>1, <1>4, <2>1
  <2> QED
    BY <2>2, ChainUnique
<1>6. \A k \in DOMAIN rows : /\ k \in Nat /\ k <= t.tip.height
                             /\ rows[k] \in Hash /\ Depth[rows[k]] = k
  <2> TAKE k \in DOMAIN rows
  <2>1. rows[k] \in Hash /\ HeightOf(t, rows[k]) = Depth[rows[k]] /\ k <= t.tip.height
    BY <1>1, <1>4
  <2> QED
    BY <1>4, <2>1, DepthFacts
<1>7. t.tip.height \in Nat
  BY DEF Sound, TreeType, TipType, Height
<1>8. rows \in [DOMAIN rows -> Hash] /\ DOMAIN rows \subseteq Nat
  BY <1>2, <1>6
<1>9. \E n \in Nat : \A k \in DOMAIN rows : k <= n
  BY <1>6, <1>7
<1>10. Table(rows)
  BY <1>6, <1>8, <1>9 DEF Table
<1> QED
  BY <1>3, <1>4, <1>5, <1>10 DEF rows

\* Staging a report and writing is writing and then putting the accepted blocks
\* in: what a reorganization disconnects is at heights that it fills again, be
\* it on disk, staged since or both.
LEMMA StageWritten ==
    ASSUME TrueHeights, UniformWork, NEW root, Placed(root), NEW t, Sound(t, root),
           NEW u, Sound(u, root), NEW c, Reports(t, u, c),
           NEW rows, Table(rows), NEW s, Staging(s)
    PROVE  /\ Staging(Stage(s, u, c))
           /\ Written(rows, Stage(s, u, c)) =
                IF c.kind \in {"Accepted", "Reorganization"}
                THEN Overwrite(Written(rows, s), Rows(u, c.accepted))
                ELSE Written(rows, s)
<1> DEFINE new == Rows(u, c.accepted)
<1>0. c.kind \notin {"Accepted", "Reorganization"} => Stage(s, u, c) = s
  BY DEF Stage
<1>1. ASSUME c.kind \in {"Accepted", "Reorganization"}
      PROVE  /\ c.accepted \in SUBSET MainChain(u)
             /\ Table(new) /\ DOMAIN new = {Depth[x] : x \in c.accepted}
             /\ \A z \in c.disconnected : z \in Hash /\ Depth[z] \in DOMAIN new
  <2>1. c.accepted \in SUBSET MainChain(u)
    BY <1>1 DEF Reports
  <2>2. Table(new) /\ DOMAIN new = {Depth[x] : x \in c.accepted}
    BY <2>1, RowsTable
  <2>3. ASSUME NEW z \in c.disconnected
        PROVE  z \in Hash /\ Depth[z] \in DOMAIN new
    <3>1. PICK y \in c.accepted : HeightOf(u, y) = HeightOf(u, z)
      BY <1>1, <2>3 DEF Reports
    <3>2. z \in Known(u) /\ y \in Known(u)
      BY <1>1, <2>1, <2>3, ChainTop DEF Reports
    <3>3. Depth[z] = Depth[y] /\ z \in Hash
      BY <3>1, <3>2, TrueDepths DEF Sound, TreeType
    <3> QED
      BY <2>2, <3>3
  <2> QED
    BY <2>1, <2>2, <2>3
<1> HIDE DEF new
<1>2. CASE c.kind = "Accepted"
  <2>1. /\ Stage(s, u, c) = [s EXCEPT !.accepted = Overwrite(@, new)]
        /\ Table(new)
    BY <1>1, <1>2 DEF Stage, new
  <2> DEFINE a == Overwrite(s.accepted, new)
  <2>2. Stage(s, u, c) = [accepted |-> a, disconnected |-> s.disconnected]
    BY <2>1 DEF Staging
  <2>3. Table(a)
    BY <2>1, OverwriteTable DEF Staging
  <2>4. Overwrite(Without(rows, s.disconnected), a) = Overwrite(Written(rows, s), new)
    BY DEF Overwrite, Written
  <2> HIDE DEF a
  <2> QED
    BY <1>2, <2>2, <2>3, <2>4 DEF Staging, Written, new
<1>3. CASE c.kind = "Reorganization"
  <2> DEFINE kept == Without(s.accepted, c.disconnected)
             a == Overwrite(kept, new)
             d == s.disconnected \cup c.disconnected
             old == Without(rows, s.disconnected)
             left == Without(rows, d)
  <2>1. Stage(s, u, c) = [accepted |-> a, disconnected |-> d]
    BY <1>3 DEF Stage, new
  <2>2. Table(a) /\ d \subseteq Hash
    BY <1>1, <1>3, OverwriteTable, WithoutTable DEF Staging
  <2>3. /\ DOMAIN kept = {k \in DOMAIN s.accepted : s.accepted[k] \notin c.disconnected}
        /\ \A k \in DOMAIN kept : kept[k] = s.accepted[k]
        /\ DOMAIN old = {k \in DOMAIN rows : rows[k] \notin s.disconnected}
        /\ \A k \in DOMAIN old : old[k] = rows[k]
        /\ DOMAIN left = {k \in DOMAIN rows : rows[k] \notin d}
        /\ \A k \in DOMAIN left : left[k] = rows[k]
    BY DEF Without
  <2>4. /\ \A k \in DOMAIN s.accepted \ DOMAIN new : k \in DOMAIN kept
        /\ \A k \in DOMAIN old \ DOMAIN new : k \in DOMAIN left
    BY <1>1, <1>3, <2>3 DEF Staging, Table
  <2> HIDE DEF kept, old, left
  <2>5. DOMAIN left \subseteq DOMAIN old /\ DOMAIN kept \subseteq DOMAIN s.accepted
    BY <2>3
  <2>6. Overwrite(left, a) = Overwrite(Overwrite(old, s.accepted), new)
    <3> DEFINE p == Overwrite(left, a)
               q == Overwrite(Overwrite(old, s.accepted), new)
    <3>1. DOMAIN p = DOMAIN q
      BY <2>4, <2>5 DEF Overwrite
    <3>2. ASSUME NEW k \in DOMAIN p PROVE p[k] = q[k]
      <4>1. CASE k \in DOMAIN new
        BY <3>1, <3>2, <4>1 DEF Overwrite
      <4>2. CASE k \notin DOMAIN new /\ k \in DOMAIN s.accepted
        <5>1. k \in DOMAIN kept /\ kept[k] = s.accepted[k]
          BY <2>3, <2>4, <4>2
        <5> QED
          BY <3>1, <3>2, <4>2, <5>1 DEF Overwrite
      <4>3. CASE k \notin DOMAIN new /\ k \notin DOMAIN s.accepted
        <5>1. k \notin DOMAIN kept
          BY <2>5, <4>3
        <5>2. k \in DOMAIN left /\ k \in DOMAIN old /\ left[k] = old[k]
          BY <2>3, <2>5, <3>2, <4>3, <5>1 DEF Overwrite
        <5> QED
          BY <3>1, <3>2, <4>3, <5>1, <5>2 DEF Overwrite
      <4> QED
        BY <4>1, <4>2, <4>3
    <3>3. p = [k \in DOMAIN p |-> p[k]] /\ q = [k \in DOMAIN q |-> q[k]]
      BY DEF Overwrite
    <3> HIDE DEF p, q
    <3>4. p = q
      BY <3>1, <3>2, <3>3
    <3> QED
      BY <3>4 DEF p, q
  <2>7. Written(rows, s) = Overwrite(old, s.accepted)
    BY DEF Written, old
  <2>8. Written(rows, Stage(s, u, c)) = Overwrite(left, a)
    BY <2>1 DEF Written, left
  <2> HIDE DEF a, d
  <2> QED
    BY <1>3, <2>1, <2>2, <2>6, <2>7, <2>8 DEF Staging, new
<1> QED
  BY <1>0, <1>2, <1>3

-----------------------------------------------------------------------------
(* The loop of sync_chain *)

\* A tree with its active chain, on a block with its true height.
TreeOn(t, b) == Placed(b) /\ Sound(t, b) /\ Followed(t, MainChain(t), b)

\* Above b the rows are the active chain.
Complete(t, b, rows) ==
    /\ \A x \in MainChain(t) : Depth[x] > b.height => Has(rows, x)
    /\ \A k \in DOMAIN rows : k > b.height => rows[k] \in MainChain(t)

\* A tree that has the header of b was loaded from a store that has it.
BaseHeld(t, b, rows) == b.hash \in Known(t) => Has(rows, b.hash)

\* Two tables agree up to height n.
SameUpTo(rows, other, n) ==
    \A k \in Nat : k <= n =>
        /\ k \in DOMAIN rows <=> k \in DOMAIN other
        /\ k \in DOMAIN rows => rows[k] = other[k]

\* Known headers of such a tree, by their depth.
LEMMA DepthAbove ==
    ASSUME TrueHeights, NEW t, NEW b, TreeOn(t, b), NEW x \in Known(t)
    PROVE  /\ x \in Hash /\ Depth[x] \in Nat /\ b.height \in Nat
           /\ HeightOf(t, x) = Depth[x]
           /\ b.height <= Depth[x]
           /\ Depth[x] = b.height => x = b.hash
<1>1. Sound(t, b) /\ Placed(b)
  BY DEF TreeOn
<1>2. HeightOf(t, x) = Depth[x]
  BY <1>1, TrueDepths
<1> QED
  BY <1>1, <1>2, KnownAbove, RootType DEF Sound, TreeType

\* One header, accepted and staged.
LEMMA AcceptStages ==
    ASSUME TrueHeights, UniformWork, NEW b, NEW t, TreeOn(t, b), NEW h \in Hash,
           NEW r, r = AcceptHeader(t, h), NEW rows, Table(rows), NEW s, Staging(s)
    PROVE  LET s2  == Stage(s, r.tree, r.changes)
               old == Written(rows, s)
               new == Written(rows, s2)
           IN  /\ TreeOn(r.tree, b) /\ Staging(s2)
               /\ Complete(t, b, old) /\ BaseHeld(t, b, old) =>
                    /\ Complete(r.tree, b, new) /\ BaseHeld(r.tree, b, new)
                    /\ SameUpTo(old, new, b.height)
               /\ \A x \in MainChain(t) :
                    x \in r.changes.disconnected \/ x \in MainChain(r.tree)
<1> DEFINE s2  == Stage(s, r.tree, r.changes)
           old == Written(rows, s)
           new == Written(rows, s2)
           u == r.tree
           c == r.changes
<1>1. Placed(b) /\ Sound(t, b)
  BY DEF TreeOn
<1>2. /\ TreeOn(u, b) /\ Sound(u, b)
      /\ b.hash \in Known(u) => b.hash \in Known(t)
      /\ Reports(t, u, c)
  BY AcceptHeaderReports DEF TreeOn
<1>3. /\ Staging(s2)
      /\ new = IF c.kind \in {"Accepted", "Reorganization"}
               THEN Overwrite(old, Rows(u, c.accepted)) ELSE old
  BY <1>1, <1>2, StageWritten
<1>4. Table(old)
  BY WrittenTable
<1>5. \A x \in MainChain(t) : x \in c.disconnected \/ x \in MainChain(u)
  BY <1>2 DEF Reports
<1> HIDE DEF s2, old, new, u, c
<1>6. CASE c.kind \notin {"Accepted", "Reorganization"}
  <2>1. new = old /\ MainChain(u) = MainChain(t)
    BY <1>2, <1>3, <1>6 DEF Reports
  <2> QED
    BY <1>2, <1>3, <1>5, <2>1 DEF Complete, BaseHeld, SameUpTo, s2, old, new, u, c
<1>7. CASE c.kind \in {"Accepted", "Reorganization"}
  <2> DEFINE add == Rows(u, c.accepted)
  <2>1. /\ MainChain(u) = (MainChain(t) \ c.disconnected) \cup c.accepted
        /\ \A z \in c.disconnected :
            z \in Known(u) /\ \E y \in c.accepted : HeightOf(u, y) = HeightOf(u, z)
    BY <1>2, <1>7 DEF Reports
  <2>2. /\ DOMAIN add = {Depth[x] : x \in c.accepted}
        /\ \A x \in c.accepted : add[Depth[x]] = x
        /\ \A k \in DOMAIN add : add[k] \in c.accepted /\ Depth[add[k]] = k
    <3>1. c.accepted \in SUBSET MainChain(u)
      BY <2>1
    <3>2. /\ Table(add) /\ DOMAIN add = {Depth[x] : x \in c.accepted}
          /\ \A x \in c.accepted : add[Depth[x]] = x
          /\ \A k \in DOMAIN add : add[k] \in c.accepted
      BY <1>1, <1>2, <3>1, RowsTable
    <3> HIDE DEF add
    <3> QED
      BY <3>2 DEF Table
  <2> HIDE DEF add
  <2>3. /\ DOMAIN new = DOMAIN old \cup DOMAIN add
        /\ \A k \in DOMAIN add : new[k] = add[k]
        /\ \A k \in DOMAIN old \ DOMAIN add : new[k] = old[k]
    <3>1. new = Overwrite(old, add)
      BY <1>3, <1>7 DEF add
    <3> QED
      BY <3>1 DEF Overwrite
  <2>4. \A x \in MainChain(u) : x \in Known(u)
    BY <1>2, ChainTop
  <2>5. ASSUME Complete(t, b, old), BaseHeld(t, b, old)
        PROVE  /\ Complete(u, b, new) /\ BaseHeld(u, b, new)
               /\ SameUpTo(old, new, b.height)
    <3>1. ASSUME NEW x \in MainChain(u), Depth[x] > b.height
          PROVE  Has(new, x)
      <4>1. CASE x \in c.accepted
        BY <2>2, <2>3, <4>1 DEF Has
      <4>2. CASE x \notin c.accepted
        <5>1. x \in MainChain(t) /\ Has(old, x)
          BY <2>1, <2>5, <3>1, <4>2 DEF Complete
        <5>2. Depth[x] \notin DOMAIN add
          <6> SUFFICES ASSUME Depth[x] \in DOMAIN add PROVE FALSE
            OBVIOUS
          <6>1. PICK y \in c.accepted : Depth[y] = Depth[x]
            BY <2>2
          <6>2. y \in MainChain(u) /\ HeightOf(u, y) = HeightOf(u, x)
            BY <1>2, <2>1, <2>4, <3>1, <6>1, DepthAbove
          <6> QED
            BY <1>2, <3>1, <4>2, <6>1, <6>2, ChainUnique
        <5> QED
          BY <2>3, <5>1, <5>2 DEF Has
      <4> QED
        BY <4>1, <4>2
    <3>2. ASSUME NEW k \in DOMAIN new, k > b.height
          PROVE  new[k] \in MainChain(u)
      <4>1. CASE k \in DOMAIN add
        BY <2>1, <2>2, <2>3, <4>1
      <4>2. CASE k \notin DOMAIN add
        <5>1. k \in DOMAIN old /\ new[k] = old[k] /\ old[k] \in MainChain(t)
          BY <2>3, <2>5, <3>2, <4>2 DEF Complete
        <5>2. old[k] \notin c.disconnected
          <6> SUFFICES ASSUME old[k] \in c.disconnected PROVE FALSE
            OBVIOUS
          <6>1. PICK y \in c.accepted : HeightOf(u, y) = HeightOf(u, old[k])
            BY <2>1
          <6>2. Depth[y] = Depth[old[k]]
            BY <1>2, <2>1, <2>4, <6>1, DepthAbove
          <6>3. Depth[old[k]] = k
            BY <1>4, <5>1 DEF Table
          <6> QED
            BY <2>2, <4>2, <6>2, <6>3
        <5> QED
          BY <2>1, <5>1, <5>2
      <4> QED
        BY <4>1, <4>2
    <3>3. ASSUME NEW k \in DOMAIN add, k <= b.height
          PROVE  /\ k = b.height /\ add[k] = b.hash
                 /\ k \in DOMAIN old /\ old[k] = b.hash
      <4>1. add[k] \in Known(u) /\ Depth[add[k]] = k
        BY <2>1, <2>2, <2>4, <3>3
      <4>2. add[k] = b.hash /\ k = b.height
        BY <1>2, <3>3, <4>1, DepthAbove
      <4>3. Has(old, b.hash)
        BY <1>2, <2>5, <4>1, <4>2 DEF BaseHeld
      <4> QED
        BY <4>1, <4>2, <4>3 DEF Has
    <3>4. SameUpTo(old, new, b.height)
      BY <2>3, <3>3 DEF SameUpTo
    <3>5. BaseHeld(u, b, new)
      <4> SUFFICES ASSUME b.hash \in Known(u) PROVE Has(new, b.hash)
        BY DEF BaseHeld
      <4>1. Has(old, b.hash) /\ Depth[b.hash] = b.height /\ b.height \in Nat
        BY <1>1, <1>2, <2>5 DEF BaseHeld, Placed, Anchors, Height
      <4> QED
        BY <3>4, <4>1 DEF Has, SameUpTo
    <3> QED
      BY <3>1, <3>2, <3>4, <3>5 DEF Complete
  <2> QED
    BY <1>2, <1>3, <1>5, <2>5 DEF s2, old, new, u, c
<1> QED
  BY <1>6, <1>7

\* After some headers of a message that found the tree t and the changes s staged.
RunInv(run, t, s, rows, b) ==
    LET old == Written(rows, s)
        new == Written(rows, run.staged)
    IN  /\ TreeOn(run.tree, b) /\ Staging(run.staged)
        /\ Complete(t, b, old) /\ BaseHeld(t, b, old) =>
            /\ Complete(run.tree, b, new) /\ BaseHeld(run.tree, b, new)
            /\ SameUpTo(old, new, b.height)
        /\ \A x \in MainChain(t) : x \in run.gone \/ x \in MainChain(run.tree)

\* One header of a message.
LEMMA AcceptNextKeeps ==
    ASSUME TrueHeights, UniformWork, NEW b, NEW t, NEW s, NEW rows, Table(rows),
           NEW run, RunInv(run, t, s, rows, b), NEW h \in Hash, NEW cp
    PROVE  RunInv(AcceptNext(run, h, cp), t, s, rows, b)
<1> DEFINE r == AcceptHeader(run.tree, h)
           s2 == Stage(run.staged, r.tree, r.changes)
           n == AcceptNext(run, h, cp)
           old == Written(rows, s)
           mid == Written(rows, run.staged)
           new == Written(rows, s2)
<1>1. CASE ~run.ok
  <2>1. n = run
    BY <1>1 DEF AcceptNext
  <2> QED
    BY <2>1
<1>2. CASE run.ok
  <2>1. n.tree = r.tree /\ n.staged = s2 /\ n.gone = run.gone \cup r.changes.disconnected
    BY <1>2 DEF AcceptNext, Told
  <2>2. TreeOn(run.tree, b) /\ Staging(run.staged)
    BY DEF RunInv
  <2>3. /\ TreeOn(r.tree, b) /\ Staging(s2)
        /\ Complete(run.tree, b, mid) /\ BaseHeld(run.tree, b, mid) =>
             /\ Complete(r.tree, b, new) /\ BaseHeld(r.tree, b, new)
             /\ SameUpTo(mid, new, b.height)
        /\ \A x \in MainChain(run.tree) :
             x \in r.changes.disconnected \/ x \in MainChain(r.tree)
    BY <2>2, AcceptStages
  <2>4. /\ Complete(t, b, old) /\ BaseHeld(t, b, old) =>
             /\ Complete(run.tree, b, mid) /\ BaseHeld(run.tree, b, mid)
             /\ SameUpTo(old, mid, b.height)
        /\ \A x \in MainChain(t) : x \in run.gone \/ x \in MainChain(run.tree)
    BY DEF RunInv
  <2> HIDE DEF n, r, s2, old, mid, new
  <2>5. SameUpTo(old, mid, b.height) /\ SameUpTo(mid, new, b.height)
            => SameUpTo(old, new, b.height)
    BY DEF SameUpTo
  <2>6. RunInv(n, t, s, rows, b)
    BY <2>1, <2>3, <2>4, <2>5 DEF RunInv, old, new
  <2> QED
    BY <2>6 DEF n
<1> QED
  BY <1>1, <1>2

\* All headers of a message.
LEMMA AcceptedKeeps ==
    ASSUME TrueHeights, UniformWork, NEW b, NEW t, TreeOn(t, b), NEW s, Staging(s),
           NEW rows, Table(rows), NEW cps, NEW msg \in Seq(Hash)
    PROVE  RunInv(Accepted(t, s, cps, msg), t, s, rows, b)
<1> DEFINE n == Len(msg)
           first == [tree |-> t, staged |-> s, gone |-> {}, cps |-> cps,
                     crossed |-> FALSE, ok |-> TRUE]
           Val(g, i) == IF i = 0 THEN first
                        ELSE AcceptNext(g[i - 1], msg[i], NextCheckpoint(cps))
           Def(g) == [i \in 0 .. n |-> Val(g, i)]
           S == {m \in Nat : \E g : \A i \in 0 .. m : g[i] = Val(g, i)}
<1>0. n \in Nat /\ \A i \in 1 .. n : msg[i] \in Hash
  OBVIOUS
<1>b. RunInv(first, t, s, rows, b)
  <2>1. first.tree = t /\ first.staged = s
    OBVIOUS
  <2> HIDE DEF first
  <2> QED
    BY <2>1 DEF RunInv, SameUpTo
<1> HIDE DEF first, n
<1>1. 0 \in S
  <2> DEFINE g == [i \in 0 .. 0 |-> first]
  <2>1. \A i \in 0 .. 0 : g[i] = Val(g, i)
    OBVIOUS
  <2> QED
    BY <2>1
<1>2. ASSUME NEW m \in Nat, m \in S
      PROVE  m + 1 \in S
  <2>1. PICK g : \A i \in 0 .. m : g[i] = Val(g, i)
    BY <1>2
  <2> DEFINE next == AcceptNext(g[m], msg[m + 1], NextCheckpoint(cps))
             e == [i \in 0 .. m + 1 |-> IF i = m + 1 THEN next ELSE g[i]]
  <2> HIDE DEF next
  <2>2. /\ \A i \in 0 .. m : e[i] = g[i]
        /\ e[m + 1] = next
    OBVIOUS
  <2> HIDE DEF e
  <2>3. ASSUME NEW i \in 0 .. m + 1
        PROVE  e[i] = Val(e, i)
    <3>1. CASE i = m + 1
      BY <2>2, <3>1 DEF next
    <3>2. CASE i = 0
      BY <2>1, <2>2, <3>2
    <3>3. CASE i \in 1 .. m
      <4>1. i \in 0 .. m /\ i - 1 \in 0 .. m
        BY <3>3
      <4> QED
        BY <2>1, <2>2, <3>3, <4>1
    <3> QED
      BY <3>1, <3>2, <3>3
  <2> QED
    BY <2>3
<1>3. n \in S
  <2> HIDE DEF S
  <2>1. \A m \in Nat : m \in S => m + 1 \in S
    BY <1>2
  <2> QED
    BY <1>0, <1>1, <2>1, Induction
<1>4. PICK g : \A i \in 0 .. n : g[i] = Val(g, i)
  BY <1>3
<1> DEFINE d == Def(g)
           f == CHOOSE f : f = Def(f)
<1>5. d = Def(d)
  <2>1. \A i \in 0 .. n : d[i] = g[i]
    BY <1>4
  <2>2. ASSUME NEW i \in 0 .. n
        PROVE  Val(g, i) = Val(d, i)
    <3> HIDE DEF d
    <3>1. CASE i = 0
      BY <3>1
    <3>2. CASE i # 0
      <4>1. i - 1 \in 0 .. n
        BY <1>0, <3>2
      <4>2. d[i - 1] = g[i - 1]
        BY <2>1, <4>1
      <4> QED
        BY <3>2, <4>2
    <3> QED
      BY <3>1, <3>2
  <2> QED
    BY <2>2
<1>6. Accepted(t, s, cps, msg) = f[n]
  BY DEF Accepted, n, first
<1>7. f = Def(f)
  <2> HIDE DEF d, Def
  <2> QED
    BY <1>5
<1> HIDE DEF f
<1>8. \A i \in 0 .. n : f[i] = Val(f, i)
  BY <1>7
<1> DEFINE Q == {m \in Nat : m <= n => RunInv(f[m], t, s, rows, b)}
<1>9. 0 \in Q
  <2>1. f[0] = first
    BY <1>0, <1>8
  <2> QED
    BY <1>b, <2>1
<1>10. ASSUME NEW m \in Nat, m \in Q
       PROVE  m + 1 \in Q
  <2> SUFFICES ASSUME m + 1 <= n PROVE RunInv(f[m + 1], t, s, rows, b)
    OBVIOUS
  <2>1. RunInv(f[m], t, s, rows, b) /\ msg[m + 1] \in Hash
    BY <1>0, <1>10
  <2>2. f[m + 1] = AcceptNext(f[m], msg[m + 1], NextCheckpoint(cps))
    BY <1>0, <1>8
  <2> QED
    BY <2>1, <2>2, AcceptNextKeeps
<1>11. n \in Q
  <2> HIDE DEF Q
  <2>1. \A m \in Nat : m \in Q => m + 1 \in Q
    BY <1>10
  <2> QED
    BY <1>0, <1>9, <2>1, Induction
<1> QED
  BY <1>0, <1>6, <1>11

-----------------------------------------------------------------------------
(* load_headers *)

\* The tip of a tree by its depth.
LEMMA TipDepth ==
    ASSUME TrueHeights, NEW t, NEW b, TreeOn(t, b)
    PROVE  /\ t.tip.hash \in Hash /\ t.tip.height \in Nat /\ b.height \in Nat
           /\ Depth[t.tip.hash] = t.tip.height
           /\ b.height <= t.tip.height
           /\ t.tip.height = b.height => t.tip.hash = b.hash
<1>1. Placed(b) /\ Sound(t, b) /\ b.height \in Nat
  BY DEF TreeOn, Placed, Anchors, Height
<1>2. t.tip.hash \in Hash /\ t.tip.height \in Nat
  BY <1>1 DEF Sound, TreeType, TipType, Height
<1>3. CASE Known(t) = {}
  <2>1. t.tip = Tip(b.hash, b.height, None)
    BY <1>1, <1>3 DEF Sound, ForkTips
  <2>2. t.tip.hash = b.hash /\ t.tip.height = b.height
    BY <2>1 DEF Tip
  <2> QED
    BY <1>1, <1>2, <2>2 DEF Placed
<1>4. CASE Known(t) # {}
  <2>1. t.tip.hash \in Known(t) /\ t.tip.height = HeightOf(t, t.tip.hash)
    BY <1>1, <1>4 DEF Sound, ForkTips
  <2> QED
    BY <1>1, <1>2, <2>1, DepthAbove
<1> QED
  BY <1>3, <1>4

\* Where there is one difficulty, a header on the tip is accepted.
LEMMA OnTipAccepted ==
    ASSUME OneDifficulty, NEW root, NEW t, Sound(t, root), NEW h \in Hash,
           PrevOf[h] = t.tip.hash, NEW r, r = AcceptHeader(t, h)
    PROVE  /\ TipExtended(t, r.tree, h, root)
           /\ r.changes = Change("Accepted", {h}, {})
<1>1. r = ExtendTip(t, h)
  BY DEF AcceptHeader
<1>2. ~Refusable(h)
  BY HeaderAssumption DEF OneDifficulty, Refusable
<1> QED
  BY <1>1, <1>2, ExtendTipCase

\* After the rows up to height m: while there was no error, they are the active
\* chain, which has no forks next to it.
LoadInv(run, m, b) ==
    LET t == run.tree
    IN  /\ TreeOn(t, b) /\ BaseHeld(t, b, disk)
        /\ run.status \in {"Running"} \cup Errors
        /\ run.status = "Running" =>
            /\ t.tip.height <= m
            /\ \A x \in Known(t) : Depth[x] <= t.tip.height
            /\ t.tip.height > b.height => Has(disk, t.tip.hash)
            /\ \A k \in LoadFrom(b.height) : k <= m => k <= t.tip.height /\ disk[k] \in MainChain(t)
            /\ \A x \in MainChain(t) : Depth[x] > b.height => Has(disk, x)

\* Each row above b has its parent in the row below it, the lowest one in b.
Contiguous(b) ==
    \A k \in LoadFrom(b.height) :
        \/ k = b.height + 1 /\ PrevOf[disk[k]] = b.hash
        \/ k - 1 \in LoadFrom(b.height) /\ PrevOf[disk[k]] = disk[k - 1]

\* A row on the tip is accepted.
LEMMA LoadRowOnTip ==
    ASSUME OneDifficulty, TrueHeights, Table(disk), NEW b, NEW m \in Nat, NEW k \in LoadFrom(b.height),
           k = m + 1, NEW run, LoadInv(run, m, b), run.status = "Running",
           PrevOf[disk[k]] = run.tree.tip.hash
    PROVE  LoadInv(LoadRow(run, k), k, b) /\ LoadRow(run, k).status = "Running"
<1> DEFINE t == run.tree
           h == disk[k]
           r == AcceptHeader(t, h)
           n == LoadRow(run, k)
           u == r.tree
<1>0. UniformWork
  BY DEF OneDifficulty, UniformWork
<1>1. /\ k \in DOMAIN disk /\ k > b.height /\ h \in Hash /\ Depth[h] = k /\ k \in Nat
  BY DEF LoadFrom, Table
<1>2. /\ TreeOn(t, b) /\ Sound(t, b) /\ Placed(b) /\ BaseHeld(t, b, disk)
      /\ t.tip.height <= m
      /\ \A x \in Known(t) : Depth[x] <= t.tip.height
      /\ t.tip.height > b.height => Has(disk, t.tip.hash)
      /\ \A j \in LoadFrom(b.height) : j <= m => j <= t.tip.height /\ disk[j] \in MainChain(t)
      /\ \A x \in MainChain(t) : Depth[x] > b.height => Has(disk, x)
  BY DEF LoadInv, TreeOn
<1>3. /\ TipExtended(t, u, h, b) /\ r.changes = Change("Accepted", {h}, {})
  BY <1>1, <1>2, OnTipAccepted
<1>4. /\ TreeOn(u, b) /\ Reports(t, u, r.changes)
      /\ Known(u) \subseteq Known(t) \cup {h}
      /\ b.hash \in Known(u) => b.hash \in Known(t)
  BY <1>0, <1>1, <1>2, AcceptHeaderReports DEF TreeOn
<1>5. /\ r.changes.kind = "Accepted" /\ r.changes.accepted = {h} /\ r.changes.disconnected = {}
  BY <1>3 DEF Change
<1>6. MainChain(u) = MainChain(t) \cup {h}
  BY <1>4, <1>5 DEF Reports
<1>7. u.tip.hash = h /\ u.tip.height = k
  BY <1>1, <1>3, <1>4, TipDepth DEF TipExtended
<1>8. n.tree = u /\ n.status = "Running"
  BY <1>5, <1>7 DEF LoadRow
<1> HIDE DEF r, u, n, h, t
<1>9. BaseHeld(u, b, disk)
  BY <1>2, <1>4 DEF BaseHeld
<1>10. \A x \in Known(u) : Depth[x] <= k
  <2> TAKE x \in Known(u)
  <2>1. CASE x = h
    BY <1>1, <2>1
  <2>2. CASE x \in Known(t)
    <3>1. Depth[x] <= t.tip.height /\ Depth[x] \in Nat /\ t.tip.height \in Nat
      BY <1>2, <2>2, DepthAbove, TipDepth
    <3> QED
      BY <1>1, <1>2, <3>1
  <2> QED
    BY <1>4, <2>1, <2>2
<1>11. Has(disk, h)
  BY <1>1 DEF Has, h
<1>12. \A j \in LoadFrom(b.height) : j <= k => j <= u.tip.height /\ disk[j] \in MainChain(u)
  <2> TAKE j \in LoadFrom(b.height)
  <2>1. j \in Nat
    BY DEF LoadFrom, Table
  <2>2. CASE j = k
    BY <1>1, <1>6, <1>7, <2>2 DEF h
  <2>3. CASE j <= m
    BY <1>1, <1>2, <1>6, <1>7, <2>1, <2>3
  <2> QED
    BY <1>1, <1>7, <2>1, <2>2, <2>3
<1>13. \A x \in MainChain(u) : Depth[x] > b.height => Has(disk, x)
  BY <1>2, <1>6, <1>11
<1>14. LoadInv(n, k, b)
  BY <1>1, <1>4, <1>7, <1>8, <1>9, <1>10, <1>11, <1>12, <1>13 DEF LoadInv
<1> QED
  BY <1>8, <1>14 DEF n

\* A row that links to the one before it is on the tip; without one before it,
\* it is on b or nothing is known of its parent.
LEMMA LoadRowKeeps ==
    ASSUME OneDifficulty, TrueHeights, Table(disk), NEW b, NEW m \in Nat, NEW k \in LoadFrom(b.height),
           k = m + 1, NEW run, LoadInv(run, m, b), Linked(LoadFrom(b.height))
    PROVE  /\ LoadInv(LoadRow(run, k), k, b)
           /\ Contiguous(b) /\ run.status = "Running" => LoadRow(run, k).status = "Running"
<1> DEFINE t == run.tree
           h == disk[k]
           r == AcceptHeader(t, h)
           n == LoadRow(run, k)
           K == LoadFrom(b.height)
<1>1. /\ k \in DOMAIN disk /\ k > b.height /\ h \in Hash /\ Depth[h] = k /\ k \in Nat
      /\ \A j \in K : j \in Nat /\ j \in DOMAIN disk /\ j > b.height
  BY DEF LoadFrom, Table
<1>2. CASE run.status # "Running"
  <2>1. n = run
    BY <1>2 DEF LoadRow
  <2>2. LoadInv(run, k, b)
    BY <1>2 DEF LoadInv
  <2> QED
    BY <1>2, <2>1, <2>2
<1>3. CASE run.status = "Running"
  <2>1. /\ TreeOn(t, b) /\ Sound(t, b) /\ Placed(b) /\ BaseHeld(t, b, disk)
        /\ t.tip.height <= m
        /\ \A x \in Known(t) : Depth[x] <= t.tip.height
        /\ t.tip.height > b.height => Has(disk, t.tip.hash)
        /\ \A j \in K : j <= m => j <= t.tip.height /\ disk[j] \in MainChain(t)
    BY <1>3 DEF LoadInv, TreeOn
  <2>2. /\ t.tip.hash \in Hash /\ t.tip.height \in Nat /\ b.height \in Nat
        /\ Depth[t.tip.hash] = t.tip.height
        /\ b.height <= t.tip.height
        /\ t.tip.height = b.height => t.tip.hash = b.hash
    BY <2>1, TipDepth
  <2>3. t.tip.height > b.height => t.tip.height \in K /\ disk[t.tip.height] = t.tip.hash
    BY <2>1, <2>2 DEF Has, LoadFrom
  <2>4. CASE PrevOf[h] = t.tip.hash
    BY <1>3, <2>4, LoadRowOnTip
  <2>5. CASE PrevOf[h] # t.tip.hash
    <3>1. t.tip.height = b.height
      <4> SUFFICES ASSUME t.tip.height > b.height PROVE FALSE
        BY <2>2
      <4>1. /\ t.tip.height \in K /\ t.tip.height < k
            /\ \A i \in K : ~(t.tip.height < i /\ i < k)
        BY <1>1, <2>1, <2>2, <2>3
      <4>2. PrevOf[disk[k]] = disk[t.tip.height]
        BY <4>1 DEF Linked
      <4> QED
        BY <2>3, <2>5, <4>2
    <3>2. \A x \in Known(t) : x = b.hash
      <4> TAKE x \in Known(t)
      <4> QED
        BY <2>1, <2>2, <3>1, DepthAbove
    <3>3. h \notin Known(t) /\ PrevOf[h] \notin Known(t)
      BY <1>1, <2>1, <2>2, <2>5, <3>1, <3>2 DEF Placed
    <3>4. ForksAt(t, PrevOf[h]) = {}
      BY <2>1, <3>3 DEF ForksAt, Sound, ForkTips
    <3>5. r = [tree |-> t, changes |-> Unaccepted("UnknownPrevHash")]
      BY <2>5, <3>3, <3>4 DEF AcceptHeader
    <3>6. n.tree = t /\ n.status = "CannotLocateHistory"
      BY <1>3, <3>5 DEF LoadRow, Unaccepted, Change
    <3>7. LoadInv(n, k, b)
      BY <2>1, <3>6 DEF LoadInv, Errors
    <3>8. ~Contiguous(b)
      <4> SUFFICES ASSUME Contiguous(b) PROVE FALSE
        OBVIOUS
      <4>1. CASE k = b.height + 1 /\ PrevOf[h] = b.hash
        BY <2>2, <2>5, <3>1, <4>1
      <4>2. CASE k - 1 \in K /\ PrevOf[h] = disk[k - 1]
        BY <1>1, <2>1, <2>2, <3>1, <4>2
      <4> QED
        BY <4>1, <4>2 DEF Contiguous
    <3> QED
      BY <3>7, <3>8
  <2> QED
    BY <2>4, <2>5
<1> QED
  BY <1>2, <1>3

\* The block to start from is the checkpoint or a stored one, and the tree has no
\* other.
LEMMA LoadBaseKeeps ==
    ASSUME TrueHeights, Table(disk), NEW cp, Placed(cp), NEW cps
    PROVE  LET b == LoadBase(cp).block
           IN  /\ Placed(b) /\ (b = cp \/ Has(disk, b.hash))
               /\ LoadInv([tree |-> LoadBase(cp).tree, cps |-> cps, status |-> "Running"],
                          b.height, b)
<1> DEFINE l == LoadBase(cp)
           b == l.block
           t == l.tree
           found == Interesting(cp) \cap DOMAIN disk
           k == CHOOSE j \in found : \A i \in found : j <= i
<1>1. /\ Placed(b) /\ (b = cp \/ Has(disk, b.hash))
      /\ \/ t = NewTree(b.hash, b.height)
         \/ t = FromHeader(b.hash, b.height) /\ Has(disk, b.hash)
  <2>1. CASE found = {}
    <3>1. b = cp /\ t = NewTree(cp.hash, cp.height)
      BY <2>1 DEF LoadBase
    <3> HIDE DEF b, t
    <3> QED
      BY <3>1
  <2>2. CASE found # {}
    <3>1. found \in SUBSET Nat
      BY DEF Table
    <3>2. \E j \in found : \A i \in found : j <= i
      <4> HIDE DEF found
      <4> QED
        BY <2>2, <3>1, LeastNumber
    <3>3. k \in found
      <4> HIDE DEF found
      <4> QED
        BY <3>2
    <3>4. /\ t = FromHeader(disk[k], k) /\ b = [hash |-> disk[k], height |-> k]
      BY <2>2 DEF LoadBase
    <3>5. k \in DOMAIN disk
      BY <3>3
    <3> HIDE DEF k, b, t, found
    <3>6. /\ b.hash = disk[k] /\ b.height = k /\ Depth[disk[k]] = k /\ disk[k] \in Hash /\ k \in Nat
      BY <3>4, <3>5 DEF Table
    <3> QED
      BY <3>4, <3>5, <3>6 DEF Placed, Anchors, Height, Has
  <2> QED
    BY <2>1, <2>2
<1> HIDE DEF b, t
<1>2. /\ Sound(t, b) /\ Followed(t, Known(t), b) /\ Known(t) \subseteq {b.hash}
      /\ t.tip.hash = b.hash /\ t.tip.height = b.height
      /\ b.hash \in Known(t) => Has(disk, b.hash)
  <2>0. b \in Anchors
    BY <1>1 DEF Placed
  <2>1. CASE t = NewTree(b.hash, b.height)
    <3>1. Sound(t, b) /\ Followed(t, {}, b) /\ Known(t) = {}
      BY <2>0, <2>1, NewTreeSound
    <3>2. t.tip = Tip(b.hash, b.height, None)
      BY <2>1 DEF NewTree
    <3> QED
      BY <3>1, <3>2 DEF Tip
  <2>2. CASE t = FromHeader(b.hash, b.height) /\ Has(disk, b.hash)
    <3>1. Sound(t, b) /\ Followed(t, {b.hash}, b) /\ Known(t) = {b.hash}
      BY <2>0, <2>2, FromHeaderSound
    <3>2. t.tip = Tip(b.hash, b.height, BitsOf[b.hash])
      BY <2>2 DEF FromHeader
    <3> QED
      BY <2>2, <3>1, <3>2 DEF Tip
  <2> QED
    BY <1>1, <2>1, <2>2
<1>3. TreeOn(t, b) /\ BaseHeld(t, b, disk)
  BY <1>1, <1>2 DEF TreeOn, Followed, BaseHeld
<1>4. b.height \in Nat /\ Depth[b.hash] = b.height
  BY <1>1 DEF Placed, Anchors, Height
<1>5. /\ \A x \in Known(t) : Depth[x] <= b.height
      /\ \A x \in MainChain(t) : x = b.hash
      /\ \A k2 \in LoadFrom(b.height) : k2 \in Nat /\ ~(k2 <= b.height)
  BY <1>2, <1>4 DEF MainChain, Walk, LoadFrom, Table
<1> DEFINE start == [tree |-> t, cps |-> cps, status |-> "Running"]
<1>6. start.tree = t /\ start.status = "Running"
  OBVIOUS
<1> HIDE DEF start
<1>7. LoadInv(start, b.height, b)
  BY <1>2, <1>3, <1>4, <1>5, <1>6 DEF LoadInv
<1> QED
  BY <1>1, <1>7 DEF start, b, t

\* The tree that load_headers returns: when there is no error the rows above its
\* first block are its active chain.
Loads(loaded, b) ==
    /\ TreeOn(loaded.tree, b) /\ BaseHeld(loaded.tree, b, disk)
    /\ loaded.status \in {"Running"} \cup Errors
    /\ loaded.status = "Running" => Complete(loaded.tree, b, disk)
    /\ Contiguous(b) => loaded.status = "Running"

\* assume_checked_to leaves it like that.
LEMMA LoadedChecked ==
    ASSUME NEW run, NEW b, Loads(run, b), run = [tree |-> run.tree, cps |-> run.cps, status |-> run.status],
           NEW height
    PROVE  Loads([run EXCEPT !.tree = AssumeCheckedTo(@, height)], b)
<1> DEFINE u == AssumeCheckedTo(run.tree, height)
           n == [run EXCEPT !.tree = AssumeCheckedTo(@, height)]
<1>1. Sound(run.tree, b) /\ Followed(run.tree, MainChain(run.tree), b) /\ Placed(b)
  BY DEF Loads, TreeOn
<1>2. SameShape(run.tree, u) /\ u.canonical = run.tree.canonical
  BY <1>1, AssumeCheckedShape
<1>3. n.tree = u /\ n.status = run.status
  OBVIOUS
<1> HIDE DEF u, n
<1>4. Sound(u, b) /\ MainChain(u) = MainChain(run.tree) /\ Known(u) = Known(run.tree)
  BY <1>1, <1>2, SameShapeSound DEF SameShape
<1>5. Followed(u, MainChain(u), b)
  BY <1>1, <1>2, <1>4, SameShapeFollowed
<1>6. Loads(n, b)
  BY <1>1, <1>3, <1>4, <1>5 DEF Loads, TreeOn, BaseHeld, Complete
<1> QED
  BY <1>6 DEF n

\* Rows without a gap link.
LEMMA ContiguousLinked ==
    ASSUME NEW b, Table(disk), b.height \in Nat, Contiguous(b)
    PROVE  Linked(LoadFrom(b.height))
<1> DEFINE K == LoadFrom(b.height)
<1>1. \A k \in K : k \in Nat /\ k > b.height
  BY DEF LoadFrom, Table
<1>2. ASSUME NEW j \in K, NEW k \in K, j < k, \A i \in K : ~(j < i /\ i < k)
      PROVE  PrevOf[disk[k]] = disk[j]
  <2>1. k # b.height + 1
    BY <1>1, <1>2
  <2>2. k - 1 \in K /\ PrevOf[disk[k]] = disk[k - 1]
    BY <2>1 DEF Contiguous
  <2>3. k - 1 = j
    <3>1. ~(j < k - 1 /\ k - 1 < k)
      BY <1>2, <2>2
    <3>2. j \in Nat /\ k \in Nat
      BY <1>1
    <3> HIDE DEF K
    <3> QED
      BY <1>2, <3>1, <3>2
  <2> QED
    BY <2>2, <2>3
<1> QED
  BY <1>2 DEF Linked

\* A bounded set of numbers above a has a highest one, or is empty and a is as
\* high as any of it.
LEMMA HighestNumber ==
    ASSUME NEW K \in SUBSET Nat, NEW a \in Nat, \A k \in K : k > a,
           \E n \in Nat : \A k \in K : k <= n
    PROVE  \E m \in K \cup {a} : \A k \in K : k <= m
<1> DEFINE T == {m \in Nat : m >= a /\ \A k \in K : k <= m}
<1>1. PICK n \in Nat : \A k \in K : k <= n
  OBVIOUS
<1>2. n + a \in T
  BY <1>1
<1>3. T \in SUBSET Nat /\ T # {}
  BY <1>2
<1>4. \E m \in T : \A j \in T : m <= j
  <2> HIDE DEF T
  <2> QED
    BY <1>3, LeastNumber
<1>5. PICK m \in T : \A j \in T : m <= j
  BY <1>4
<1>6. m \in K \cup {a}
  <2> SUFFICES ASSUME m \notin K, m # a PROVE FALSE
    OBVIOUS
  <2>1. m - 1 \in Nat /\ m - 1 >= a /\ \A k \in K : k <= m - 1
    BY <1>5
  <2>2. m - 1 \in T
    BY <2>1
  <2> QED
    BY <1>5, <2>2
<1> QED
  BY <1>5, <1>6

\* The rows of the store, one after the other.
LEMMA LoadHeadersKeeps ==
    ASSUME OneDifficulty, TrueHeights, Table(disk), NEW cp, Placed(cp)
    PROVE  LET b == LoadBase(cp).block
           IN  /\ Placed(b) /\ (b = cp \/ Has(disk, b.hash))
               /\ Loads(LoadHeaders(cp), b)
<1> DEFINE b == LoadBase(cp).block
           bottom == b.height
           K == LoadFrom(bottom)
           top == CHOOSE k \in K \cup {bottom} : \A j \in K : j <= k
           n == top - bottom
           start == [tree |-> LoadBase(cp).tree, cps |-> PruneUpTo(HEADER_CP, cp),
                     status |-> "Running"]
           Val(g, k) == IF k = bottom THEN start
                        ELSE IF k \in K THEN LoadRow(g[k - 1], k) ELSE g[k - 1]
           Def(g) == [k \in bottom .. top |-> Val(g, k)]
           S == {m \in Nat : \E g : \A k \in bottom .. bottom + m : g[k] = Val(g, k)}
           Shaped(run) == run = [tree |-> run.tree, cps |-> run.cps, status |-> run.status]
           f == CHOOSE f : f = Def(f)
<1>1. Placed(b) /\ (b = cp \/ Has(disk, b.hash)) /\ LoadInv(start, bottom, b) /\ Shaped(start)
  BY LoadBaseKeeps
<1>2. /\ LoadHeaders(cp) = IF ~Linked(K) THEN [start EXCEPT !.status = "Corruption"]
                           ELSE [f[top] EXCEPT !.tree = AssumeCheckedTo(@, cp.height)]
  BY DEF LoadHeaders
<1>3. bottom \in Nat /\ K \in SUBSET Nat /\ \A k \in K : k > bottom
  <2>1. b.height \in Nat
    BY <1>1 DEF Placed, Anchors, Height
  <2> QED
    BY <2>1 DEF LoadFrom, Table
<1>4. \E m \in Nat : \A k \in K : k <= m
  BY DEF LoadFrom, Table
<1>5. /\ top \in K \cup {bottom} /\ \A j \in K : j <= top
      /\ top \in Nat /\ n \in Nat /\ bottom <= top /\ top = bottom + n
  <2>1. \E k \in K \cup {bottom} : \A j \in K : j <= k
    <3> HIDE DEF K, bottom
    <3> QED
      BY <1>3, <1>4, HighestNumber
  <2>2. top \in K \cup {bottom} /\ \A j \in K : j <= top
    <3> HIDE DEF K, bottom
    <3> QED
      BY <2>1
  <2> HIDE DEF top, K, bottom
  <2> QED
    BY <1>3, <2>2
<1>6. CASE ~Linked(K)
  <2> DEFINE l == [start EXCEPT !.status = "Corruption"]
  <2>1. l.tree = start.tree /\ l.status = "Corruption"
    OBVIOUS
  <2>2. ~Contiguous(b)
    BY <1>1, <1>3, <1>6, ContiguousLinked
  <2> HIDE DEF l, start
  <2>3. TreeOn(start.tree, b) /\ BaseHeld(start.tree, b, disk)
    BY <1>1 DEF LoadInv
  <2>4. Loads(l, b)
    BY <2>1, <2>2, <2>3 DEF Loads, Errors
  <2> HIDE DEF b, K
  <2>5. LoadHeaders(cp) = l
    BY <1>2, <1>6 DEF l
  <2> QED
    BY <1>1, <2>4, <2>5 DEF b
<1>7. CASE Linked(K)
  <2> HIDE DEF start, top, n, K, b
  <2>1. 0 \in S
    <3> DEFINE g == [k \in {bottom} |-> start]
    <3>1. \A k \in bottom .. bottom + 0 : g[k] = Val(g, k)
      <4>1. \A k \in bottom .. bottom + 0 : k = bottom
        BY <1>3
      <4> QED
        BY <4>1
    <3> QED
      BY <3>1
  <2>2. ASSUME NEW m \in Nat, m \in S
        PROVE  m + 1 \in S
    <3>1. PICK g : \A k \in bottom .. bottom + m : g[k] = Val(g, k)
      BY <2>2
    <3> DEFINE z == bottom + m + 1
               e == [k \in bottom .. z |-> IF k = z THEN Val(g, z) ELSE g[k]]
    <3>2. /\ \A k \in bottom .. bottom + m : e[k] = g[k]
          /\ e[z] = Val(g, z)
      <4> HIDE DEF Val, bottom
      <4> QED
        BY <1>3
    <3> HIDE DEF e
    <3>3. ASSUME NEW k \in bottom .. z
          PROVE  e[k] = Val(e, k)
      <4>1. CASE k = bottom
        <5>1. k \in bottom .. bottom + m
          BY <1>3, <4>1
        <5> QED
          BY <3>1, <3>2, <4>1, <5>1
      <4>2. CASE k # bottom
        <5>1. k - 1 \in bottom .. bottom + m /\ (k = z \/ k \in bottom .. bottom + m)
          BY <1>3, <4>2
        <5>2. e[k - 1] = g[k - 1]
          BY <3>2, <5>1
        <5>3. Val(e, k) = Val(g, k)
          BY <4>2, <5>2
        <5>4. e[k] = Val(g, k)
          <6> HIDE DEF Val, z
          <6> QED
            BY <3>1, <3>2, <5>1
        <5> QED
          BY <5>3, <5>4
      <4> QED
        BY <4>1, <4>2
    <3>4. z = bottom + (m + 1)
      BY <1>3
    <3> HIDE DEF z
    <3> QED
      BY <3>3, <3>4
  <2>3. n \in S
    <3> HIDE DEF S
    <3>1. \A m \in Nat : m \in S => m + 1 \in S
      BY <2>2
    <3> QED
      BY <1>5, <2>1, <3>1, Induction
  <2>4. PICK g : \A k \in bottom .. top : g[k] = Val(g, k)
    BY <1>5, <2>3
  <2> DEFINE d == Def(g)
  <2>5. d = Def(d)
    <3>1. \A k \in bottom .. top : d[k] = g[k]
      BY <2>4
    <3>2. ASSUME NEW k \in bottom .. top
          PROVE  Val(g, k) = Val(d, k)
      <4> HIDE DEF d
      <4>1. CASE k = bottom
        BY <4>1
      <4>2. CASE k # bottom
        <5>1. k - 1 \in bottom .. top
          BY <1>3, <1>5, <4>2
        <5>2. d[k - 1] = g[k - 1]
          BY <3>1, <5>1
        <5> QED
          BY <4>2, <5>2
      <4> QED
        BY <4>1, <4>2
    <3> QED
      BY <3>2
  <2>6. f = Def(f)
    <3> HIDE DEF d, Def
    <3> QED
      BY <2>5
  <2> HIDE DEF f
  <2>7. \A k \in bottom .. top : f[k] = Val(f, k)
    BY <2>6
  <2> DEFINE Good(k) == /\ LoadInv(f[k], k, b) /\ Shaped(f[k])
                        /\ Contiguous(b) => f[k].status = "Running"
             Q == {m \in Nat : m <= n => Good(bottom + m)}
  <2>8. 0 \in Q
    <3>1. bottom \in bottom .. top /\ bottom + 0 = bottom
      BY <1>3, <1>5
    <3>2. f[bottom] = start
      BY <2>7, <3>1
    <3>3. start.status = "Running"
      BY DEF start
    <3>4. Good(bottom)
      BY <1>1, <3>2, <3>3
    <3> HIDE DEF Good
    <3> QED
      BY <3>1, <3>4
  <2>9. ASSUME NEW m \in Nat, m \in Q
        PROVE  m + 1 \in Q
    <3> DEFINE k == bottom + m + 1
               j == bottom + m
    <3> SUFFICES ASSUME m + 1 <= n PROVE Good(k)
      <4>1. k = bottom + (m + 1)
        BY <1>3
      <4> HIDE DEF Good, k
      <4> QED
        BY <4>1
    <3>1. Good(j)
      BY <1>5, <2>9
    <3>2. /\ k \in bottom .. top /\ k # bottom /\ k - 1 = j /\ j \in Nat /\ k = j + 1
      BY <1>3, <1>5
    <3> HIDE DEF j, k
    <3>3. f[k] = Val(f, k)
      BY <2>7, <3>2
    <3>4. CASE k \in K
      <4>1. f[k] = LoadRow(f[j], k)
        BY <3>2, <3>3, <3>4
      <4>2. /\ LoadInv(f[k], k, b)
            /\ Contiguous(b) /\ f[j].status = "Running" => f[k].status = "Running"
        BY <1>7, <3>1, <3>2, <3>4, <4>1, LoadRowKeeps DEF K
      <4>3. Shaped(f[k])
        BY <3>1, <4>1 DEF LoadRow
      <4> QED
        BY <3>1, <4>2, <4>3
    <3>5. CASE k \notin K
      <4>1. f[k] = f[j]
        BY <3>2, <3>3, <3>5
      <4>2. LoadInv(f[j], k, b)
        <5>1. \A i \in LoadFrom(b.height) : i <= k => i <= j
          BY <1>3, <3>2, <3>5 DEF K
        <5>2. f[j].tree.tip.height <= j => f[j].tree.tip.height <= k
          <6>1. f[j].tree.tip.height \in Nat
            BY <3>1, TipDepth DEF LoadInv
          <6> QED
            BY <3>2, <6>1
        <5> QED
          BY <3>1, <5>1, <5>2 DEF LoadInv
      <4> QED
        BY <3>1, <4>1, <4>2
    <3> QED
      BY <3>4, <3>5
  <2>10. n \in Q
    <3> HIDE DEF Q
    <3>1. \A m \in Nat : m \in Q => m + 1 \in Q
      BY <2>9
    <3> QED
      BY <1>5, <2>8, <3>1, Induction
  <2>11. Good(top)
    BY <1>5, <2>10
  <2>12. Loads(f[top], b)
    BY <1>5, <2>11 DEF LoadInv, Loads, Complete, LoadFrom, K
  <2>13. Loads([f[top] EXCEPT !.tree = AssumeCheckedTo(@, cp.height)], b)
    BY <2>11, <2>12, LoadedChecked
  <2> QED
    BY <1>1, <1>2, <1>7, <2>13 DEF b
<1> QED
  BY <1>6, <1>7

-----------------------------------------------------------------------------
(* The inductive invariant *)

\* The table that a write would leave.
Total == Written(disk, staged)

\* Shapes and types; disk and staged changes make up the active chain, without
\* touching what is below it, and hold the blocks that the client believes in.
StoreInv ==
    /\ status \in {"Running", "Stopped"} \cup Errors
    /\ Placed(anchor)
    /\ TreeOn(tree, base)
    /\ Table(disk) /\ Staging(staged)
    /\ status # "Running" => staged = Nothing
    /\ \A w \in wallet : Placed(w)
    /\ lost \subseteq {"write", "stop"}
    /\ status = "Running" /\ "write" \notin lost =>
        /\ Complete(tree, base, Total) /\ BaseHeld(tree, base, Total)
        /\ SameUpTo(disk, Total, base.height)
    /\ lost = {} => \A w \in wallet : Has(Total, w.hash)

\* No staged change.
LEMMA NothingStaged ==
    ASSUME NEW rows, Table(rows)
    PROVE  Staging(Nothing) /\ Written(rows, Nothing) = rows
<1>1. Nothing.accepted = [k \in {} |-> None] /\ Nothing.disconnected = {}
      /\ Nothing = [accepted |-> Nothing.accepted, disconnected |-> Nothing.disconnected]
  BY DEF Nothing
<1> DEFINE e == [k \in {} |-> None]
<1>2. DOMAIN e = {} /\ e \in [{} -> Hash]
  OBVIOUS
<1> HIDE DEF e
<1>3. Table(e)
  BY <1>2 DEF Table
<1>4. Without(rows, {}) = [k \in DOMAIN rows |-> rows[k]]
  BY DEF Without
<1>5. rows = [k \in DOMAIN rows |-> rows[k]]
  BY DEF Table
<1>6. Overwrite(rows, e) = [k \in DOMAIN rows |-> rows[k]]
  BY <1>2 DEF Overwrite
<1>7. Written(rows, Nothing) = rows
  <2>1. Written(rows, Nothing) = Overwrite(Without(rows, {}), e)
    BY <1>1 DEF Written, e
  <2> QED
    BY <1>4, <1>5, <1>6, <2>1
<1> QED
  BY <1>1, <1>3, <1>7 DEF Staging, e

\* The node starts with the invariant.
LEMMA StoreInit ==
    ASSUME OneDifficulty, TrueHeights, Init
    PROVE  StoreInv
<1>1. PICK cp \in Checkpoints : /\ anchor = cp /\ base = cp
                                /\ tree = NewTree(cp.hash, cp.height)
  BY DEF Init
<1>2. Placed(cp) /\ cp \in Anchors
  BY DepthFacts DEF Placed
<1>3. Sound(tree, base) /\ Followed(tree, {}, base) /\ Known(tree) = {}
  BY <1>1, <1>2, NewTreeSound
<1>4. TreeOn(tree, base) /\ MainChain(tree) = {}
  BY <1>1, <1>2, <1>3 DEF TreeOn, Followed
<1>5. Table(disk) /\ DOMAIN disk = {}
  <2>1. DOMAIN disk = {} /\ disk \in [{} -> Hash]
    BY DEF Init
  <2> QED
    BY <2>1 DEF Table
<1>6. Staging(staged) /\ Total = disk
  BY <1>5, NothingStaged DEF Init, Total
<1> HIDE DEF Total
<1>7. /\ Complete(tree, base, Total) /\ BaseHeld(tree, base, Total)
      /\ SameUpTo(disk, Total, base.height)
  BY <1>3, <1>4, <1>5, <1>6 DEF Complete, BaseHeld, SameUpTo
<1> QED
  BY <1>1, <1>2, <1>4, <1>5, <1>6, <1>7 DEF StoreInv, Init

\* What a message does: a run over its headers, and a table and staged changes that
\* come to the same unless changes were lost.
LEMMA SyncChainStep ==
    ASSUME OneDifficulty, TrueHeights, StoreInv, NEW msg \in HeadersMessages,
           NEW outcome \in {"ok"} \cup Failures, SyncChain(msg, outcome)
    PROVE  \E run : /\ RunInv(run, tree, staged, disk, base)
                    /\ tree' = run.tree
                    /\ wallet' = {w \in wallet : w.hash \notin run.gone}
                    /\ Table(disk') /\ Staging(staged')
                    /\ disk' = disk \/ disk' = Written(disk, run.staged)
                    /\ lost \subseteq lost' /\ lost' \subseteq lost \cup {"write"}
                    /\ "write" \notin lost' => Total' = Written(disk, run.staged)
<1> DEFINE run == Accepted(tree, staged, checkpoints, msg)
           all == Written(disk, run.staged)
<1>0. UniformWork
  BY DEF OneDifficulty, UniformWork
<1>1. msg \in Seq(Hash)
  BY StoreAssumption DEF HeadersMessages
<1>2. RunInv(run, tree, staged, disk, base)
  BY <1>0, <1>1, AcceptedKeeps DEF StoreInv
<1>3. /\ tree' = run.tree
      /\ wallet' = {w \in wallet : w.hash \notin run.gone}
      /\ disk' = IF run.ok /\ outcome = "ok" THEN all ELSE disk
      /\ run.ok \/ outcome = "ok"
      /\ staged' = CASE ~run.ok                  -> run.staged
                     [] run.ok /\ outcome = "ok" -> Nothing
                     [] run.ok /\ outcome # "ok" -> LeftStaged(run.staged, outcome)
      /\ lost' = IF run.ok /\ outcome # "ok" /\ staged' # run.staged
                 THEN lost \cup {"write"} ELSE lost
  BY DEF SyncChain
<1> HIDE DEF run
<1>4. Staging(run.staged) /\ Table(disk)
  BY <1>2 DEF RunInv, StoreInv
<1>5. Table(all)
  BY <1>4, WrittenTable
<1> HIDE DEF all
<1>6. CASE ~run.ok
  <2>1. staged' = run.staged /\ disk' = disk /\ lost' = lost
    BY <1>3, <1>6
  <2> QED
    BY <1>2, <1>3, <1>4, <2>1 DEF Total
<1>7. CASE run.ok /\ outcome = "ok"
  <2>1. staged' = Nothing /\ disk' = all /\ lost' = lost
    BY <1>3, <1>7
  <2>2. Staging(Nothing) /\ Written(all, Nothing) = all
    BY <1>5, NothingStaged
  <2> QED
    BY <1>2, <1>3, <1>4, <1>5, <2>1, <2>2 DEF Total, all
<1>8. CASE run.ok /\ outcome # "ok"
  <2>1. /\ staged' = LeftStaged(run.staged, outcome) /\ disk' = disk
        /\ lost' = IF staged' # run.staged THEN lost \cup {"write"} ELSE lost
    BY <1>3, <1>8
  <2>2. outcome \in Statements
    BY <1>8, StoreAssumption
  <2>3. Staging(staged')
    <3>1. CASE outcome = "begin"
      BY <1>4, <2>1, <3>1 DEF LeftStaged
    <3>2. CASE outcome = "delete"
      BY <1>4, <2>1, <3>2 DEF LeftStaged, Staging
    <3>3. CASE outcome = "insert"
      BY <1>4, <2>1, <3>3, NothingStaged DEF LeftStaged
    <3> QED
      BY <2>2, <3>1, <3>2, <3>3 DEF Statements
  <2>4. "write" \notin lost' => staged' = run.staged
    BY <2>1
  <2> QED
    BY <1>2, <1>3, <1>4, <2>1, <2>3, <2>4 DEF Total
<1> QED
  BY <1>3, <1>6, <1>7, <1>8

\* A message keeps the invariant.
LEMMA SyncChainKeeps ==
    ASSUME OneDifficulty, TrueHeights, StoreInv, NEW msg \in HeadersMessages,
           NEW outcome \in {"ok"} \cup Failures, SyncChain(msg, outcome)
    PROVE  /\ StoreInv'
           /\ lost' = {} => SameUpTo(Total, Total', base.height)
<1>1. PICK run : /\ RunInv(run, tree, staged, disk, base)
                 /\ tree' = run.tree
                 /\ wallet' = {w \in wallet : w.hash \notin run.gone}
                 /\ Table(disk') /\ Staging(staged')
                 /\ disk' = disk \/ disk' = Written(disk, run.staged)
                 /\ lost \subseteq lost' /\ lost' \subseteq lost \cup {"write"}
                 /\ "write" \notin lost' => Total' = Written(disk, run.staged)
  BY SyncChainStep
<1>2. status = "Running" /\ UNCHANGED <<status, anchor, base>>
  BY DEF SyncChain
<1>3. /\ TreeOn(run.tree, base)
      /\ \A x \in MainChain(tree) : x \in run.gone \/ x \in MainChain(run.tree)
  BY <1>1 DEF RunInv
<1>4. ASSUME "write" \notin lost'
      PROVE  /\ Complete(tree, base, Total) /\ SameUpTo(disk, Total, base.height)
             /\ Complete(run.tree, base, Total') /\ BaseHeld(run.tree, base, Total')
             /\ SameUpTo(Total, Total', base.height)
  <2>1. "write" \notin lost /\ Total' = Written(disk, run.staged)
    BY <1>1, <1>4
  <2>2. /\ Complete(tree, base, Total) /\ BaseHeld(tree, base, Total)
        /\ SameUpTo(disk, Total, base.height)
    BY <1>2, <2>1 DEF StoreInv
  <2> QED
    BY <1>1, <2>1, <2>2 DEF RunInv, Total
<1>5. ASSUME "write" \notin lost'
      PROVE  SameUpTo(disk', Total', base.height)
  <2>1. CASE disk' = disk
    BY <1>4, <1>5, <2>1 DEF SameUpTo
  <2>2. CASE disk' = Written(disk, run.staged)
    <3>1. disk' = Total'
      BY <1>1, <1>5, <2>2
    <3> QED
      BY <3>1 DEF SameUpTo
  <2> QED
    BY <1>1, <2>1, <2>2
<1>6. ASSUME lost' = {}, NEW w \in wallet'
      PROVE  Has(Total', w.hash)
  <2>1. /\ w \in wallet /\ w.hash \notin run.gone /\ lost = {} /\ Placed(w)
        /\ Has(Total, w.hash)
    BY <1>1, <1>6 DEF StoreInv
  <2>2. /\ w.height \in Nat /\ Depth[w.hash] = w.height
        /\ w.height \in DOMAIN Total /\ Total[w.height] = w.hash
    BY <2>1 DEF Placed, Anchors, Height, Has
  <2>3. base.height \in Nat
    BY <1>3, TipDepth
  <2>4. CASE w.height > base.height
    <3>1. w.hash \in MainChain(tree)
      BY <1>4, <1>6, <2>2, <2>4 DEF Complete
    <3>2. w.hash \in MainChain(run.tree)
      BY <1>3, <2>1, <3>1
    <3> QED
      BY <1>4, <1>6, <2>2, <2>4, <3>2 DEF Complete
  <2>5. CASE w.height <= base.height
    <3>1. SameUpTo(Total, Total', base.height)
      BY <1>4, <1>6
    <3> QED
      BY <2>2, <2>5, <3>1 DEF SameUpTo, Has
  <2> QED
    BY <2>2, <2>3, <2>4, <2>5
<1>7. \A w \in wallet' : Placed(w)
  BY <1>1 DEF StoreInv
<1>8. lost' \subseteq {"write", "stop"}
  BY <1>1 DEF StoreInv
<1>9. /\ status \in {"Running", "Stopped"} \cup Errors /\ Placed(anchor)
  BY DEF StoreInv
<1>10. lost' = {} => SameUpTo(Total, Total', base.height)
  BY <1>4
<1> QED
  BY <1>1, <1>2, <1>3, <1>4, <1>5, <1>6, <1>7, <1>8, <1>9, <1>10 DEF StoreInv

\* The client takes over the chain.
LEMMA SyncedKeeps ==
    ASSUME TrueHeights, StoreInv, Synced
    PROVE  StoreInv' /\ Total' = Total
<1>1. /\ UNCHANGED <<status, anchor, tree, base, staged, disk, lost>>
      /\ status = "Running"
      /\ wallet' = wallet \cup BlocksOf(tree, MainChain(tree))
  BY DEF Synced
<1>2. Total' = Total
  BY <1>1 DEF Total
<1>3. TreeOn(tree, base) /\ Sound(tree, base)
  BY DEF StoreInv, TreeOn
<1>4. ASSUME NEW w \in BlocksOf(tree, MainChain(tree))
      PROVE  Placed(w) /\ (lost = {} => Has(Total, w.hash))
  <2>1. PICK x \in MainChain(tree) : w = [hash |-> x, height |-> HeightOf(tree, x)]
    BY <1>4 DEF BlocksOf
  <2>2. x \in Known(tree)
    BY <1>3, ChainTop
  <2>3. /\ x \in Hash /\ Depth[x] \in Nat /\ base.height \in Nat
        /\ HeightOf(tree, x) = Depth[x]
        /\ base.height <= Depth[x]
        /\ Depth[x] = base.height => x = base.hash
    BY <1>3, <2>2, DepthAbove
  <2>4. Placed(w)
    BY <2>1, <2>3 DEF Placed, Anchors, Height
  <2>5. ASSUME lost = {} PROVE Has(Total, x)
    <3>1. Complete(tree, base, Total) /\ BaseHeld(tree, base, Total)
      BY <1>1, <2>5 DEF StoreInv
    <3> QED
      BY <2>2, <2>3, <3>1 DEF Complete, BaseHeld
  <2> QED
    BY <2>1, <2>4, <2>5
<1> QED
  BY <1>1, <1>2, <1>4 DEF StoreInv

\* The process ends.
LEMMA StopKeeps ==
    ASSUME StoreInv, Stop
    PROVE  StoreInv' /\ (lost' = {} => Total' = Total) /\ lost \subseteq lost'
<1>1. /\ UNCHANGED <<anchor, tree, base, disk, wallet>>
      /\ status' = "Stopped" /\ staged' = Nothing
      /\ lost' = IF staged = Nothing THEN lost ELSE lost \cup {"stop"}
  BY DEF Stop
<1>2. Staging(staged')
  BY <1>1, NothingStaged DEF StoreInv
<1>3. /\ lost' = {} => lost = {} /\ Total' = Total
      /\ lost \subseteq lost' /\ lost' \subseteq lost \cup {"stop"}
  BY <1>1 DEF Total
<1> QED
  BY <1>1, <1>2, <1>3 DEF StoreInv

\* The node starts again.
LEMMA StartKeeps ==
    ASSUME OneDifficulty, TrueHeights, StoreInv, NEW cp \in Checkpoints \cup wallet, Start(cp)
    PROVE  /\ StoreInv' /\ Total' = Total /\ Total = disk
           /\ base' = cp \/ Has(disk, base'.hash)
           /\ Contiguous(base') => status' = "Running"
<1> DEFINE b == LoadBase(cp).block
           loaded == LoadHeaders(cp)
<1>1. /\ UNCHANGED <<staged, disk, wallet, lost>> /\ status # "Running"
      /\ anchor' = cp /\ base' = b
      /\ tree' = loaded.tree /\ status' = loaded.status
  BY DEF Start
<1>2. Placed(cp)
  BY DepthFacts DEF StoreInv
<1>3. Table(disk) /\ staged = Nothing
  BY <1>1 DEF StoreInv
<1>4. Placed(b) /\ (b = cp \/ Has(disk, b.hash)) /\ Loads(loaded, b)
  BY <1>2, <1>3, LoadHeadersKeeps
<1> HIDE DEF b, loaded
<1>5. Total = disk /\ Total' = Total /\ Staging(staged)
  BY <1>1, <1>3, NothingStaged DEF Total
<1>6. /\ TreeOn(tree', base') /\ BaseHeld(tree', base', Total')
      /\ status' = "Running" => Complete(tree', base', Total')
      /\ status' \in {"Running"} \cup Errors
      /\ Contiguous(base') => status' = "Running"
  BY <1>1, <1>4, <1>5 DEF Loads
<1>7. SameUpTo(disk', Total', base'.height)
  BY <1>1, <1>5 DEF SameUpTo
<1>8. StoreInv'
  BY <1>1, <1>2, <1>3, <1>5, <1>6, <1>7 DEF StoreInv
<1> QED
  BY <1>1, <1>4, <1>5, <1>6, <1>8

\* Every step keeps the invariant.
LEMMA StoreStep ==
    ASSUME OneDifficulty, TrueHeights, StoreInv, [Next]_vars
    PROVE  StoreInv'
<1>1. ASSUME NEW msg \in HeadersMessages, NEW outcome \in {"ok"} \cup Failures,
             SyncChain(msg, outcome)
      PROVE  StoreInv'
  BY <1>1, SyncChainKeeps
<1>2. CASE Synced
  BY <1>2, SyncedKeeps
<1>3. CASE Stop
  BY <1>3, StopKeeps
<1>4. ASSUME NEW cp \in Checkpoints \cup wallet, Start(cp)
      PROVE  StoreInv'
  BY <1>4, StartKeeps
<1>5. CASE UNCHANGED vars
  BY <1>5 DEF StoreInv, Total, vars
<1> QED
  BY <1>1, <1>2, <1>3, <1>4, <1>5 DEF Next

\* It holds all the time.
LEMMA StoreAlways ==
    ASSUME OneDifficulty, TrueHeights
    PROVE  Spec => []StoreInv
<1>1. Init => StoreInv
  BY StoreInit
<1>2. StoreInv /\ [Next]_vars => StoreInv'
  BY StoreStep
<1> QED
  BY <1>1, <1>2, PTL DEF Spec

-----------------------------------------------------------------------------
(* The theorems that hold for any checkpoints *)

\* Tree, tables and status have their types.
THEOREM TypeCorrect ==
    ASSUME OneDifficulty, TrueHeights
    PROVE  Spec => []TypeOK
<1>1. StoreInv => TypeOK
  <2> SUFFICES ASSUME StoreInv PROVE TypeOK
    OBVIOUS
  <2>1. /\ anchor \in Anchors /\ base \in Anchors /\ wallet \subseteq Anchors
        /\ TreeType(tree)
    BY DEF StoreInv, TreeOn, Placed, Sound
  <2>2. /\ DOMAIN disk \subseteq Height /\ disk \in [DOMAIN disk -> Hash]
        /\ DOMAIN staged.accepted \subseteq Height
        /\ staged.accepted \in [DOMAIN staged.accepted -> Hash]
        /\ staged.disconnected \subseteq Hash
    BY DEF StoreInv, Table, Staging, Height
  <2> QED
    BY <2>1, <2>2 DEF StoreInv, TypeOK, Anchors, TreeType
<1> QED
  BY <1>1, StoreAlways, PTL

\* Whatever messages arrive, are refused half way or reorganize the chain there and
\* back before a write, and whenever the node is started again: the write that
\* flush does at the end of sync_chain leaves exactly the active chain in the table.
THEOREM DiskCompletesAlways ==
    ASSUME OneDifficulty, TrueHeights
    PROVE  Spec => []DiskCompletes
<1>1. StoreInv => DiskCompletes
  <2> SUFFICES ASSUME StoreInv, status = "Running", "write" \notin lost
               PROVE  LET rows == Written(disk, staged)
                      IN  [k \in {j \in DOMAIN rows : j > base.height} |-> rows[k]] = ChainRows
    BY DEF DiskCompletes
  <2> DEFINE rows == Written(disk, staged)
             S == {h \in MainChain(tree) : HeightOf(tree, h) > base.height}
             above == {j \in DOMAIN rows : j > base.height}
  <2>1. /\ Complete(tree, base, rows) /\ TreeOn(tree, base) /\ Sound(tree, base) /\ Placed(base)
    BY DEF StoreInv, Total, TreeOn
  <2>2. Table(rows)
    BY WrittenTable DEF StoreInv
  <2>3. \A x \in MainChain(tree) : HeightOf(tree, x) = Depth[x]
    BY <2>1, ChainTop, DepthAbove
  <2>4. /\ Table(ChainRows) /\ DOMAIN ChainRows = {Depth[x] : x \in S}
        /\ \A x \in S : ChainRows[Depth[x]] = x
    <3>1. S \in SUBSET MainChain(tree)
      OBVIOUS
    <3>2. ChainRows = Rows(tree, S)
      BY DEF ChainRows
    <3> HIDE DEF S
    <3> QED
      BY <2>1, <3>1, <3>2, RowsTable
  <2> HIDE DEF rows
  <2>5. ASSUME NEW k \in above
        PROVE  rows[k] \in S /\ Depth[rows[k]] = k
    <3>1. rows[k] \in MainChain(tree) /\ Depth[rows[k]] = k
      BY <2>1, <2>2, <2>5 DEF Complete, Table
    <3> QED
      BY <2>3, <2>5, <3>1
  <2>6. \A x \in S : Depth[x] \in above
    BY <2>1, <2>3 DEF Complete, Has
  <2>7. DOMAIN ChainRows = above
    BY <2>4, <2>5, <2>6
  <2>8. \A k \in above : ChainRows[k] = rows[k]
    BY <2>4, <2>5
  <2>9. ChainRows = [k \in DOMAIN ChainRows |-> ChainRows[k]]
    BY <2>4 DEF Table
  <2>10. [k \in above |-> rows[k]] = ChainRows
    <3> HIDE DEF above
    <3> QED
      BY <2>7, <2>8, <2>9
  <2> QED
    BY <2>10 DEF rows
<1> QED
  BY <1>1, StoreAlways, PTL

\* As long as no staged change was lost, each block of an Event::Synced is in the
\* active chain of the running node, was reported as disconnected, or is below the
\* block that load_headers built the tree on, across all restarts.
THEOREM WalletReconciledAlways ==
    ASSUME OneDifficulty, TrueHeights
    PROVE  Spec => []WalletReconciled
<1>1. StoreInv => WalletReconciled
  <2> SUFFICES ASSUME StoreInv, status = "Running", lost = {},
                      NEW w \in wallet, w.height > base.height
               PROVE  w.hash \in MainChain(tree)
    BY DEF WalletReconciled
  <2>1. Complete(tree, base, Total) /\ Has(Total, w.hash) /\ Depth[w.hash] = w.height
    BY DEF StoreInv, Placed
  <2> QED
    BY <2>1 DEF Complete, Has
<1> QED
  BY <1>1, StoreAlways, PTL

-----------------------------------------------------------------------------
(* One checkpoint *)

\* The client always starts with the same checkpoint or a block it has.
OneCheckpoint == \E cp : Checkpoints = {cp}

\* The rows reach down to the block cp: each one is a child of the row below it or
\* of cp.
Grounded(rows, cp) ==
    \A k \in DOMAIN rows :
        /\ k > cp.height
        /\ \/ k = cp.height + 1 /\ PrevOf[rows[k]] = cp.hash
           \/ k - 1 \in DOMAIN rows /\ PrevOf[rows[k]] = rows[k - 1]

\* Unless staged changes were lost, the store reaches down to the checkpoint and
\* the node is always able to start.
GroundInv ==
    lost = {} =>
        /\ status \notin Errors
        /\ \A cp \in Checkpoints : Grounded(Total, cp)
        /\ status = "Running" => base \in Checkpoints \/ Has(Total, base.hash)

\* Rows that are the active chain above b and reach from b to the checkpoint reach
\* from the tip to the checkpoint.
LEMMA ChainGrounded ==
    ASSUME TrueHeights, NEW t, NEW b, TreeOn(t, b), NEW rows, Table(rows), Complete(t, b, rows),
           NEW old, SameUpTo(old, rows, b.height), NEW cp, Placed(cp), Grounded(old, cp),
           b = cp \/ Has(old, b.hash)
    PROVE  Grounded(rows, cp)
<1>1. /\ b.height \in Nat /\ cp.height \in Nat /\ Depth[b.hash] = b.height /\ Sound(t, b)
      /\ DOMAIN rows \subseteq Nat
  BY DEF TreeOn, Placed, Anchors, Height, Table
<1>2. Has(old, b.hash) => b.height \in DOMAIN old /\ old[b.height] = b.hash
  BY <1>1 DEF Has
<1>3. /\ cp.height <= b.height
      /\ b = cp \/ (b.height \in DOMAIN rows /\ rows[b.height] = b.hash)
  BY <1>1, <1>2 DEF Grounded, SameUpTo
<1>4. ASSUME NEW k \in DOMAIN rows, k <= b.height
      PROVE  /\ k > cp.height
             /\ \/ k = cp.height + 1 /\ PrevOf[rows[k]] = cp.hash
                \/ k - 1 \in DOMAIN rows /\ PrevOf[rows[k]] = rows[k - 1]
  <2>1. k \in DOMAIN old /\ rows[k] = old[k] /\ k \in Nat
    BY <1>1, <1>4 DEF SameUpTo
  <2>2. k > cp.height
    BY <2>1 DEF Grounded
  <2>3. CASE k = cp.height + 1 /\ PrevOf[old[k]] = cp.hash
    BY <2>1, <2>2, <2>3
  <2>4. CASE k - 1 \in DOMAIN old /\ PrevOf[old[k]] = old[k - 1]
    <3>1. k - 1 \in Nat /\ k - 1 <= b.height
      BY <1>1, <1>4, <2>1, <2>2
    <3>2. k - 1 \in DOMAIN rows /\ rows[k - 1] = old[k - 1]
      BY <2>4, <3>1 DEF SameUpTo
    <3> QED
      BY <2>1, <2>2, <2>4, <3>2
  <2> QED
    BY <2>1, <2>3, <2>4 DEF Grounded
<1>5. ASSUME NEW k \in DOMAIN rows, k > b.height
      PROVE  /\ k > cp.height
             /\ \/ k = cp.height + 1 /\ PrevOf[rows[k]] = cp.hash
                \/ k - 1 \in DOMAIN rows /\ PrevOf[rows[k]] = rows[k - 1]
  <2> DEFINE x == rows[k]
  <2>1. k \in Nat /\ x \in MainChain(t) /\ Depth[x] = k
    BY <1>1, <1>5 DEF Complete, Table
  <2>2. x \in Known(t) /\ HeightOf(t, x) = k
    BY <1>1, <2>1, ChainTop, DepthAbove
  <2>3. CASE k = b.height + 1 /\ PrevOf[x] = b.hash
    BY <1>1, <1>3, <2>1, <2>3
  <2>4. CASE PrevOf[x] \in MainChain(t) /\ k = HeightOf(t, PrevOf[x]) + 1
    <3>1. PrevOf[x] \in Known(t)
      BY <1>1, <2>4, ChainTop
    <3>2. /\ Depth[PrevOf[x]] \in Nat /\ k = Depth[PrevOf[x]] + 1
          /\ Depth[PrevOf[x]] = b.height => PrevOf[x] = b.hash
      BY <2>4, <3>1, DepthAbove
    <3>3. CASE Depth[PrevOf[x]] = b.height
      BY <2>3, <3>2, <3>3
    <3>4. CASE Depth[PrevOf[x]] > b.height
      <4>1. Has(rows, PrevOf[x])
        BY <2>4, <3>4 DEF Complete
      <4>2. k - 1 = Depth[PrevOf[x]] /\ k > cp.height
        BY <1>1, <1>3, <1>5, <2>1, <3>2
      <4> QED
        BY <4>1, <4>2 DEF Has
    <3> QED
      BY <1>1, <1>5, <2>1, <3>2, <3>3, <3>4
  <2> QED
    BY <1>1, <1>5, <2>1, <2>2, <2>3, <2>4, ChainLinks
<1> QED
  BY <1>1, <1>4, <1>5 DEF Grounded

\* Such rows are loaded without a gap.
LEMMA GroundedContiguous ==
    ASSUME Table(disk), NEW b, Placed(b), NEW cp, Placed(cp), Grounded(disk, cp),
           b = cp \/ Has(disk, b.hash)
    PROVE  Contiguous(b)
<1>1. /\ b.height \in Nat /\ cp.height \in Nat /\ Depth[b.hash] = b.height
      /\ DOMAIN disk \subseteq Nat
  BY DEF Placed, Anchors, Height, Table
<1>2. b = cp \/ (b.height \in DOMAIN disk /\ disk[b.height] = b.hash /\ b.height > cp.height)
  BY <1>1 DEF Has, Grounded
<1>3. ASSUME NEW k \in LoadFrom(b.height)
      PROVE  \/ k = b.height + 1 /\ PrevOf[disk[k]] = b.hash
             \/ k - 1 \in LoadFrom(b.height) /\ PrevOf[disk[k]] = disk[k - 1]
  <2>1. k \in DOMAIN disk /\ k > b.height /\ k \in Nat
    BY <1>1, <1>3 DEF LoadFrom
  <2>2. CASE k = cp.height + 1 /\ PrevOf[disk[k]] = cp.hash
    BY <1>1, <1>2, <2>1, <2>2
  <2>3. CASE k - 1 \in DOMAIN disk /\ PrevOf[disk[k]] = disk[k - 1]
    <3>1. CASE k - 1 = b.height
      <4>1. b # cp
        BY <1>1, <2>3, <3>1 DEF Grounded
      <4> QED
        BY <1>1, <1>2, <2>1, <2>3, <3>1, <4>1
    <3>2. CASE k - 1 > b.height
      BY <2>3, <3>2 DEF LoadFrom
    <3> QED
      BY <1>1, <2>1, <3>1, <3>2
  <2> QED
    BY <2>1, <2>2, <2>3 DEF Grounded
<1> QED
  BY <1>3 DEF Contiguous

\* Every step keeps the store grounded.
LEMMA GroundStep ==
    ASSUME OneDifficulty, TrueHeights, OneCheckpoint, StoreInv, GroundInv, [Next]_vars
    PROVE  GroundInv'
<1> USE DEF GroundInv
<1>1. ASSUME NEW msg \in HeadersMessages, NEW outcome \in {"ok"} \cup Failures,
             SyncChain(msg, outcome), lost' = {}
      PROVE  /\ status' \notin Errors
             /\ \A cp \in Checkpoints : Grounded(Total', cp)
             /\ base' \in Checkpoints \/ Has(Total', base'.hash)
  <2>1. StoreInv' /\ SameUpTo(Total, Total', base.height)
    BY <1>1, SyncChainKeeps
  <2>2. /\ status = "Running" /\ status' = status /\ base' = base /\ lost = {}
    <3>1. lost \subseteq lost'
      BY <1>1, SyncChainStep
    <3> QED
      BY <1>1, <3>1 DEF SyncChain
  <2>3. /\ TreeOn(tree', base) /\ Table(Total') /\ Complete(tree', base, Total')
    <3>1. Table(disk') /\ Staging(staged') /\ status' = "Running"
      BY <2>1, <2>2 DEF StoreInv
    <3>2. Table(Total')
      BY <3>1, WrittenTable DEF Total
    <3> QED
      BY <1>1, <2>1, <2>2, <3>1, <3>2 DEF StoreInv
  <2>4. ASSUME NEW cp \in Checkpoints PROVE Grounded(Total', cp)
    <3>1. Placed(cp) /\ Grounded(Total, cp) /\ (base = cp \/ Has(Total, base.hash))
      BY <2>2, DepthFacts DEF OneCheckpoint
    <3> QED
      BY <2>1, <2>3, <3>1, ChainGrounded
  <2>5. base' \in Checkpoints \/ Has(Total', base'.hash)
    <3>1. ASSUME Has(Total, base.hash) PROVE Has(Total', base.hash)
      <4>1. base.height \in Nat /\ Depth[base.hash] = base.height
        BY <2>3 DEF TreeOn, Placed, Anchors, Height
      <4> QED
        BY <2>1, <3>1, <4>1 DEF Has, SameUpTo
    <3> QED
      BY <2>2, <3>1
  <2>6. status' \notin Errors
    BY <2>2
  <2> QED
    BY <2>4, <2>5, <2>6
<1>2. CASE Synced
  <2>1. Total' = Total /\ UNCHANGED <<status, base, lost>>
    BY <1>2, SyncedKeeps DEF Synced
  <2> QED
    BY <2>1
<1>3. CASE Stop
  <2>1. (lost' = {} => Total' = Total) /\ lost \subseteq lost'
    BY <1>3, StopKeeps
  <2>2. status' = "Stopped"
    BY <1>3 DEF Stop
  <2> QED
    BY <2>1, <2>2 DEF Errors
<1>4. ASSUME NEW cp \in Checkpoints \cup wallet, Start(cp), lost' = {}
      PROVE  /\ status' \notin Errors
             /\ \A c \in Checkpoints : Grounded(Total', c)
             /\ base' \in Checkpoints \/ Has(Total', base'.hash)
  <2>1. /\ StoreInv' /\ Total' = Total /\ Total = disk
        /\ base' = cp \/ Has(disk, base'.hash)
        /\ Contiguous(base') => status' = "Running"
    BY <1>4, StartKeeps
  <2>2. lost = {} /\ disk' = disk
    BY <1>4 DEF Start
  <2>3. cp \in wallet => Has(disk, cp.hash)
    BY <2>1, <2>2 DEF StoreInv
  <2>4. base' \in Checkpoints \/ Has(disk, base'.hash)
    BY <1>4, <2>1, <2>3
  <2>5. Contiguous(base')
    <3> PICK c : Checkpoints = {c}
      BY DEF OneCheckpoint
    <3>1. Placed(c) /\ Grounded(disk, c) /\ (base' = c \/ Has(disk, base'.hash))
      BY <2>1, <2>2, <2>4, DepthFacts
    <3>2. Table(disk) /\ Placed(base')
      BY <2>1 DEF StoreInv, TreeOn
    <3> QED
      BY <3>1, <3>2, GroundedContiguous
  <2> QED
    BY <2>1, <2>2, <2>4, <2>5 DEF Errors
<1>5. CASE UNCHANGED vars
  BY <1>5 DEF Total, vars
<1> QED
  BY <1>1, <1>2, <1>3, <1>4, <1>5 DEF Next

\* The store is grounded all the time.
LEMMA GroundAlways ==
    ASSUME OneDifficulty, TrueHeights, OneCheckpoint
    PROVE  Spec => [](StoreInv /\ GroundInv)
<1>1. Init => GroundInv
  <2> SUFFICES ASSUME Init PROVE GroundInv
    OBVIOUS
  <2>1. Table(disk) /\ DOMAIN disk = {} /\ staged = Nothing
    BY StoreInit DEF StoreInv, Init
  <2>2. Total = disk
    BY <2>1, NothingStaged DEF Total
  <2> HIDE DEF Total
  <2> QED
    BY <2>1, <2>2 DEF GroundInv, Grounded, Init, Errors
<1>2. StoreInv /\ GroundInv /\ [Next]_vars => GroundInv'
  BY GroundStep
<1> QED
  BY <1>1, <1>2, StoreAlways, PTL DEF Spec

\* Up to the tip, get_header answers from the table that a write would leave.
LEMMA FetchedRow ==
    ASSUME OneDifficulty, TrueHeights, StoreInv, status = "Running", "write" \notin lost,
           NEW k \in Nat, k <= tree.tip.height, FetchHeader(k) # None
    PROVE  k \in DOMAIN Total /\ FetchHeader(k) = Total[k]
<1> DEFINE can == tree.canonical
<1>1. /\ TreeOn(tree, base) /\ Sound(tree, base) /\ Indexed(tree, base) /\ Table(disk)
      /\ Complete(tree, base, Total) /\ BaseHeld(tree, base, Total)
      /\ SameUpTo(disk, Total, base.height)
  BY DEF StoreInv, TreeOn, Followed
<1>2. /\ base.height \in Nat /\ tree.tip.height \in Nat
      /\ Depth[base.hash] = base.height
  BY <1>1, TipDepth DEF TreeOn, Placed
<1>3. \A j \in DOMAIN can : /\ can[j] \in MainChain(tree) /\ can[j] \in Known(tree)
                            /\ Depth[can[j]] = j /\ j \in Nat /\ can[j] # None
  <2> TAKE j \in DOMAIN can
  <2>1. can[j] \in MainChain(tree) /\ HeightOf(tree, can[j]) = j
    BY <1>1 DEF Indexed
  <2>2. can[j] \in Known(tree) /\ can[j] \in Hash
    BY <1>1, <2>1, ChainTop
  <2> QED
    BY <1>1, <2>1, <2>2, DepthAbove, HeaderAssumption
<1>4. HeaderAtHeight(tree, k) = IF k \in DOMAIN can THEN can[k] ELSE None
  BY <1>3 DEF HeaderAtHeight
<1>5. CASE k > base.height
  <2>1. Known(tree) # {} /\ tree.tip.hash \in Known(tree)
    <3>1. Known(tree) = {} => tree.tip.height = base.height
      BY <1>1 DEF Sound, ForkTips, Tip
    <3>2. Known(tree) # {}
      BY <1>2, <1>5, <3>1
    <3> QED
      BY <1>1, <3>2 DEF Sound, ForkTips
  <2>2. PICK g \in Known(tree) : IsFirst(tree, g) /\ FirstOK(tree, g, base)
    BY <1>1, <2>1 DEF Sound, HeadersLinked
  <2>3. HeightOf(tree, g) <= k /\ k <= HeightOf(tree, tree.tip.hash)
    BY <1>1, <1>2, <1>5, <2>1, <2>2 DEF FirstOK, Sound, ForkTips
  <2>4. PICK x \in MainChain(tree) : HeightOf(tree, x) = k
    BY <1>1, <2>1, <2>2, <2>3, WalkFull DEF Sound, MainChain
  <2>5. x \in Known(tree) /\ Depth[x] = k /\ x # base.hash
    BY <1>1, <1>2, <1>5, <2>4, ChainTop, DepthAbove
  <2>6. k \in DOMAIN can /\ can[k] = x
    BY <1>1, <2>4, <2>5 DEF Indexed
  <2>7. Has(Total, x)
    BY <1>1, <1>5, <2>4, <2>5 DEF Complete
  <2> QED
    BY <1>3, <1>4, <2>5, <2>6, <2>7 DEF FetchHeader, Has
<1>6. CASE k <= base.height /\ k \in DOMAIN can
  <2>1. can[k] = base.hash /\ k = base.height /\ base.hash \in Known(tree)
    BY <1>1, <1>2, <1>3, <1>6, DepthAbove
  <2>2. Has(Total, base.hash)
    BY <1>1, <2>1 DEF BaseHeld
  <2> QED
    BY <1>2, <1>3, <1>4, <1>6, <2>1, <2>2 DEF FetchHeader, Has
<1>7. CASE k <= base.height /\ k \notin DOMAIN can
  <2>1. FetchHeader(k) = HeaderAt(k)
    BY <1>4, <1>7 DEF FetchHeader
  <2>2. k \in DOMAIN disk /\ FetchHeader(k) = disk[k]
    BY <2>1 DEF HeaderAt
  <2> QED
    BY <1>1, <1>7, <2>2 DEF SameUpTo
<1> QED
  BY <1>2, <1>5, <1>6, <1>7

\* As long as no staged change was lost, the answers of fetch_header up to the tip
\* name each other as parents, wherever they come from.
THEOREM FetchedChainAlways ==
    ASSUME OneDifficulty, TrueHeights, OneCheckpoint
    PROVE  Spec => []FetchedChain
<1>1. StoreInv /\ GroundInv => FetchedChain
  <2> SUFFICES ASSUME StoreInv, GroundInv, status = "Running", lost = {},
                      NEW k \in 1 .. tree.tip.height,
                      FetchHeader(k) # None, FetchHeader(k - 1) # None
               PROVE  PrevOf[FetchHeader(k)] = FetchHeader(k - 1)
    BY DEF FetchedChain
  <2>1. tree.tip.height \in Nat
    BY TipDepth DEF StoreInv
  <2>2. /\ k \in Nat /\ k <= tree.tip.height
        /\ k - 1 \in Nat /\ k - 1 <= tree.tip.height
    BY <2>1
  <2>3. k \in DOMAIN Total /\ FetchHeader(k) = Total[k]
    BY <2>2, FetchedRow
  <2>4. k - 1 \in DOMAIN Total /\ FetchHeader(k - 1) = Total[k - 1]
    BY <2>2, FetchedRow
  <2>5. PICK cp : Checkpoints = {cp}
    BY DEF OneCheckpoint
  <2>6. Grounded(Total, cp) /\ cp.height \in Nat
    BY <2>5, DepthFacts DEF GroundInv, Placed, Anchors, Height
  <2>7. k - 1 > cp.height
    BY <2>4, <2>6 DEF Grounded
  <2>8. PrevOf[Total[k]] = Total[k - 1]
    BY <2>2, <2>3, <2>6, <2>7 DEF Grounded
  <2> QED
    BY <2>3, <2>4, <2>8
<1> QED
  BY <1>1, GroundAlways, PTL

\* A node that lost no staged change does not fail to load its store: from its one
\* checkpoint, or from any block it was ever told of, it starts again.
THEOREM LoadErrorExplainedAlways ==
    ASSUME OneDifficulty, TrueHeights, OneCheckpoint
    PROVE  Spec => []LoadErrorExplained
<1>1. GroundInv => LoadErrorExplained
  BY DEF GroundInv, LoadErrorExplained
<1> QED
  BY <1>1, GroundAlways, PTL
=============================================================================
