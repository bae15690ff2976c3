------------------------------ MODULE BlockTree ------------------------------
(***************************************************************************)
(* The block tree as a state machine: headers arrive in any order the      *)
(* peers choose, filter commitments and filter checks are recorded as the  *)
(* chain layer does it, and a rescan resets the checks.                    *)
(*                                                                         *)
(* reported is a history variable: the chain as somebody knows it who only *)
(* sees the AcceptHeaderChanges (the header store and, for disconnected    *)
(* blocks, the client).                                                    *)
(***************************************************************************)
EXTENDS TreeShape

CONSTANTS
    Root,        \* hash of the anchor of the tree
    RootHeight,  \* its height
    Starts       \* the constructors in use: a subset of Constructors

Constructors == {"new", "from_header", "from_genesis"}

ASSUME StartAssumption ==
    /\ Root \in Hash /\ RootHeight \in Height
    /\ Starts \subseteq Constructors
    /\ "from_genesis" \in Starts => RootHeight = 0

TreeRoot == [hash |-> Root, height |-> RootHeight]

VARIABLES tree, reported

vars == <<tree, reported>>

StartTree(start) ==
    CASE start = "new"          -> NewTree(Root, RootHeight)
      [] start = "from_header"  -> FromHeader(Root, RootHeight)
      [] start = "from_genesis" -> FromGenesis(Root)

Init ==
    /\ \E start \in Starts : tree = StartTree(start)
    /\ reported = Known(tree)

Receive(h) ==
    LET r == AcceptHeader(tree, h)
    IN  /\ tree' = r.tree
        /\ reported' = ApplyReport(reported, r.changes)

\* push_cf_header_batch
Commit(c, h) ==
    /\ tree' = SetCommitment(tree, c, h)
    /\ UNCHANGED reported

\* sync_filter checks only filters whose commitment is known
Check(h) ==
    /\ h \in Known(tree)
    /\ tree.headers[h].commitment # None
    /\ tree' = CheckFilter(tree, h)
    /\ UNCHANGED reported

\* clear_filters
Rescan ==
    /\ tree' = ResetAllFilters(tree)
    /\ UNCHANGED reported

Next ==
    \/ \E h \in Hash : Receive(h)
    \/ \E c \in Commitment, h \in Hash : Commit(c, h)
    \/ \E h \in Hash : Check(h)
    \/ Rescan

Spec == Init /\ [][Next]_vars

-----------------------------------------------------------------------------
(* Safety *)

\* The block tree and the chain rebuilt from its reports have their types.
TypeOK == TreeType(tree) /\ reported \subseteq Hash

\* The tree stays one tree whatever headers arrive: linked, with heights and
\* work that add up, and with tips that are leaves.  In particular a header that
\* builds on the active tip is never one the tree already has, the one case that
\* accept_header does not test for duplicates.
Structure == HeadersLinked(tree, TreeRoot) /\ ForkTips(tree, TreeRoot)

\* canonical_hashes is the index of the active chain by height: it holds each
\* block of the chain (but the header a tree was loaded from) and nothing else,
\* across any sequence of extensions, forks and reorganizations.
CanonicalMatchesTip == Indexed(tree, TreeRoot)

\* Who applies the reported changes one by one, never seeing the tree, has
\* exactly the blocks of the active chain.
ReportsMainChain == reported = MainChain(tree)

\* No known header has more accumulated work than the active tip.
MostWork == \A h \in Known(tree) : AccWork(tree, h) <= AccWork(tree, tree.tip.hash)

\* The hash a height has on the active chain, when its block is known.
AtHeight(t, k) == {x \in MainChain(t) : HeightOf(t, x) = k}

\* Each block of the active chain carries the bits that the retargeting rule
\* asks of it: those of its parent inside an epoch, and at an epoch boundary the
\* value computed from the first and the last block of the epoch before, of its
\* own chain, when both are known.
DifficultyFollowed ==
    \A h \in MainChain(tree) : PrevOf[h] \in MainChain(tree) =>
        LET k == HeightOf(tree, h)
        IN  IF Retargets /\ k % Interval = 0
            THEN \A start \in AtHeight(tree, k - Interval) :
                    BitsOf[h] = Retarget[start, PrevOf[h]]
            ELSE BitsOf[h] = BitsOf[PrevOf[h]]

-----------------------------------------------------------------------------
(* Action properties *)

\* The active tip is only ever exchanged for one with more accumulated work.
TipGainsWork ==
    [][tree'.tip.hash # tree.tip.hash =>
        AccWork(tree', tree'.tip.hash) > AccWork(tree, tree.tip.hash)]_vars

-----------------------------------------------------------------------------
(* Refinement *)

Best == INSTANCE BestChain WITH
    WorkOf <- Work, Anchor <- Root,
    chain <- reported, work <- AccWork(tree, tree.tip.hash)

\* To those who follow the reports, the tree with all its forks is one chain that
\* grows a block at a time or is exchanged for one with more work: no sequence
\* of AcceptHeaderChanges leaves a gap, a block of two branches at once or less
\* work than before.
ImplementsBestChain == Best!Spec
=============================================================================
