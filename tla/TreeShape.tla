------------------------------ MODULE TreeShape ------------------------------
(***************************************************************************)
(* What holds of a block tree that grows from an anchor: its type, the     *)
(* links between its headers, its tips and its index by height, each       *)
(* stated of any tree value t and any anchor root: a checkpoint, genesis   *)
(* or a stored header, with its height.  BlockTree, Node and HeaderStore   *)
(* keep a tree of this shape.                                              *)
(***************************************************************************)
EXTENDS Graph

Anchors == [hash : Hash, height : Height]

TreeType(t) ==
    /\ DOMAIN t = {"canonical", "headers", "tip", "forks"}
    /\ t.tip \in TipType
    /\ t.forks \subseteq TipType
    /\ Known(t) \subseteq Hash
    /\ t.headers \in [Known(t) -> NodeType]
    /\ DOMAIN t.canonical \subseteq Height
    /\ t.canonical \in [DOMAIN t.canonical -> Hash]

\* A header without a known parent is the first of the tree.
IsFirst(t, h) == PrevOf[h] \notin Known(t)

\* The first header is the anchor itself or, when the tree was started without
\* the header of the anchor (BlockTree::new), its child.
FirstOK(t, g, root) ==
    /\ t.headers[g].acc_work = Work(g)
    /\ \/ g = root.hash /\ HeightOf(t, g) = root.height
       \/ PrevOf[g] = root.hash /\ HeightOf(t, g) = root.height + 1

\* There is one first header and all others descend from it, each one height
\* above its parent and with the work of its parent and its own.
HeadersLinked(t, root) ==
    /\ root \in Anchors
    /\ Known(t) # {} =>
        \E g \in Known(t) :
            /\ IsFirst(t, g)
            /\ FirstOK(t, g, root)
            /\ \A h \in Known(t) : g \in Ancestry[h] /\ (IsFirst(t, h) => h = g)
    /\ \A h \in Known(t) : ~IsFirst(t, h) =>
        /\ HeightOf(t, h) = HeightOf(t, PrevOf[h]) + 1
        /\ t.headers[h].acc_work = t.headers[PrevOf[h]].acc_work + Work(h)

\* The active tip and the candidate forks are distinct known headers without
\* children, and have the height of their node.  Only the anchor of a tree
\* without headers is a tip that is not known.
ForkTips(t, root) ==
    /\ IF Known(t) = {} THEN t.tip = Tip(root.hash, root.height, None)
                        ELSE t.tip.hash \in Known(t)
    /\ \A f \in t.forks \cup {t.tip} :
        /\ f.hash \in Known(t) => f.height = HeightOf(t, f.hash)
        /\ \A h \in Known(t) : PrevOf[h] # f.hash
    /\ \A f \in t.forks :
        /\ f.hash \in Known(t)
        /\ f.hash # t.tip.hash
        /\ \A g \in t.forks : f.hash = g.hash => f = g

\* The index by height is that of the active chain, but for the anchor.
Indexed(t, root) ==
    /\ \A h \in MainChain(t) \ {root.hash} :
        HeightOf(t, h) \in DOMAIN t.canonical /\ t.canonical[HeightOf(t, h)] = h
    /\ \A k \in DOMAIN t.canonical :
        t.canonical[k] \in MainChain(t) /\ HeightOf(t, t.canonical[k]) = k

-----------------------------------------------------------------------------
(* The changes that accept_header reports *)

\* Mutant: disconnected blocks are not taken out.
ApplyReportKeepsMutant(chain, c) ==
    IF c.kind \in {"Accepted", "Reorganization"} THEN chain \cup c.accepted ELSE chain

\* Chain::sync_chain hands each header of a message to accept_header.  It
\* stages Connected and Reorganized; an extended fork is only logged.
ApplyReport(chain, c) ==
    CASE c.kind = "Accepted"       -> chain \cup c.accepted
      [] c.kind = "Reorganization" -> (chain \ c.disconnected) \cup c.accepted
      [] OTHER                     -> chain
=============================================================================
