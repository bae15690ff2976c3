------------------------------ MODULE BestChain ------------------------------
(***************************************************************************)
(* What the block tree promises to those who follow the chain through its  *)
(* reports: the header store, the client and its wallet.                   *)
(*                                                                         *)
(* There is one chain of blocks on top of an anchor.  It grows block by    *)
(* block or is exchanged, in one step, for a chain that has more work.     *)
(* Nothing is said of forks, of filters or of how work is computed.        *)
(***************************************************************************)
EXTENDS Integers

CONSTANTS
    Hash,       \* block hashes
    PrevOf,     \* the parent each of them names
    WorkOf(_),  \* the work of one block
    Anchor      \* the block the chain is built on

VARIABLES
    chain,      \* the blocks of the chain, with or without the anchor
    work        \* their work

vars == <<chain, work>>

\* Blocks without a gap down to the anchor and without two at one height.
IsChain(S) ==
    /\ S \subseteq Hash
    /\ \A h \in S : h = Anchor \/ PrevOf[h] \in S \cup {Anchor}
    /\ \A g, h \in S : PrevOf[g] = PrevOf[h] => g = h

Init ==
    \/ chain = {} /\ work = 0
    \/ chain = {Anchor} /\ work = WorkOf(Anchor)

\* A block is put on top of the chain.
Extend(h) ==
    /\ h \notin chain
    /\ chain' = chain \cup {h}
    /\ IsChain(chain')
    /\ work' = work + WorkOf(h)

\* Some blocks at the top give way to others.
Exchange ==
    /\ IsChain(chain')
    /\ chain \ chain' # {}
    /\ chain' \ chain # {}
    /\ work' > work

Next == (\E h \in Hash : Extend(h)) \/ Exchange

Spec == Init /\ [][Next]_vars
=============================================================================
