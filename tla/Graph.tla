-------------------------------- MODULE Graph --------------------------------
(***************************************************************************)
(* The block tree of chain/graph.rs as a value and the operations on it.   *)
(*                                                                         *)
(* A block hash determines its header, so the headers that peers may ever  *)
(* send are constants: Hash, and for each hash the parent it names and the *)
(* difficulty bits it carries.  A tree is a record                         *)
(*                                                                         *)
(*   canonical  height -> hash          canonical_hashes                   *)
(*   headers    hash -> node            headers                            *)
(*   tip        [hash, height, next]    active_tip                         *)
(*   forks      a set of such tips      candidate_forks                    *)
(*                                                                         *)
(* candidate_forks is a Vec in the code.  No operation depends on its      *)
(* order and no hash is in it twice (ForkTips in TreeShape), so a set is   *)
(* the same thing.                                                         *)
(*                                                                         *)
(* Operators named ...Mutant are slips a programmer could make in the      *)
(* definition that follows them.  Nothing uses them; PROJECT.json pairs    *)
(* each with the property that notices it.                                 *)
(***************************************************************************)
EXTENDS Integers, FiniteSets

CONSTANTS
    Hash,        \* block hashes of the headers that can be received
    NoHash,      \* a parent outside of Hash (all zeros, or never received)
    PrevOf,      \* Header.prev_blockhash of each hash
    Rank,        \* hash functions have no cycles: a child outranks its parent
    Bits,        \* difficulty encodings (CompactTarget)
    BitsOf,      \* Header.bits of each hash
    WorkOf,      \* Header.work(), a function of the bits
    Retarget,    \* CompactTarget::from_header_difficulty_adjustment
    Interval,    \* difficulty_adjustment_interval() of the network
    Retargets,   \* ~no_pow_retargeting /\ ~allow_min_difficulty_blocks
    Commitment,  \* filter commitments (filter header and filter hash)
    None         \* Option::None

ASSUME HeaderAssumption ==
    /\ NoHash \notin Hash
    /\ PrevOf \in [Hash -> Hash \cup {NoHash}]
    /\ BitsOf \in [Hash -> Bits]
    /\ WorkOf \in [Bits -> Nat \ {0}]
    /\ Retarget \in [Hash \X Hash -> Bits]
    /\ Interval \in Nat \ {0}
    /\ Retargets \in BOOLEAN
    /\ None \notin Bits \cup Commitment \cup Hash

ASSUME RankAssumption ==
    /\ Rank \in [Hash -> Nat]
    /\ \A h \in Hash : PrevOf[h] \in Hash => Rank[PrevOf[h]] < Rank[h]

Height == Nat

TipType == [hash : Hash, height : Height, next : Bits \cup {None}]

NodeType == [height : Height, acc_work : Nat,
             commitment : Commitment \cup {None}, checked : BOOLEAN]

Work(h) == WorkOf[BitsOf[h]]

-----------------------------------------------------------------------------
(***************************************************************************)
(* Every walk in graph.rs follows prev_blockhash.  Ancestry[h] is the set  *)
(* of hashes such a walk from h can meet, h included: the smallest set     *)
(* with h that is closed under PrevOf.                                     *)
(***************************************************************************)
PrevClosed(S) == \A y \in S : PrevOf[y] \in Hash => PrevOf[y] \in S

Ancestry ==
    [h \in Hash |->
        {x \in Hash : \A S \in SUBSET Hash : h \in S /\ PrevClosed(S) => x \in S}]

Known(t) == DOMAIN t.headers

\* The nodes a walk from h visits: it stops at the first hash that is not in
\* the headers.  Parents of known headers are known down to the first header
\* of the tree (HeadersLinked in TreeShape), so nothing is skipped.
Walk(t, h) == IF h \in Known(t) THEN Ancestry[h] \cap Known(t) ELSE {}

HeightOf(t, h) == t.headers[h].height

\* BlockNodeIterator and BlockHeaderIterator from the active tip: iter_data,
\* iter_headers.
MainChain(t) == Walk(t, t.tip.hash)

-----------------------------------------------------------------------------
(* Constructors: new, from_genesis, from_header *)

NewNode(height, work) ==
    [height |-> height, acc_work |-> work, commitment |-> None, checked |-> FALSE]

Tip(hash, height, next) == [hash |-> hash, height |-> height, next |-> next]

\* Mutant: the tip of a new tree is not set to the anchor.
NewTreeUnanchoredMutant(hash, height) ==
    [canonical |-> [k \in {} |-> hash], headers |-> [h \in {} |-> None],
     tip |-> Tip(NoHash, height, None), forks |-> {}]

NewTree(hash, height) ==
    [canonical |-> [k \in {} |-> hash], headers |-> [h \in {} |-> None],
     tip |-> Tip(hash, height, None), forks |-> {}]

FromHeader(hash, height) ==
    [canonical |-> [k \in {} |-> hash],
     headers |-> [h \in {hash} |-> NewNode(height, Work(hash))],
     tip |-> Tip(hash, height, BitsOf[hash]), forks |-> {}]

FromGenesis(hash) ==
    [FromHeader(hash, 0) EXCEPT !.canonical = [k \in {0} |-> hash]]

-----------------------------------------------------------------------------
(* Lookups *)

HeaderAtHeight(t, k) ==
    IF k \in DOMAIN t.canonical /\ t.canonical[k] \in Known(t)
    THEN t.canonical[k] ELSE None

BlockHashAtHeight(t, k) ==
    IF k = t.tip.height THEN t.tip.hash
    ELSE IF k \in DOMAIN t.canonical THEN t.canonical[k] ELSE None

Contains(t, h) == h \in Known(t) \/ h = t.tip.hash

FilterHeadersSynced(t) == \A h \in MainChain(t) : t.headers[h].commitment # None

FiltersSynced(t) == \A h \in MainChain(t) : t.headers[h].checked

-----------------------------------------------------------------------------
(* Difficulty *)

\* Mutant: the epoch ends one block early.
ComputeNextWorkRequiredEarlyMutant(t, height) ==
    LET start == HeaderAtHeight(t, height - Interval - 1)
        end   == HeaderAtHeight(t, height - 1)
    IN  IF start = None \/ end = None THEN None ELSE Retarget[start, end]

\* The epoch is looked up on the canonical chain, whatever chain the new
\* header extends; None when one of its ends is not there.
ComputeNextWorkRequired(t, height) ==
    LET start == HeaderAtHeight(t, height - Interval)
        end   == HeaderAtHeight(t, height - 1)
    IN  IF start = None \/ end = None THEN None ELSE Retarget[start, end]

NextWork(t, height, carried) ==
    IF Retargets /\ height % Interval = 0
    THEN ComputeNextWorkRequired(t, height) ELSE carried

BitsAccepted(h, next) == next = None \/ BitsOf[h] = next

-----------------------------------------------------------------------------
(* accept_header *)

Change(kind, accepted, disconnected) ==
    [kind |-> kind, accepted |-> accepted, disconnected |-> disconnected]

Unaccepted(kind) == Change(kind, {}, {})

AccWork(t, h) == IF h \in Known(t) THEN t.headers[h].acc_work ELSE 0

AddNode(t, h, height) ==
    [x \in Known(t) \cup {h} |->
        IF x = h THEN NewNode(height, AccWork(t, PrevOf[h]) + Work(h))
        ELSE t.headers[x]]

SetCanonical(t, k, h) ==
    [j \in DOMAIN t.canonical \cup {k} |-> IF j = k THEN h ELSE t.canonical[j]]

\* The header builds on the active tip.
ExtendTip(t, h) ==
    LET height == t.tip.height + 1
        next   == NextWork(t, height, t.tip.next)
    IN  IF ~BitsAccepted(h, next)
        THEN [tree |-> t, changes |-> Unaccepted("InvalidPow")]
        ELSE [tree    |-> [canonical |-> SetCanonical(t, height, h),
                           headers   |-> AddNode(t, h, height),
                           tip       |-> Tip(h, height, next),
                           forks     |-> t.forks],
              changes |-> Change("Accepted", {h}, {})]

\* Mutant: the walk down the new branch starts below its tip.
ReconnectedBelowTipMutant(t, h) ==
    {x \in Walk(t, h) \ {h} :
        \A y \in Walk(t, h) : HeightOf(t, y) >= HeightOf(t, x) =>
            ~(HeightOf(t, y) \in DOMAIN t.canonical /\ t.canonical[HeightOf(t, y)] = y)}

\* The walk of switch_to_fork from the new tip goes down to the first node
\* that is canonical at its height, and leaves that one alone.
Reconnected(t, h) ==
    {x \in Walk(t, h) :
        \A y \in Walk(t, h) : HeightOf(t, y) >= HeightOf(t, x) =>
            ~(HeightOf(t, y) \in DOMAIN t.canonical /\ t.canonical[HeightOf(t, y)] = y)}

\* Mutant: of the new branch only the tip is reported.
SwitchToForkTipMutant(t, h) ==
    LET conn == Reconnected(t, h)
        at   == [k \in {HeightOf(t, x) : x \in conn} |->
                    CHOOSE x \in conn : HeightOf(t, x) = k]
        disc == {t.canonical[k] : k \in DOMAIN at \cap DOMAIN t.canonical}
    IN  [tree    |-> [t EXCEPT !.canonical =
                         [k \in DOMAIN t.canonical \cup DOMAIN at |->
                             IF k \in DOMAIN at THEN at[k] ELSE t.canonical[k]]],
         changes |-> Change("Reorganization", {h}, disc \cap Known(t))]

SwitchToFork(t, h) ==
    LET conn == Reconnected(t, h)
        at   == [k \in {HeightOf(t, x) : x \in conn} |->
                    CHOOSE x \in conn : HeightOf(t, x) = k]
        disc == {t.canonical[k] : k \in DOMAIN at \cap DOMAIN t.canonical}
    IN  [tree    |-> [t EXCEPT !.canonical =
                         [k \in DOMAIN t.canonical \cup DOMAIN at |->
                             IF k \in DOMAIN at THEN at[k] ELSE t.canonical[k]]],
         changes |-> Change("Reorganization", conn, disc \cap Known(t))]

\* Mutant: a tie switches the chain.
MoreWorkOrEqualMutant(t, h) == AccWork(t, h) >= AccWork(t, t.tip.hash)

\* Mutant: compares the work before the new header.
MoreWorkOfParentMutant(t, h) == AccWork(t, PrevOf[h]) > AccWork(t, t.tip.hash)

\* The comparison that decides on a reorganization.
MoreWork(t, h) == AccWork(t, h) > AccWork(t, t.tip.hash)

\* The header builds on the tip of a candidate fork.  The fork leaves
\* candidate_forks before the bits are compared (swap_remove), and is not put
\* back when they are refused.
ExtendFork(t, h, fork) ==
    LET height == HeightOf(t, fork.hash) + 1
        next   == NextWork(t, height, fork.next)
        others == t.forks \ {fork}
        grown  == [t EXCEPT !.headers = AddNode(t, h, height)]
        tip    == Tip(h, height, next)
    IN  IF ~BitsAccepted(h, next)
        THEN [tree |-> [t EXCEPT !.forks = others], changes |-> Unaccepted("InvalidPow")]
        ELSE IF MoreWork(grown, h)
        THEN SwitchToFork([grown EXCEPT !.forks = others \cup {t.tip}, !.tip = tip], h)
        ELSE [tree    |-> [grown EXCEPT !.forks = others \cup {tip}],
              changes |-> Change("ExtendedFork", {h}, {})]

\* The header builds on a known header that is no tip: a new fork.  Its work
\* is not compared with that of the active tip.
CreateFork(t, h) ==
    LET height == HeightOf(t, PrevOf[h]) + 1
        next   == NextWork(t, height, BitsOf[PrevOf[h]])
    IN  IF ~BitsAccepted(h, next)
        THEN [tree |-> t, changes |-> Unaccepted("InvalidPow")]
        ELSE [tree    |-> [t EXCEPT !.headers = AddNode(t, h, height),
                                    !.forks = t.forks \cup {Tip(h, height, next)}],
              changes |-> Change("ExtendedFork", {h}, {})]

ForksAt(t, h) == {f \in t.forks : f.hash = h}

\* Mutant: a header that is known is taken again.
AcceptHeaderAgainMutant(t, h) ==
    IF PrevOf[h] = t.tip.hash THEN ExtendTip(t, h)
    ELSE IF ForksAt(t, PrevOf[h]) # {}
         THEN ExtendFork(t, h, CHOOSE f \in ForksAt(t, PrevOf[h]) : TRUE)
    ELSE IF PrevOf[h] \in Known(t) THEN CreateFork(t, h)
    ELSE [tree |-> t, changes |-> Unaccepted("UnknownPrevHash")]

\* The cases are tried in the order of the code.  A candidate fork is always
\* a known header (ForkTips), so the lookup of its node cannot fail.
AcceptHeader(t, h) ==
    IF PrevOf[h] = t.tip.hash THEN ExtendTip(t, h)
    ELSE IF h \in Known(t) THEN [tree |-> t, changes |-> Unaccepted("Duplicate")]
    ELSE IF ForksAt(t, PrevOf[h]) # {}
         THEN ExtendFork(t, h, CHOOSE f \in ForksAt(t, PrevOf[h]) : TRUE)
    ELSE IF PrevOf[h] \in Known(t) THEN CreateFork(t, h)
    ELSE [tree |-> t, changes |-> Unaccepted("UnknownPrevHash")]

-----------------------------------------------------------------------------
(* Filter state of the nodes *)

SetCommitment(t, c, h) ==
    IF h \in Known(t) THEN [t EXCEPT !.headers[h].commitment = c] ELSE t

CheckFilter(t, h) ==
    IF h \in Known(t) THEN [t EXCEPT !.headers[h].checked = TRUE] ELSE t

AssumeCheckedTo(t, height) ==
    [t EXCEPT !.headers = [h \in Known(t) |->
        IF h \in MainChain(t) /\ HeightOf(t, h) <= height
        THEN [t.headers[h] EXCEPT !.checked = TRUE] ELSE t.headers[h]]]

\* The walk over the active chain clears every node.  The walk from a fork
\* then stops at the first node that is not checked, be it one that the first
\* walk cleared or one whose filter never arrived.
ForkReset(t, fork) ==
    {x \in Walk(t, fork.hash) :
        \A y \in Walk(t, fork.hash) : HeightOf(t, y) >= HeightOf(t, x) =>
            t.headers[y].checked /\ y \notin MainChain(t)}

\* Mutant: stops at the first block that is unchecked.
ResetAllFiltersStopsMutant(t) ==
    LET reset == {x \in MainChain(t) : \A y \in MainChain(t) :
                    HeightOf(t, y) >= HeightOf(t, x) => t.headers[y].checked}
    IN  [t EXCEPT !.headers = [h \in Known(t) |->
            IF h \in reset
            THEN [t.headers[h] EXCEPT !.checked = FALSE] ELSE t.headers[h]]]

ResetAllFilters(t) ==
    LET reset == MainChain(t) \cup UNION {ForkReset(t, f) : f \in t.forks}
    IN  [t EXCEPT !.headers = [h \in Known(t) |->
            IF h \in reset
            THEN [t.headers[h] EXCEPT !.checked = FALSE] ELSE t.headers[h]]]
=============================================================================
