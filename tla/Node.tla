-------------------------------- MODULE Node --------------------------------
(***************************************************************************)
(* The main loop of node.rs on top of Chain: the sync state of the node    *)
(* and one action for each message of a peer or of the client.             *)
(*                                                                         *)
(* A turn of the loop runs advance_state and get_blocks and then handles   *)
(* one message; pc tells the two halves apart.  Peers are arbitrary: they  *)
(* send any well-formed message at any time, solicited or not, in any      *)
(* order and as often as they like, which includes what is left in the     *)
(* channel when a peer is disconnected or banned.  Choosing and banning    *)
(* peers is the concern of the peer map; here a peer only joins (Version)  *)
(* and leaves.                                                             *)
(***************************************************************************)
EXTENDS Chain, TreeShape

CONSTANTS
    Root,          \* the header the tree is built on
    RootHeight,    \* its height
    Loaded,        \* headers that load_headers found in the store, in order
    ScanHeight,    \* height of the checkpoint the scan starts after
    MaxHeaders,    \* bound: headers in a message
    MaxHeight,     \* bound: heights that peers claim
    Bases,         \* filter headers a peer may claim below the first header
    Repeats        \* whether a peer may answer the same request again

ASSUME NodeAssumption ==
    /\ IsFiniteSet(Hash)
    /\ Root \in Hash /\ RootHeight \in Height
    /\ ScanHeight \in Nat
    /\ MaxHeaders \in Nat /\ MaxHeight \in Nat
    /\ Loaded \in Seq(Hash)
    /\ Bases \subseteq FilterHeader
    /\ Repeats \in BOOLEAN

TreeRoot == [hash |-> Root, height |-> RootHeight]

States ==
    {"Behind", "HeadersSynced", "FilterHeadersSynced", "FiltersSynced", "TransactionsSynced"}

VARIABLES
    chain,     \* the Chain
    state,     \* NodeState
    heights,   \* HeightMonitor.map
    scripts,   \* Chain.scripts
    pc,        \* "top" of the loop or "select"
    client,    \* history: Block events received and not disconnected since
    asked,     \* history: the scripts of the last scan that was asked for
    tested,    \* history: the scripts each filter was last tested against
    votes,     \* history: who sent which batch for which request
    quorums    \* history: the peers behind each batch that was accepted

history == <<client, asked, tested, votes, quorums>>
vars == <<chain, state, heights, scripts, pc, client, asked, tested, votes, quorums>>

\* load_headers, with the history the store had.
LoadedTree ==
    LET run[i \in 0 .. Len(Loaded)] ==
            IF i = 0 THEN FromHeader(Root, RootHeight)
            ELSE AcceptHeader(run[i - 1], Loaded[i]).tree
    IN  AssumeCheckedTo(run[Len(Loaded)], ScanHeight)

Init ==
    /\ chain = [tree |-> LoadedTree, headerRequest |-> None, filterRequest |-> None,
                pending |-> None, agreed |-> 0, queue |-> <<>>, want |-> None]
    /\ state = "Behind"
    /\ heights = [p \in {} |-> 0]
    /\ scripts \in SUBSET Script
    /\ pc = "top"
    /\ client = {}
    /\ asked = scripts
    /\ tested = [h \in Hash |-> {}]
    /\ votes = {}
    /\ quorums = {}

-----------------------------------------------------------------------------
(* The top of the loop *)

\* HeightMonitor::max against the height of the chain
IsSynced(t) ==
    /\ DOMAIN heights # {}
    /\ \A p \in DOMAIN heights : t.tip.height >= heights[p]

\* One step at a time.  A node that is synced and hears of no block for long
\* disconnects its peers, and stays in its state.
AdvanceState ==
    CASE state = "Behind" /\ IsSynced(chain.tree)                            -> "HeadersSynced"
      [] state = "HeadersSynced" /\ FilterHeadersSynced(chain.tree)          -> "FilterHeadersSynced"
      [] state = "FilterHeadersSynced" /\ FiltersSynced(chain.tree)          -> "FiltersSynced"
      [] state = "FiltersSynced" /\ BlockQueueEmpty(chain)                   -> "TransactionsSynced"
      [] OTHER                                                               -> state

\* advance_state, then get_blocks in the state it leads to.
LoopTop ==
    /\ pc = "top"
    /\ pc' = "select"
    /\ state' = AdvanceState
    /\ chain' = IF state' \in {"FilterHeadersSynced", "FiltersSynced"}
                THEN NextBlock(chain) ELSE chain
    /\ UNCHANGED <<heights, scripts, history>>

\* The timeout of the select.
Timeout ==
    /\ pc = "select"
    /\ pc' = "top"
    /\ UNCHANGED <<chain, state, heights, scripts, history>>

-----------------------------------------------------------------------------
(* Messages from peers *)

NextStatefulMessage(c) ==
    IF ~IsSynced(c.tree) THEN c
    ELSE IF ~FilterHeadersSynced(c.tree) THEN NextCFHeaderMessage(c)
    ELSE IF ~FiltersSynced(c.tree) THEN NextFilterMessage(c)
    ELSE c

Turn == pc = "select" /\ pc' = "top"

\* set_height.  The answer, GetHeaders, does not change the chain.
Version(p, height) ==
    /\ Turn
    /\ heights' = [q \in DOMAIN heights \cup {p} |-> IF q = p THEN height ELSE heights[q]]
    /\ UNCHANGED <<chain, state, scripts, history>>

\* dispatch, between the top of the loop and the message: clean finds the peer
\* gone, and the HeightMonitor forgets it.
Leave(p) ==
    /\ pc = "select"
    /\ p \in DOMAIN heights
    /\ heights' = [q \in DOMAIN heights \ {p} |-> heights[q]]
    /\ UNCHANGED <<chain, state, scripts, pc, history>>

\* Paths of headers that connect, as sanity_check demands.
HeadersMessages ==
    {msg \in UNION {[1 .. n -> Hash] : n \in 0 .. MaxHeaders} :
        \A i \in 2 .. Len(msg) : PrevOf[msg[i]] = msg[i - 1]}

\* The outcome r of sync_chain is answered with the next request, unless it is
\* an error.
HeadersTaken(r) ==
    /\ chain' = IF r.ok THEN NextStatefulMessage(r.chain) ELSE r.chain
    /\ client' = client \ r.gone

HandleHeaders(msg) ==
    /\ Turn
    /\ IF msg = <<>>
       THEN /\ chain' = NextStatefulMessage(chain)
            /\ UNCHANGED client
       ELSE HeadersTaken(SyncChain(chain, msg))
    /\ UNCHANGED <<state, heights, scripts, asked, tested, votes, quorums>>

\* Batches of up to the length that is asked for, on filter headers the node
\* knows or might be told.  Instances bound the filter headers themselves.
CFHeadersMessages ==
    [prev : Bases \cup {chain.tree.headers[h].commitment.header :
                           h \in {x \in Known(chain.tree) : Committed(chain.tree, x)}},
     hashes : UNION {[1 .. n -> FilterHash] : n \in 0 .. HeaderBatchSize + 1},
     stop : Hash]

HandleCFHeaders(p, b) ==
    /\ Turn
    /\ \A i \in DOMAIN b.hashes : ChainedHeaders(b)[i] \in FilterHeader
    /\ LET r    == SyncCFHeaders(chain, p, b)
           vote == [peer |-> p, batch |-> b, request |-> chain.headerRequest]
           ours == {v \in votes \cup {vote} : v.batch = b}
       IN  /\ ~Repeats => \A v \in votes : v.peer = p => v.request # chain.headerRequest
           /\ chain' = IF r.result = "Extended" THEN NextStatefulMessage(r.chain) ELSE r.chain
           /\ votes' = IF Required > 1 /\ r.result # "Error" THEN votes \cup {vote} ELSE votes
           /\ quorums' = IF Required > 1 /\ r.result = "Extended"
                         THEN quorums \cup {{v.peer : v \in ours}} ELSE quorums
    /\ UNCHANGED <<state, heights, scripts, client, asked, tested>>

\* A block that is queued when its filter comes goes to the client anyway: its
\* filter counts as tested.
HandleFilter(h, f) ==
    /\ Turn
    /\ LET r == SyncFilter(chain, scripts, h, f)
       IN  /\ chain' = r.chain
           /\ tested' = IF h \in Known(chain.tree) /\ ~chain.tree.headers[h].checked
                           /\ r.chain.tree.headers[h].checked
                        THEN [tested EXCEPT ![h] = scripts] ELSE tested
    /\ UNCHANGED <<state, heights, scripts, client, asked, votes, quorums>>

\* check_send_block.  A block that is not wanted is ignored and one with a bad
\* merkle root gets its peer banned; neither changes anything.
HandleBlock(h) ==
    /\ Turn
    /\ chain.want = h
    /\ chain' = [chain EXCEPT !.want = None]
    /\ client' = client \cup {h}
    /\ UNCHANGED <<state, heights, scripts, asked, tested, votes, quorums>>

\* increment_height for each hash; one that is unknown sends the node back to
\* fetching headers.
HandleInventoryBlocks(p, blocks) ==
    /\ Turn
    /\ p \in DOMAIN heights => heights[p] + Cardinality(blocks) <= MaxHeight
    /\ heights' = [q \in DOMAIN heights |->
                     IF q = p THEN heights[q] + Cardinality(blocks) ELSE heights[q]]
    /\ IF state # "Behind" /\ \E h \in blocks : ~Contains(chain.tree, h)
       THEN /\ state' = "Behind"
            /\ chain' = ClearCompactFilterQueue(chain)
       ELSE UNCHANGED <<state, chain>>
    /\ UNCHANGED <<scripts, history>>

-----------------------------------------------------------------------------
(* Messages from the client *)

AddScript(s) ==
    /\ Turn
    /\ scripts' = scripts \cup {s}
    /\ UNCHANGED <<chain, state, heights, history>>

Rescan ==
    /\ Turn
    /\ IF state \in {"Behind", "HeadersSynced"} THEN UNCHANGED <<chain, state, asked>>
       ELSE /\ chain' = NextFilterMessage(ClearFilters(chain))
            /\ state' = "FilterHeadersSynced"
            /\ asked' = scripts
    /\ UNCHANGED <<heights, scripts, client, tested, votes, quorums>>

PeerMessage ==
    \/ \E p \in Peer, k \in 0 .. MaxHeight : Version(p, k)
    \/ \E msg \in HeadersMessages : HandleHeaders(msg)
    \/ \E p \in Peer : \E b \in CFHeadersMessages : HandleCFHeaders(p, b)
    \/ \E h \in Hash, f \in FilterHash : HandleFilter(h, f)
    \/ \E h \in Hash : HandleBlock(h)
    \/ \E p \in Peer, blocks \in (SUBSET Hash) \ {{}} : HandleInventoryBlocks(p, blocks)

ClientMessage == Rescan \/ \E s \in Script : AddScript(s)

Next == LoopTop \/ Timeout \/ PeerMessage \/ ClientMessage \/ \E p \in Peer : Leave(p)

Spec == Init /\ [][Next]_vars

-----------------------------------------------------------------------------
(* Properties *)

Tree == chain.tree

RequestType ==
    [start : Nat, stop : Hash, expected : FilterHeader \cup {None}]

\* The chain, the sync state and the heights of the peers have their types.
TypeOK ==
    /\ Tree.headers \in [Known(Tree) -> NodeType]
    /\ Tree.tip \in TipType /\ Tree.forks \subseteq TipType
    /\ chain.headerRequest \in RequestType \cup {None}
    /\ chain.filterRequest \in Hash \cup {None}
    /\ chain.pending # None => chain.pending.peer \in Peer /\ chain.pending.batch \in Batch
    /\ chain.agreed \in 0 .. Required - 1
    /\ chain.queue \in Seq(Hash) /\ chain.want \in Hash \cup {None}
    /\ state \in States
    /\ DOMAIN heights \subseteq Peer /\ \A p \in DOMAIN heights : heights[p] \in 0 .. MaxHeight
    /\ scripts \subseteq Script
    /\ pc \in {"top", "select"}

\* The filter headers of the node form one chain: a block has one only if its
\* parent has, and it is the hash of its filter and of the filter header of its
\* parent.  So a filter header vouches for all filters below it, whatever peers
\* send, across requests that are overtaken and reorganizations between a
\* request and its answer.
FilterHeadersChain ==
    \A h \in Known(Tree) :
        Committed(Tree, h) /\ PrevOf[h] \in Known(Tree) =>
            /\ Committed(Tree, PrevOf[h])
            /\ Tree.headers[h].commitment.header =
                 NextHeader(Tree.headers[h].commitment.filter_hash,
                            Tree.headers[PrevOf[h]].commitment.header)

Relevant(h) ==
    /\ Committed(Tree, h)
    /\ Touches[h, Tree.headers[h].commitment.filter_hash] \cap tested[h] # {}

\* When the filters are synced and no block is outstanding, the client has every
\* block of the active chain whose filter matched.
ClientHasRelevant ==
    FiltersSynced(Tree) /\ BlockQueueEmpty(chain) =>
        \A h \in MainChain(Tree) : Relevant(h) => h \in client

\* The client has no block that was reorganized out of the chain.
ClientHasActive == client \subseteq MainChain(Tree)

\* A block above the checkpoint counts as checked only if its filter was tested
\* for the scripts that the node had when the last scan was asked for.
RescanTestsAll ==
    \A h \in MainChain(Tree) :
        Tree.headers[h].checked /\ HeightOf(Tree, h) > ScanHeight => asked \subseteq tested[h]

\* A batch of filter headers is accepted when as many different peers as are
\* required have sent it.
QuorumAgreed == \A q \in quorums : Cardinality(q) >= Required

\* The node reports that it is synced only when all filters of the chain whose
\* tip it reports have been checked.
SyncedScanned ==
    [][state' = "TransactionsSynced" /\ state # "TransactionsSynced" => FiltersSynced(Tree)]_vars
=============================================================================
