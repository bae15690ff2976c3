-------------------------------- MODULE Sync --------------------------------
(***************************************************************************)
(* The node at work with its peers: the sync state and the chain of the    *)
(* node, and for each peer the requests and answers that are under way, in *)
(* order.  Peers are honest: each follows the best chain of the network at *)
(* its own pace, announces its new tips and answers what it is asked.      *)
(* They come and go.  A peer in Faulty differs in one thing, it may answer *)
(* with a wrong filter.                                                    *)
(*                                                                         *)
(* An action of the node handles one message and goes on through the top   *)
(* of the loop to the next select.  Connections have room for all          *)
(* messages (Threads is about those that have not).  A connection the node *)
(* gives up ends at once, but what the peer had sent before is still read. *)
(***************************************************************************)
EXTENDS Chain

CONSTANTS
    Root, RootHeight,   \* the first header of the tree, and its height
    Tips,               \* tips of the best chain of the network, in order
    FilterOf,           \* the filter of each block
    BaseHeader,         \* the filter header below Root
    LOCATOR_INDEX,      \* distances of the block locators from the tip, in order
    MAX_HEADERS,        \* headers in an answer
    RequiredPeers,      \* required_peers
    Faulty,             \* peers that may send wrong filters
    MaxLeaves,          \* bound: connections that peers end
    MaxRescans          \* bound: rescans of the client

ASSUME SyncAssumption ==
    /\ Root \in Hash /\ RootHeight \in Nat
    /\ Tips \in Seq(Hash) /\ Tips # <<>>
    /\ \A i \in DOMAIN Tips : Root \in Ancestry[Tips[i]]
    /\ FilterOf \in [Hash -> FilterHash]
    /\ LOCATOR_INDEX \in Seq(Nat \ {0})
    /\ MAX_HEADERS \in Nat \ {0} /\ RequiredPeers \in Nat \ {0}
    /\ Faulty \subseteq Peer
    /\ MaxLeaves \in Nat /\ MaxRescans \in Nat

VARIABLES
    chain,      \* the Chain of the node
    state,      \* NodeState
    heights,    \* HeightMonitor
    live,       \* peers with a connection
    to,         \* requests to a peer that it has not read
    from,       \* messages of a peer that the node has not read
    view,       \* how far a peer follows Tips
    client,     \* history: Block events received and not disconnected since
    banned,     \* history: honest peers that were banned
    leaves, rescans     \* what is left of the bounds

world == <<view, leaves, rescans>>
vars == <<chain, state, heights, live, to, from, view, client, banned, leaves, rescans>>

Init ==
    /\ chain = [tree |-> AssumeCheckedTo(FromHeader(Root, RootHeight), RootHeight),
                headerRequest |-> None, filterRequest |-> None,
                pending |-> None, agreed |-> 0, queue |-> <<>>, want |-> None]
    /\ state = "Behind"
    /\ heights = [p \in {} |-> 0]
    /\ live = {}
    /\ to = [p \in Peer |-> <<>>]
    /\ from = [p \in Peer |-> <<>>]
    /\ view = [p \in Peer |-> 1]
    /\ client = {}
    /\ banned = {}
    /\ leaves = MaxLeaves /\ rescans = MaxRescans

-----------------------------------------------------------------------------
(* Requests of the node *)

\* BlockTree::locators: the oldest block comes first.
Locators(t) ==
    LET reach == {i \in DOMAIN LOCATOR_INDEX :
                    \A j \in 1 .. i : /\ t.tip.height >= LOCATOR_INDEX[j]
                                      /\ BlockHashAtHeight(t, t.tip.height - LOCATOR_INDEX[j]) # None}
        n == Cardinality(reach)
    IN  [i \in 1 .. n + 1 |->
            IF i = n + 1 THEN t.tip.hash
            ELSE BlockHashAtHeight(t, t.tip.height - LOCATOR_INDEX[n + 1 - i])]

GetHeaders(t) == [kind |-> "GetHeaders", locators |-> Locators(t)]

GetFilterHeaders(c) ==
    [kind |-> "GetFilterHeaders", start |-> c.headerRequest.start, stop |-> c.headerRequest.stop]

\* Mutant: the first block that is not checked is left out.
GetFiltersAboveMutant(c) ==
    [kind |-> "GetFilters",
     start |-> LowestHeight(c.tree, Above(c.tree, {x \in Known(c.tree) : c.tree.headers[x].checked})) + 1,
     stop |-> c.filterRequest]

\* The start height is that of next_filter_message, whose stop c remembers.
GetFilters(c) ==
    [kind |-> "GetFilters",
     start |-> LowestHeight(c.tree, Above(c.tree, {x \in Known(c.tree) : c.tree.headers[x].checked})),
     stop |-> c.filterRequest]

\* Mutant: the chain has to be higher than the peers say.
IsSyncedAboveMutant(t, hs) == DOMAIN hs # {} /\ \A p \in DOMAIN hs : t.tip.height > hs[p]

IsSynced(t, hs) == DOMAIN hs # {} /\ \A p \in DOMAIN hs : t.tip.height >= hs[p]

\* What a handler leaves: the chain, the state, and the requests for each peer.
\* A Disconnect is the last request a peer gets.
Outcome(c, st, sends, gone) == [chain |-> c, state |-> st, sends |-> sends, gone |-> gone]

ToNone == [p \in Peer |-> <<>>]
ToOne(p, m) == [ToNone EXCEPT ![p] = <<m>>]
ToAll(m) == [p \in Peer |-> <<m>>]

NextStatefulMessage(c, hs) ==
    IF ~IsSynced(c.tree, hs) THEN [chain |-> c, message |-> <<GetHeaders(c.tree)>>]
    ELSE IF ~FilterHeadersSynced(c.tree)
    THEN LET d == NextCFHeaderMessage(c) IN [chain |-> d, message |-> <<GetFilterHeaders(d)>>]
    ELSE IF ~FiltersSynced(c.tree)
    THEN LET d == NextFilterMessage(c) IN [chain |-> d, message |-> <<GetFilters(d)>>]
    ELSE [chain |-> c, message |-> <<>>]

\* The next request goes to the peers in S.
Asking(c, hs, st, S) ==
    LET n == NextStatefulMessage(c, hs)
    IN  Outcome(n.chain, st, [p \in Peer |-> IF p \in S THEN n.message ELSE <<>>], {})

-----------------------------------------------------------------------------
(* The top of the loop *)

AdvanceState(c, st, hs) ==
    CASE st = "Behind" /\ IsSynced(c.tree, hs)                  -> "HeadersSynced"
      [] st = "HeadersSynced" /\ FilterHeadersSynced(c.tree)    -> "FilterHeadersSynced"
      [] st = "FilterHeadersSynced" /\ FiltersSynced(c.tree)    -> "FiltersSynced"
      [] st = "FiltersSynced" /\ BlockQueueEmpty(c)             -> "TransactionsSynced"
      [] OTHER                                                  -> st

\* pop_block_queue in the state that advance_state leads to.
Fetching == {"FilterHeadersSynced", "FiltersSynced"}

Popped(c, st) ==
    IF st \in Fetching THEN NextBlock(c) ELSE c

Delivered(sends, left) ==
    [p \in Peer |-> IF p \in left THEN to[p] \o sends[p] ELSE <<>>]

\* get_blocks asks any peer for the block, if there is one to ask for.
Ask(queued, left, block) ==
    IF block # None /\ left # {}
    THEN \E p \in left : to' = [queued EXCEPT ![p] = Append(@, [kind |-> "GetBlock", block |-> block])]
    ELSE to' = queued

\* advance_state, clean and get_blocks, after a handler with the outcome o.
LoopTop(o, hs, popped, block) ==
    /\ chain' = popped
    /\ state' = AdvanceState(o.chain, o.state, hs)
    /\ live' = live \ o.gone
    /\ heights' = [p \in DOMAIN hs \cap live' |-> hs[p]]
    /\ Ask(Delivered(o.sends, live'), live', block)

GoOn(outcome, hs) ==
    \E o \in {outcome} :
        \E popped \in {Popped(o.chain, AdvanceState(o.chain, o.state, hs))} :
            LoopTop(o, hs, popped, IF popped.want # o.chain.want THEN popped.want ELSE None)

BlockUnderWay ==
    \E p \in Peer : \/ \E i \in DOMAIN to[p] : to[p][i].kind = "GetBlock"
                    \/ \E i \in DOMAIN from[p] : from[p][i].kind = "Block"

\* LOOP_TIMEOUT: also when nothing comes the node goes through its loop.  The
\* wanted block is asked for again when SPAM_LIMIT is over; here, when no peer
\* is busy with it.
Idle ==
    /\ \E st \in {AdvanceState(chain, state, heights)} :
         \E popped \in {Popped(chain, st)} :
            LoopTop(Outcome(chain, state, ToNone, {}), heights, popped,
                    IF st \in Fetching /\ ~BlockUnderWay THEN popped.want ELSE None)
    /\ UNCHANGED <<from, world, client, banned>>

-----------------------------------------------------------------------------
(* Handlers *)

HandleVersion(p, height) ==
    /\ GoOn(Outcome(chain, state, ToOne(p, GetHeaders(chain.tree)), {}),
            [q \in DOMAIN heights \cup {p} |-> IF q = p THEN height ELSE heights[q]])
    /\ UNCHANGED <<client, banned>>

\* sync_chain has returned r; an empty message changes nothing.
HeadersHandled(p, r) ==
    /\ IF r.ok THEN GoOn(Asking(r.chain, heights, state, {p}), heights)
       ELSE GoOn(Outcome(r.chain, state, ToNone, {p}), heights)
    /\ client' = client \ r.gone
    /\ banned' = IF r.ok THEN banned ELSE banned \cup {p}

HandleHeaders(p, msg) ==
    IF msg # <<>> THEN \E r \in {SyncChain(chain, msg)} : HeadersHandled(p, r)
    ELSE /\ IF IsSynced(chain.tree, heights) THEN GoOn(Asking(chain, heights, state, {p}), heights)
            ELSE GoOn(Outcome(chain, state, ToNone, {p}), heights)
         /\ UNCHANGED <<client, banned>>

\* Extended is answered to all peers, and so is a Conflict or an error.
CFHeadersHandled(p, r) ==
    /\ CASE r.result = "Extended"             -> GoOn(Asking(r.chain, heights, state, Peer), heights)
         [] r.result \in {"Conflict", "Error"} -> GoOn(Outcome(r.chain, state, ToNone, Peer), heights)
         [] OTHER                             -> GoOn(Outcome(r.chain, state, ToNone, {}), heights)
    /\ banned' = IF r.result = "Error" THEN banned \cup {p} ELSE banned
    /\ UNCHANGED client

\* Whether sync_filter returns a request.
AsksOn(r, h) == r.result = "Ok" /\ h = chain.filterRequest /\ ~FiltersSynced(r.chain.tree)

FilterHandled(p, h, r) ==
    /\ GoOn(Outcome(r.chain, state, IF AsksOn(r, h) THEN ToOne(p, GetFilters(r.chain)) ELSE ToNone,
                    IF r.result = "Ok" THEN {} ELSE {p}), heights)
    /\ banned' = IF r.result = "Error" THEN banned \cup {p} ELSE banned
    /\ UNCHANGED client

HandleBlock(h) ==
    /\ GoOn(Outcome(IF chain.want = h THEN [chain EXCEPT !.want = None] ELSE chain, state, ToNone, {}),
            heights)
    /\ client' = IF chain.want = h THEN client \cup {h} ELSE client
    /\ UNCHANGED banned

\* The node goes back to Behind and asks all peers for headers.
InventoryOutcome(h) ==
    IF state # "Behind" /\ ~Contains(chain.tree, h)
    THEN Outcome(ClearCompactFilterQueue(chain), "Behind", ToAll(GetHeaders(chain.tree)), {})
    ELSE Outcome(chain, state, ToNone, {})

HandleInventoryBlocks(p, h) ==
    /\ GoOn(InventoryOutcome(h), [q \in DOMAIN heights |-> IF q = p THEN heights[q] + 1 ELSE heights[q]])
    /\ UNCHANGED <<client, banned>>

Handle(p, m) ==
    CASE m.kind = "Version"       -> HandleVersion(p, m.height)
      [] m.kind = "Headers"       -> HandleHeaders(p, m.headers)
      [] m.kind = "FilterHeaders" -> \E r \in {SyncCFHeaders(chain, p, m.batch)} : CFHeadersHandled(p, r)
      [] m.kind = "Filter"        -> \E r \in {SyncFilter(chain, Script, m.block, m.filter)} :
                                        FilterHandled(p, m.block, r)
      [] m.kind = "Block"         -> HandleBlock(m.block)
      [] m.kind = "NewBlocks"     -> HandleInventoryBlocks(p, m.block)

Receive(p) ==
    /\ from[p] # <<>>
    /\ Handle(p, Head(from[p]))
    /\ from' = [from EXCEPT ![p] = Tail(@)]
    /\ UNCHANGED world

\* Node::rescan, asked for by the client.
Rescan ==
    /\ rescans > 0
    /\ rescans' = rescans - 1
    /\ state \notin {"Behind", "HeadersSynced"}
    /\ LET c == NextFilterMessage(ClearFilters(chain))
       IN  GoOn(Outcome(c, "FilterHeadersSynced", ToAll(GetFilters(c)), {}), heights)
    /\ UNCHANGED <<from, view, leaves, client, banned>>

\* dispatch: one connection for a node that is Behind, as many as required else.
\* What connections that have ended left in the channel is read by then.
Connect(p) ==
    /\ p \notin live
    /\ \A q \in Peer \ live : from[q] = <<>>
    /\ Cardinality(live) < (IF state = "Behind" THEN 1 ELSE RequiredPeers)
    /\ live' = live \cup {p}
    /\ from' = [from EXCEPT ![p] =
                  <<[kind |-> "Version", height |-> RootHeight + Cardinality(Ancestry[Tips[view[p]]]) - 1]>>]
    /\ to' = [to EXCEPT ![p] = <<>>]
    /\ UNCHANGED <<chain, state, heights, world, client, banned>>

-----------------------------------------------------------------------------
(* The peers *)

Best(p) == Ancestry[Tips[view[p]]]

\* Blocks a peer has: those of the tips it has seen.
Has(p) == UNION {Ancestry[Tips[i]] : i \in 1 .. view[p]}

TrueHeight(h) == RootHeight + Cardinality(Ancestry[h]) - 1

\* The blocks from height lo to height hi on the way to stop.
Blocks(stop, lo, hi) ==
    [i \in 1 .. (IF hi >= lo THEN hi - lo + 1 ELSE 0) |->
        CHOOSE x \in Ancestry[stop] : TrueHeight(x) = lo + i - 1]

Lower(a, b) == IF a < b THEN a ELSE b

\* The headers after the first locator that is on the best chain of the peer.
HeadersAnswer(p, locators) ==
    LET known == {i \in DOMAIN locators : locators[i] \in Best(p)}
        fork == IF known = {} THEN Root
                ELSE locators[CHOOSE i \in known : \A j \in known : i <= j]
    IN  <<[kind |-> "Headers",
           headers |-> Blocks(Tips[view[p]], TrueHeight(fork) + 1,
                              Lower(TrueHeight(fork) + MAX_HEADERS, TrueHeight(Tips[view[p]])))]>>

\* Filter headers commit to all filters below.
TrueHeader(stop, height) ==
    LET path == Blocks(stop, RootHeight, height)
        header[i \in 0 .. Len(path)] ==
            IF i = 0 THEN BaseHeader ELSE NextHeader(FilterOf[path[i]], header[i - 1])
    IN  header[Len(path)]

BatchAnswer(start, stop) ==
    LET path == Blocks(stop, start, TrueHeight(stop))
    IN  <<[kind |-> "FilterHeaders",
           batch |-> [prev |-> TrueHeader(stop, start - 1), stop |-> stop,
                      hashes |-> [i \in DOMAIN path |-> FilterOf[path[i]]]]]>>

FilterMessage(h, f) == [kind |-> "Filter", block |-> h, filter |-> f]

FiltersAnswer(start, stop) ==
    LET path == Blocks(stop, start, TrueHeight(stop))
    IN  [i \in DOMAIN path |-> FilterMessage(path[i], FilterOf[path[i]])]

\* A faulty peer gets one filter wrong.
Spoilt(answer) ==
    {[answer EXCEPT ![i].filter = f] : i \in DOMAIN answer, f \in FilterHash}

\* The answers of a peer that has what is asked for.
Answers(p, m) ==
    CASE m.kind = "GetHeaders"       -> {HeadersAnswer(p, m.locators)}
      [] m.kind = "GetFilterHeaders" -> {BatchAnswer(m.start, m.stop)}
      [] m.kind = "GetFilters"       ->
            {FiltersAnswer(m.start, m.stop)} \cup
            (IF p \in Faulty THEN Spoilt(FiltersAnswer(m.start, m.stop)) ELSE {})
      [] m.kind = "GetBlock"         -> {<<[kind |-> "Block", block |-> m.block]>>}

Serves(p, m) ==
    CASE m.kind = "GetHeaders" -> TRUE
      [] m.kind = "GetBlock"   -> m.block \in Has(p)
      [] OTHER                 -> m.stop \in Has(p)

\* A peer closes the connection when it is asked for filters up to a block that
\* it does not have.
Answer(p) ==
    /\ p \in live
    /\ to[p] # <<>>
    /\ to' = [to EXCEPT ![p] = Tail(@)]
    /\ IF Serves(p, Head(to[p]))
       THEN /\ \E a \in Answers(p, Head(to[p])) : from' = [from EXCEPT ![p] = @ \o a]
            /\ UNCHANGED live
       ELSE /\ live' = IF Head(to[p]).kind = "GetBlock" THEN live ELSE live \ {p}
            /\ UNCHANGED from
    /\ UNCHANGED <<chain, state, heights, world, client, banned>>

\* The peer learns of a new tip and announces it.
Learn(p) ==
    /\ view[p] < Len(Tips)
    /\ view' = [view EXCEPT ![p] = @ + 1]
    /\ from' = IF p \in live
               THEN [from EXCEPT ![p] = Append(@, [kind |-> "NewBlocks", block |-> Tips[view[p] + 1]])]
               ELSE from
    /\ UNCHANGED <<chain, state, heights, live, to, client, banned, leaves, rescans>>

\* The connection breaks; what the node has not been told is lost, or not.
Leave(p) ==
    /\ p \in live
    /\ leaves > 0
    /\ leaves' = leaves - 1
    /\ live' = live \ {p}
    /\ to' = [to EXCEPT ![p] = <<>>]
    /\ from' \in {from, [from EXCEPT ![p] = <<>>]}
    /\ UNCHANGED <<chain, state, heights, view, client, banned, rescans>>

\* A connection ends when it is max_connection_time old, which is long after all
\* answers have come.
Expire(p) ==
    /\ p \in live
    /\ \A q \in Peer : to[q] = <<>> /\ from[q] = <<>>
    /\ live' = live \ {p}
    /\ UNCHANGED <<chain, state, heights, to, from, world, client, banned>>

Next ==
    \/ Idle
    \/ \E p \in Peer : Receive(p) \/ Connect(p) \/ Answer(p) \/ Learn(p) \/ Leave(p) \/ Expire(p)

Spec == Init /\ [][Next]_vars

\* The steps that take a message off a queue, and those that open a connection.
Takes(p) == from[p] # <<>> /\ from' = [from EXCEPT ![p] = Tail(@)]
Reads(p) == p \in live /\ to[p] # <<>> /\ to' = [to EXCEPT ![p] = Tail(@)]

\* The node takes what its peers send and connects when it lacks peers, peers
\* answer, and all peers learn of the best chain in the end.
Progress ==
    /\ WF_vars(Idle)
    /\ \A p \in Peer : WF_from(Takes(p)) /\ WF_to(Reads(p)) /\ WF_vars(Connect(p)) /\ WF_vars(Learn(p))

\* Before any connection is too old.
ShortSpec == Spec /\ Progress

\* Connections also get too old, all of them.
FairSpec == Spec /\ Progress /\ \A p \in Peer : SF_vars(Expire(p))

\* With rescans.
RescanSpec == Init /\ [][Next \/ Rescan]_vars /\ Progress /\ \A p \in Peer : SF_vars(Expire(p))

-----------------------------------------------------------------------------
(* Properties *)

Tree == chain.tree

\* The blocks that count as checked lie below those that do not: a request for
\* filters starts above the highest checked block, so that a block left out below
\* would never be asked for again.
CheckedBelow ==
    \A h \in MainChain(Tree) : Tree.headers[h].checked =>
        \A x \in Ancestry[h] \cap Known(Tree) : Tree.headers[x].checked

\* With honest peers that come and go, new blocks and a reorganization at any time,
\* the node ends up with the best chain and all its filters tested.
AllScanned ==
    <>[](Tree.tip.hash = Tips[Len(Tips)] /\ FilterHeadersSynced(Tree) /\ FiltersSynced(Tree))

\* The blocks that match are with the client in the end.
AllFetched == <>[](BlockQueueEmpty(chain) /\
                   \A h \in Ancestry[Tips[Len(Tips)]] : Touches[h, FilterOf[h]] # {} => h \in client)

\* "A connected peer responded with faulty or malicious behavior." (db/mod.rs:61)
\* is why a peer is banned.  It does not hold: a peer that answers truthfully is
\* banned when its answer has been overtaken.
HonestNotBanned == banned \subseteq Faulty
=============================================================================
