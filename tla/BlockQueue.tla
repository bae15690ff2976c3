----------------------------- MODULE BlockQueue -----------------------------
(***************************************************************************)
(* The queue of blocks to download (chain/block_queue.rs) with its two     *)
(* ends: who asks for blocks, and the peers that send them.                *)
(*                                                                         *)
(* In the default build a block is queued when its filter matches and is   *)
(* sent to the client as an event.  In a build with the feature            *)
(* filter-control it is queued when a client asks for it, and goes to the  *)
(* oneshot channel of that client.  A request without a channel has the    *)
(* sender NoSender.                                                        *)
(*                                                                         *)
(* The VecDeque is a sequence with the element that pop_back takes first.  *)
(* last_req is used only to compare its age with SPAM_LIMIT: recent is     *)
(* that comparison.                                                        *)
(*                                                                         *)
(* The queue is popped by the turns of the loop of Node::run, and only in  *)
(* two of the node's states.  When the headers, the filter headers and the *)
(* filters are synced is up to the chain (module Node): here a turn may    *)
(* find them so.                                                           *)
(***************************************************************************)
EXTENDS Naturals, Sequences, FiniteSets

CONSTANTS
    Block,       \* block hashes somebody may ask for
    Chained,     \* those the header chain holds
    Client,      \* get_block calls, each with its oneshot channel
    NoSender,    \* Option::None in Request.sender
    NoRequest,   \* Option::None in BlockQueue.want
    MaxAdds,     \* bound: times each block is queued, a function
    MaxCopies    \* bound: copies of a block on their way from peers

ASSUME QueueAssumption ==
    /\ Chained \subseteq Block
    /\ NoSender \notin Client
    /\ MaxAdds \in [Block -> Nat] /\ MaxCopies \in Nat

Builds == {"default", "filter-control"}

\* NodeState: how far the node is with its peers.
NodeState ==
    {"Behind", "HeadersSynced", "FilterHeadersSynced", "FiltersSynced", "TransactionsSynced"}

Request == [hash : Block, sender : Client \cup {NoSender}]

ASSUME NoRequestAssumption == NoRequest \notin Request

VARIABLES
    build,       \* the crate is compiled with or without filter-control
    state,       \* Node.state
    queue,       \* BlockQueue.queue
    want,        \* BlockQueue.want
    recent,      \* last_req is less than SPAM_LIMIT ago
    channel,     \* what each client sees on its channel
    coming,      \* copies of each block requested from a peer, not yet here
    added,       \* history: times a block entered the queue ...
    sent,        \* ... was handed to the client ...
    removed,     \* ... and was taken out by a reorganization
    ticket       \* history: the blocks in the order in which they were last queued

held == <<queue, want, recent>>
history == <<added, sent, removed, ticket>>
vars == <<build, state, queue, want, recent, channel, coming, added, sent, removed, ticket>>

\* The elements of s at the places in K, in their order.
Subsequence(s, K) ==
    [n \in 1 .. Cardinality(K) |-> s[CHOOSE k \in K : Cardinality({j \in K : j <= k}) = n]]

Hashes(q) == {q[i].hash : i \in DOMAIN q}

QueueContains(h) == h \in Hashes(queue) \/ (want # NoRequest /\ want.hash = h)

Init ==
    /\ build \in Builds
    /\ state = "Behind"
    /\ queue = <<>>
    /\ want = NoRequest
    /\ recent = TRUE
    /\ channel = [c \in Client |-> "unused"]
    /\ coming = [h \in Block |-> 0]
    /\ added = [h \in Block |-> 0]
    /\ sent = [h \in Block |-> 0]
    /\ removed = [h \in Block |-> 0]
    /\ ticket = <<>>

-----------------------------------------------------------------------------
(* add *)

Latest(h) == Append(Subsequence(ticket, {n \in DOMAIN ticket : ticket[n] # h}), h)

\* Mutant: a block that is queued is queued again.
EnqueueAgainMutant(h, sender) ==
    /\ queue' = Append(queue, [hash |-> h, sender |-> sender])
    /\ added' = [added EXCEPT ![h] = @ + 1]
    /\ ticket' = Latest(h)

\* Mutant: the newest request is served first.
EnqueueInFrontMutant(h, sender) ==
    IF QueueContains(h) THEN UNCHANGED <<queue, added, ticket>>
    ELSE /\ queue' = <<[hash |-> h, sender |-> sender]>> \o queue
         /\ added' = [added EXCEPT ![h] = @ + 1]
         /\ ticket' = Latest(h)

\* A request for a block that is queued or wanted already is dropped, and with
\* it its channel.
Enqueue(h, sender) ==
    IF QueueContains(h) THEN UNCHANGED <<queue, added, ticket>>
    ELSE /\ queue' = Append(queue, [hash |-> h, sender |-> sender])
         /\ added' = [added EXCEPT ![h] = @ + 1]
         /\ ticket' = Latest(h)

\* sync_filter, default build: the filter of the block matched.
FilterMatched(h) ==
    /\ build = "default"
    /\ h \in Chained
    /\ added[h] < MaxAdds[h]
    /\ ~QueueContains(h)
    /\ Enqueue(h, NoSender)
    /\ UNCHANGED <<build, state, want, recent, channel, coming, sent, removed>>

\* Mutant: the node is left where it no longer pops the queue.
ReopenNotMutant == UNCHANGED state

\* A node that has all its transactions goes back to where it pops the queue.
Reopen == state' = IF state = "TransactionsSynced" THEN "FiltersSynced" ELSE state

\* Client::get_block, the loop's handler of ClientMessage::GetBlock and
\* Chain::get_block.  The node's state changes whatever becomes of the request.
GetBlock(c, h) ==
    /\ build = "filter-control"
    /\ channel[c] = "unused"
    /\ added[h] < MaxAdds[h]
    /\ Reopen
    /\ IF h \in Chained
       THEN /\ channel' = [channel EXCEPT ![c] =
                             IF QueueContains(h) THEN "dropped" ELSE "waiting"]
            /\ Enqueue(h, c)
       ELSE /\ channel' = [channel EXCEPT ![c] = "UnknownHash"]
            /\ UNCHANGED <<queue, added, ticket>>
    /\ UNCHANGED <<build, want, recent, coming, sent, removed>>

-----------------------------------------------------------------------------
(* pop, in a turn of the loop *)

\* The wanted block is not asked for again before SPAM_LIMIT has passed ...
PopTooSoon ==
    /\ want # NoRequest
    /\ recent
    /\ UNCHANGED <<held, coming>>

\* ... and once it has, it is.
PopWanted ==
    /\ want # NoRequest
    /\ ~recent
    /\ coming[want.hash] < MaxCopies
    /\ recent' = TRUE
    /\ coming' = [coming EXCEPT ![want.hash] = @ + 1]
    /\ UNCHANGED <<queue, want>>

\* Otherwise the oldest request becomes the wanted one and is asked for.
PopNext ==
    /\ want = NoRequest
    /\ queue # <<>>
    /\ coming[Head(queue).hash] < MaxCopies
    /\ want' = Head(queue)
    /\ queue' = Tail(queue)
    /\ recent' = TRUE
    /\ coming' = [coming EXCEPT ![Head(queue).hash] = @ + 1]

\* BlockQueue::complete
Complete == want = NoRequest /\ queue = <<>>

\* pop with nothing to ask for still sets last_req.
PopNone ==
    /\ Complete
    /\ recent' = TRUE
    /\ UNCHANGED <<queue, want, coming>>

NextBlock == PopTooSoon \/ PopWanted \/ PopNext \/ PopNone

\* pop_block_queue: the queue is popped in two states only.
PopBlockQueue ==
    IF state' \in {"FilterHeadersSynced", "FiltersSynced"}
    THEN NextBlock ELSE UNCHANGED <<held, coming>>

\* The states that end when the chain has made progress, each with the next one.
SyncSteps == {<<"Behind", "HeadersSynced">>, <<"HeadersSynced", "FilterHeadersSynced">>,
              <<"FilterHeadersSynced", "FiltersSynced">>}

\* advance_state finds the next part synced, or does not; with all filters checked
\* it waits for the queue.
AdvanceState ==
    IF state = "FiltersSynced" /\ Complete THEN state' = "TransactionsSynced"
    ELSE state' \in {state} \cup {s \in NodeState : <<state, s>> \in SyncSteps}

\* The part of a turn before the select!: advance_state, then get_blocks in the
\* state it leads to.
Turn ==
    /\ AdvanceState
    /\ PopBlockQueue
    /\ UNCHANGED <<build, channel, history>>

\* handle_inventory_blocks: a peer announces a block that the chain does not have.
NewBlock ==
    /\ state' = "Behind"
    /\ UNCHANGED <<build, held, channel, coming, history>>

\* rescan goes back to the filters, if there were any.
Rescan ==
    /\ state \notin {"Behind", "HeadersSynced"}
    /\ state' = "FilterHeadersSynced"
    /\ UNCHANGED <<build, held, channel, coming, history>>

-----------------------------------------------------------------------------
(* receive *)

Deliver(h) ==
    /\ sent' = [sent EXCEPT ![h] = @ + 1]
    /\ IF want.sender = NoSender THEN UNCHANGED channel
       ELSE channel' = [channel EXCEPT ![want.sender] = "block"]

\* Mutant: a block that was received stays wanted.
ReceiveAgainMutant(h) ==
    /\ Deliver(h)
    /\ UNCHANGED want

\* BlockQueue::receive of the wanted block, and the send that follows.
Receive(h) ==
    /\ Deliver(h)
    /\ want' = NoRequest

Needed(h) == want # NoRequest /\ want.hash = h

\* handle_block and check_send_block: a block that is not the wanted one is
\* ignored, one with a wrong merkle root gets its peer banned.
CheckSendBlock(h, valid) ==
    /\ coming[h] > 0
    /\ coming' = [coming EXCEPT ![h] = @ - 1]
    /\ IF Needed(h) /\ valid THEN Receive(h) ELSE UNCHANGED <<want, channel, sent>>
    /\ UNCHANGED <<build, state, queue, recent, added, removed, ticket>>

\* The peer that was asked goes away, or does not have the block.
NeverSent(h) ==
    /\ coming[h] > 0
    /\ coming' = [coming EXCEPT ![h] = @ - 1]
    /\ UNCHANGED <<build, state, held, channel, history>>

SpamLimitPasses ==
    /\ recent
    /\ recent' = FALSE
    /\ UNCHANGED <<build, state, queue, want, channel, coming, history>>

-----------------------------------------------------------------------------
(* remove *)

\* Mutant: the request is blanked instead of dropped.
RemovedWantDefaultMutant(gone) ==
    IF want # NoRequest /\ want.hash \in gone
    THEN [hash |-> NoRequest, sender |-> NoSender] ELSE want

\* What is left of want; its channel goes with it.
RemovedWant(gone) == IF want # NoRequest /\ want.hash \in gone THEN NoRequest ELSE want

\* A reorganization disconnects the blocks in gone.
Remove(gone) ==
    /\ queue' = Subsequence(queue, {i \in DOMAIN queue : queue[i].hash \notin gone})
    /\ want' = RemovedWant(gone)
    /\ channel' = [c \in Client |->
                    IF channel[c] = "waiting"
                       /\ ~(\E i \in DOMAIN queue' : queue'[i].sender = c)
                       /\ ~(want' # NoRequest /\ want'.sender = c)
                    THEN "dropped" ELSE channel[c]]
    /\ removed' = [h \in Block |->
                    IF h \in gone /\ QueueContains(h) THEN removed[h] + 1 ELSE removed[h]]
    /\ UNCHANGED <<build, state, recent, coming, added, sent, ticket>>

Next ==
    \/ \E h \in Block : FilterMatched(h)
    \/ \E c \in Client, h \in Block : GetBlock(c, h)
    \/ Turn
    \/ NewBlock
    \/ Rescan
    \/ \E h \in Block, valid \in BOOLEAN : CheckSendBlock(h, valid)
    \/ \E h \in Block : NeverSent(h)
    \/ SpamLimitPasses
    \/ \E gone \in SUBSET Chained : gone # {} /\ Remove(gone)

Spec == Init /\ [][Next]_vars

\* The loop of Node::run comes round at least every LOOP_TIMEOUT.  Peers answer,
\* so a part of the sync that is begun over and over is finished: new blocks and
\* rescans do not interrupt it every time.  Time passes, and among the peers that
\* are asked for a block over and over one sends it.
Fairness ==
    /\ WF_vars(Turn)
    /\ \A step \in SyncSteps : SF_vars(Turn /\ <<state, state'>> = step)
    /\ WF_vars(SpamLimitPasses)
    /\ \A h \in Block : SF_vars(CheckSendBlock(h, TRUE))

FairSpec == Spec /\ Fairness

-----------------------------------------------------------------------------
(* Properties *)

\* Requests, channels and counters have their types.
TypeOK ==
    /\ build \in Builds
    /\ state \in NodeState
    /\ queue \in Seq(Request)
    /\ want \in Request \cup {NoRequest}
    /\ recent \in BOOLEAN
    /\ channel \in [Client -> {"unused", "waiting", "block", "UnknownHash", "dropped"}]
    /\ coming \in [Block -> 0 .. MaxCopies]
    /\ added \in [Block -> Nat] /\ sent \in [Block -> Nat] /\ removed \in [Block -> Nat]
    /\ ticket \in Seq(Block)

\* The requests, the wanted one first.
Pending == IF want = NoRequest THEN queue ELSE <<want>> \o queue

Copies(h) == Cardinality({i \in DOMAIN Pending : Pending[i].hash = h})

\* Each time a block is queued it is handed over once, taken out by a
\* reorganization, or still waited for, once: nothing is lost and nothing is
\* delivered twice, though a slow peer makes the node ask for a block again and
\* both copies arrive.
EveryRequestAccounted ==
    \A h \in Block : added[h] = sent[h] + removed[h] + Copies(h) /\ Copies(h) <= 1

\* A client that waits has its channel in exactly one request, and a request
\* with a channel has a client that waits for it.
ChannelsHeld ==
    \A c \in Client :
        Cardinality({i \in DOMAIN Pending : Pending[i].sender = c})
            = (IF channel[c] = "waiting" THEN 1 ELSE 0)

\* The place of the latest entry for h.
Ticket(h) == CHOOSE n \in DOMAIN ticket : ticket[n] = h

\* Blocks are asked for in the order in which they were queued, also when a
\* reorganization takes some out and they are queued again.
OldestFirst ==
    \A i, j \in DOMAIN Pending : i < j => Ticket(Pending[i].hash) < Ticket(Pending[j].hash)

\* A client that waits for a block is eventually answered, with the block or, by
\* a reorganization, with a closed channel: also when it asks a node that has all
\* its transactions and pops nothing, and although new blocks and rescans take the
\* node out of the states in which it does.
WaitingAnswered ==
    \A c \in Client : channel[c] = "waiting" ~> channel[c] # "waiting"

\* The documentation of Client::get_block knows one error: the node has stopped.
\* While it runs no client would find its channel closed.
OnlyStoppedNodeDrops == \A c \in Client : channel[c] # "dropped"
=============================================================================
