-------------------------------- MODULE Chain --------------------------------
(***************************************************************************)
(* The operations of chain/chain.rs that follow the header chain: syncing  *)
(* headers, the quorum on filter headers, checking filters and queueing    *)
(* the blocks that match.  A chain is a record                             *)
(*                                                                         *)
(*   tree            the block tree, header_chain                          *)
(*   headerRequest   request_state.last_filter_header_request              *)
(*   filterRequest   request_state.last_filter_request (its stop hash)     *)
(*   pending         request_state.pending_batch                           *)
(*   agreed          request_state.agreement_state.current                 *)
(*   queue, want     block_queue; BlockQueue.tla is the detailed model     *)
(*                                                                         *)
(* A filter header commits to a filter and to all filters before it;       *)
(* NextHeader is that hash function.  The headers of a message are assumed *)
(* to have passed sanity_check, and the anchor to be the last checkpoint.  *)
(* This is the default build, in which the node itself matches filters.    *)
(***************************************************************************)
EXTENDS Graph, Sequences

CONSTANTS
    Peer,             \* PeerId
    Required,         \* quorum_required
    FilterHash,       \* filters, by their hash
    Malformed,        \* filters that cannot be decoded
    FilterHeader,     \* chained filter headers
    NextHeader(_, _), \* FilterHash::filter_header(prev)
    HeaderBatchSize,  \* CF_HEADER_BATCH_SIZE
    FilterBatchSize,  \* FILTER_BATCH_SIZE
    Script,           \* scripts a client may watch
    Touches           \* scripts that the filter of a block matches

ASSUME ChainAssumption ==
    /\ Required \in Nat \ {0}
    /\ Malformed \subseteq FilterHash
    /\ Commitment = [header : FilterHeader, filter_hash : FilterHash]
    /\ None \notin FilterHeader \cup Peer
    /\ HeaderBatchSize \in Nat /\ FilterBatchSize \in Nat
    /\ Touches \in [Hash \X FilterHash -> SUBSET Script]

\* A CFHeaders message: the filter header before the batch, the filter hashes
\* and the block of the last one.
Batch == [prev : FilterHeader, hashes : Seq(FilterHash), stop : Hash]

-----------------------------------------------------------------------------
(* sync_chain *)

QueueContains(c, h) == c.want = h \/ \E i \in DOMAIN c.queue : c.queue[i] = h

\* The queue without the blocks in gone: VecDeque::retain.
Without(queue, gone) ==
    LET kept[i \in 0 .. Len(queue)] ==
            IF i = 0 THEN <<>>
            ELSE IF queue[i] \in gone THEN kept[i - 1] ELSE Append(kept[i - 1], queue[i])
    IN  kept[Len(queue)]

QueueRemove(c, gone) ==
    [c EXCEPT !.queue = Without(c.queue, gone),
              !.want = IF c.want \in gone THEN None ELSE c.want]

ClearCompactFilterQueue(c) ==
    [c EXCEPT !.agreed = 0, !.headerRequest = None, !.pending = None]

\* What the loop does with a Change of accept_header.  done is set by the errors
\* that leave the loop, with whatever the headers before have changed.
ApplyChange(run, c, change) ==
    CASE change.kind \in {"InvalidPow", "UnknownPrevHash"} ->
            [run EXCEPT !.chain = c, !.done = TRUE]
      [] change.kind = "Reorganization" ->
            [chain |-> QueueRemove(c, change.disconnected), done |-> FALSE,
             reorg |-> TRUE, gone |-> run.gone \cup change.disconnected]
      [] OTHER -> [run EXCEPT !.chain = c]

\* One header of a message.
SyncHeader(run, h) ==
    LET r == AcceptHeader(run.chain.tree, h)
    IN  IF run.done THEN run
        ELSE ApplyChange(run, [run.chain EXCEPT !.tree = r.tree], r.changes)

SyncedHeaders(c, msg) ==
    LET run[i \in 0 .. Len(msg)] ==
            IF i = 0 THEN [chain |-> c, done |-> FALSE, reorg |-> FALSE, gone |-> {}]
            ELSE SyncHeader(run[i - 1], msg[i])
    IN  run[Len(msg)]

\* The end of the loop: after a reorganization the requests start anew.
FinishSync(run) ==
    [chain |-> IF run.reorg /\ ~run.done THEN ClearCompactFilterQueue(run.chain) ELSE run.chain,
     ok |-> ~run.done, gone |-> run.gone]

\* ok is the Result; gone are the blocks of the BlocksDisconnected events.
SyncChain(c, msg) ==
    IF Contains(c.tree, msg[Len(msg)]) THEN [chain |-> c, ok |-> TRUE, gone |-> {}]
    ELSE FinishSync(SyncedHeaders(c, msg))

-----------------------------------------------------------------------------
(* Filter headers *)

Committed(t, h) == t.headers[h].commitment # None

\* The blocks of the active chain above its highest block in S.
Above(t, S) ==
    {x \in MainChain(t) :
        \A y \in MainChain(t) \cap S : HeightOf(t, y) < HeightOf(t, x)}

LowestHeight(t, S) ==
    IF S = {} THEN t.tip.height
    ELSE CHOOSE k \in {HeightOf(t, x) : x \in S} : \A x \in S : k <= HeightOf(t, x)

StopHash(t, height) ==
    IF BlockHashAtHeight(t, height) = None THEN t.tip.hash
    ELSE BlockHashAtHeight(t, height)

\* The request starts above the highest block that has its filter header.
NextCFHeaderMessage(c) ==
    LET t == c.tree
        open == Above(t, {x \in Known(t) : Committed(t, x)})
        start == LowestHeight(t, open)
        below == {x \in MainChain(t) \ open :
                    \A y \in MainChain(t) \ open : HeightOf(t, y) <= HeightOf(t, x)}
        prev == IF below = {} THEN None
                ELSE t.headers[CHOOSE x \in below : TRUE].commitment.header
    IN  [c EXCEPT !.headerRequest =
            [start |-> start, stop |-> StopHash(t, start + HeaderBatchSize), expected |-> prev]]

\* CFHeaderBatch::new: the filter headers that the hashes of a batch chain up to
ChainedHeaders(b) ==
    LET header[i \in 0 .. Len(b.hashes)] ==
            IF i = 0 THEN b.prev ELSE NextHeader(b.hashes[i], header[i - 1])
    IN  header

\* From the stop hash downwards, as far as the batch reaches.
PushBatch(t, b) ==
    LET bottom == HeightOf(t, b.stop) - Len(b.hashes)
        header == ChainedHeaders(b)
        place(x) == HeightOf(t, x) - bottom
    IN  [t EXCEPT !.headers = [x \in Known(t) |->
            IF x \in Walk(t, b.stop) /\ place(x) > 0
            THEN [t.headers[x] EXCEPT !.commitment =
                    [header |-> header[place(x)], filter_hash |-> b.hashes[place(x)]]]
            ELSE t.headers[x]]]

\* Mutant: the count is not reset.
CountAgreementKeepsMutant(c, first, b) ==
    IF c.agreed + 1 >= Required
    THEN [chain |-> [c EXCEPT !.agreed = @ + 1, !.pending = None, !.tree = PushBatch(c.tree, b)],
          result |-> "Extended"]
    ELSE [chain |-> [c EXCEPT !.agreed = @ + 1, !.pending = [peer |-> first, batch |-> b]],
          result |-> "AddedToQueue"]

\* got_agreement, and the batch is taken or kept waiting under the id first.
CountAgreement(c, first, b) ==
    IF c.agreed + 1 >= Required
    THEN [chain |-> [c EXCEPT !.agreed = 0, !.pending = None, !.tree = PushBatch(c.tree, b)],
          result |-> "Extended"]
    ELSE [chain |-> [c EXCEPT !.agreed = @ + 1, !.pending = [peer |-> first, batch |-> b]],
          result |-> "AddedToQueue"]

\* The batch fits the request.  A second batch of the same peer takes the
\* pending one away and is itself dropped.
WeighBatch(c, p, b) ==
    IF c.pending = None THEN CountAgreement(c, p, b)
    ELSE IF c.pending.peer = p
    THEN [chain |-> [c EXCEPT !.pending = None], result |-> "AddedToQueue"]
    ELSE IF c.pending.batch # b
    THEN [chain |-> [c EXCEPT !.pending = None, !.agreed = 0], result |-> "Conflict"]
    ELSE CountAgreement(c, c.pending.peer, b)

\* Mutant: the start height is not compared.
AnswersRequestShortMutant(c, b) == c.headerRequest.stop = b.stop /\ b.stop \in Known(c.tree)

\* The batch has the stop hash that was asked for, and its length leads from
\* there down to the start height.
AnswersRequest(c, b) ==
    /\ c.headerRequest.stop = b.stop
    /\ b.stop \in Known(c.tree)
    /\ b.hashes # <<>>
    /\ HeightOf(c.tree, b.stop) - (Len(b.hashes) - 1) = c.headerRequest.start

SyncCFHeaders(c, p, b) ==
    LET old == \E h \in MainChain(c.tree) :
                  Committed(c.tree, h) /\ c.tree.headers[h].commitment.header = b.prev
        rejected == [chain |-> c, result |-> "Error"]
    IN  IF c.headerRequest = None THEN rejected
        ELSE IF c.headerRequest.expected \notin {None, b.prev}
        THEN IF old THEN [chain |-> c, result |-> "AddedToQueue"] ELSE rejected
        ELSE IF ~AnswersRequest(c, b) THEN rejected
        ELSE WeighBatch(c, p, b)

-----------------------------------------------------------------------------
(* Filters and blocks *)

NextFilterMessage(c) ==
    LET t == c.tree
        start == LowestHeight(t, Above(t, {x \in Known(t) : t.headers[x].checked}))
    IN  [c EXCEPT !.filterRequest = StopHash(t, start + FilterBatchSize)]

\* contains_any is evaluated for filters that are new.
Scanned(c, h) == ~QueueContains(c, h) /\ ~c.tree.headers[h].checked

\* The filter f of block h.  Without a filter request the filter is an error,
\* but it has been checked.
SyncFilter(c, scripts, h, f) ==
    LET fresh   == Scanned(c, h)
        match   == fresh /\ Touches[h, f] \cap scripts # {}
        checked == [c EXCEPT !.tree = CheckFilter(c.tree, h),
                             !.queue = IF match THEN Append(@, h) ELSE @]
        failed(result) == [chain |-> c, result |-> result]
    IN  IF FiltersSynced(c.tree) THEN failed("Ok")
        ELSE IF ~(h \in Known(c.tree) /\ Committed(c.tree, h)) THEN failed("Error")
        ELSE IF c.tree.headers[h].commitment.filter_hash # f THEN failed("Error")
        ELSE IF fresh /\ f \in Malformed THEN failed("Disconnect")
        ELSE IF c.filterRequest = None THEN [chain |-> checked, result |-> "Error"]
        ELSE IF h = c.filterRequest /\ ~FiltersSynced(checked.tree)
        THEN [chain |-> NextFilterMessage(checked), result |-> "Ok"]
        ELSE [chain |-> checked, result |-> "Ok"]

\* Mutant: the next block replaces the one that is wanted.
NextBlockOverwritesMutant(c) ==
    IF c.queue # <<>>
    THEN [c EXCEPT !.want = Head(c.queue), !.queue = Tail(c.queue)] ELSE c

\* next_block: BlockQueue::pop.  Asking again for the wanted block changes
\* nothing here.
NextBlock(c) ==
    IF c.want = None /\ c.queue # <<>>
    THEN [c EXCEPT !.want = Head(c.queue), !.queue = Tail(c.queue)] ELSE c

BlockQueueEmpty(c) == c.want = None /\ c.queue = <<>>

ClearFilters(c) == [c EXCEPT !.tree = ResetAllFilters(c.tree)]
=============================================================================
