----------------------------- MODULE HeaderStore -----------------------------
(***************************************************************************)
(* What is left of the header chain when the node stops: sync_chain stages *)
(* every change of the block tree in the header store and writes them at   *)
(* the end of a message, and load_headers rebuilds the tree from the store *)
(* when the node starts again.  The store is SqliteHeaderDb: the table     *)
(* headers, keyed by height, and the changes staged in memory.             *)
(*                                                                         *)
(* The process may stop at any time.  A write is a transaction, so what is *)
(* on disk is a write or none of it; what a failed one leaves staged       *)
(* depends on the statement that failed.                                   *)
(***************************************************************************)
EXTENDS Graph, Sequences

CONSTANTS
    Checkpoints,   \* anchors a client knows from elsewhere
    HEADER_CP,     \* the built-in checkpoints, in order
    Lookback,      \* REORG_LOOKBACK
    Failures,      \* the statements of a write that may fail
    MaxHeaders,    \* bound: headers in a message
    MaxFailures,   \* bound: writes that fail
    MaxStarts      \* bound: times the node is started again

Statements == {"begin", "delete", "insert"}

ASSUME StoreAssumption ==
    /\ Checkpoints \subseteq [hash : Hash, height : Height]
    /\ HEADER_CP \in Seq([hash : Hash, height : Height])
    /\ Lookback \in Nat
    /\ Failures \subseteq Statements
    /\ MaxHeaders \in Nat /\ MaxFailures \in Nat /\ MaxStarts \in Nat

VARIABLES
    status,    \* "Running", "Stopped" or the error of load_headers
    anchor,    \* the checkpoint of this session
    checkpoints, \* HeaderCheckpoints: those the chain has yet to reach
    tree,      \* header_chain
    crossed,   \* history: a reorganization of this session connected a checkpoint
    base,      \* history: the block the tree of this session is built on
    staged,    \* accepted and disconnected of SqliteHeaderDb
    disk,      \* the table headers: height -> hash
    wallet,    \* history: the blocks that the client believes to be in the chain
    lost,      \* history: how staged changes were dropped, by a "write" or a "stop"
    failed,    \* number of writes that failed
    starts     \* number of starts after the first

vars == <<status, anchor, checkpoints, crossed, tree, base, staged, disk, wallet, lost, failed, starts>>

Errors == {"Corruption", "HeadersDoNotLink", "CannotLocateHistory"}

-----------------------------------------------------------------------------
(* SqliteHeaderDb *)

\* Tables from heights to hashes; the rows of the second argument win.
Overwrite(rows, new) ==
    [k \in DOMAIN rows \cup DOMAIN new |-> IF k \in DOMAIN new THEN new[k] ELSE rows[k]]

Without(rows, gone) ==
    [k \in {j \in DOMAIN rows : rows[j] \notin gone} |-> rows[k]]

\* Headers of the tree t as rows.
Rows(t, S) ==
    [k \in {HeightOf(t, h) : h \in S} |-> CHOOSE h \in S : HeightOf(t, h) = k]

Nothing == [accepted |-> [k \in {} |-> None], disconnected |-> {}]

\* stage: of the Accepted and the Reorganization of accept_header
Stage(s, t, c) ==
    CASE c.kind = "Accepted" ->
            [s EXCEPT !.accepted = Overwrite(@, Rows(t, c.accepted))]
      [] c.kind = "Reorganization" ->
            [accepted |-> Overwrite(Without(s.accepted, c.disconnected), Rows(t, c.accepted)),
             disconnected |-> s.disconnected \cup c.disconnected]
      [] OTHER -> s

\* Mutant: inserts before it deletes.
WrittenInsertsFirstMutant(rows, s) == Without(Overwrite(rows, s.accepted), s.disconnected)

\* What a write makes of the table: it deletes by hash, then inserts by height.
Written(rows, s) == Overwrite(Without(rows, s.disconnected), s.accepted)

\* The staged changes are moved out of the store statement by statement, and a
\* transaction that fails does not move them back.
LeftStaged(s, statement) ==
    CASE statement = "begin"  -> s
      [] statement = "delete" -> [s EXCEPT !.disconnected = {}]
      [] statement = "insert" -> Nothing

-----------------------------------------------------------------------------
(* HeaderCheckpoints *)

\* next, or None
NextCheckpoint(cps) == IF cps = <<>> THEN None ELSE Head(cps)

\* prune_up_to, of checkpoints in order.
PruneUpTo(cps, cp) == SelectSeq(cps, LAMBDA c : c.height > cp.height)

-----------------------------------------------------------------------------
(* sync_chain *)

\* Paths of headers that connect, as sanity_check demands.
HeadersMessages ==
    {msg \in UNION {[1 .. n -> Hash] : n \in 1 .. MaxHeaders} :
        \A i \in 2 .. Len(msg) : PrevOf[msg[i]] = msg[i - 1]}

\* Mutant: only the highest of the disconnected blocks is reported.
ToldTipMutant(t, c) ==
    {h \in c.disconnected : \A g \in c.disconnected : HeightOf(t, g) <= HeightOf(t, h)}

\* The blocks of the BlocksDisconnected event.
Told(t, c) == c.disconnected

\* Accepting h has made it the tip: it is compared with the checkpoint cp that was
\* next when the message came, if it has its height.
Meets(t, c, cp) == cp # None /\ c.kind = "Accepted" /\ t.tip.height = cp.height

\* One header.  A refused header, and one that is not the checkpoint of its
\* height, leave the loop; the latter is in the tree by then.
AcceptNext(run, h, cp) ==
    LET r == AcceptHeader(run.tree, h)
        meets == Meets(r.tree, r.changes, cp)
    IN  IF ~run.ok THEN run
        ELSE [tree   |-> r.tree,
              staged |-> Stage(run.staged, r.tree, r.changes),
              gone   |-> run.gone \cup Told(r.tree, r.changes),
              cps    |-> IF meets /\ h = cp.hash THEN Tail(run.cps) ELSE run.cps,
              crossed |-> \/ run.crossed
                          \/ /\ r.changes.kind = "Reorganization"
                             /\ \E i \in DOMAIN run.cps : run.cps[i].hash \in r.changes.accepted,
              ok     |-> /\ r.changes.kind \notin {"InvalidPow", "UnknownPrevHash"}
                         /\ meets => h = cp.hash]

\* The loop over the headers of a message.
Accepted(t, s, cps, msg) ==
    LET run[i \in 0 .. Len(msg)] ==
            IF i = 0 THEN [tree |-> t, staged |-> s, gone |-> {}, cps |-> cps, crossed |-> FALSE, ok |-> TRUE]
            ELSE AcceptNext(run[i - 1], msg[i], NextCheckpoint(cps))
    IN  run[Len(msg)]

\* After a refused header the changes so far stay staged, for the write of a
\* later message.  The outcome of the write is "ok" or the failing statement.
SyncChain(msg, outcome) ==
    /\ status = "Running"
    /\ ~Contains(tree, msg[Len(msg)])
    /\ outcome # "ok" => failed < MaxFailures
    /\ failed' = IF outcome = "ok" THEN failed ELSE failed + 1
    /\ \E run \in {Accepted(tree, staged, checkpoints, msg)} :
        /\ run.ok \/ outcome = "ok"
        /\ tree' = run.tree
        /\ checkpoints' = run.cps
        /\ crossed' = (crossed \/ run.crossed)
        /\ wallet' = {w \in wallet : w.hash \notin run.gone}
        /\ disk' = IF run.ok /\ outcome = "ok" THEN Written(disk, run.staged) ELSE disk
        /\ staged' = CASE ~run.ok                  -> run.staged
                       [] run.ok /\ outcome = "ok" -> Nothing
                       [] run.ok /\ outcome # "ok" -> LeftStaged(run.staged, outcome)
        /\ lost' = IF run.ok /\ outcome # "ok" /\ staged' # run.staged
                   THEN lost \cup {"write"} ELSE lost
    /\ UNCHANGED <<status, anchor, base, starts>>

\* Headers of the tree t with their heights.
BlocksOf(t, S) == {[hash |-> h, height |-> HeightOf(t, h)] : h \in S}

\* The client takes over the chain of an Event::Synced, which is sent between
\* two messages.
Synced ==
    /\ status = "Running"
    /\ wallet' = wallet \cup BlocksOf(tree, MainChain(tree))
    /\ UNCHANGED <<status, anchor, checkpoints, crossed, tree, base, staged, disk, lost, failed, starts>>

-----------------------------------------------------------------------------
(* load_headers *)

EpochStart(height) == (height \div Interval) * Interval

LookbackHeight(height) == IF height < Lookback THEN 0 ELSE height - Lookback

\* The tree is built on the lower of two headers when the store has it, else
\* on the higher one, else on the checkpoint.
Interesting(cp) == {EpochStart(cp.height), LookbackHeight(cp.height)}

LoadBase(cp) ==
    LET found == Interesting(cp) \cap DOMAIN disk
    IN  IF found = {} THEN [tree |-> NewTree(cp.hash, cp.height), block |-> cp]
        ELSE LET k == CHOOSE j \in found : \A i \in found : j <= i
             IN  [tree |-> FromHeader(disk[k], k), block |-> [hash |-> disk[k], height |-> k]]

\* Mutant: skips the row above the block the tree is built on.
LoadFromSkipsMutant(height) == {k \in DOMAIN disk : k > height + 1}

\* load(height + 1 ..)
LoadFrom(height) == {k \in DOMAIN disk : k > height}

\* Each row names the row before it as its parent.
Linked(K) ==
    \A j, k \in K :
        j < k /\ (\A i \in K : ~(j < i /\ i < k)) => PrevOf[disk[k]] = disk[j]

\* Mutant: the checkpoints among the loaded headers stay ahead.
LoadRowKeepsMutant(run, k) ==
    LET r == AcceptHeader(run.tree, disk[k])
        failure == CASE r.changes.kind = "UnknownPrevHash" -> "CannotLocateHistory"
                     [] r.changes.kind = "Accepted" /\ r.tree.tip.height # k -> "HeadersDoNotLink"
                     [] OTHER -> "Running"
    IN  IF run.status # "Running" THEN run
        ELSE [tree |-> r.tree, cps |-> run.cps, status |-> failure]

\* One row.  Refused bits are only logged.  Checkpoints are compared by hash.
LoadRow(run, k) ==
    LET r == AcceptHeader(run.tree, disk[k])
        failure == CASE r.changes.kind = "UnknownPrevHash" -> "CannotLocateHistory"
                     [] r.changes.kind = "Accepted" /\ r.tree.tip.height # k -> "HeadersDoNotLink"
                     [] OTHER -> "Running"
        found == /\ failure = "Running" /\ r.changes.kind = "Accepted"
                 /\ run.cps # <<>> /\ Head(run.cps).hash = disk[k]
    IN  IF run.status # "Running" THEN run
        ELSE [tree |-> r.tree, cps |-> IF found THEN Tail(run.cps) ELSE run.cps, status |-> failure]

\* The rows above the block the tree is built on, in order.
LoadHeaders(cp) ==
    LET bottom == LoadBase(cp).block.height
        K   == LoadFrom(bottom)
        top == CHOOSE k \in K \cup {bottom} : \A j \in K : j <= k
        start == [tree |-> LoadBase(cp).tree, cps |-> PruneUpTo(HEADER_CP, cp), status |-> "Running"]
        run[k \in bottom .. top] ==
            IF k = bottom THEN start
            ELSE IF k \in K THEN LoadRow(run[k - 1], k) ELSE run[k - 1]
    IN  IF ~Linked(K) THEN [start EXCEPT !.status = "Corruption"]
        ELSE [run[top] EXCEPT !.tree = AssumeCheckedTo(@, cp.height)]

Init ==
    /\ \E cp \in Checkpoints :
        /\ anchor = cp
        /\ checkpoints = PruneUpTo(HEADER_CP, cp)
        /\ crossed = FALSE
        /\ tree = NewTree(cp.hash, cp.height)
        /\ base = cp
    /\ status = "Running"
    /\ staged = Nothing
    /\ disk = [k \in {} |-> None]
    /\ wallet = {}
    /\ lost = {}
    /\ failed = 0
    /\ starts = 0

\* The process ends: shutdown, a crash, or the error of load_headers.
Stop ==
    /\ status = "Running"
    /\ status' = "Stopped"
    /\ staged' = Nothing
    /\ lost' = IF staged = Nothing THEN lost ELSE lost \cup {"stop"}
    /\ UNCHANGED <<anchor, checkpoints, crossed, tree, base, disk, wallet, failed, starts>>

\* Node::new and fetch_headers, with a checkpoint or a block the client has.
Start(cp) ==
    /\ status # "Running"
    /\ starts < MaxStarts
    /\ starts' = starts + 1
    /\ anchor' = cp
    /\ base' = LoadBase(cp).block
    /\ crossed' = FALSE
    /\ \E loaded \in {LoadHeaders(cp)} :
         tree' = loaded.tree /\ checkpoints' = loaded.cps /\ status' = loaded.status
    /\ UNCHANGED <<staged, disk, wallet, lost, failed>>

\* header_at
HeaderAt(height) == IF height \in DOMAIN disk THEN disk[height] ELSE None

\* Mutant: the store is asked before the tree.
FetchHeaderDiskMutant(height) ==
    IF HeaderAt(height) # None THEN HeaderAt(height) ELSE HeaderAtHeight(tree, height)

\* fetch_header, for the get_header of the client: the tree, then the store.
FetchHeader(height) ==
    IF HeaderAtHeight(tree, height) # None THEN HeaderAtHeight(tree, height)
    ELSE HeaderAt(height)

\* fetch_header_range reads the store alone.
FetchHeaderRange(K) == [k \in K \cap DOMAIN disk |-> disk[k]]

Next ==
    \/ \E msg \in HeadersMessages, outcome \in {"ok"} \cup Failures : SyncChain(msg, outcome)
    \/ Synced
    \/ Stop
    \/ \E cp \in Checkpoints \cup wallet : Start(cp)

Spec == Init /\ [][Next]_vars

-----------------------------------------------------------------------------
(* Properties *)

\* Tree, tables and status have their types.
TypeOK ==
    /\ status \in {"Running", "Stopped"} \cup Errors
    /\ anchor \in [hash : Hash, height : Height]
    /\ tree.headers \in [Known(tree) -> NodeType] /\ tree.tip \in TipType
    /\ base \in [hash : Hash, height : Height]
    /\ staged.disconnected \subseteq Hash
    /\ DOMAIN disk \subseteq Height /\ disk \in [DOMAIN disk -> Hash]
    /\ DOMAIN staged.accepted \subseteq Height
    /\ staged.accepted \in [DOMAIN staged.accepted -> Hash]
    /\ wallet \subseteq [hash : Hash, height : Height]
    /\ lost \subseteq {"write", "stop"}

\* The active chain above the block the tree is built on, by height.
ChainRows == Rows(tree, {h \in MainChain(tree) : HeightOf(tree, h) > base.height})

\* The checkpoints that are still ahead are those the active chain has not matched:
\* after a restart, after a refused message and after a reorganization, unless it
\* connected one, which is not noticed.  Checkpoints are further apart than the
\* headers of a message.
CheckpointsInStep ==
    status = "Running" /\ ~crossed =>
        checkpoints = SelectSeq(HEADER_CP, LAMBDA c : c.height > anchor.height /\ c.hash \notin MainChain(tree))

\* "A known block hash in the chain of most work." (checkpoints.rs:520): the active
\* chain has the checkpoints of the heights it covers.  It does not hold: the
\* block that failed the comparison stays in the tree, and a reorganization is
\* not compared.
CheckpointsHeld ==
    \A i \in DOMAIN HEADER_CP :
        HEADER_CP[i].height \in base.height + 1 .. tree.tip.height => HEADER_CP[i].hash \in MainChain(tree)

\* What get_header answers for the heights up to the tip is one chain, whether it
\* comes from the tree or from the store, also while changes are staged.
FetchedChain ==
    status = "Running" /\ lost = {} =>
        \A k \in 1 .. tree.tip.height :
            FetchHeader(k) # None /\ FetchHeader(k - 1) # None => PrevOf[FetchHeader(k)] = FetchHeader(k - 1)

\* "Get a range of headers by the specified range." (client.rs:156): a range agrees
\* with the headers one by one.  It does not hold while changes are staged.
RangeAgrees ==
    status = "Running" /\ lost = {} =>
        \A k \in 0 .. tree.tip.height :
            k \in DOMAIN FetchHeaderRange({k}) => FetchHeaderRange({k})[k] = FetchHeader(k)

\* Disk and staged changes together always hold the active chain of the running
\* node: a write would leave exactly its blocks in the table.  Messages that are
\* refused half way, reorganizations there and back before a write and writes
\* that could not begin do not disturb it; only a write that fails after its
\* staged changes were moved out does.
DiskCompletes ==
    status = "Running" /\ "write" \notin lost =>
        LET rows == Written(disk, staged)
        IN  [k \in {j \in DOMAIN rows : j > base.height} |-> rows[k]] = ChainRows

\* The node starts again whenever the store reaches down to the checkpoint,
\* unless staged changes were lost, by a failing write or by a stop; the one error
\* is the documented one, a checkpoint further in the past than the store.
LoadErrorExplained ==
    status \in Errors /\ lost = {} =>
        /\ status = "CannotLocateHistory"
        /\ \A k \in DOMAIN disk : k > anchor.height + 1

\* No block the client believes in is replaced without a word: each of them
\* that is above the base of the tree is in the active chain, or has been
\* reported as disconnected, also when the node was restarted on a stale tip.
\* The exceptions are staged changes that were never written: those of a failing
\* write, and those of a message refused half way when the node stops after it.
WalletReconciled ==
    status = "Running" /\ lost = {} =>
        \A w \in wallet : w.height > base.height => w.hash \in MainChain(tree)
=============================================================================
