------------------------------- MODULE Client -------------------------------
(***************************************************************************)
(* The application and the node: the calls of a Requester (client.rs), the *)
(* unbounded channel they go through, the replies, and the log and info    *)
(* channels of Dialog (dialog.rs), which are bounded and whose sends wait. *)
(* Of the node only the order of its sends is kept: what a call does to    *)
(* the chain and to the peers is in Node, HeaderStore, Threads and PeerMap.*)
(*                                                                         *)
(* An application uses the channels in one of these ways (use.reader):     *)
(*   "task"     it reads the log and info channels in a task of their own; *)
(*   "between"  it reads them in the task that calls, between two calls;   *)
(*   "dropped"  it drops their receivers.                                  *)
(* It drops the node after run has returned, or keeps it (use.keeps): run  *)
(* borrows the node, so that the receiver of the calls lives on.           *)
(***************************************************************************)
EXTENDS Naturals, Sequences

CONSTANTS
    Uses,           \* the ways of using the node that the instance has
    Blocks,         \* block hashes an application asks for
    ChannelSize,    \* capacity of the log channel and of the info channel
    MaxCalls        \* bound: calls of the application

ASSUME ClientAssumption ==
    /\ Uses # {}
    /\ Uses \subseteq [level : {"Debug", "Info", "Warning"},
                       reader : {"task", "between", "dropped"},
                       keeps : BOOLEAN]
    /\ ChannelSize \in Nat \ {0} /\ MaxCalls \in Nat

Call == 1 .. MaxCalls

\* The calls that wait for a reply.
Queries == {"get_header", "get_header_range", "broadcast_min_feerate", "get_block"}

\* ClientMessage
Kinds == Queries \cup {"shutdown", "rescan", "other"}

None == 0

VARIABLES
    use,        \* how the application uses the node
    node,       \* "new", "working", "select", "stopped", and "dropped"
    work,       \* what the node has yet to send before its next select!
    hand,       \* the get_block call the node is about to queue
    queue,      \* get_block calls that BlockQueue holds, queued or wanted
    channel,    \* the calls that the node has not read
    calls,      \* the calls made so far: their kind, the block asked for and what
                \* came back
    log, info,  \* number of messages in the channels
    lost        \* history: calls whose block left the active chain

vars == <<use, node, work, hand, queue, channel, calls, log, info, lost>>
application == <<use, calls>>

Init ==
    /\ use \in Uses
    /\ node = "new"
    /\ work = <<>> /\ hand = None /\ queue = {}
    /\ channel = <<>> /\ calls = <<>>
    /\ log = 0 /\ info = 0
    /\ lost = {}

Waiting(c) == calls[c].reply = "none"

\* A reply to a call that was given up changes nothing (Warning::ChannelDropped).
Replied(C, reply) ==
    [c \in DOMAIN calls |-> IF c \in C /\ Waiting(c) THEN [calls[c] EXCEPT !.reply = reply] ELSE calls[c]]

-----------------------------------------------------------------------------
(* The application *)

\* ntx.send fails when the receiver is gone, that is, when the node is dropped.
Send(kind, block) ==
    LET call(reply) == [kind |-> kind, block |-> block, reply |-> reply]
    IN  IF node # "dropped"
        THEN /\ calls' = Append(calls, call(IF kind \in Queries THEN "none" ELSE "ok"))
             /\ channel' = Append(channel, Len(calls) + 1)
        ELSE /\ calls' = Append(calls, call("SendError"))
             /\ UNCHANGED channel

MakeCall ==
    /\ Len(calls) < MaxCalls
    /\ \/ \E block \in Blocks : Send("get_block", block)
       \/ \E kind \in Kinds \ {"get_block"} : Send(kind, None)
    /\ UNCHANGED <<use, node, work, hand, queue, log, info, lost>>

\* The future of a call is dropped, after a timeout of the application say.
GiveUp ==
    /\ \E c \in DOMAIN calls : Waiting(c) /\ calls' = Replied({c}, "given up")
    /\ UNCHANGED <<use, node, work, hand, queue, channel, log, info, lost>>

Reads ==
    \/ use.reader = "task"
    \/ use.reader = "between" /\ \A c \in DOMAIN calls : ~Waiting(c)

ReadLog ==
    /\ Reads /\ log > 0
    /\ log' = log - 1
    /\ UNCHANGED <<application, node, work, hand, queue, channel, info, lost>>

ReadInfo ==
    /\ Reads /\ info > 0
    /\ info' = info - 1
    /\ UNCHANGED <<application, node, work, hand, queue, channel, log, lost>>

\* Mutant: the requests for blocks outlive the node.
DropNodeKeepsQueueMutant ==
    /\ node = "stopped" /\ ~use.keeps
    /\ node' = "dropped"
    /\ calls' = Replied({channel[i] : i \in DOMAIN channel}, "RecvError")
    /\ channel' = <<>> /\ queue' = {} /\ hand' = None
    /\ UNCHANGED <<use, work, log, info, lost>>

\* With the node go the calls it has not read or not answered.
DropNode ==
    /\ node = "stopped" /\ ~use.keeps
    /\ node' = "dropped"
    /\ calls' = Replied({channel[i] : i \in DOMAIN channel} \cup queue \cup {hand}, "RecvError")
    /\ channel' = <<>> /\ queue' = {} /\ hand' = None
    /\ UNCHANGED <<use, work, log, info, lost>>

-----------------------------------------------------------------------------
(* Dialog *)

\* What advance_state and get_blocks send at the top of the loop.
TopWork == {<<>>, <<"info">>, <<"log", "log">>}

\* What the handler of a message of a peer sends.
PeerWork == {<<>>, <<"log">>, <<"log", "info">>}

\* log! and info!
Sends(item) ==
    /\ use.level = "Debug" \/ (use.level = "Info" /\ item = "info")
    /\ use.reader # "dropped"

\* Calls c and d ask for the same block.
SameBlock(c, d) ==
    calls[c].kind = "get_block" /\ calls[d].kind = "get_block" /\ calls[c].block = calls[d].block

\* BlockQueue::add of the call in hand, which comes after the log message.  When
\* the block is queued or wanted already the request is dropped with its channel,
\* also when the earlier call was given up.
AddBlock ==
    /\ hand' = None
    /\ IF \E d \in queue : hand # None /\ SameBlock(d, hand)
       THEN calls' = Replied({hand}, "RecvError") /\ UNCHANGED queue
       ELSE queue' = queue \cup ({hand} \ {None}) /\ UNCHANGED calls

\* Mutant: also a closed channel is waited for.
SendDialogClosedMutant ==
    /\ node = "working" /\ work # <<>>
    /\ work' = Tail(work)
    /\ CASE Head(work) = "log"  -> log < ChannelSize /\ log' = log + 1 /\ UNCHANGED info
         [] Head(work) = "info" -> info < ChannelSize /\ info' = info + 1 /\ UNCHANGED log
    /\ AddBlock
    /\ UNCHANGED <<use, node, channel, lost>>

\* Mutant: a full channel is not waited for.
SendDialogAtOnceMutant ==
    /\ node = "working" /\ work # <<>>
    /\ work' = Tail(work)
    /\ log' = IF Sends("log") /\ Head(work) = "log" THEN log + 1 ELSE log
    /\ info' = IF Sends("info") /\ Head(work) = "info" THEN info + 1 ELSE info
    /\ log' <= ChannelSize + 1 /\ info' <= ChannelSize + 1
    /\ AddBlock
    /\ UNCHANGED <<use, node, channel, lost>>

\* send_dialog and send_info wait for room; they fail at once when the receiver
\* is gone.  A call in hand is queued after the first message.
SendDialog ==
    /\ node = "working" /\ work # <<>>
    /\ work' = Tail(work)
    /\ CASE ~Sends(Head(work)) -> UNCHANGED <<log, info>>
         [] Sends(Head(work)) /\ Head(work) = "log"  -> log < ChannelSize /\ log' = log + 1 /\ UNCHANGED info
         [] Sends(Head(work)) /\ Head(work) = "info" -> info < ChannelSize /\ info' = info + 1 /\ UNCHANGED log
    /\ AddBlock
    /\ UNCHANGED <<use, node, channel, lost>>

-----------------------------------------------------------------------------
(* Node::run *)

Start ==
    /\ node = "new"
    /\ node' = "working"
    /\ \E top \in TopWork : work' = <<"log", "log", "log">> \o top
    /\ UNCHANGED <<application, hand, queue, channel, log, info, lost>>

\* All is sent: the node goes on to select!, or an error has ended run, of
\* load_headers at the start or of next_peer later.
WorkDone ==
    /\ node = "working" /\ work = <<>>
    /\ node' \in {"select", "stopped"}
    /\ UNCHANGED <<application, work, hand, queue, channel, log, info, lost>>

\* What the handler sends first, and then the top of the loop.
Work(sends) == node' = "working" /\ \E top \in TopWork : work' = sends \o top

\* A header may be unknown and the store may fail; a fee rate is always known.
Replies(kind) ==
    CASE kind = "get_header"            -> {"ok", "UnknownHeight", "DatabaseOptFailed"}
      [] kind = "get_header_range"      -> {"ok", "DatabaseOptFailed"}
      [] kind = "broadcast_min_feerate" -> {"ok"}

\* Mutant: a request for an unknown block is dropped without a reply.
ObeyDropsMutant(c) ==
    IF calls[c].kind = "get_block"
    THEN \/ Work(<<>>) /\ calls' = Replied({c}, "RecvError") /\ UNCHANGED hand
         \/ Work(<<"log">>) /\ hand' = c /\ UNCHANGED calls
    ELSE Work(<<>>) /\ calls' = Replied({c}, "ok") /\ UNCHANGED hand

Obey(c) ==
    CASE calls[c].kind = "shutdown" ->
            node' = "stopped" /\ UNCHANGED <<work, hand, calls>>
      [] calls[c].kind = "other" ->
            Work(<<>>) /\ UNCHANGED <<hand, calls>>
      [] calls[c].kind = "rescan" ->
            (Work(<<>>) \/ Work(<<"info">>)) /\ UNCHANGED <<hand, calls>>
      [] calls[c].kind = "get_block" ->
            \/ Work(<<>>) /\ calls' = Replied({c}, "UnknownHash") /\ UNCHANGED hand
            \/ Work(<<"log">>) /\ hand' = c /\ UNCHANGED calls
      [] OTHER ->
            /\ Work(<<>>)
            /\ \E reply \in Replies(calls[c].kind) : calls' = Replied({c}, reply)
            /\ UNCHANGED hand

ClientMessage ==
    /\ node = "select" /\ channel # <<>>
    /\ Obey(Head(channel))
    /\ channel' = Tail(channel)
    /\ UNCHANGED <<use, queue, log, info, lost>>

\* A message of a peer, or LOOP_TIMEOUT.
PeerMessage ==
    /\ node = "select"
    /\ \E sends \in PeerWork : Work(sends)
    /\ UNCHANGED <<application, hand, queue, channel, log, info, lost>>

\* check_send_block
Block ==
    /\ node = "select"
    /\ \E c \in queue : queue' = queue \ {c} /\ calls' = Replied({c}, "ok")
    /\ Work(<<>>)
    /\ UNCHANGED <<use, hand, channel, log, info, lost>>

\* BlockQueue::remove: the block of the request is reorganized out of the chain,
\* and the request is dropped.
BlockDisconnected ==
    /\ node = "select"
    /\ \E c \in queue : /\ queue' = queue \ {c}
                        /\ calls' = Replied({c}, "RecvError")
                        /\ lost' = lost \cup {c}
    /\ Work(<<"log">>)
    /\ UNCHANGED <<use, hand, channel, log, info>>

Next ==
    \/ MakeCall \/ GiveUp \/ ReadLog \/ ReadInfo \/ DropNode
    \/ SendDialog \/ Start \/ WorkDone \/ ClientMessage \/ PeerMessage \/ Block \/ BlockDisconnected

Spec == Init /\ [][Next]_vars

\* tokio runs the node when it can go on, select! picks at random among what is
\* ready, so that a call is read in the end, peers serve blocks in the end, and
\* the application reads its channels and lets go of the node as it is used to.
FairSpec ==
    /\ Spec
    /\ WF_vars(Start) /\ WF_vars(SendDialog) /\ WF_vars(WorkDone)
    /\ SF_vars(ClientMessage) /\ SF_vars(Block)
    /\ WF_vars(ReadLog) /\ WF_vars(ReadInfo) /\ WF_vars(DropNode)

-----------------------------------------------------------------------------
(* Properties *)

\* The state has its type, and the log and info channels keep their capacity.
TypeOK ==
    /\ use \in Uses
    /\ node \in {"new", "working", "select", "stopped", "dropped"}
    /\ work \in Seq({"log", "info"})
    /\ hand \in Call \cup {None} /\ queue \subseteq Call /\ channel \in Seq(Call)
    /\ Len(calls) <= MaxCalls
    /\ \A c \in DOMAIN calls : calls[c].kind \in Kinds /\ calls[c].block \in Blocks \cup {None}
    /\ log \in 0 .. ChannelSize /\ info \in 0 .. ChannelSize

\* "If the node has stopped running." is the only reason the documentation gives
\* for a call to fail to get through.  While the node runs there are two more, and
\* no other: a block that was requested left the active chain, or an earlier call
\* asked for the same block, whose request BlockQueue::add prefers.
ErrorMeansStopped ==
    \A c \in DOMAIN calls :
        /\ calls[c].reply = "SendError" => node = "dropped"
        /\ calls[c].reply = "RecvError" =>
             \/ node = "dropped"
             \/ c \in lost
             \/ \E d \in DOMAIN calls : d < c /\ SameBlock(d, c)

\* Every call comes back: with its answer, or with an error once the node is gone.
\* It does not hold for an application that keeps the node, nor for one that calls
\* in the task that reads its channels.
CallsReturn == \A c \in Call : []<>(c \in DOMAIN calls => ~Waiting(c))

\* A shutdown ends the node, also one that is called before the node runs, or while
\* the node waits to tell the application something.
ShutdownObeyed ==
    \A c \in Call : (c \in DOMAIN calls /\ calls[c].kind = "shutdown") ~> node \in {"stopped", "dropped"}

=============================================================================
