------------------------------- MODULE Threads -------------------------------
(***************************************************************************)
(* The tasks of a running node and the channels between them: the main     *)
(* loop of node.rs, one task for each peer (network/peer.rs) and the       *)
(* client.                                                                 *)
(*                                                                         *)
(*   client --- commands (unbounded) ---> main loop                        *)
(*   main loop --- outbox[p] (bounded) ---> task of p --- socket ---> p    *)
(*   p --- socket --- remote[p] ---> task of p --- inbox (bounded) --->    *)
(*                                                           main loop     *)
(*                                                                         *)
(* A send to a full channel waits, and the sender does nothing else        *)
(* meanwhile: the main loop waits with messages left to send (todo), a     *)
(* peer task with one message in hand.  What the messages say is left out, *)
(* so which request follows a message is a free choice.  The peers are     *)
(* honest: they answer each request once, and announce blocks.             *)
(***************************************************************************)
EXTENDS Naturals, Sequences, FiniteSets, SequencesExt

CONSTANTS
    Peer,           \* peers the node can connect to
    RequiredPeers,  \* required_peers
    InboxSize,      \* capacity of the channel of all peer tasks to the node
    OutboxSize,     \* capacity of the channel of the node to a peer task
    BatchSize,      \* filters in the answer to GetFilters
    MaxCalls,       \* bound: broadcast_tx and rescan calls of the client
    MaxRequests,    \* bound: times the node decides to ask for something
    MaxInvs         \* bound: blocks that are announced

ASSUME ThreadsAssumption ==
    /\ IsFiniteSet(Peer)
    /\ RequiredPeers \in 1 .. Cardinality(Peer)
    /\ InboxSize \in Nat \ {0} /\ OutboxSize \in Nat \ {0}
    /\ BatchSize \in Nat \ {0}
    /\ MaxCalls \in Nat /\ MaxRequests \in Nat /\ MaxInvs \in Nat

\* MainThreadMessage.  Verack stands for GetAddrV2, WtxidRelay, Verack and
\* GetAddr, which handle_version sends together and which lead to no request.
Request == {"Verack", "GetHeaders", "GetFilterHeaders", "GetFilters", "GetBlock",
            "BroadcastTx", "Disconnect"}

\* PeerMessage; LastFilter is the filter that ends a batch.  Addr and FeeFilter
\* take the way of a Filter: the main loop reads them and sends nothing.
Message == {"Version", "Headers", "FilterHeaders", "Filter", "LastFilter", "Block", "NewBlocks"}

VARIABLES
    phase,      \* where the main loop is
    todo,       \* sends of the main loop that are left to do, in order
    inbox,      \* the channel to the main loop
    outbox,     \* the channels to the peer tasks
    task,       \* the peer tasks: "none", "select", "sending" or "ended"
    hand,       \* the message a peer task sends
    remote,     \* messages of a peer that its task has not read
    commands,   \* ClientMessages
    queue,      \* number of transactions in the Broadcaster
    calls, requests, invs   \* what is left of the bounds

bounds == <<calls, requests, invs>>
peers == <<task, hand, remote>>
vars == <<phase, todo, inbox, outbox, task, hand, remote, commands, queue, calls, requests, invs>>

Init ==
    /\ phase = "top"
    /\ todo = <<>>
    /\ inbox = <<>>
    /\ outbox = [p \in Peer |-> <<>>]
    /\ task = [p \in Peer |-> "none"]
    /\ hand = [p \in Peer |-> "Version"]
    /\ remote = [p \in Peer |-> <<>>]
    /\ commands = <<>>
    /\ queue = 0
    /\ calls = MaxCalls /\ requests = MaxRequests /\ invs = MaxInvs

Live == {p \in Peer : task[p] \in {"select", "sending"}}

-----------------------------------------------------------------------------
(* Sends of the main loop *)

Send(p, m) == [to |-> p, message |-> m]

\* PeerMap::send_message, broadcast and send_random, as the sends they make.
\* The order of a broadcast is that of the HashMap.
Broadcast(m, order) == [i \in DOMAIN order |-> Send(order[i], m)]

Orders == SetToSeqs(Live)

\* ptx.send waits for room, and fails at once when the task has ended.
NodeSend ==
    /\ todo # <<>>
    /\ LET s == Head(todo)
       IN  IF s.to \in Live
           THEN /\ Len(outbox[s.to]) < OutboxSize
                /\ outbox' = [outbox EXCEPT ![s.to] = Append(@, s.message)]
           ELSE UNCHANGED outbox
    /\ todo' = Tail(todo)
    /\ UNCHANGED <<phase, inbox, peers, commands, queue, bounds>>

-----------------------------------------------------------------------------
(* The main loop *)

\* Node::dispatch: connect one more peer when too few are live.  Behind is
\* satisfied with one, so the node may also leave it at that.
Dispatch ==
    \/ UNCHANGED <<task, remote>>
    \/ /\ Cardinality(Live) < RequiredPeers
       /\ \E p \in Peer :
            /\ task[p] = "none"
            /\ task' = [task EXCEPT ![p] = "select"]
            /\ remote' = [remote EXCEPT ![p] = <<"Version">>]

\* pop_block_queue and get_blocks
GetBlocks ==
    \/ todo' = <<>> /\ UNCHANGED requests
    \/ /\ requests > 0
       /\ requests' = requests - 1
       /\ \E p \in Live' : todo' = <<Send(p, "GetBlock")>>

\* Mutant: asks for more peers than are required.
BroadcastTransactionsMoreMutant ==
    IF queue > 0 /\ Cardinality(Live) > RequiredPeers
    THEN /\ queue' = 0
         /\ \E order \in Orders :
                todo' = FlattenSeq([i \in 1 .. queue |-> Broadcast("BroadcastTx", order)])
    ELSE todo' = <<>> /\ UNCHANGED queue

\* broadcast_transactions sends the whole queue, to all peers or to one.
BroadcastTransactions ==
    IF queue > 0 /\ Cardinality(Live) >= RequiredPeers
    THEN /\ queue' = 0
         /\ \/ \E order \in Orders :
                todo' = FlattenSeq([i \in 1 .. queue |-> Broadcast("BroadcastTx", order)])
            \/ \E p \in Live :
                todo' = [i \in 1 .. queue |-> Send(p, "BroadcastTx")]
    ELSE todo' = <<>> /\ UNCHANGED queue

\* advance_state: a synced node that has heard of no block for long disconnects
\* its peers.  In that state there are no blocks to get.
LeaveStaleTip ==
    /\ requests > 0
    /\ requests' = requests - 1
    /\ \E order \in Orders : todo' = Broadcast("Disconnect", order)

NodeTop ==
    /\ phase = "top"
    /\ todo = <<>>
    /\ Dispatch
    /\ GetBlocks \/ LeaveStaleTip
    /\ phase' = "transactions"
    /\ UNCHANGED <<inbox, outbox, hand, commands, queue, calls, invs>>

NodeTransactions ==
    /\ phase = "transactions"
    /\ todo = <<>>
    /\ BroadcastTransactions
    /\ phase' = "select"
    /\ UNCHANGED <<inbox, outbox, peers, commands, bounds>>

\* The sends that may answer message m of p: next_stateful_message, or nothing.
\* Filter headers and announced blocks are answered to all peers.
Replies(p, m) ==
    CASE m = "Headers"       -> {<<Send(p, n)>> : n \in {"GetHeaders", "GetFilterHeaders", "GetFilters"}}
      [] m = "FilterHeaders" -> {Broadcast(n, order) : n \in {"GetFilterHeaders", "GetFilters"},
                                                       order \in Orders}
      [] m = "LastFilter"    -> {<<Send(p, "GetFilters")>>}
      [] m = "NewBlocks"     -> {Broadcast("GetHeaders", order) : order \in Orders}
      [] OTHER               -> {}

\* What a peer gets that fails a check.
Refusals(p, m) ==
    CASE m = "FilterHeaders" -> {Broadcast("Disconnect", order) : order \in Orders}
      [] m = "NewBlocks"     -> {}
      [] OTHER               -> {<<Send(p, "Disconnect")>>}

\* handle_version sends the first messages itself and returns the last.
Handshake(p) == {<<Send(p, "Verack"), Send(p, "GetHeaders")>>, <<Send(p, "Disconnect")>>}

NodeReceive ==
    /\ phase = "select"
    /\ todo = <<>>
    /\ inbox # <<>>
    /\ inbox' = Tail(inbox)
    /\ phase' = "top"
    /\ LET p == Head(inbox).from
           m == Head(inbox).message
       IN  \/ m = "Version" /\ todo' \in Handshake(p) /\ UNCHANGED requests
           \/ m # "Version" /\ todo' = <<>> /\ UNCHANGED requests
           \/ /\ m # "Version"
              /\ requests > 0
              /\ requests' = requests - 1
              /\ todo' \in Replies(p, m) \cup Refusals(p, m)
    /\ UNCHANGED <<outbox, peers, commands, queue, calls, invs>>

\* LOOP_TIMEOUT
NodeTimeout ==
    /\ phase = "select"
    /\ todo = <<>>
    /\ phase' = "top"
    /\ UNCHANGED <<todo, inbox, outbox, peers, commands, queue, bounds>>

\* Mutant: a shutdown first waits for the transactions to be sent.
ObeyQueueFirstMutant(command) ==
    \/ /\ command = "Shutdown"
       /\ queue = 0
       /\ phase' = "stopped"
       /\ UNCHANGED <<todo, queue>>
    \/ command = "Broadcast" /\ phase' = "top" /\ queue' = queue + 1 /\ UNCHANGED todo
    \/ command = "Rescan" /\ phase' = "top" /\ UNCHANGED <<todo, queue>>

\* A rescan asks all peers for filters, unless it is too early for that.
Obey(command) ==
    \/ command = "Shutdown" /\ phase' = "stopped" /\ UNCHANGED <<todo, queue>>
    \/ command = "Broadcast" /\ phase' = "top" /\ queue' = queue + 1 /\ UNCHANGED todo
    \/ /\ command = "Rescan"
       /\ phase' = "top"
       /\ \/ UNCHANGED todo
          \/ \E order \in Orders : todo' = Broadcast("GetFilters", order)
       /\ UNCHANGED queue

NodeCommand ==
    /\ phase = "select"
    /\ todo = <<>>
    /\ commands # <<>>
    /\ commands' = Tail(commands)
    /\ Obey(Head(commands))
    /\ UNCHANGED <<inbox, outbox, peers, bounds>>

-----------------------------------------------------------------------------
(* Peer::run *)

Answer(m) ==
    CASE m = "GetHeaders"       -> <<"Headers">>
      [] m = "GetFilterHeaders" -> <<"FilterHeaders">>
      [] m = "GetFilters"       -> [i \in 1 .. BatchSize |-> IF i = BatchSize THEN "LastFilter" ELSE "Filter"]
      [] m = "GetBlock"         -> <<"Block">>
      [] OTHER                  -> <<>>

\* main_thread_request: the message goes to the socket, and the answer comes.
MainThreadRequest(p) ==
    /\ task[p] = "select"
    /\ outbox[p] # <<>>
    /\ outbox' = [outbox EXCEPT ![p] = IF Head(@) = "Disconnect" THEN <<>> ELSE Tail(@)]
    /\ task' = [task EXCEPT ![p] = IF Head(outbox[p]) = "Disconnect" THEN "ended" ELSE @]
    /\ remote' = [remote EXCEPT ![p] = IF Head(outbox[p]) = "Disconnect" THEN <<>>
                                       ELSE @ \o Answer(Head(outbox[p]))]
    /\ UNCHANGED <<phase, todo, inbox, hand, commands, queue, bounds>>

\* handle_peer_message, up to the send to the main loop.
HandlePeerMessage(p) ==
    /\ task[p] = "select"
    /\ remote[p] # <<>>
    /\ remote' = [remote EXCEPT ![p] = Tail(@)]
    /\ hand' = [hand EXCEPT ![p] = Head(remote[p])]
    /\ task' = [task EXCEPT ![p] = "sending"]
    /\ UNCHANGED <<phase, todo, inbox, outbox, commands, queue, bounds>>

\* Mutant: does not wait for room.
PeerSendAtOnceMutant(p) ==
    /\ task[p] = "sending"
    /\ inbox' = Append(inbox, [from |-> p, message |-> hand[p]])
    /\ task' = [task EXCEPT ![p] = "select"]
    /\ hand' = [hand EXCEPT ![p] = "Version"]
    /\ UNCHANGED <<phase, todo, outbox, remote, commands, queue, bounds>>

PeerSend(p) ==
    /\ task[p] = "sending"
    /\ Len(inbox) < InboxSize
    /\ inbox' = Append(inbox, [from |-> p, message |-> hand[p]])
    /\ task' = [task EXCEPT ![p] = "select"]
    /\ hand' = [hand EXCEPT ![p] = "Version"]
    /\ UNCHANGED <<phase, todo, outbox, remote, commands, queue, bounds>>

\* The socket closes, or the task finds the peer unresponsive.
PeerEnds(p) ==
    /\ task[p] = "select"
    /\ task' = [task EXCEPT ![p] = "ended"]
    /\ outbox' = [outbox EXCEPT ![p] = <<>>]
    /\ remote' = [remote EXCEPT ![p] = <<>>]
    /\ UNCHANGED <<phase, todo, inbox, hand, commands, queue, bounds>>

\* The peer announces a block.
Announce(p) ==
    /\ task[p] \in {"select", "sending"}
    /\ invs > 0
    /\ invs' = invs - 1
    /\ remote' = [remote EXCEPT ![p] = Append(@, "NewBlocks")]
    /\ UNCHANGED <<phase, todo, inbox, outbox, task, hand, commands, queue, calls, requests>>

-----------------------------------------------------------------------------
(* The client *)

ShutdownSent == \E i \in DOMAIN commands : commands[i] = "Shutdown"

\* broadcast_tx and rescan
Call ==
    /\ phase # "stopped"
    /\ calls > 0
    /\ ~ShutdownSent
    /\ calls' = calls - 1
    /\ \E command \in {"Broadcast", "Rescan"} : commands' = Append(commands, command)
    /\ UNCHANGED <<phase, todo, inbox, outbox, peers, queue, requests, invs>>

Shutdown ==
    /\ phase # "stopped"
    /\ ~ShutdownSent
    /\ commands' = Append(commands, "Shutdown")
    /\ UNCHANGED <<phase, todo, inbox, outbox, peers, queue, bounds>>

NodeStep ==
    NodeSend \/ NodeTop \/ NodeTransactions \/ NodeReceive \/ NodeTimeout \/ NodeCommand

PeerStep(p) == MainThreadRequest(p) \/ HandlePeerMessage(p) \/ PeerSend(p)

Next ==
    \/ NodeStep
    \/ \E p \in Peer : phase # "stopped" /\ (PeerStep(p) \/ PeerEnds(p) \/ Announce(p))
    \/ Call
    \/ Shutdown

Spec == Init /\ [][Next]_vars

\* tokio runs every task that can go on, and select! picks at random among the
\* branches that are ready, so the client's is not passed over forever.
Fairness ==
    /\ WF_vars(NodeStep)
    /\ SF_vars(NodeCommand)
    /\ \A p \in Peer : WF_vars(phase # "stopped" /\ PeerStep(p))

FairSpec == Spec /\ Fairness

-----------------------------------------------------------------------------
(* Properties *)

\* Tasks and channels have their types, and no channel exceeds its capacity.
TypeOK ==
    /\ phase \in {"top", "transactions", "select", "stopped"}
    /\ todo \in Seq([to : Peer, message : Request])
    /\ inbox \in Seq([from : Peer, message : Message]) /\ Len(inbox) <= InboxSize
    /\ outbox \in [Peer -> Seq(Request)] /\ \A p \in Peer : Len(outbox[p]) <= OutboxSize
    /\ task \in [Peer -> {"none", "select", "sending", "ended"}]
    /\ hand \in [Peer -> Message]
    /\ remote \in [Peer -> Seq(Message)]
    /\ commands \in Seq({"Broadcast", "Rescan", "Shutdown"})
    /\ queue \in 0 .. MaxCalls

\* The main loop waits for room in the channel of a peer task which waits for room
\* in the channel to the main loop.  Neither goes on.
MutualWait ==
    /\ todo # <<>>
    /\ LET p == Head(todo).to
       IN  task[p] = "sending" /\ Len(outbox[p]) = OutboxSize /\ Len(inbox) = InboxSize

\* "Tell the node to shut down.": once the client has, the main loop ends, whatever
\* the peers send and however many of them leave.  One thing keeps it from ending,
\* and no other: that it and a peer task wait for each other.
ShutdownEndsOrDeadlock == ShutdownSent ~> phase = "stopped" \/ MutualWait

\* What the documentation of the call says of every shutdown.  It does not hold:
\* the exception of ShutdownEndsOrDeadlock is reached.
ShutdownEnds == ShutdownSent ~> phase = "stopped"

\* The transactions the client hands over leave the queue, unless the node stops,
\* lacks peers or is caught in the mutual wait; filters that stream in meanwhile do
\* not hold them back.
TransactionsLeave ==
    queue > 0 ~> \/ queue = 0 \/ phase = "stopped"
                 \/ Cardinality(Live) < RequiredPeers \/ MutualWait
=============================================================================
