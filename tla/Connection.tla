----------------------------- MODULE Connection -----------------------------
(***************************************************************************)
(* One connection: the task of a peer (network/peer.rs) with its message   *)
(* counter and timer (network/counter.rs), the task that reads the socket  *)
(* (network/reader.rs), the remote peer and the main loop at the other end *)
(* of the task's channels.                                                 *)
(*                                                                         *)
(*   main loop --- requests ---> task --- socket ---> remote               *)
(*   remote ---> reader --- inbox ---> task --- mailbox ---> main loop     *)
(*                                                                         *)
(* Time passes in ticks.  A tick passes while the task waits: at most      *)
(* MessageTimeout of them in select!, any number when it waits for room in *)
(* the mailbox or in the socket, where the code sets no limit.  An honest  *)
(* remote sends what it was asked for and announcements; another one sends *)
(* anything.  What messages say is left out, so the main loop may ask for  *)
(* anything at any time.                                                   *)
(***************************************************************************)
EXTENDS Integers, Sequences

CONSTANTS
    Requests,           \* MainThreadMessages of the instance
    Wire,               \* NetworkMessages of the instance
    FilterBatch,        \* filters in the answer to GetFilters
    FilterAllowance,    \* what sent_filters adds
    ADDR_HARD_LIMIT, MAX_ADDR, MAX_INV, MAX_HEADERS,
    ResponseTimeout,    \* response_timeout, in ticks
    MaxConnectionTime,  \* max_connection_time, in ticks
    MessageTimeout,     \* MESSAGE_TIMEOUT, in ticks
    InboxSize,          \* capacity of the channel of the reader to the task
    MailboxSize,        \* capacity of the channel to the main loop
    SocketSize,         \* messages the socket holds that the remote has not read
    MaxRequests,        \* bound: requests of the main loop
    MaxMessages         \* bound: messages of the remote

MainThreadMessage ==
    {"GetAddr", "GetAddrV2", "WtxidRelay", "GetHeaders", "GetFilterHeaders", "GetFilters",
     "GetBlock", "Disconnect", "BroadcastTx", "Verack"}

\* len is the length of a list or a fee rate, kept how much of a list the reader
\* keeps.
ASSUME MessageAssumption ==
    /\ Requests \subseteq MainThreadMessage
    /\ Wire \subseteq [kind : STRING, len : Int, kept : Nat]
    /\ \A m \in Wire : m.kind = "addr" => m.kept <= m.len

ASSUME ConnectionAssumption ==
    /\ FilterBatch \in Nat /\ FilterAllowance \in Nat
    /\ FilterBatch <= FilterAllowance
    /\ MAX_ADDR \in Nat /\ ADDR_HARD_LIMIT \in Nat /\ MAX_ADDR <= ADDR_HARD_LIMIT
    /\ MAX_INV \in Nat /\ MAX_HEADERS \in Nat
    /\ ResponseTimeout \in Nat /\ MaxConnectionTime \in Nat
    /\ MessageTimeout \in Nat \ {0}
    /\ InboxSize \in Nat \ {0} /\ MailboxSize \in Nat \ {0} /\ SocketSize \in Nat \ {0}
    /\ MaxRequests \in Nat /\ MaxMessages \in Nat

\* The fields of MessageCounter.
Kind == {"version", "verack", "header", "filter_header", "filters", "addrs", "block", "tx"}

Off == -1       \* MessageTimer.tracked_time is None
Nothing == "nothing"

VARIABLES
    phase,      \* of the task: "start", "top" of the loop, "select", "sending"
                \* to the main loop, "writing" to the socket or "ended"
    why,        \* why the task ended
    hand,       \* the message the task sends or writes
    counter,    \* MessageCounter
    timer,      \* MessageTimer: ticks since the last request, or Off
    age,        \* ticks since the task started
    slept,      \* ticks since select! began
    tx_queue,   \* number of transactions that wait to be asked for
    requests,   \* the channel of the main loop to the task
    inbox,      \* the channel of the reader to the task
    finished,   \* the reader has ended
    socket,     \* written messages that the remote has not read
    honest,     \* the remote is
    owed,       \* answers an honest remote has yet to send, of each kind
    mailbox,    \* number of messages in the channel to the main loop
    running,    \* the node is; its ends of the channels exist
    asked,      \* history: requests the task took up that allow a kind
    forwarded,  \* history: what went to the main loop, of each kind
    budget      \* what is left of the bounds

clock == <<timer, age, slept>>
remote == <<socket, honest, owed>>
node == <<requests, mailbox, running>>
history == <<asked, forwarded>>
vars == <<phase, why, hand, counter, clock, tx_queue, inbox, finished, remote, node, history, budget>>

None == [k \in Kind |-> 0]

\* MessageCounter::new
Init ==
    /\ phase = "start" /\ why = Nothing /\ hand = Nothing
    /\ counter = [None EXCEPT !["version"] = 1, !["verack"] = 1]
    /\ timer = Off /\ age = 0 /\ slept = 0
    /\ tx_queue = 0
    /\ requests = <<>> /\ inbox = <<>> /\ finished = FALSE
    /\ socket = <<>> /\ honest \in BOOLEAN /\ owed = None
    /\ mailbox = 0 /\ running = TRUE
    /\ asked = None /\ forwarded = None
    /\ budget = [requests |-> MaxRequests, messages |-> MaxMessages]

Connected == phase \notin {"start", "ended"}

End(reason) == phase' = "ended" /\ why' = reason

-----------------------------------------------------------------------------
(* MessageCounter *)

\* Mutant: a request for filters allows one filter too few.
SentOneLessMutant(m) ==
    CASE m = "GetFilterHeaders" -> [counter EXCEPT !["filter_header"] = @ + 1]
      [] m = "GetFilters"       -> [counter EXCEPT !["filters"] = @ + FilterAllowance - 1]
      [] m = "GetAddr"          -> [counter EXCEPT !["addrs"] = @ + ADDR_HARD_LIMIT]
      [] m = "GetBlock"         -> [counter EXCEPT !["block"] = @ + 1]
      [] m = "BroadcastTx"      -> [counter EXCEPT !["tx"] = @ + 1]
      [] OTHER                  -> counter

\* sent_*: what a request allows the remote to send.
Sent(m) ==
    CASE m = "GetFilterHeaders" -> [counter EXCEPT !["filter_header"] = @ + 1]
      [] m = "GetFilters"       -> [counter EXCEPT !["filters"] = @ + FilterAllowance]
      [] m = "GetAddr"          -> [counter EXCEPT !["addrs"] = @ + ADDR_HARD_LIMIT]
      [] m = "GetBlock"         -> [counter EXCEPT !["block"] = @ + 1]
      [] m = "BroadcastTx"      -> [counter EXCEPT !["tx"] = @ + 1]
      [] OTHER                  -> counter

\* The requests that start the timer again.
Tracked(m) == m \in {"Version", "GetHeaders", "GetFilterHeaders", "GetFilters", "GetBlock"}

\* Mutant: blocks are not counted.
GotNoBlockMutant(m) ==
    IF m.kind \in {"header", "block"} \/ m.kind \notin Kind THEN counter
    ELSE [counter EXCEPT ![m.kind] = @ - (IF m.kind = "addrs" THEN m.len ELSE 1)]

\* got_*: headers are not counted, addresses one by one.
Got(m) ==
    IF m.kind = "header" \/ m.kind \notin Kind THEN counter
    ELSE [counter EXCEPT ![m.kind] = @ - (IF m.kind = "addrs" THEN m.len ELSE 1)]

\* The messages that stop the timer, whatever it was started for.
Untracked(m) == m.kind \in {"verack", "header", "filter_header", "filters", "block"}

Unsolicited == \E k \in Kind : counter[k] < 0

Unresponsive == timer # Off /\ timer > ResponseTimeout

-----------------------------------------------------------------------------
(* Peer::run *)

\* The handshake of an encrypted connection and the version message may fail.
Start ==
    /\ phase = "start"
    /\ \/ End("failed") /\ UNCHANGED <<timer, socket>>
       \/ /\ phase' = "top"
          /\ socket' = <<"Version">>
          /\ timer' = 0
          /\ UNCHANGED why
    /\ UNCHANGED <<hand, counter, age, slept, tx_queue, inbox, finished, honest, owed,
                   node, history, budget>>

\* Mutant: the time of the connection is not limited.
VerdictAgelessMutant ==
    IF finished THEN "finished"
    ELSE IF Unsolicited THEN "unsolicited"
    ELSE IF Unresponsive THEN "unresponsive"
    ELSE Nothing

\* The checks at the top of the loop, in their order.
Verdict ==
    IF finished THEN "finished"
    ELSE IF Unsolicited THEN "unsolicited"
    ELSE IF Unresponsive THEN "unresponsive"
    ELSE IF age > MaxConnectionTime THEN "age"
    ELSE Nothing

LoopTop ==
    /\ phase = "top"
    /\ IF Verdict # Nothing THEN End(Verdict) ELSE phase' = "select" /\ UNCHANGED why
    /\ slept' = 0
    /\ UNCHANGED <<hand, counter, timer, age, tx_queue, inbox, finished, remote, node, history, budget>>


\* MESSAGE_TIMEOUT has passed, or a channel is closed: look again.
Wake ==
    /\ phase = "select"
    /\ \/ slept = MessageTimeout
       \/ ~running /\ requests = <<>>
       \/ finished /\ inbox = <<>>
    /\ phase' = "top"
    /\ UNCHANGED <<why, hand, counter, clock, tx_queue, inbox, finished, remote, node, history, budget>>

\* handle_peer_message, up to the send or the write it ends with.  A remote asks
\* for transactions that are queued for it, one at a time, or for others.
HandlePeerMessage ==
    /\ phase = "select"
    /\ inbox # <<>>
    /\ inbox' = Tail(inbox)
    /\ LET m == Head(inbox)
       IN  \E gossip \in {FALSE, m.kind = "tx_requests" /\ tx_queue > 0} :
           /\ counter' = Got(m)
           /\ timer' = IF Untracked(m) THEN Off ELSE timer
           /\ tx_queue' = IF gossip THEN tx_queue - 1 ELSE tx_queue
           /\ CASE m.kind = "disconnect" -> End("disconnect") /\ UNCHANGED hand
                [] m.kind = "ping" \/ gossip ->
                     phase' = "writing" /\ hand' = "Reply" /\ UNCHANGED why
                [] m.kind \in (Kind \ {"verack", "tx"}) \cup {"new_blocks", "fee_filter"} ->
                     phase' = "sending" /\ hand' = m /\ UNCHANGED why
                [] OTHER -> phase' = "top" /\ UNCHANGED <<hand, why>>
    /\ UNCHANGED <<age, slept, finished, remote, node, history, budget>>

\* main_thread_sender.send waits for room; it fails when the node is gone, and
\* the loop goes on.
SendToMain ==
    /\ phase = "sending"
    /\ IF running
       THEN /\ mailbox < MailboxSize /\ mailbox' = mailbox + 1
            /\ forwarded' = IF hand.kind \in Kind
                            THEN [forwarded EXCEPT ![hand.kind] = @ + (IF hand.kind = "addrs" THEN hand.len ELSE 1)]
                            ELSE forwarded
       ELSE UNCHANGED <<mailbox, forwarded>>
    /\ phase' = "top" /\ hand' = Nothing
    /\ UNCHANGED <<why, counter, clock, tx_queue, inbox, finished, remote, requests, running, asked, budget>>

\* main_thread_request: the request is counted before it is written.
MainThreadRequest ==
    /\ phase = "select"
    /\ requests # <<>>
    /\ requests' = Tail(requests)
    /\ LET m == Head(requests)
       IN  /\ counter' = Sent(m)
           /\ asked' = [k \in Kind |-> IF counter'[k] # counter[k] THEN asked[k] + 1 ELSE asked[k]]
           /\ timer' = IF Tracked(m) THEN 0 ELSE timer
           /\ tx_queue' = IF m = "BroadcastTx" THEN tx_queue + 1 ELSE tx_queue
           /\ IF m = "Disconnect" THEN End("disconnect") /\ UNCHANGED hand
              ELSE phase' = "writing" /\ hand' = m /\ UNCHANGED why
    /\ UNCHANGED <<age, slept, inbox, finished, remote, mailbox, running, forwarded, budget>>

\* write_bytes waits for room in the socket.  When the message cannot be made or
\* written, the loop goes on without it.
WriteBytes ==
    /\ phase = "writing"
    /\ Len(socket) < SocketSize \/ finished
    /\ socket' = socket \/ (Len(socket) < SocketSize /\ socket' = Append(socket, hand))
    /\ phase' = "top" /\ hand' = Nothing
    /\ UNCHANGED <<why, counter, clock, tx_queue, inbox, finished, honest, owed, node, history, budget>>

-----------------------------------------------------------------------------
(* The reader *)

Parsed(kind, m) == [kind |-> kind, len |-> m.len]

\* parse_message.  Of addresses, only those that serve filters are kept; of an
\* inventory, the blocks; kept counts them.
ParseMessage(m) ==
    CASE m.kind \in {"addr", "inv", "headers"} /\
         m.len > (CASE m.kind = "addr" -> MAX_ADDR [] m.kind = "inv" -> MAX_INV [] OTHER -> MAX_HEADERS)
                                               -> <<Parsed("disconnect", m)>>
      [] m.kind = "unknown"                    -> <<Parsed("disconnect", m)>>
      [] m.kind = "feefilter" /\ m.len < 0     -> <<Parsed("disconnect", m)>>
      [] m.kind = "feefilter" /\ m.len >= 0    -> <<Parsed("fee_filter", m)>>
      [] m.kind = "addr" /\ m.len <= MAX_ADDR  ->
            IF m.kept = 0 THEN <<>> ELSE <<[kind |-> "addrs", len |-> m.kept]>>
      [] m.kind = "inv" /\ m.len <= MAX_INV    ->
            IF m.kept = 0 THEN <<>> ELSE <<Parsed("new_blocks", m)>>
      [] m.kind = "headers" /\ m.len <= MAX_HEADERS -> <<Parsed("header", m)>>
      [] m.kind = "getdata"                    -> <<Parsed("tx_requests", m)>>
      [] m.kind = "cfheaders"                  -> <<Parsed("filter_header", m)>>
      [] m.kind = "cfilter"                    -> <<Parsed("filters", m)>>
      [] m.kind = "reject"                     -> <<Parsed("tx", m)>>
      [] m.kind \in {"version", "verack", "block", "ping", "pong"} -> <<Parsed(m.kind, m)>>
      [] OTHER                                 -> <<>>

\* Mutant: the reader does not wait for room.
ReadFromRemoteAtOnceMutant(m) ==
    /\ ~finished
    /\ inbox' = inbox \o ParseMessage(m)
    /\ UNCHANGED <<phase, why, hand, counter, clock, tx_queue, finished, node, history, socket, honest>>

\* read_from_remote waits for room in the inbox.
ReadFromRemote(m) ==
    /\ ~finished
    /\ inbox' = inbox \o ParseMessage(m)
    /\ Len(inbox') <= InboxSize
    /\ UNCHANGED <<phase, why, hand, counter, clock, tx_queue, finished, node, history, socket, honest>>

\* The remote closes the connection, or sends what cannot be parsed.
ReaderEnds ==
    /\ Connected
    /\ ~finished
    /\ finished' = TRUE
    /\ UNCHANGED <<phase, why, hand, counter, clock, tx_queue, inbox, socket, honest, owed, node, history, budget>>

-----------------------------------------------------------------------------
(* The remote *)

\* What an honest remote sends for a request.
Answers(m) ==
    CASE m = "Version"          -> [None EXCEPT !["version"] = 1, !["verack"] = 1]
      [] m = "GetAddr"          -> [None EXCEPT !["addrs"] = ADDR_HARD_LIMIT]
      [] m = "GetHeaders"       -> [None EXCEPT !["header"] = 1]
      [] m = "GetFilterHeaders" -> [None EXCEPT !["filter_header"] = 1]
      [] m = "GetFilters"       -> [None EXCEPT !["filters"] = FilterBatch]
      [] m = "GetBlock"         -> [None EXCEPT !["block"] = 1]
      [] m = "BroadcastTx"      -> [None EXCEPT !["tx"] = 1]
      [] OTHER                  -> None

RemoteReads ==
    /\ Connected
    /\ socket # <<>>
    /\ owed' = IF honest THEN [k \in Kind |-> owed[k] + Answers(Head(socket))[k]] ELSE owed
    /\ socket' = Tail(socket)
    /\ UNCHANGED <<phase, why, hand, counter, clock, tx_queue, inbox, finished, honest, node, history, budget>>

\* Whether an honest remote may send m.
Solicited(m) ==
    /\ m.kind # "unknown"
    /\ \A i \in DOMAIN ParseMessage(m) :
         LET r == ParseMessage(m)[i]
         IN  /\ r.kind # "disconnect"
             /\ r.kind \in Kind => owed[r.kind] >= (IF r.kind = "addrs" THEN r.len ELSE 1)

Settled(m) ==
    [k \in Kind |-> IF \E i \in DOMAIN ParseMessage(m) : ParseMessage(m)[i].kind = k
                    THEN owed[k] - (IF k = "addrs" THEN m.kept ELSE 1)
                    ELSE owed[k]]

RemoteSends ==
    \E m \in Wire :
        /\ Connected
        /\ honest => Solicited(m)
        /\ budget.messages > 0
        /\ budget' = [budget EXCEPT !.messages = @ - 1]
        /\ owed' = IF honest THEN Settled(m) ELSE owed
        /\ ReadFromRemote(m)

-----------------------------------------------------------------------------
(* The main loop and the clock *)

MainSends ==
    /\ running /\ Connected
    /\ budget.requests > 0
    /\ budget' = [budget EXCEPT !.requests = @ - 1]
    /\ \E m \in Requests : requests' = Append(requests, m)
    /\ UNCHANGED <<phase, why, hand, counter, clock, tx_queue, inbox, finished, remote, mailbox, running, history>>

MainReceives ==
    /\ running /\ Connected /\ mailbox > 0
    /\ mailbox' = mailbox - 1
    /\ UNCHANGED <<phase, why, hand, counter, clock, tx_queue, inbox, finished, remote, requests, running, history, budget>>

\* The node stops: what is in the channels of the main loop is gone, but the
\* task still reads the requests that were sent.
NodeStops ==
    /\ running /\ phase # "ended"
    /\ running' = FALSE
    /\ mailbox' = 0
    /\ UNCHANGED <<phase, why, hand, counter, clock, tx_queue, inbox, finished, remote, requests, history, budget>>

Later(ticks, limit) == IF ticks > limit THEN ticks ELSE ticks + 1

Tick ==
    /\ \/ phase = "select" /\ slept < MessageTimeout
       \/ phase = "sending" /\ running /\ mailbox = MailboxSize
       \/ phase = "writing" /\ ~finished /\ Len(socket) = SocketSize
    /\ timer' = IF timer = Off THEN Off ELSE Later(timer, ResponseTimeout + MessageTimeout)
    /\ age' = Later(age, MaxConnectionTime + MessageTimeout)
    /\ slept' = IF phase = "select" THEN slept + 1 ELSE slept
    /\ UNCHANGED <<phase, why, hand, counter, tx_queue, inbox, finished, remote, node, history, budget>>

TaskStep ==
    Start \/ LoopTop \/ Wake \/ HandlePeerMessage \/ SendToMain \/ MainThreadRequest \/ WriteBytes

Ended == phase = "ended" /\ UNCHANGED vars

Next ==
    TaskStep \/ ReaderEnds \/ RemoteReads \/ RemoteSends \/ MainSends \/ MainReceives
    \/ NodeStops \/ Tick \/ Ended

Spec == Init /\ [][Next]_vars

\* tokio runs a task that can go on, and time passes whatever the task does.  Of
\* the main loop and of the remote nothing is assumed: neither need ever receive
\* or read.
FairSpec == Spec /\ WF_vars(TaskStep) /\ SF_vars(Tick)

-----------------------------------------------------------------------------
(* Properties *)

\* The state of the connection has its type, and no channel exceeds its capacity.
TypeOK ==
    /\ phase \in {"start", "top", "select", "sending", "writing", "ended"}
    /\ why \in {Nothing, "failed", "finished", "unsolicited", "unresponsive", "age", "disconnect"}
    /\ (why # Nothing) <=> (phase = "ended")
    /\ counter \in [Kind -> Int]
    /\ timer \in Int /\ timer >= Off /\ age \in Nat /\ slept \in 0 .. MessageTimeout
    /\ requests \in Seq(Requests) /\ Len(inbox) <= InboxSize
    /\ mailbox \in 0 .. MailboxSize /\ Len(socket) <= SocketSize
    /\ owed \in [Kind -> Nat] /\ asked \in [Kind -> Nat] /\ forwarded \in [Kind -> Nat]

\* A remote that only answers what it was asked, in any order and at any time, is
\* never taken for one that sends unsolicited messages.
HonestKept == honest => why # "unsolicited"

\* What any remote gets through to the main loop is bounded by what was asked of
\* it: the counters let through one message more than they allow, and no second.
ForwardedBounded ==
    /\ forwarded["version"] <= 2
    /\ forwarded["block"] <= asked["block"] + 1
    /\ forwarded["filter_header"] <= asked["filter_header"] + 1
    /\ forwarded["filters"] <= asked["filters"] * FilterAllowance + 1
    /\ forwarded["addrs"] <= asked["addrs"] * ADDR_HARD_LIMIT + MAX_ADDR

\* A remote that leaves the last request unanswered, and a connection that is too
\* old, are noticed one round of select! after their time at the latest, unless
\* the task is held up by a full channel or socket.
DroppedInTime ==
    phase = "select" =>
        /\ timer <= ResponseTimeout + MessageTimeout
        /\ age <= MaxConnectionTime + MessageTimeout

\* The task waits where the code sets no time limit: for the main loop to take a
\* message out of the full mailbox, or for the remote to read from the full socket.
HeldUp ==
    \/ phase = "sending" /\ running /\ mailbox = MailboxSize
    \/ phase = "writing" /\ ~finished /\ Len(socket) = SocketSize


\* "Maximum time to maintain a connection with a peer." (network/mod.rs:64): every
\* connection ends.  It does not hold: a remote that reads nothing holds up the
\* task in write_bytes, where no limit is looked at.
ConnectionEnds == <>(phase = "ended")

\* "Set the time duration a peer has to respond to a message from the local node."
\* (builder.rs:167): while an answer is due the timer runs.  It does not hold: any
\* answer stops the timer of all requests.
AnswersTimed ==
    phase = "select" /\ (\E k \in {"header", "filter_header", "filters", "block"} : owed[k] > 0)
        => timer # Off

\* An answer that the reader has taken in is handled before the task ends on its
\* own.  It does not hold: the checks come before the inbox.
AnswersHandled == honest /\ why \in {"finished", "unresponsive"} => inbox = <<>>
=============================================================================
