---------------------------- MODULE Client_proofs ----------------------------
(***************************************************************************)
(* What Client promises of the calls of a Requester, proved for every      *)
(* number of calls, every channel size and every way of using the node.    *)
(***************************************************************************)
EXTENDS Client, SequenceTheorems, TLAPS

Reply == {"none", "ok", "SendError", "RecvError", "given up",
          "UnknownHeight", "DatabaseOptFailed", "UnknownHash"}

CallType == [kind : Kinds, block : Blocks \cup {None}, reply : Reply]

\* The calls that the node has not read, not queued or not answered.
Held == Range(channel) \cup queue \cup {hand}

\* The calls are a sequence, and what the node holds are calls of it; those it
\* queues, or is about to, ask for blocks.  A call is in hand only until the next
\* message is sent.
CallsOK ==
    /\ calls \in Seq(CallType)
    /\ Held \subseteq DOMAIN calls \cup {None}
    /\ \A c \in queue \cup {hand} : c # None => calls[c].kind = "get_block"
    /\ hand # None => node = "working" /\ work # <<>>

\* Calls are read in the order in which they were made, so that of two requests
\* for a block the earlier call has the one that is queued.
ReadInOrder ==
    /\ \A i, j \in DOMAIN channel : i < j => channel[i] < channel[j]
    /\ \A c \in queue \cup {hand}, i \in DOMAIN channel : c < channel[i]
    /\ hand # None => \A c \in queue : c < hand

\* Every call that waits is held by the node or on its way to it: no reply
\* channel is dropped without its call coming back, and with the node gone no
\* call waits.
WaitingHeld ==
    /\ \A c \in DOMAIN calls : Waiting(c) => c \in Held /\ calls[c].kind \in Queries
    /\ node = "dropped" => Held = {None}

\* The inductive invariant.
ClientInv == TypeOK /\ CallsOK /\ ReadInOrder /\ ErrorMeansStopped /\ WaitingHeld

-----------------------------------------------------------------------------
(* The operators *)

\* A reply changes the replies of calls that wait and nothing else.
LEMMA RepliedCalls ==
    ASSUME calls \in Seq(CallType), NEW C, NEW reply \in Reply
    PROVE  /\ Replied(C, reply) \in Seq(CallType)
           /\ DOMAIN Replied(C, reply) = DOMAIN calls
           /\ Len(Replied(C, reply)) = Len(calls)
           /\ \A c \in DOMAIN calls :
                /\ Replied(C, reply)[c].kind = calls[c].kind
                /\ Replied(C, reply)[c].block = calls[c].block
                /\ Replied(C, reply)[c].reply =
                     IF c \in C /\ Waiting(c) THEN reply ELSE calls[c].reply
<1> DEFINE r == Replied(C, reply)
<1>1. Len(calls) \in Nat /\ DOMAIN calls = 1 .. Len(calls) /\ calls \in [1 .. Len(calls) -> CallType]
  BY LenProperties
<1>2. /\ DOMAIN r = 1 .. Len(calls)
      /\ \A c \in DOMAIN calls :
            r[c] = IF c \in C /\ Waiting(c) THEN [calls[c] EXCEPT !.reply = reply] ELSE calls[c]
  BY <1>1 DEF Replied
<1>3. ASSUME NEW c \in DOMAIN calls
      PROVE  /\ r[c] \in CallType /\ r[c].kind = calls[c].kind /\ r[c].block = calls[c].block
             /\ r[c].reply = IF c \in C /\ Waiting(c) THEN reply ELSE calls[c].reply
  BY <1>1, <1>2, <1>3 DEF CallType
<1>4. r \in [1 .. Len(calls) -> CallType]
  BY <1>1, <1>2, <1>3 DEF Replied
<1> HIDE DEF r
<1>5. r \in Seq(CallType)
  BY <1>1, <1>4, SeqDef
<1>6. Len(r) = Len(calls)
  BY <1>1, <1>2, <1>5, LenProperties
<1> QED
  BY <1>1, <1>2, <1>3, <1>5, <1>6 DEF r

\* What the node sends are log and info messages.
LEMMA WorkType ==
    ASSUME NEW sends \in Seq({"log", "info"}), Work(sends)
    PROVE  node' = "working" /\ work' \in Seq({"log", "info"})
<1>1. TopWork \subseteq Seq({"log", "info"})
  BY DEF TopWork
<1> QED
  BY <1>1, ConcatProperties DEF Work

\* Taking the first element out of a sequence leaves the others.
LEMMA RangeTail ==
    ASSUME NEW S, NEW s \in Seq(S), s # <<>>
    PROVE  /\ Head(s) \in Range(s) /\ Tail(s) \in Seq(S)
           /\ Range(Tail(s)) \subseteq Range(s)
           /\ Range(s) \subseteq Range(Tail(s)) \cup {Head(s)}
<1> DEFINE t == Tail(s)
<1>1. /\ Len(s) \in Nat \ {0} /\ DOMAIN s = 1 .. Len(s)
      /\ t \in Seq(S) /\ Len(t) = Len(s) - 1
      /\ DOMAIN t = 1 .. Len(t)
      /\ \A i \in 1 .. Len(t) : t[i] = s[i + 1]
      /\ Head(s) = s[1]
  BY EmptySeq, LenProperties, HeadTailProperties
<1> HIDE DEF t
<1>2. ASSUME NEW i \in DOMAIN s, i # 1
      PROVE  i - 1 \in DOMAIN t /\ s[i] = t[i - 1]
  BY <1>1, <1>2
<1>3. ASSUME NEW i \in DOMAIN t
      PROVE  i + 1 \in DOMAIN s /\ t[i] = s[i + 1]
  BY <1>1, <1>3
<1>4. 1 \in DOMAIN s
  BY <1>1
<1>5. Head(s) \in Range(s)
  BY <1>1, <1>4 DEF Range
<1>6. Range(t) \subseteq Range(s)
  BY <1>3 DEF Range
<1>7. Range(s) \subseteq Range(t) \cup {Head(s)}
  BY <1>1, <1>2 DEF Range
<1> QED
  BY <1>1, <1>5, <1>6, <1>7 DEF t

\* Appending adds one element.
LEMMA RangeAppend ==
    ASSUME NEW S, NEW s \in Seq(S), NEW e \in S
    PROVE  Range(Append(s, e)) = Range(s) \cup {e}
<1> DEFINE t == Append(s, e)
<1>1. /\ Len(s) \in Nat /\ DOMAIN s = 1 .. Len(s)
      /\ t \in Seq(S) /\ Len(t) = Len(s) + 1 /\ DOMAIN t = 1 .. Len(t)
      /\ \A i \in 1 .. Len(s) : t[i] = s[i]
      /\ t[Len(s) + 1] = e
  BY LenProperties, AppendProperties
<1> HIDE DEF t
<1>2. DOMAIN t = DOMAIN s \cup {Len(s) + 1}
  BY <1>1
<1>3. Range(t) = Range(s) \cup {e}
  BY <1>1, <1>2 DEF Range
<1> QED
  BY <1>3 DEF t

-----------------------------------------------------------------------------
(* The steps *)

\* A call with an error stays explained: reasons do not go away, while calls keep
\* their kind and block.
LEMMA StaysExplained ==
    ASSUME ErrorMeansStopped, node = "dropped" => node' = "dropped", lost \subseteq lost',
           DOMAIN calls \subseteq DOMAIN calls',
           \A c \in DOMAIN calls : calls'[c].kind = calls[c].kind /\ calls'[c].block = calls[c].block,
           NEW c \in DOMAIN calls, calls'[c].reply = calls[c].reply
    PROVE  /\ calls'[c].reply = "SendError" => node' = "dropped"
           /\ calls'[c].reply = "RecvError" =>
                \/ node' = "dropped"
                \/ c \in lost'
                \/ \E d \in DOMAIN calls' : d < c /\ SameBlock(d, c)'
<1>1. \A d \in DOMAIN calls : SameBlock(d, c) => SameBlock(d, c)'
  BY DEF SameBlock
<1> QED
  BY <1>1 DEF ErrorMeansStopped

\* Steps that touch no call.
LEMMA QuietStep ==
    ASSUME ClientInv, UNCHANGED <<use, calls, queue, channel, hand, lost>>,
           node' \in {"new", "working", "select", "stopped", "dropped"},
           node' = "dropped" <=> node = "dropped",
           work' \in Seq({"log", "info"}), hand # None => node' = "working" /\ work' # <<>>,
           log' \in 0 .. ChannelSize, info' \in 0 .. ChannelSize
    PROVE  ClientInv'
<1>1. Held' = Held
  BY DEF Held
<1>2. TypeOK' /\ ReadInOrder'
  BY DEF ClientInv, TypeOK, ReadInOrder
<1>3. CallsOK' /\ WaitingHeld'
  BY <1>1 DEF ClientInv, CallsOK, WaitingHeld, Waiting
<1>4. ErrorMeansStopped'
  BY DEF ClientInv, ErrorMeansStopped, SameBlock
<1> QED
  BY <1>2, <1>3, <1>4 DEF ClientInv

\* The calls in C get a reply and are let go.
LEMMA ReplyStep ==
    ASSUME ClientInv, NEW C, NEW reply \in Reply \ {"none"}, calls' = Replied(C, reply),
           Held' \subseteq Held \cup {None}, \A c \in Held : c \in C \/ c \in Held' \/ c = None,
           queue' \cup {hand'} \subseteq queue \cup {hand, None},
           hand' # None => node' = "working" /\ work' # <<>>,
           node = "dropped" => node' = "dropped", lost \subseteq lost',
           reply # "SendError",
           reply = "RecvError" =>
             \A c \in C : \/ node' = "dropped" \/ c \in lost'
                          \/ \E d \in DOMAIN calls : d < c /\ SameBlock(d, c)
    PROVE  /\ CallsOK' /\ ErrorMeansStopped'
           /\ \A c \in DOMAIN calls' : Waiting(c)' => c \in Held' /\ calls'[c].kind \in Queries
           /\ \A c \in DOMAIN calls' : calls'[c].kind \in Kinds /\ calls'[c].block \in Blocks \cup {None}
           /\ Len(calls') <= MaxCalls
<1>1. calls \in Seq(CallType) /\ reply \in Reply
  BY DEF ClientInv, CallsOK
<1>2. /\ calls' \in Seq(CallType) /\ DOMAIN calls' = DOMAIN calls /\ Len(calls') = Len(calls)
      /\ \A c \in DOMAIN calls :
           /\ calls'[c].kind = calls[c].kind /\ calls'[c].block = calls[c].block
           /\ calls'[c].reply = IF c \in C /\ Waiting(c) THEN reply ELSE calls[c].reply
  BY <1>1, RepliedCalls
<1>3. None \notin DOMAIN calls
  BY <1>1, LenProperties DEF None
<1>4. ASSUME NEW c \in DOMAIN calls', Waiting(c)'
      PROVE  c \in Held' /\ calls'[c].kind \in Queries
  <2>1. Waiting(c) /\ c \notin C
    BY <1>2, <1>4 DEF Waiting
  <2> QED
    BY <1>2, <1>3, <2>1 DEF ClientInv, WaitingHeld
<1>5. CallsOK'
  <2>1. Held' \subseteq DOMAIN calls' \cup {None}
    BY <1>2 DEF ClientInv, CallsOK
  <2>2. ASSUME NEW c \in queue' \cup {hand'}, c # None
        PROVE  calls'[c].kind = "get_block"
    <3>1. c \in DOMAIN calls /\ c \in queue \cup {hand}
      BY <2>2 DEF ClientInv, CallsOK, Held
    <3> QED
      BY <1>2, <2>2, <3>1 DEF ClientInv, CallsOK
  <2> QED
    BY <1>2, <2>1, <2>2 DEF CallsOK
<1>6. ErrorMeansStopped'
  <2> SUFFICES ASSUME NEW c \in DOMAIN calls'
               PROVE  /\ calls'[c].reply = "SendError" => node' = "dropped"
                      /\ calls'[c].reply = "RecvError" =>
                           \/ node' = "dropped" \/ c \in lost'
                           \/ \E d \in DOMAIN calls' : d < c /\ SameBlock(d, c)'
    BY DEF ErrorMeansStopped
  <2>1. CASE calls'[c].reply = calls[c].reply
    BY <1>2, <2>1, StaysExplained DEF ClientInv
  <2>2. CASE calls'[c].reply # calls[c].reply
    <3>1. c \in C /\ calls'[c].reply = reply
      BY <1>2, <2>2
    <3>2. \A d \in DOMAIN calls : SameBlock(d, c) => SameBlock(d, c)'
      BY <1>2 DEF SameBlock
    <3> QED
      BY <1>2, <3>1, <3>2
  <2> QED
    BY <2>1, <2>2
<1>7. \A c \in DOMAIN calls' : calls'[c].kind \in Kinds /\ calls'[c].block \in Blocks \cup {None}
  BY <1>2 DEF ClientInv, TypeOK
<1> QED
  BY <1>2, <1>4, <1>5, <1>6, <1>7 DEF ClientInv, TypeOK

\* A call of the application is appended, and to the channel if there is a node.
LEMMA MakeCallStep ==
    ASSUME ClientInv, MakeCall
    PROVE  ClientInv'
<1>1. PICK kind \in Kinds, block \in Blocks \cup {None} : Send(kind, block)
  <2>1. "get_block" \in Kinds
    BY DEF Kinds, Queries
  <2> QED
    BY <2>1 DEF MakeCall
<1>2. /\ calls \in Seq(CallType) /\ channel \in Seq(Call) /\ Len(calls) < MaxCalls
      /\ Len(calls) \in Nat /\ DOMAIN calls = 1 .. Len(calls)
      /\ UNCHANGED <<use, node, work, hand, queue, log, info, lost>>
  BY LenProperties DEF ClientInv, CallsOK, TypeOK, MakeCall
<1> DEFINE n == Len(calls) + 1
<1>3. n \in Call /\ MaxCalls \in Nat /\ \A c \in Held : c < n /\ c # n
  <2>1. \A c \in Held : c \in DOMAIN calls \cup {None}
    BY DEF ClientInv, CallsOK
  <2> QED
    BY <1>2, <2>1, ClientAssumption DEF Call, None
<1>4. ASSUME NEW reply \in Reply, calls' = Append(calls, [kind |-> kind, block |-> block, reply |-> reply])
      PROVE  /\ calls' \in Seq(CallType) /\ Len(calls') = n /\ DOMAIN calls' = DOMAIN calls \cup {n}
             /\ \A c \in DOMAIN calls : calls'[c] = calls[c]
             /\ calls'[n].kind = kind /\ calls'[n].block = block /\ calls'[n].reply = reply
             /\ n \notin DOMAIN calls
  <2> DEFINE e == [kind |-> kind, block |-> block, reply |-> reply]
  <2>1. e \in CallType /\ e.kind = kind /\ e.block = block /\ e.reply = reply
    BY DEF CallType
  <2> HIDE DEF e
  <2>2. /\ calls' \in Seq(CallType) /\ Len(calls') = n
        /\ \A c \in 1 .. Len(calls) : calls'[c] = calls[c]
        /\ calls'[n] = e
    BY <1>2, <1>4, <2>1, AppendProperties DEF e
  <2>3. DOMAIN calls' = 1 .. n
    BY <2>2, LenProperties
  <2> QED
    BY <1>2, <2>1, <2>2, <2>3
<1> HIDE DEF n
<1>5. ASSUME NEW reply \in Reply,
             calls' = Append(calls, [kind |-> kind, block |-> block, reply |-> reply]),
             reply # "RecvError", reply = "SendError" => node = "dropped",
             reply = "none" => kind \in Queries /\ n \in Held',
             channel' \in Seq(Call), Held \subseteq Held', Held' \subseteq Held \cup {n},
             node = "dropped" => Held' = Held
      PROVE  TypeOK' /\ CallsOK' /\ ErrorMeansStopped' /\ WaitingHeld'
  <2>1. /\ calls' \in Seq(CallType) /\ Len(calls') = n /\ DOMAIN calls' = DOMAIN calls \cup {n}
        /\ \A c \in DOMAIN calls : calls'[c] = calls[c]
        /\ calls'[n].kind = kind /\ calls'[n].block = block /\ calls'[n].reply = reply
        /\ n \notin DOMAIN calls
    BY <1>4, <1>5
  <2>2. TypeOK'
    BY <1>2, <1>3, <1>5, <2>1 DEF ClientInv, TypeOK, n
  <2>3. CallsOK'
    <3>1. \A c \in queue \cup {hand} : c # None => c \in DOMAIN calls
      BY DEF ClientInv, CallsOK, Held
    <3>2. \A c \in queue' \cup {hand'} : c # None => calls'[c].kind = "get_block"
      BY <1>2, <2>1, <3>1 DEF ClientInv, CallsOK
    <3> QED
      BY <1>2, <1>5, <2>1, <3>2 DEF ClientInv, CallsOK
  <2>4. ErrorMeansStopped'
    <3> SUFFICES ASSUME NEW c \in DOMAIN calls'
                 PROVE  /\ calls'[c].reply = "SendError" => node' = "dropped"
                        /\ calls'[c].reply = "RecvError" =>
                             \/ node' = "dropped" \/ c \in lost'
                             \/ \E d \in DOMAIN calls' : d < c /\ SameBlock(d, c)'
      BY DEF ErrorMeansStopped
    <3>1. CASE c = n
      BY <1>2, <1>5, <2>1, <3>1
    <3>2. CASE c \in DOMAIN calls
      BY <1>2, <2>1, <3>2, StaysExplained DEF ClientInv
    <3> QED
      BY <2>1, <3>1, <3>2
  <2>5. WaitingHeld'
    <3>1. ASSUME NEW c \in DOMAIN calls', Waiting(c)'
          PROVE  c \in Held' /\ calls'[c].kind \in Queries
      <4>1. CASE c = n
        BY <1>5, <2>1, <3>1, <4>1 DEF Waiting
      <4>2. CASE c \in DOMAIN calls
        BY <1>5, <2>1, <3>1, <4>2 DEF Waiting, ClientInv, WaitingHeld
      <4> QED
        BY <2>1, <4>1, <4>2
    <3> QED
      BY <1>2, <1>5, <3>1 DEF ClientInv, WaitingHeld
  <2> QED
    BY <2>2, <2>3, <2>4, <2>5
<1>6. CASE node # "dropped"
  <2> DEFINE reply == IF kind \in Queries THEN "none" ELSE "ok"
  <2>1. /\ calls' = Append(calls, [kind |-> kind, block |-> block, reply |-> reply])
        /\ channel' = Append(channel, n) /\ reply \in Reply
    BY <1>1, <1>6 DEF Send, n, Reply
  <2>2. reply \notin {"SendError", "RecvError"} /\ (reply = "none" => kind \in Queries)
    OBVIOUS
  <2> HIDE DEF reply
  <2>3. channel' \in Seq(Call) /\ Held' = Held \cup {n}
    BY <1>2, <1>3, <2>1, RangeAppend, AppendProperties DEF Held
  <2>4. ReadInOrder'
    <3> DEFINE L == Len(channel)
    <3>1. /\ L \in Nat /\ DOMAIN channel = 1 .. L /\ DOMAIN channel' = 1 .. (L + 1)
          /\ channel'[L + 1] = n /\ \A i \in 1 .. L : channel'[i] = channel[i]
      BY <1>2, <1>3, <2>1, LenProperties, AppendProperties
    <3>2. \A i \in 1 .. L : channel[i] \in Held
      BY <3>1 DEF Held, Range
    <3> HIDE DEF L
    <3>3. ASSUME NEW i \in DOMAIN channel', NEW j \in DOMAIN channel', i < j
          PROVE  channel'[i] < channel'[j]
      <4>1. i \in 1 .. L
        BY <3>1, <3>3
      <4>2. CASE j = L + 1
        BY <1>3, <3>1, <3>2, <4>1, <4>2
      <4>3. CASE j # L + 1
        <5>1. j \in 1 .. L
          BY <3>1, <4>3
        <5> QED
          BY <3>1, <3>3, <4>1, <5>1 DEF ClientInv, ReadInOrder
      <4> QED
        BY <4>2, <4>3
    <3>4. ASSUME NEW c \in queue \cup {hand}, NEW i \in DOMAIN channel'
          PROVE  c < channel'[i]
      <4>1. CASE i = L + 1
        BY <1>3, <3>1, <4>1 DEF Held
      <4>2. CASE i # L + 1
        <5>1. i \in DOMAIN channel
          BY <3>1, <4>2
        <5> QED
          BY <3>1, <5>1 DEF ClientInv, ReadInOrder
      <4> QED
        BY <4>1, <4>2
    <3> QED
      BY <1>2, <3>3, <3>4 DEF ClientInv, ReadInOrder
  <2> QED
    BY <1>5, <1>6, <2>1, <2>2, <2>3, <2>4 DEF ClientInv
<1>7. CASE node = "dropped"
  <2>1. /\ calls' = Append(calls, [kind |-> kind, block |-> block, reply |-> "SendError"])
        /\ channel' = channel /\ "SendError" \in Reply
    BY <1>1, <1>7 DEF Send, Reply
  <2>2. Held' = Held /\ ReadInOrder'
    BY <1>2, <2>1 DEF Held, ClientInv, ReadInOrder
  <2> QED
    BY <1>2, <1>5, <1>7, <2>1, <2>2 DEF ClientInv
<1> QED
  BY <1>6, <1>7

\* A call that is given up no longer waits; the node may still hold it.
LEMMA GiveUpStep ==
    ASSUME ClientInv, GiveUp
    PROVE  ClientInv'
<1>1. PICK c \in DOMAIN calls : calls' = Replied({c}, "given up")
  BY DEF GiveUp
<1>2. UNCHANGED <<use, node, work, hand, queue, channel, log, info, lost>>
  BY DEF GiveUp
<1>3. Held' = Held
  BY <1>2 DEF Held
<1>4. "given up" \in Reply \ {"none"} /\ (hand' # None => node' = "working" /\ work' # <<>>)
  BY <1>2 DEF Reply, ClientInv, CallsOK
<1>5. /\ CallsOK' /\ ErrorMeansStopped'
      /\ \A d \in DOMAIN calls' : Waiting(d)' => d \in Held' /\ calls'[d].kind \in Queries
      /\ \A d \in DOMAIN calls' : calls'[d].kind \in Kinds /\ calls'[d].block \in Blocks \cup {None}
      /\ Len(calls') <= MaxCalls
  BY <1>1, <1>2, <1>3, <1>4, ReplyStep
<1>6. TypeOK' /\ ReadInOrder'
  BY <1>2, <1>5 DEF ClientInv, TypeOK, ReadInOrder
<1>7. WaitingHeld'
  BY <1>2, <1>3, <1>5 DEF ClientInv, WaitingHeld
<1> QED
  BY <1>5, <1>6, <1>7 DEF ClientInv

\* With the node go all calls that wait.
LEMMA DropNodeStep ==
    ASSUME ClientInv, DropNode
    PROVE  ClientInv'
<1>1. /\ calls' = Replied(Held, "RecvError") /\ node' = "dropped"
      /\ channel' = <<>> /\ queue' = {} /\ hand' = None
      /\ UNCHANGED <<use, work, log, info, lost>>
  BY DEF DropNode, Held, Range
<1>2. Held' = {None} /\ DOMAIN channel' = {}
  BY <1>1 DEF Held, Range
<1>3. "RecvError" \in Reply \ {"none"} /\ "RecvError" # "SendError"
  BY DEF Reply
<1>4. /\ CallsOK' /\ ErrorMeansStopped'
      /\ \A d \in DOMAIN calls' : Waiting(d)' => d \in Held' /\ calls'[d].kind \in Queries
      /\ \A d \in DOMAIN calls' : calls'[d].kind \in Kinds /\ calls'[d].block \in Blocks \cup {None}
      /\ Len(calls') <= MaxCalls
  BY <1>1, <1>2, <1>3, ReplyStep
<1>5. TypeOK'
  <2>1. channel' \in Seq(Call) /\ queue' \subseteq Call /\ hand' \in Call \cup {None}
    BY <1>1
  <2> QED
    BY <1>1, <1>4, <2>1 DEF ClientInv, TypeOK
<1>6. ReadInOrder' /\ WaitingHeld'
  BY <1>1, <1>2, <1>4 DEF ReadInOrder, WaitingHeld
<1> QED
  BY <1>4, <1>5, <1>6 DEF ClientInv

\* BlockQueue::add: the call in hand is queued, or let go with an error because an
\* earlier call asked for its block.
LEMMA AddBlockStep ==
    ASSUME ClientInv, AddBlock, UNCHANGED <<use, node, channel, lost>>, node = "working",
           work' \in Seq({"log", "info"}), log' \in 0 .. ChannelSize, info' \in 0 .. ChannelSize
    PROVE  ClientInv'
<1>1. calls \in Seq(CallType) /\ None \notin DOMAIN calls /\ hand' = None
  BY LenProperties DEF ClientInv, CallsOK, None, AddBlock
<1>2. \A i \in DOMAIN channel : None < channel[i]
  <2>1. \A i \in DOMAIN channel : channel[i] \in Call
    BY ElementOfSeq, LenProperties DEF ClientInv, TypeOK
  <2> QED
    BY <2>1, ClientAssumption DEF Call, None
<1>3. CASE \E d \in queue : hand # None /\ SameBlock(d, hand)
  <2>1. PICK d \in queue : hand # None /\ SameBlock(d, hand)
    BY <1>3
  <2>2. calls' = Replied({hand}, "RecvError") /\ queue' = queue
    BY <1>3 DEF AddBlock
  <2>3. d \in DOMAIN calls /\ d < hand
    <3>1. d # None
      BY ClientAssumption DEF ClientInv, TypeOK, Call, None
    <3> QED
      BY <2>1, <3>1 DEF ClientInv, CallsOK, ReadInOrder, Held
  <2>4. /\ Held' \subseteq Held \cup {None} /\ (\A c \in Held : c \in {hand} \/ c \in Held' \/ c = None)
        /\ queue' \cup {hand'} \subseteq queue \cup {hand, None}
    BY <1>1, <2>2 DEF Held
  <2>5. "RecvError" \in Reply \ {"none"} /\ "RecvError" # "SendError"
    BY DEF Reply
  <2>6. \A c \in {hand} : \/ node' = "dropped" \/ c \in lost'
                          \/ \E e \in DOMAIN calls : e < c /\ SameBlock(e, c)
    BY <2>1, <2>3
  <2>7. /\ CallsOK' /\ ErrorMeansStopped'
        /\ \A c \in DOMAIN calls' : Waiting(c)' => c \in Held' /\ calls'[c].kind \in Queries
        /\ \A c \in DOMAIN calls' : calls'[c].kind \in Kinds /\ calls'[c].block \in Blocks \cup {None}
        /\ Len(calls') <= MaxCalls
    BY <1>1, <2>2, <2>4, <2>5, <2>6, ReplyStep
  <2>8. TypeOK'
    BY <1>1, <2>2, <2>7 DEF ClientInv, TypeOK
  <2>9. ReadInOrder' /\ WaitingHeld'
    BY <1>1, <1>2, <2>2, <2>7 DEF ClientInv, ReadInOrder, WaitingHeld
  <2> QED
    BY <2>7, <2>8, <2>9 DEF ClientInv
<1>4. CASE ~\E d \in queue : hand # None /\ SameBlock(d, hand)
  <2>1. calls' = calls /\ queue' = queue \cup ({hand} \ {None})
    BY <1>4 DEF AddBlock
  <2>2. Held' = Held \cup {None}
    BY <1>1, <2>1 DEF Held
  <2>3. TypeOK'
    BY <1>1, <2>1 DEF ClientInv, TypeOK
  <2>4. CallsOK'
    BY <1>1, <2>1, <2>2 DEF ClientInv, CallsOK
  <2>5. ReadInOrder'
    BY <1>1, <1>2, <2>1 DEF ClientInv, ReadInOrder
  <2>6. ErrorMeansStopped'
    BY <2>1 DEF ClientInv, ErrorMeansStopped, SameBlock
  <2>7. WaitingHeld'
    BY <1>1, <2>1, <2>2 DEF ClientInv, WaitingHeld, Waiting
  <2> QED
    BY <2>3, <2>4, <2>5, <2>6, <2>7 DEF ClientInv
<1> QED
  BY <1>3, <1>4

\* Reading the channels of Dialog and sending to them.
LEMMA DialogStep ==
    ASSUME ClientInv, ReadLog \/ ReadInfo \/ SendDialog
    PROVE  ClientInv'
<1> USE ClientAssumption
<1>1. CASE ReadLog \/ ReadInfo
  <2>1. UNCHANGED <<use, calls, queue, channel, lost, node, work, hand>>
    BY <1>1 DEF ReadLog, ReadInfo, application
  <2>2. log' \in 0 .. ChannelSize /\ info' \in 0 .. ChannelSize
    BY <1>1 DEF ReadLog, ReadInfo, ClientInv, TypeOK
  <2>3. /\ node' \in {"new", "working", "select", "stopped", "dropped"}
        /\ work' \in Seq({"log", "info"}) /\ (hand # None => node' = "working" /\ work' # <<>>)
    BY <2>1 DEF ClientInv, TypeOK, CallsOK
  <2> QED
    BY <2>1, <2>2, <2>3, QuietStep
<1>2. CASE SendDialog
  <2>1. /\ UNCHANGED <<use, node, channel, lost>> /\ AddBlock
        /\ node = "working" /\ work # <<>> /\ work' = Tail(work)
    BY <1>2 DEF SendDialog
  <2>2. work' \in Seq({"log", "info"})
    BY <2>1, HeadTailProperties DEF ClientInv, TypeOK
  <2>3. log' \in 0 .. ChannelSize /\ info' \in 0 .. ChannelSize
    <3>1. Head(work) \in {"log", "info"}
      BY <2>1, HeadTailProperties DEF ClientInv, TypeOK
    <3>2. log \in 0 .. ChannelSize /\ info \in 0 .. ChannelSize
      BY DEF ClientInv, TypeOK
    <3>3. \/ UNCHANGED <<log, info>>
          \/ log < ChannelSize /\ log' = log + 1 /\ info' = info
          \/ info < ChannelSize /\ info' = info + 1 /\ log' = log
      <4>1. CASE Sends(Head(work)) /\ Head(work) = "log"
        BY <1>2, <4>1 DEF SendDialog
      <4>2. CASE Sends(Head(work)) /\ Head(work) = "info"
        BY <1>2, <4>2 DEF SendDialog
      <4>3. CASE ~Sends(Head(work))
        BY <1>2, <4>3 DEF SendDialog
      <4> QED
        BY <3>1, <4>1, <4>2, <4>3
    <3> QED
      BY <3>2, <3>3
  <2> QED
    BY <2>1, <2>2, <2>3, AddBlockStep
<1> QED
  BY <1>1, <1>2

\* The top of the loop, and a message of a peer that touches no call.
LEMMA LoopStep ==
    ASSUME ClientInv, Start \/ WorkDone \/ PeerMessage
    PROVE  ClientInv'
<1>1. node # "dropped" /\ hand = None /\ UNCHANGED <<use, calls, queue, channel, hand, log, info, lost>>
  BY DEF Start, WorkDone, PeerMessage, application, ClientInv, CallsOK
<1>2. node' \in {"working", "select", "stopped"} /\ work' \in Seq({"log", "info"})
  <2>1. CASE Start
    <3>1. Work(<<"log", "log", "log">>) /\ <<"log", "log", "log">> \in Seq({"log", "info"})
      BY <2>1 DEF Start, Work
    <3> QED
      BY <3>1, WorkType
  <2>2. CASE PeerMessage
    <3>1. PICK sends \in PeerWork : Work(sends)
      BY <2>2 DEF PeerMessage
    <3>2. PeerWork \subseteq Seq({"log", "info"})
      BY DEF PeerWork
    <3> QED
      BY <3>1, <3>2, WorkType
  <2>3. CASE WorkDone
    BY <2>3 DEF WorkDone, ClientInv, TypeOK
  <2> QED
    BY <2>1, <2>2, <2>3
<1>3. log' \in 0 .. ChannelSize /\ info' \in 0 .. ChannelSize
  BY <1>1 DEF ClientInv, TypeOK
<1> QED
  BY <1>1, <1>2, <1>3, QuietStep

\* A block arrives or leaves the chain: its request is let go.
LEMMA BlockStep ==
    ASSUME ClientInv, Block \/ BlockDisconnected
    PROVE  ClientInv'
<1>1. PICK c \in queue :
        /\ queue' = queue \ {c}
        /\ \/ calls' = Replied({c}, "ok") /\ lost' = lost
           \/ calls' = Replied({c}, "RecvError") /\ lost' = lost \cup {c}
  BY DEF Block, BlockDisconnected
<1>2. UNCHANGED <<use, hand, channel, log, info>> /\ node = "select" /\ hand = None
  BY DEF Block, BlockDisconnected, ClientInv, CallsOK
<1>3. node' = "working" /\ work' \in Seq({"log", "info"})
  <2>1. <<>> \in Seq({"log", "info"}) /\ <<"log">> \in Seq({"log", "info"})
    OBVIOUS
  <2> QED
    BY <2>1, WorkType DEF Block, BlockDisconnected
<1>4. Held' \subseteq Held /\ \A d \in Held : d \in {c} \/ d \in Held'
  BY <1>1, <1>2 DEF Held
<1>5. ASSUME NEW reply \in {"ok", "RecvError"}, calls' = Replied({c}, reply),
             reply = "RecvError" => c \in lost', lost \subseteq lost'
      PROVE  ClientInv'
  <2>1. reply \in Reply \ {"none"} /\ reply # "SendError"
    BY DEF Reply
  <2>2. /\ CallsOK' /\ ErrorMeansStopped'
        /\ \A d \in DOMAIN calls' : Waiting(d)' => d \in Held' /\ calls'[d].kind \in Queries
        /\ \A d \in DOMAIN calls' : calls'[d].kind \in Kinds /\ calls'[d].block \in Blocks \cup {None}
        /\ Len(calls') <= MaxCalls
    BY <1>1, <1>2, <1>3, <1>4, <1>5, <2>1, ReplyStep
  <2>3. TypeOK'
    BY <1>1, <1>2, <1>3, <2>2 DEF ClientInv, TypeOK
  <2>4. ReadInOrder' /\ WaitingHeld'
    BY <1>1, <1>2, <1>3, <2>2 DEF ClientInv, ReadInOrder, WaitingHeld
  <2> QED
    BY <2>2, <2>3, <2>4 DEF ClientInv
<1> QED
  BY <1>1, <1>5

\* The node reads a call: it is answered, or kept as a request for a block.
LEMMA ClientMessageStep ==
    ASSUME ClientInv, ClientMessage
    PROVE  ClientInv'
<1> DEFINE c == Head(channel)
<1>1. /\ node = "select" /\ channel # <<>> /\ Obey(c) /\ channel' = Tail(channel)
      /\ UNCHANGED <<use, queue, log, info, lost>>
  BY DEF ClientMessage
<1>2. /\ channel \in Seq(Call) /\ hand = None
      /\ c \in Range(channel) /\ channel' \in Seq(Call)
      /\ Range(channel') \subseteq Range(channel)
      /\ Range(channel) \subseteq Range(channel') \cup {c}
  BY <1>1, RangeTail DEF ClientInv, TypeOK, CallsOK
<1>3. /\ c \in Call /\ c \in DOMAIN calls /\ c # None /\ calls[c].kind \in Kinds
      /\ Waiting(c) => calls[c].kind \in Queries
  <2>1. c \in Call
    BY <1>1, <1>2, HeadTailProperties
  <2> HIDE DEF c
  <2>2. c # None
    BY <2>1, ClientAssumption DEF Call, None
  <2>3. c \in DOMAIN calls
    BY <1>2, <2>2 DEF ClientInv, CallsOK, Held
  <2> QED
    BY <2>1, <2>2, <2>3 DEF ClientInv, TypeOK, WaitingHeld
<1>4. ASSUME hand' \in {None, c}
      PROVE  ReadInOrder'
  <2> DEFINE L == Len(channel)
  <2>1. /\ L \in Nat \ {0} /\ DOMAIN channel = 1 .. L /\ DOMAIN channel' = 1 .. (L - 1)
        /\ c = channel[1] /\ \A i \in 1 .. (L - 1) : channel'[i] = channel[i + 1]
    BY <1>1, <1>2, EmptySeq, LenProperties, HeadTailProperties
  <2> HIDE DEF L, c
  <2>2. \A i \in DOMAIN channel' : i \in Nat /\ i + 1 \in DOMAIN channel /\ 1 < i + 1 /\ channel'[i] = channel[i + 1]
    BY <2>1
  <2>3. 1 \in DOMAIN channel
    BY <2>1
  <2>4. ASSUME NEW i \in DOMAIN channel', NEW j \in DOMAIN channel', i < j
        PROVE  channel'[i] < channel'[j]
    <3>1. i + 1 < j + 1
      BY <2>2, <2>4
    <3> QED
      BY <2>2, <3>1 DEF ClientInv, ReadInOrder
  <2>5. \A i \in DOMAIN channel' : c < channel'[i] /\ None < channel'[i] /\ \A d \in queue : d < channel'[i]
    BY <1>2, <2>1, <2>2, <2>3 DEF ClientInv, ReadInOrder
  <2>6. \A d \in queue : d < c
    BY <2>1, <2>3 DEF ClientInv, ReadInOrder
  <2> QED
    BY <1>1, <1>4, <2>4, <2>5, <2>6 DEF ReadInOrder
<1> HIDE DEF c
<1>5. ASSUME NEW reply \in Reply \ {"none", "SendError", "RecvError"},
             calls' = Replied({c}, reply), hand' = hand,
             node' = "working", work' \in Seq({"log", "info"})
      PROVE  ClientInv'
  <2>1. Held' \subseteq Held /\ \A d \in Held : d \in {c} \/ d \in Held'
    BY <1>1, <1>2, <1>5 DEF Held
  <2>2. /\ CallsOK' /\ ErrorMeansStopped'
        /\ \A d \in DOMAIN calls' : Waiting(d)' => d \in Held' /\ calls'[d].kind \in Queries
        /\ \A d \in DOMAIN calls' : calls'[d].kind \in Kinds /\ calls'[d].block \in Blocks \cup {None}
        /\ Len(calls') <= MaxCalls
    BY <1>1, <1>2, <1>5, <2>1, ReplyStep
  <2>3. TypeOK'
    BY <1>1, <1>2, <1>5, <2>2 DEF ClientInv, TypeOK
  <2>4. WaitingHeld'
    BY <1>5, <2>2 DEF WaitingHeld
  <2>5. ReadInOrder'
    BY <1>2, <1>4, <1>5
  <2> QED
    BY <2>2, <2>3, <2>4, <2>5 DEF ClientInv
<1>6. ASSUME calls' = calls, hand' \in {None, c}, hand' # c => ~Waiting(c),
             hand' = c => calls[c].kind = "get_block" /\ node' = "working" /\ work' # <<>>,
             node' \in {"working", "stopped"}, work' \in Seq({"log", "info"})
      PROVE  ClientInv'
  <2>1. Held' \subseteq Held /\ \A d \in Held : d = c \/ d \in Held' \/ d = None
    BY <1>1, <1>2, <1>6 DEF Held
  <2>2. hand' = c => c \in Held'
    BY DEF Held
  <2>3. TypeOK'
    BY <1>1, <1>2, <1>3, <1>6 DEF ClientInv, TypeOK
  <2>4. CallsOK'
    BY <1>1, <1>2, <1>3, <1>6, <2>1 DEF ClientInv, CallsOK
  <2>5. None \notin DOMAIN calls
    BY LenProperties DEF ClientInv, CallsOK, None
  <2>6. WaitingHeld'
    BY <1>1, <1>6, <2>1, <2>2, <2>5 DEF ClientInv, WaitingHeld, Waiting
  <2>7. ErrorMeansStopped'
    BY <1>1, <1>6 DEF ClientInv, ErrorMeansStopped, SameBlock
  <2>8. ReadInOrder'
    BY <1>4, <1>6
  <2> QED
    BY <2>3, <2>4, <2>6, <2>7, <2>8 DEF ClientInv
<1>7. \A sends \in {<<>>, <<"log">>, <<"info">>} :
        Work(sends) => node' = "working" /\ work' \in Seq({"log", "info"})
  <2>1. {<<>>, <<"log">>, <<"info">>} \subseteq Seq({"log", "info"})
    OBVIOUS
  <2> QED
    BY <2>1, WorkType
<1>8. CASE calls[c].kind \in {"shutdown", "other", "rescan"}
  <2>1. ~Waiting(c)
    BY <1>3, <1>8 DEF Queries
  <2>2. calls' = calls /\ hand' = hand
    BY <1>1, <1>8 DEF Obey
  <2>3. node' \in {"working", "stopped"} /\ work' \in Seq({"log", "info"})
    BY <1>1, <1>7, <1>8 DEF Obey, ClientInv, TypeOK
  <2> QED
    BY <1>2, <1>3, <1>6, <2>1, <2>2, <2>3
<1>9. CASE calls[c].kind = "get_block"
  <2>1. \/ Work(<<>>) /\ calls' = Replied({c}, "UnknownHash") /\ hand' = hand
        \/ Work(<<"log">>) /\ hand' = c /\ calls' = calls
    BY <1>1, <1>9 DEF Obey
  <2>2. "UnknownHash" \in Reply \ {"none", "SendError", "RecvError"}
    BY DEF Reply
  <2>3. Work(<<"log">>) => work' # <<>>
    <3>1. \A top \in TopWork : <<"log">> \o top # <<>>
      BY DEF TopWork
    <3> QED
      BY <3>1 DEF Work
  <2> QED
    BY <1>5, <1>6, <1>7, <1>9, <2>1, <2>2, <2>3
<1>10. CASE calls[c].kind \in Queries \ {"get_block"}
  <2>1. PICK reply \in Replies(calls[c].kind) : calls' = Replied({c}, reply)
    BY <1>1, <1>10 DEF Obey, Queries
  <2>2. Work(<<>>) /\ hand' = hand
    BY <1>1, <1>10 DEF Obey, Queries
  <2>3. reply \in Reply \ {"none", "SendError", "RecvError"}
    BY <1>10, <2>1 DEF Replies, Reply, Queries
  <2> QED
    BY <1>5, <1>7, <2>1, <2>2, <2>3
<1> QED
  BY <1>3, <1>8, <1>9, <1>10 DEF Kinds

-----------------------------------------------------------------------------
(* The theorems *)

\* The invariant holds of all calls at all times.
LEMMA ClientInvAlways == Spec => []ClientInv
<1>1. Init => ClientInv
  <2> SUFFICES ASSUME Init PROVE ClientInv
    OBVIOUS
  <2>1. calls \in Seq(CallType) /\ channel \in Seq(Call) /\ work \in Seq({"log", "info"})
        /\ Len(calls) = 0 /\ DOMAIN calls = {} /\ DOMAIN channel = {}
    BY DEF Init
  <2>2. Held = {None}
    BY DEF Init, Held, Range
  <2> QED
    BY <2>1, <2>2, ClientAssumption
       DEF Init, ClientInv, TypeOK, CallsOK, ReadInOrder, ErrorMeansStopped, WaitingHeld
<1>2. ClientInv /\ [Next]_vars => ClientInv'
  <2> SUFFICES ASSUME ClientInv, [Next]_vars PROVE ClientInv'
    OBVIOUS
  <2>1. CASE UNCHANGED vars
    BY <2>1 DEF vars, ClientInv, TypeOK, CallsOK, ReadInOrder, ErrorMeansStopped, SameBlock,
                WaitingHeld, Waiting, Held
  <2> QED
    BY <2>1, MakeCallStep, GiveUpStep, DropNodeStep, DialogStep, LoopStep, BlockStep,
       ClientMessageStep DEF Next
<1> QED
  BY <1>1, <1>2, PTL DEF Spec

\* The state has its type and the channels of Dialog keep their capacity.
THEOREM TypeCorrect == Spec => []TypeOK
BY ClientInvAlways, PTL DEF ClientInv

\* A call of a Requester fails to get through only when the node is gone, when it
\* asked for a block that left the active chain, or when an earlier call asked for
\* the same block.
THEOREM ErrorsExplained == Spec => []ErrorMeansStopped
BY ClientInvAlways, PTL DEF ClientInv

\* No call of a Requester is lost while it waits: it is in the channel, in the
\* hand of the node or in its queue of blocks, or the node is gone and it has come
\* back with an error.  The liveness of CallsReturn rests on this.
THEOREM CallsHeld == Spec => []WaitingHeld
BY ClientInvAlways, PTL DEF ClientInv
=============================================================================
