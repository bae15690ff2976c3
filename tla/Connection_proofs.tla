-------------------------- MODULE Connection_proofs --------------------------
(***************************************************************************)
(* What Connection promises of one connection, proved for every remote,    *)
(* every timeout, every capacity of the channels and every limit.          *)
(***************************************************************************)
EXTENDS Connection, SequenceTheorems, TLAPS

-----------------------------------------------------------------------------
(* Sums over the contents of a channel *)

\* The values that v gives to the messages of s add up to n.  The witness has the
\* sums of what is left of s, so that nothing has to be defined by recursion.
Adds(s, v, n) ==
    \E g \in [0 .. Len(s) -> Nat] :
        /\ g[0] = n /\ g[Len(s)] = 0
        /\ \A i \in 1 .. Len(s) : g[i - 1] = g[i] + v[s[i]]

\* The empty channel adds up to nothing.
LEMMA AddsEmpty ==
    ASSUME NEW v
    PROVE  Adds(<<>>, v, 0)
<1> DEFINE g == [i \in 0 .. 0 |-> 0]
<1>1. Len(<<>>) = 0 /\ g \in [0 .. 0 -> Nat] /\ g[0] = 0
  OBVIOUS
<1> HIDE DEF g
<1> QED
  BY <1>1 DEF Adds

\* A message that is appended adds its value.
LEMMA AddsAppend ==
    ASSUME NEW S, NEW s \in Seq(S), NEW v \in [S -> Nat], NEW e \in S, NEW n, Adds(s, v, n)
    PROVE  Adds(Append(s, e), v, n + v[e])
<1> DEFINE t == Append(s, e)
<1>1. PICK g \in [0 .. Len(s) -> Nat] :
        /\ g[0] = n /\ g[Len(s)] = 0
        /\ \A i \in 1 .. Len(s) : g[i - 1] = g[i] + v[s[i]]
  BY DEF Adds
<1>2. /\ Len(s) \in Nat /\ Len(t) = Len(s) + 1 /\ t[Len(s) + 1] = e
      /\ \A i \in 1 .. Len(s) : t[i] = s[i] /\ s[i] \in S
  BY LenProperties, AppendProperties
<1>3. v[e] \in Nat
  OBVIOUS
<1> HIDE DEF t
<1> DEFINE f == [i \in 0 .. Len(t) |-> IF i = Len(t) THEN 0 ELSE g[i] + v[e]]
<1>4. f \in [0 .. Len(t) -> Nat] /\ f[0] = n + v[e] /\ f[Len(t)] = 0
  BY <1>1, <1>2, <1>3
<1>5. ASSUME NEW i \in 1 .. Len(t)
      PROVE  f[i - 1] = f[i] + v[t[i]]
  <2>1. CASE i = Len(t)
    <3>1. f[i - 1] = g[Len(s)] + v[e] /\ f[i] = 0 /\ t[i] = e
      BY <1>2, <2>1
    <3> QED
      BY <1>1, <1>3, <3>1
  <2>2. CASE i # Len(t)
    <3>1. i \in 1 .. Len(s)
      BY <1>2, <2>2
    <3>2. f[i - 1] = g[i - 1] + v[e] /\ f[i] = g[i] + v[e] /\ t[i] = s[i]
      BY <1>2, <3>1
    <3>3. v[s[i]] \in Nat /\ g[i] \in Nat /\ g[i - 1] = g[i] + v[s[i]]
      BY <1>1, <1>2, <3>1
    <3> QED
      BY <1>3, <3>2, <3>3
  <2> QED
    BY <2>1, <2>2
<1> HIDE DEF f
<1> QED
  BY <1>4, <1>5 DEF Adds, t

\* A message that is taken out takes its value with it.
LEMMA AddsTail ==
    ASSUME NEW S, NEW s \in Seq(S), s # <<>>, NEW v \in [S -> Nat], NEW n, Adds(s, v, n)
    PROVE  \E m \in Nat : n = m + v[Head(s)] /\ Adds(Tail(s), v, m)
<1> DEFINE t == Tail(s)
<1>1. PICK g \in [0 .. Len(s) -> Nat] :
        /\ g[0] = n /\ g[Len(s)] = 0
        /\ \A i \in 1 .. Len(s) : g[i - 1] = g[i] + v[s[i]]
  BY DEF Adds
<1>2. /\ Len(s) \in Nat \ {0} /\ Len(t) = Len(s) - 1 /\ Head(s) = s[1]
      /\ \A i \in 1 .. Len(t) : t[i] = s[i + 1]
  BY EmptySeq, LenProperties, HeadTailProperties
<1> HIDE DEF t
<1> DEFINE f == [i \in 0 .. Len(t) |-> g[i + 1]]
<1>3. f \in [0 .. Len(t) -> Nat] /\ f[Len(t)] = 0 /\ f[0] = g[1]
  BY <1>1, <1>2
<1>4. ASSUME NEW i \in 1 .. Len(t)
      PROVE  f[i - 1] = f[i] + v[t[i]]
  <2>1. i + 1 \in 1 .. Len(s) /\ i - 1 \in 0 .. Len(t) /\ i \in 0 .. Len(t)
    BY <1>2
  <2>2. f[i - 1] = g[(i + 1) - 1] /\ f[i] = g[i + 1]
    BY <2>1
  <2> QED
    BY <1>1, <1>2, <2>1, <2>2
<1>5. g[1] \in Nat /\ n = g[1] + v[s[1]]
  <2>1. 1 \in 1 .. Len(s)
    BY <1>2
  <2>2. g[1 - 1] = g[1] + v[s[1]]
    BY <1>1, <2>1
  <2> QED
    BY <1>1, <2>1, <2>2
<1> HIDE DEF f
<1>6. Adds(t, v, g[1])
  BY <1>3, <1>4 DEF Adds
<1> QED
  BY <1>2, <1>5, <1>6 DEF t

-----------------------------------------------------------------------------
(* What the counters do with a message *)

\* What the task writes: the requests of the main loop, its version message and
\* the answer to a ping or to a request for a transaction.
Message == MainThreadMessage \cup {"Version", "Reply"}

\* What the reader makes of the messages of the remote.
Received ==
    {r \in [kind : Kind \cup {"disconnect", "fee_filter", "new_blocks", "tx_requests", "ping", "pong"},
            len : Int] :
        r.kind = "addrs" => r.len \in 0 .. MAX_ADDR}

\* The kinds with a counter: headers have a field that nothing changes.
Counted == Kind \ {"header"}

\* How many answers of kind k are in r.
Count(r, k) == IF r.kind # k THEN 0 ELSE IF k = "addrs" THEN r.len ELSE 1

Carries(k) == [r \in Received |-> Count(r, k)]
Owes(k) == [m \in Message |-> Answers(m)[k]]

\* What one request adds to a counter, its first value, and how far one message
\* takes it below zero.
Allowance(k) ==
    CASE k = "filters" -> FilterAllowance
      [] k = "addrs"   -> ADDR_HARD_LIMIT
      [] OTHER         -> 1
Base(k) == IF k \in {"version", "verack"} THEN 1 ELSE 0
Slack(k) == IF k = "addrs" THEN MAX_ADDR ELSE 1

\* Allowances and slacks are numbers.
LEMMA ConstantsNat ==
    ASSUME NEW k \in Kind
    PROVE  Allowance(k) \in Nat /\ Base(k) \in Nat /\ Slack(k) \in Nat
BY ConnectionAssumption DEF Allowance, Base, Slack

\* An answer is a number of messages of each kind.
LEMMA AnswersType ==
    ASSUME NEW m \in Message
    PROVE  Answers(m) \in [Kind -> Nat]
BY ConnectionAssumption DEF Answers, None, Message, MainThreadMessage

\* What an honest remote owes for a message is a number.
LEMMA OwesType ==
    ASSUME NEW k \in Kind
    PROVE  Owes(k) \in [Message -> Nat]
BY AnswersType DEF Owes

\* A received message has at most Slack answers of a kind.
LEMMA CountBounds ==
    ASSUME NEW r \in Received, NEW k \in Kind
    PROVE  Count(r, k) \in Nat /\ Count(r, k) <= Slack(k)
BY ConnectionAssumption DEF Count, Slack, Received

\* What a received message counts for is a number.
LEMMA CarriesType ==
    ASSUME NEW k \in Kind
    PROVE  Carries(k) \in [Received -> Nat]
BY CountBounds DEF Carries

\* A request adds its allowance to a counter or leaves it, and adds at least as
\* much as an honest remote answers.
LEMMA SentCounts ==
    ASSUME counter \in [Kind -> Int], NEW m \in MainThreadMessage
    PROVE  /\ Sent(m) \in [Kind -> Int]
           /\ Sent(m)["header"] = counter["header"] /\ Sent(m)["version"] = counter["version"]
           /\ \A k \in Kind : Sent(m)[k] \in {counter[k], counter[k] + Allowance(k)}
           /\ \A k \in Counted : Sent(m)[k] >= counter[k] + Answers(m)[k]
<1>1. CASE m = "GetFilterHeaders"
  BY <1>1, ConnectionAssumption DEF Sent, Kind, Counted, Answers, None, Allowance
<1>2. CASE m = "GetFilters"
  BY <1>2, ConnectionAssumption DEF Sent, Kind, Counted, Answers, None, Allowance
<1>3. CASE m = "GetAddr"
  BY <1>3, ConnectionAssumption DEF Sent, Kind, Counted, Answers, None, Allowance
<1>4. CASE m = "GetBlock"
  BY <1>4, ConnectionAssumption DEF Sent, Kind, Counted, Answers, None, Allowance
<1>5. CASE m = "BroadcastTx"
  BY <1>5, ConnectionAssumption DEF Sent, Kind, Counted, Answers, None, Allowance
<1>6. CASE m \notin {"GetFilterHeaders", "GetFilters", "GetAddr", "GetBlock", "BroadcastTx"}
  BY <1>6 DEF Sent, MainThreadMessage, Kind, Counted, Answers, None
<1> QED
  BY <1>1, <1>2, <1>3, <1>4, <1>5, <1>6

\* A message takes its answers from their counter.
LEMMA GotCounts ==
    ASSUME counter \in [Kind -> Int], NEW r \in Received
    PROVE  /\ Got(r) \in [Kind -> Int]
           /\ Got(r)["header"] = counter["header"]
           /\ \A k \in Counted : Got(r)[k] = counter[k] - Count(r, k)
<1>1. r.kind = "addrs" => r.len \in Int
  BY DEF Received
<1>2. CASE r.kind = "header" \/ r.kind \notin Kind
  BY <1>2 DEF Got, Counted, Count, Kind
<1>3. CASE r.kind \in Kind \ {"header"}
  BY <1>1, <1>3 DEF Got, Counted, Count, Kind
<1> QED
  BY <1>2, <1>3

\* The reader drops a message or passes on one; of addresses, those it keeps.
LEMMA ParseShape ==
    ASSUME NEW m \in Wire
    PROVE  \/ ParseMessage(m) = <<>>
           \/ \E r \in Received : /\ ParseMessage(m) = <<r>>
                                  /\ r.kind = "addrs" => r.len = m.kept
<1>1. m \in [kind : STRING, len : Int, kept : Nat] /\ (m.kind = "addr" => m.kept <= m.len)
  BY MessageAssumption
<1>2. MAX_ADDR \in Nat /\ MAX_INV \in Nat /\ MAX_HEADERS \in Nat
  BY ConnectionAssumption
<1>3. \A k \in (Kind \ {"addrs"}) \cup {"disconnect", "fee_filter", "new_blocks", "tx_requests", "ping", "pong"} :
        Parsed(k, m) \in Received /\ Parsed(k, m).kind # "addrs"
  BY <1>1 DEF Parsed, Received, Kind
<1>4. CASE m.kind = "addr"
  <2>1. CASE m.len > MAX_ADDR
    <3>1. ParseMessage(m) = <<Parsed("disconnect", m)>>
      BY <1>1, <1>2, <1>4, <2>1 DEF ParseMessage
    <3> QED
      BY <1>3, <3>1
  <2>2. CASE m.len <= MAX_ADDR
    <3> DEFINE r == [kind |-> "addrs", len |-> m.kept]
    <3>1. r \in Received /\ r.len = m.kept
      BY <1>1, <1>2, <1>4, <2>2 DEF Received, Kind
    <3>2. ParseMessage(m) \in {<<>>, <<r>>}
      BY <1>1, <1>2, <1>4, <2>2 DEF ParseMessage
    <3> QED
      BY <3>1, <3>2
  <2> QED
    BY <1>1, <1>2, <2>1, <2>2
<1>5. CASE m.kind = "inv"
  <2>1. ParseMessage(m) \in {<<>>, <<Parsed("disconnect", m)>>, <<Parsed("new_blocks", m)>>}
    BY <1>1, <1>2, <1>5 DEF ParseMessage
  <2> QED
    BY <1>3, <2>1
<1>6. CASE m.kind = "headers"
  <2>1. ParseMessage(m) \in {<<Parsed("disconnect", m)>>, <<Parsed("header", m)>>}
    BY <1>1, <1>2, <1>6 DEF ParseMessage
  <2> QED
    BY <1>3, <2>1 DEF Kind
<1>7. CASE m.kind = "feefilter"
  <2>1. ParseMessage(m) \in {<<Parsed("disconnect", m)>>, <<Parsed("fee_filter", m)>>}
    BY <1>1, <1>7 DEF ParseMessage
  <2> QED
    BY <1>3, <2>1
<1>8. CASE m.kind \in {"version", "verack", "block", "ping", "pong"}
  <2>1. ParseMessage(m) = <<Parsed(m.kind, m)>>
    BY <1>8 DEF ParseMessage
  <2> QED
    BY <1>3, <1>8, <2>1 DEF Kind
<1>9. CASE m.kind \in {"unknown", "getdata", "cfheaders", "cfilter", "reject"}
  <2>1. ParseMessage(m) \in {<<Parsed("disconnect", m)>>, <<Parsed("tx_requests", m)>>,
           <<Parsed("filter_header", m)>>, <<Parsed("filters", m)>>, <<Parsed("tx", m)>>}
    BY <1>9 DEF ParseMessage
  <2> QED
    BY <1>3, <2>1 DEF Kind
<1>10. CASE m.kind \notin {"addr", "inv", "headers", "feefilter", "version", "verack", "block", "ping",
                           "pong", "unknown", "getdata", "cfheaders", "cfilter", "reject"}
  BY <1>10 DEF ParseMessage
<1> QED
  BY <1>4, <1>5, <1>6, <1>7, <1>8, <1>9, <1>10

-----------------------------------------------------------------------------
(* Cover *)

\* The answers of kind k to the messages in the socket s and those in the inbox b
\* are d at most.
Cover(k, s, b, d) ==
    \E n, m \in Nat : Adds(s, Owes(k), n) /\ Adds(b, Carries(k), m) /\ n + m <= d

\* Empty channels are covered by any counter that is not negative.
LEMMA CoverEmpty ==
    ASSUME NEW k, NEW d \in Nat
    PROVE  Cover(k, <<>>, <<>>, d)
<1>1. Adds(<<>>, Owes(k), 0) /\ Adds(<<>>, Carries(k), 0) /\ 0 + 0 <= d
  BY AddsEmpty
<1> QED
  BY <1>1 DEF Cover

\* A cover is not negative, and more covers as well.
LEMMA CoverMore ==
    ASSUME NEW k, NEW s, NEW b, NEW d \in Int, NEW e \in Int, Cover(k, s, b, d), d <= e
    PROVE  d >= 0 /\ Cover(k, s, b, e)
<1>1. PICK n \in Nat, m \in Nat : Adds(s, Owes(k), n) /\ Adds(b, Carries(k), m) /\ n + m <= d
  BY DEF Cover
<1>2. n + m <= e /\ d >= 0
  BY <1>1
<1> QED
  BY <1>1, <1>2 DEF Cover

\* The task writes e.
LEMMA CoverWrite ==
    ASSUME NEW k \in Kind, NEW s \in Seq(Message), NEW b, NEW d \in Int, Cover(k, s, b, d),
           NEW e \in Message
    PROVE  Cover(k, Append(s, e), b, d + Answers(e)[k])
<1>1. PICK n \in Nat, m \in Nat : Adds(s, Owes(k), n) /\ Adds(b, Carries(k), m) /\ n + m <= d
  BY DEF Cover
<1>2. Owes(k) \in [Message -> Nat] /\ Owes(k)[e] = Answers(e)[k]
  BY OwesType DEF Owes
<1>3. Adds(Append(s, e), Owes(k), n + Owes(k)[e])
  BY <1>1, <1>2, AddsAppend
<1>4. n + Owes(k)[e] \in Nat /\ (n + Owes(k)[e]) + m <= d + Answers(e)[k]
  BY <1>1, <1>2
<1> QED
  BY <1>1, <1>3, <1>4 DEF Cover

\* The remote reads a message.
LEMMA CoverRead ==
    ASSUME NEW k \in Kind, NEW s \in Seq(Message), s # <<>>, NEW b, NEW d \in Int, Cover(k, s, b, d)
    PROVE  Cover(k, Tail(s), b, d - Answers(Head(s))[k])
<1>1. PICK n \in Nat, m \in Nat : Adds(s, Owes(k), n) /\ Adds(b, Carries(k), m) /\ n + m <= d
  BY DEF Cover
<1>2. Head(s) \in Message
  BY HeadTailProperties
<1>3. Owes(k) \in [Message -> Nat] /\ Owes(k)[Head(s)] = Answers(Head(s))[k]
  BY <1>2, OwesType DEF Owes
<1>4. PICK l \in Nat : n = l + Owes(k)[Head(s)] /\ Adds(Tail(s), Owes(k), l)
  BY <1>1, <1>3, AddsTail
<1>5. Owes(k)[Head(s)] \in Nat
  BY <1>2, <1>3
<1>6. l + m <= d - Answers(Head(s))[k]
  BY <1>1, <1>3, <1>4, <1>5
<1> QED
  BY <1>1, <1>4, <1>6 DEF Cover

\* The reader passes on r.
LEMMA CoverArrive ==
    ASSUME NEW k \in Kind, NEW s, NEW b \in Seq(Received), NEW d \in Int, Cover(k, s, b, d),
           NEW r \in Received
    PROVE  Cover(k, s, Append(b, r), d + Count(r, k))
<1>1. PICK n \in Nat, m \in Nat : Adds(s, Owes(k), n) /\ Adds(b, Carries(k), m) /\ n + m <= d
  BY DEF Cover
<1>2. Carries(k) \in [Received -> Nat] /\ Carries(k)[r] = Count(r, k)
  BY CarriesType DEF Carries
<1>3. Adds(Append(b, r), Carries(k), m + Carries(k)[r])
  BY <1>1, <1>2, AddsAppend
<1>4. m + Carries(k)[r] \in Nat /\ n + (m + Carries(k)[r]) <= d + Count(r, k)
  BY <1>1, <1>2
<1> QED
  BY <1>1, <1>3, <1>4 DEF Cover

\* The task takes a message out of the inbox.
LEMMA CoverHandle ==
    ASSUME NEW k \in Kind, NEW s, NEW b \in Seq(Received), b # <<>>, NEW d \in Int, Cover(k, s, b, d)
    PROVE  Cover(k, s, Tail(b), d - Count(Head(b), k))
<1>1. PICK n \in Nat, m \in Nat : Adds(s, Owes(k), n) /\ Adds(b, Carries(k), m) /\ n + m <= d
  BY DEF Cover
<1>2. Head(b) \in Received
  BY HeadTailProperties
<1>3. Carries(k) \in [Received -> Nat] /\ Carries(k)[Head(b)] = Count(Head(b), k)
  BY <1>2, CarriesType DEF Carries
<1>4. PICK l \in Nat : m = l + Carries(k)[Head(b)] /\ Adds(Tail(b), Carries(k), l)
  BY <1>1, <1>3, AddsTail
<1>5. Carries(k)[Head(b)] \in Nat
  BY <1>2, <1>3
<1>6. n + l <= d - Count(Head(b), k)
  BY <1>1, <1>3, <1>4, <1>5
<1> QED
  BY <1>1, <1>4, <1>6 DEF Cover

-----------------------------------------------------------------------------
(* The inductive invariant *)

InHand(k) == IF phase = "sending" THEN Count(hand, k) ELSE 0

Unwritten(k) ==
    CASE phase = "writing" -> Answers(hand)[k]
      [] phase = "start"   -> Answers("Version")[k]
      [] OTHER             -> 0

\* What the channels hold and the task has in hand are messages.
Shape ==
    /\ socket \in Seq(Message) /\ inbox \in Seq(Received)
    /\ phase = "sending" => hand \in Received
    /\ phase = "writing" => hand \in Message
    /\ counter["header"] = 0 /\ asked["version"] = 0
    /\ phase = "start" => socket = <<>>

\* In select! the time limits are exceeded by no more than the task has slept.
OnTime ==
    phase = "select" => timer <= ResponseTimeout + slept /\ age <= MaxConnectionTime + slept

\* A counter that is below zero was taken there by the last message.
Floor ==
    \A k \in Counted : counter[k] + Slack(k) >= 0 /\ (phase = "select" => counter[k] >= 0)

\* What was forwarded and may still be is what was asked for.
Bounded ==
    \A k \in Counted : forwarded[k] + InHand(k) + counter[k] <= Base(k) + asked[k] * Allowance(k)

\* Of an honest remote: the counter of a kind covers the answers it still owes,
\* those that requests in the socket or in hand will make it owe, and those that
\* wait in the inbox.
CoveredKind(k) == Cover(k, socket, inbox, counter[k] - owed[k] - Unwritten(k))

Covered == honest => \A k \in Counted : CoveredKind(k)

ConnectionInv == TypeOK /\ Shape /\ OnTime /\ Floor /\ Bounded /\ Covered

\* What is counted and not yet written is a number.
LEMMA UnwrittenNat ==
    ASSUME Shape, NEW k \in Kind
    PROVE  Unwritten(k) \in Nat
BY AnswersType DEF Shape, Unwritten, Message

\* The task starts with a clean record.
LEMMA InitInv == Init => ConnectionInv
<1> SUFFICES ASSUME Init PROVE ConnectionInv
  OBVIOUS
<1> USE DEF Init
<1>1. TypeOK
  BY ConnectionAssumption DEF TypeOK, None, Kind, Off, Nothing
<1>2. Shape /\ OnTime
  BY DEF Shape, OnTime, None, Kind
<1>3. Floor
  <2>1. \A k \in Counted : counter[k] \in Nat
    BY DEF Counted, None, Kind
  <2>2. \A k \in Counted : Slack(k) \in Nat
    BY ConstantsNat DEF Counted
  <2> HIDE DEF Init
  <2> QED
    BY <2>1, <2>2 DEF Floor
<1>4. Bounded
  <2> SUFFICES ASSUME NEW k \in Counted
               PROVE  forwarded[k] + InHand(k) + counter[k] <= Base(k) + asked[k] * Allowance(k)
    BY DEF Bounded
  <2>1. forwarded[k] = 0 /\ InHand(k) = 0 /\ asked[k] = 0 /\ counter[k] = Base(k)
    BY DEF Counted, None, InHand, Base, Kind
  <2> QED
    BY <2>1, ConstantsNat DEF Counted
<1>5. Covered
  <2> SUFFICES ASSUME NEW k \in Counted PROVE CoveredKind(k)
    BY DEF Covered
  <2>1. socket = <<>> /\ inbox = <<>> /\ counter[k] - owed[k] - Unwritten(k) = 0
    BY DEF Counted, None, Unwritten, Answers, Kind
  <2> QED
    BY <2>1, CoverEmpty DEF CoveredKind
<1> QED
  BY <1>1, <1>2, <1>3, <1>4, <1>5 DEF ConnectionInv

\* A step that touches neither counters nor channels keeps the record of the
\* remote: all it can do is to let go of the message in hand.
LEMMA RecordKept ==
    ASSUME TypeOK, Shape, Floor, Bounded, Covered,
           UNCHANGED <<counter, honest, owed, forwarded, asked, socket, inbox>>,
           \A k \in Counted : InHand(k)' \in {0, InHand(k)},
           \A k \in Counted : Unwritten(k)' \in {0, Unwritten(k)},
           phase' = "select" => \A k \in Counted : counter[k] >= 0
    PROVE  Floor' /\ Bounded' /\ Covered'
<1>1. \A k \in Counted : /\ counter[k] \in Int /\ forwarded[k] \in Nat /\ owed[k] \in Nat
                         /\ Unwritten(k) \in Nat /\ Base(k) + asked[k] * Allowance(k) \in Int
  BY ConstantsNat, UnwrittenNat DEF TypeOK, Counted
<1>2. \A k \in Counted : InHand(k) \in Nat
  BY CountBounds DEF InHand, Shape, Counted
<1>3. Floor'
  BY DEF Floor
<1>4. Bounded'
  BY <1>1, <1>2 DEF Bounded
<1>5. Covered'
  <2> SUFFICES ASSUME honest', NEW k \in Counted PROVE CoveredKind(k)'
    BY DEF Covered
  <2> DEFINE d == counter[k] - owed[k] - Unwritten(k)
  <2>1. Cover(k, socket, inbox, d)
    BY DEF Covered, CoveredKind
  <2>2. d \in Int /\ d' \in Int /\ d <= d'
    BY <1>1
  <2>3. UNCHANGED <<socket, inbox>>
    OBVIOUS
  <2> HIDE DEF d
  <2>4. Cover(k, socket, inbox, d')
    BY <2>1, <2>2, CoverMore
  <2> QED
    BY <2>3, <2>4 DEF CoveredKind, d
<1> QED
  BY <1>3, <1>4, <1>5

-----------------------------------------------------------------------------
(* The steps of the task *)

LEMMA StartKeeps ==
    ASSUME ConnectionInv, Start
    PROVE  ConnectionInv'
<1> USE DEF ConnectionInv
<1>1. TypeOK'
  <2>1. Len(<<"Version">>) = 1
    OBVIOUS
  <2>2. SocketSize \in Nat /\ SocketSize >= 1
    BY ConnectionAssumption
  <2>4. (socket' = socket /\ timer' = timer) \/ (socket' = <<"Version">> /\ timer' = 0)
    BY DEF Start
  <2>5. Len(socket') <= SocketSize /\ timer' \in Int /\ timer' >= Off
    <3>1. CASE socket' = socket /\ timer' = timer
      BY <3>1 DEF TypeOK
    <3>2. CASE socket' = <<"Version">> /\ timer' = 0
      <4>1. Len(socket') <= SocketSize
        BY <2>1, <2>2, <3>2
      <4> QED
        BY <3>2, <4>1 DEF Off
    <3> QED
      BY <2>4, <3>1, <3>2
  <2>3. /\ phase' \in {"top", "ended"} /\ why' \in {Nothing, "failed"}
        /\ (why' # Nothing) <=> (phase' = "ended")
    BY DEF Start, TypeOK, End, Nothing
  <2> QED
    BY <2>5, <2>3 DEF Start, TypeOK, node, history
<1>2. Shape' /\ OnTime'
  <2>1. <<"Version">> \in Seq(Message)
    BY DEF Message
  <2> QED
    BY <2>1 DEF Start, Shape, OnTime, End, history
<1>3. CASE phase' = "ended"
  <2>1. UNCHANGED <<counter, honest, owed, forwarded, asked, socket, inbox>>
    BY <1>3 DEF Start, End, history
  <2>2. \A k \in Counted : InHand(k)' = 0 /\ Unwritten(k)' = 0
    BY <1>3 DEF InHand, Unwritten
  <2> QED
    BY <1>1, <1>2, <1>3, <2>1, <2>2, RecordKept
<1>4. CASE phase' = "top"
  <2>1. /\ UNCHANGED <<counter, honest, owed, forwarded, asked, inbox>>
        /\ socket' = <<"Version">> /\ phase = "start"
    BY <1>4 DEF Start, End, history
  <2>2. Floor' /\ Bounded'
    BY <1>4, <2>1 DEF Floor, Bounded, InHand
  <2>3. Covered'
    <3> SUFFICES ASSUME honest', NEW k \in Counted PROVE CoveredKind(k)'
      BY DEF Covered
    <3> DEFINE d == counter[k] - owed[k] - Unwritten(k)
    <3>1. Cover(k, socket, inbox, d) /\ socket = <<>>
      BY <2>1 DEF Covered, CoveredKind, Shape
    <3>2. /\ Unwritten(k) = Answers("Version")[k] /\ Unwritten(k)' = 0 /\ "Version" \in Message
          /\ Unwritten(k) \in Nat /\ counter[k] \in Int /\ owed[k] \in Nat
      BY <1>4, <2>1, UnwrittenNat DEF Unwritten, Message, TypeOK, Counted
    <3>3. d \in Int /\ d' = d + Answers("Version")[k]
      BY <2>1, <3>2
    <3>4. Append(<<>>, "Version") = <<"Version">> /\ <<>> \in Seq(Message) /\ k \in Kind
      BY DEF Counted
    <3> HIDE DEF d
    <3>5. Cover(k, Append(<<>>, "Version"), inbox, d + Answers("Version")[k])
      BY <3>1, <3>2, <3>3, <3>4, CoverWrite
    <3> QED
      BY <2>1, <3>3, <3>4, <3>5 DEF CoveredKind, d
  <2> QED
    BY <1>1, <1>2, <2>2, <2>3
<1> QED
  BY <1>3, <1>4 DEF Start, End

\* The checks let the task go on only when it holds nothing against the remote.
LEMMA LoopTopKeeps ==
    ASSUME ConnectionInv, LoopTop
    PROVE  ConnectionInv'
<1> USE DEF ConnectionInv
<1>1. /\ phase = "top" /\ slept' = 0
      /\ UNCHANGED <<hand, counter, timer, age, inbox, honest, owed, socket, requests, mailbox, asked, forwarded>>
      /\ \/ phase' = "ended" /\ why' = Verdict /\ Verdict # Nothing
         \/ phase' = "select" /\ why' = why /\ Verdict = Nothing
  BY DEF LoopTop, End, remote, node, history
<1>2. Verdict \in {Nothing, "finished", "unsolicited", "unresponsive", "age"}
  BY DEF Verdict
<1>3. TypeOK'
  <2>1. /\ why' \in {Nothing, "finished", "unsolicited", "unresponsive", "age"}
        /\ phase' \in {"select", "ended"} /\ ((why' # Nothing) <=> (phase' = "ended"))
    BY <1>1, <1>2 DEF TypeOK
  <2>2. slept' \in 0 .. MessageTimeout
    BY <1>1, ConnectionAssumption
  <2> QED
    BY <1>1, <2>1, <2>2 DEF TypeOK
<1>4. Shape'
  BY <1>1 DEF Shape
<1>5. phase' = "select" => ~Unsolicited /\ ~Unresponsive /\ ~(age > MaxConnectionTime)
  BY <1>1 DEF Verdict, Nothing
<1>6. OnTime'
  <2> SUFFICES ASSUME phase' = "select"
               PROVE  timer <= ResponseTimeout + 0 /\ age <= MaxConnectionTime + 0
    BY <1>1 DEF OnTime
  <2>1. timer \in Int /\ age \in Int /\ ResponseTimeout \in Nat /\ MaxConnectionTime \in Nat
    BY ConnectionAssumption DEF TypeOK
  <2> QED
    BY <1>5, <2>1 DEF Unresponsive, Off
<1>7. phase' = "select" => \A k \in Counted : counter[k] >= 0
  <2>1. \A k \in Counted : counter[k] \in Int /\ k \in Kind
    BY DEF TypeOK, Counted
  <2> QED
    BY <1>5, <2>1 DEF Unsolicited
<1>8. \A k \in Counted : InHand(k)' = 0 /\ Unwritten(k)' = 0
  BY <1>1 DEF InHand, Unwritten
<1> QED
  BY <1>1, <1>3, <1>4, <1>6, <1>7, <1>8, RecordKept

\* A select! that times out changes nothing but the place in the loop.
LEMMA WakeKeeps ==
    ASSUME ConnectionInv, Wake
    PROVE  ConnectionInv'
<1> USE DEF ConnectionInv
<1>1. /\ phase = "select" /\ phase' = "top"
      /\ UNCHANGED <<why, hand, counter, timer, age, slept, inbox, honest, owed, socket, requests, mailbox,
                     asked, forwarded>>
  BY DEF Wake, clock, remote, node, history
<1>2. TypeOK' /\ Shape' /\ OnTime'
  BY <1>1 DEF TypeOK, Shape, OnTime
<1>3. \A k \in Counted : InHand(k)' = 0 /\ Unwritten(k)' = 0
  BY <1>1 DEF InHand, Unwritten
<1> QED
  BY <1>1, <1>2, <1>3, RecordKept

\* What is sent was in hand, and is counted as forwarded from now on.
LEMMA SendToMainKeeps ==
    ASSUME ConnectionInv, SendToMain
    PROVE  ConnectionInv'
<1> USE DEF ConnectionInv
<1>1. /\ phase = "sending" /\ phase' = "top" /\ hand' = Nothing
      /\ UNCHANGED <<why, counter, timer, age, slept, inbox, honest, owed, socket, requests, asked>>
  BY DEF SendToMain, clock, remote
<1>2. hand \in Received /\ \A k \in Counted : Count(hand, k) \in Nat
  BY <1>1, CountBounds DEF Shape, Counted
<1>3. /\ forwarded' \in [Kind -> Nat]
      /\ \A k \in Counted : forwarded'[k] \in {forwarded[k], forwarded[k] + Count(hand, k)}
  <2>1. forwarded \in [Kind -> Nat]
    BY DEF TypeOK
  <2>2. CASE forwarded' = forwarded
    BY <2>1, <2>2 DEF Counted
  <2>3. CASE hand.kind \in Kind /\
             forwarded' = [forwarded EXCEPT ![hand.kind] = @ + (IF hand.kind = "addrs" THEN hand.len ELSE 1)]
    <3>1. (IF hand.kind = "addrs" THEN hand.len ELSE 1) \in Nat
      BY <1>2, ConnectionAssumption DEF Received
    <3> QED
      BY <2>1, <2>3, <3>1 DEF Count, Counted
  <2> QED
    BY <2>2, <2>3 DEF SendToMain
<1>4. TypeOK'
  <2>1. mailbox' \in 0 .. MailboxSize
    BY ConnectionAssumption DEF SendToMain, TypeOK
  <2> QED
    BY <1>1, <1>3, <2>1 DEF TypeOK
<1>5. Shape' /\ OnTime' /\ Floor'
  BY <1>1 DEF Shape, OnTime, Floor
<1>6. Bounded'
  <2> SUFFICES ASSUME NEW k \in Counted
               PROVE  (forwarded[k] + InHand(k) + counter[k] <= Base(k) + asked[k] * Allowance(k))'
    BY DEF Bounded
  <2>1. InHand(k) = Count(hand, k) /\ InHand(k)' = 0
    BY <1>1 DEF InHand
  <2>2. forwarded[k] \in Nat /\ counter[k] \in Int /\ Base(k) + asked[k] * Allowance(k) \in Int
    BY ConstantsNat DEF TypeOK, Counted
  <2>3. forwarded[k] + Count(hand, k) + counter[k] <= Base(k) + asked[k] * Allowance(k)
    BY <2>1 DEF Bounded
  <2> QED
    BY <1>1, <1>2, <1>3, <2>1, <2>2, <2>3
<1>7. Covered'
  <2>1. \A k \in Counted : Unwritten(k) = 0 /\ Unwritten(k)' = 0
    BY <1>1 DEF Unwritten
  <2> QED
    BY <1>1, <2>1 DEF Covered, CoveredKind
<1> QED
  BY <1>4, <1>5, <1>6, <1>7

\* A message that is handled leaves the inbox and takes its answers from the
\* counter; it is sent on, answered, or forgotten.
LEMMA HandlePeerMessageKeeps ==
    ASSUME ConnectionInv, HandlePeerMessage
    PROVE  ConnectionInv'
<1> USE DEF ConnectionInv
<1> DEFINE r == Head(inbox)
<1>1. /\ phase = "select" /\ inbox # <<>> /\ inbox' = Tail(inbox) /\ counter' = Got(r)
      /\ timer' \in {Off, timer}
      /\ UNCHANGED <<age, slept, honest, owed, socket, requests, mailbox, asked, forwarded>>
  BY DEF HandlePeerMessage, remote, node, history
<1>2. \/ phase' = "ended" /\ why' = "disconnect"
      \/ phase' = "writing" /\ hand' = "Reply" /\ why' = why
      \/ phase' = "sending" /\ hand' = r /\ why' = why
      \/ phase' = "top" /\ why' = why
  BY DEF HandlePeerMessage, End
<1>3. inbox \in Seq(Received) /\ r \in Received /\ inbox' \in Seq(Received) /\ Len(inbox') <= InboxSize
  <2>1. inbox \in Seq(Received) /\ Len(inbox) <= InboxSize /\ InboxSize \in Nat
    BY ConnectionAssumption DEF Shape, TypeOK
  <2>2. r \in Received /\ inbox' \in Seq(Received) /\ Len(inbox) \in Nat /\ Len(inbox') = Len(inbox) - 1
    BY <1>1, <2>1, HeadTailProperties, LenProperties
  <2> QED
    BY <2>1, <2>2
<1> HIDE DEF r
<1>4. /\ counter' \in [Kind -> Int] /\ counter'["header"] = counter["header"]
      /\ \A k \in Counted : counter'[k] = counter[k] - Count(r, k)
  BY <1>1, <1>3, GotCounts DEF TypeOK
<1>5. \A k \in Counted : /\ counter[k] \in Int /\ counter[k] >= 0 /\ Count(r, k) \in Nat /\ Count(r, k) <= Slack(k)
                         /\ Slack(k) \in Nat /\ owed[k] \in Nat /\ k \in Kind
  BY <1>1, <1>3, CountBounds, ConstantsNat DEF TypeOK, Counted, Floor
<1>6. TypeOK'
  <2>1. /\ phase' \in {"top", "sending", "writing", "ended"} /\ why' \in {why, "disconnect"}
        /\ ((why' # Nothing) <=> (phase' = "ended"))
    BY <1>1, <1>2 DEF TypeOK, Nothing
  <2>2. timer' \in Int /\ timer' >= Off
    <3>1. timer \in Int /\ timer >= Off /\ Off \in Int /\ Off >= Off
      BY DEF TypeOK, Off
    <3> QED
      BY <1>1, <3>1
  <2> QED
    BY <1>1, <1>3, <1>4, <2>1, <2>2 DEF TypeOK
<1>7. Shape' /\ OnTime'
  BY <1>1, <1>2, <1>3, <1>4 DEF Shape, OnTime, Message
<1>8. Floor'
  BY <1>2, <1>4, <1>5 DEF Floor
<1>9. Bounded'
  <2> SUFFICES ASSUME NEW k \in Counted
               PROVE  (forwarded[k] + InHand(k) + counter[k] <= Base(k) + asked[k] * Allowance(k))'
    BY DEF Bounded
  <2>1. InHand(k) = 0 /\ InHand(k)' \in {0, Count(r, k)}
    BY <1>1, <1>2 DEF InHand
  <2>2. forwarded[k] \in Nat /\ Base(k) + asked[k] * Allowance(k) \in Int
    BY ConstantsNat DEF TypeOK, Counted
  <2>3. forwarded[k] + 0 + counter[k] <= Base(k) + asked[k] * Allowance(k)
    BY <2>1 DEF Bounded
  <2> QED
    BY <1>1, <1>4, <1>5, <2>1, <2>2, <2>3
<1>10. Covered'
  <2> SUFFICES ASSUME honest', NEW k \in Counted PROVE CoveredKind(k)'
    BY DEF Covered
  <2> DEFINE d == counter[k] - owed[k] - Unwritten(k)
  <2>1. Cover(k, socket, inbox, d)
    BY <1>1 DEF Covered, CoveredKind
  <2>2. Unwritten(k) = 0 /\ Unwritten(k)' = 0
    <3>1. Answers("Reply")[k] = 0
      BY DEF Answers, None, Counted
    <3> QED
      BY <1>1, <1>2, <3>1 DEF Unwritten
  <2>3. d \in Int /\ d' = d - Count(r, k)
    BY <1>1, <1>4, <1>5, <2>2
  <2> HIDE DEF d
  <2>4. Cover(k, socket, Tail(inbox), d - Count(r, k))
    BY <1>1, <1>3, <1>5, <2>1, <2>3, CoverHandle DEF r
  <2> QED
    BY <1>1, <2>3, <2>4 DEF CoveredKind, d
<1> QED
  BY <1>6, <1>7, <1>8, <1>9, <1>10

\* A request allows at least what it makes an honest remote owe.
LEMMA MainThreadRequestKeeps ==
    ASSUME ConnectionInv, MainThreadRequest
    PROVE  ConnectionInv'
<1> USE DEF ConnectionInv
<1> DEFINE m == Head(requests)
<1>1. /\ phase = "select" /\ requests # <<>> /\ requests' = Tail(requests) /\ counter' = Sent(m)
      /\ asked' = [k \in Kind |-> IF counter'[k] # counter[k] THEN asked[k] + 1 ELSE asked[k]]
      /\ timer' \in {0, timer}
      /\ UNCHANGED <<age, slept, inbox, honest, owed, socket, mailbox, forwarded>>
      /\ \/ phase' = "ended" /\ why' = "disconnect"
         \/ phase' = "writing" /\ hand' = m /\ why' = why
  BY DEF MainThreadRequest, End, remote
<1>2. m \in MainThreadMessage /\ requests' \in Seq(Requests)
  BY <1>1, HeadTailProperties, MessageAssumption DEF TypeOK
<1>3. /\ counter \in [Kind -> Int] /\ counter' \in [Kind -> Int] /\ counter'["header"] = counter["header"]
      /\ asked'["version"] = asked["version"]
      /\ \A k \in Kind : counter'[k] \in {counter[k], counter[k] + Allowance(k)}
      /\ \A k \in Counted : counter'[k] >= counter[k] + Answers(m)[k]
  BY <1>1, <1>2, SentCounts DEF TypeOK, Kind
<1>4. \A k \in Kind : Answers(m)[k] \in Nat
  BY <1>2, AnswersType DEF Message
<1> HIDE DEF m
<1>5. TypeOK'
  <2>1. /\ phase' \in {"writing", "ended"} /\ why' \in {why, "disconnect"}
        /\ ((why' # Nothing) <=> (phase' = "ended"))
    BY <1>1 DEF TypeOK, Nothing
  <2>2. timer' \in Int /\ timer' >= Off
    <3>1. timer \in Int /\ timer >= Off /\ 0 \in Int /\ 0 >= Off
      BY DEF TypeOK, Off
    <3> QED
      BY <1>1, <3>1
  <2>3. asked' \in [Kind -> Nat]
    BY <1>1 DEF TypeOK
  <2> QED
    BY <1>1, <1>2, <1>3, <2>1, <2>2, <2>3 DEF TypeOK
<1>6. Shape' /\ OnTime'
  BY <1>1, <1>2, <1>3 DEF Shape, OnTime, Message
<1>7. Floor'
  <2> SUFFICES ASSUME NEW k \in Counted
               PROVE  counter'[k] + Slack(k) >= 0
    BY <1>1 DEF Floor
  <2>1. counter[k] >= 0 /\ counter[k] \in Int /\ counter'[k] \in Int /\ Slack(k) \in Nat /\ Answers(m)[k] \in Nat
    BY <1>1, <1>3, <1>4, ConstantsNat DEF Floor, Counted
  <2> QED
    BY <1>3, <2>1
<1>8. Bounded'
  <2> SUFFICES ASSUME NEW k \in Counted
               PROVE  (forwarded[k] + InHand(k) + counter[k] <= Base(k) + asked[k] * Allowance(k))'
    BY DEF Bounded
  <2> DEFINE a == Allowance(k)
  <2>1. InHand(k) = 0 /\ InHand(k)' = 0
    BY <1>1 DEF InHand
  <2>2. /\ forwarded[k] \in Nat /\ Base(k) \in Nat /\ asked[k] \in Nat /\ a \in Nat /\ counter[k] \in Int
        /\ k \in Kind
    BY ConstantsNat DEF TypeOK, Counted
  <2>3. forwarded[k] + 0 + counter[k] <= Base(k) + asked[k] * a
    BY <2>1 DEF Bounded
  <2> HIDE DEF a
  <2>4. asked[k] * a \in Nat /\ (asked[k] + 1) * a = asked[k] * a + a
    BY <2>2
  <2>5. CASE counter'[k] = counter[k]
    <3>1. asked'[k] = asked[k]
      BY <1>1, <2>2, <2>5
    <3> QED
      BY <1>1, <2>1, <2>3, <2>5, <3>1 DEF a
  <2>6. CASE counter'[k] # counter[k]
    <3>1. asked'[k] = asked[k] + 1 /\ counter'[k] = counter[k] + a
      BY <1>1, <1>3, <2>2, <2>6 DEF a
    <3>2. forwarded[k] + 0 + (counter[k] + a) <= Base(k) + (asked[k] * a + a)
      BY <2>2, <2>3, <2>4
    <3>3. forwarded'[k] + 0 + counter'[k] <= Base(k) + asked'[k] * a
      BY <1>1, <2>4, <3>1, <3>2
    <3> QED
      BY <2>1, <3>3 DEF a
  <2> QED
    BY <2>5, <2>6
<1>9. Covered'
  <2> SUFFICES ASSUME honest', NEW k \in Counted PROVE CoveredKind(k)'
    BY DEF Covered
  <2> DEFINE d == counter[k] - owed[k] - Unwritten(k)
  <2>1. Cover(k, socket, inbox, d)
    BY <1>1 DEF Covered, CoveredKind
  <2>2. Unwritten(k) = 0 /\ Unwritten(k)' \in {0, Answers(m)[k]}
    BY <1>1 DEF Unwritten
  <2>3. owed[k] \in Nat /\ counter[k] \in Int /\ counter'[k] \in Int /\ Answers(m)[k] \in Nat
    BY <1>3, <1>4 DEF TypeOK, Counted
  <2>4. d \in Int /\ d' \in Int /\ d <= d'
    BY <1>1, <1>3, <2>2, <2>3
  <2> HIDE DEF d
  <2>5. Cover(k, socket, inbox, d')
    BY <2>1, <2>4, CoverMore
  <2> QED
    BY <1>1, <2>5 DEF CoveredKind, d
<1> QED
  BY <1>5, <1>6, <1>7, <1>8, <1>9

\* A message that is written is in the socket instead of in hand, or is lost.
LEMMA WriteBytesKeeps ==
    ASSUME ConnectionInv, WriteBytes
    PROVE  ConnectionInv'
<1> USE DEF ConnectionInv
<1>1. /\ phase = "writing" /\ phase' = "top" /\ hand' = Nothing
      /\ UNCHANGED <<why, counter, timer, age, slept, inbox, honest, owed, requests, mailbox, asked, forwarded>>
      /\ socket' = socket \/ (Len(socket) < SocketSize /\ socket' = Append(socket, hand))
  BY DEF WriteBytes, clock, node, history
<1>2. /\ \A k \in Counted : InHand(k)' = 0 /\ Unwritten(k)' = 0 /\ Unwritten(k) = Answers(hand)[k]
      /\ hand \in Message /\ socket \in Seq(Message)
  BY <1>1 DEF InHand, Unwritten, Shape
<1>3. CASE socket' = socket
  <2>1. TypeOK' /\ Shape' /\ OnTime'
    BY <1>1, <1>3 DEF TypeOK, Shape, OnTime
  <2> QED
    BY <1>1, <1>2, <1>3, <2>1, RecordKept
<1>4. CASE Len(socket) < SocketSize /\ socket' = Append(socket, hand)
  <2>1. socket' \in Seq(Message) /\ Len(socket') <= SocketSize
    <3>1. Len(socket) \in Nat /\ Len(socket') = Len(socket) + 1 /\ socket' \in Seq(Message) /\ SocketSize \in Nat
      BY <1>2, <1>4, AppendProperties, LenProperties, ConnectionAssumption
    <3> QED
      BY <1>4, <3>1
  <2>2. TypeOK' /\ Shape' /\ OnTime'
    BY <1>1, <2>1 DEF TypeOK, Shape, OnTime
  <2>3. Floor' /\ Bounded'
    <3>1. \A k \in Counted : InHand(k) = 0
      BY <1>1 DEF InHand
    <3> QED
      BY <1>1, <1>2, <3>1 DEF Floor, Bounded
  <2>4. Covered'
    <3> SUFFICES ASSUME honest', NEW k \in Counted PROVE CoveredKind(k)'
      BY DEF Covered
    <3> DEFINE d == counter[k] - owed[k] - Unwritten(k)
    <3>1. Cover(k, socket, inbox, d)
      BY <1>1 DEF Covered, CoveredKind
    <3>2. owed[k] \in Nat /\ counter[k] \in Int /\ Unwritten(k) \in Nat /\ k \in Kind
      BY UnwrittenNat DEF TypeOK, Counted
    <3>3. d \in Int /\ d' = d + Answers(hand)[k]
      BY <1>1, <1>2, <3>2
    <3> HIDE DEF d
    <3>4. Cover(k, Append(socket, hand), inbox, d + Answers(hand)[k])
      BY <1>2, <3>1, <3>2, <3>3, CoverWrite
    <3> QED
      BY <1>1, <1>4, <3>3, <3>4 DEF CoveredKind, d
  <2> QED
    BY <2>2, <2>3, <2>4
<1> QED
  BY <1>1, <1>3, <1>4

-----------------------------------------------------------------------------
(* The steps of the others *)

\* A request that is read leaves the socket and is owed from now on.
LEMMA RemoteReadsKeeps ==
    ASSUME ConnectionInv, RemoteReads
    PROVE  ConnectionInv'
<1> USE DEF ConnectionInv
<1> DEFINE e == Head(socket)
<1>1. /\ phase \notin {"start", "ended"} /\ socket # <<>> /\ socket' = Tail(socket)
      /\ owed' = IF honest THEN [k \in Kind |-> owed[k] + Answers(e)[k]] ELSE owed
      /\ UNCHANGED <<phase, why, hand, counter, timer, age, slept, inbox, honest, requests, mailbox, asked, forwarded>>
  BY DEF RemoteReads, Connected, clock, node, history
<1>2. /\ socket \in Seq(Message) /\ e \in Message /\ socket' \in Seq(Message) /\ Len(socket') <= SocketSize
  <2>1. socket \in Seq(Message) /\ Len(socket) <= SocketSize /\ SocketSize \in Nat
    BY ConnectionAssumption DEF Shape, TypeOK
  <2>2. e \in Message /\ socket' \in Seq(Message) /\ Len(socket) \in Nat /\ Len(socket') = Len(socket) - 1
    BY <1>1, <2>1, HeadTailProperties, LenProperties
  <2> QED
    BY <2>1, <2>2
<1> HIDE DEF e
<1>3. \A k \in Kind : Answers(e)[k] \in Nat
  BY <1>2, AnswersType
<1>4. TypeOK'
  <2>1. owed' \in [Kind -> Nat]
    <3>1. owed \in [Kind -> Nat]
      BY DEF TypeOK
    <3>2. [k \in Kind |-> owed[k] + Answers(e)[k]] \in [Kind -> Nat]
      BY <1>3, <3>1
    <3> QED
      BY <1>1, <3>1, <3>2
  <2> QED
    BY <1>1, <1>2, <2>1 DEF TypeOK
<1>5. Shape' /\ OnTime' /\ Floor'
  BY <1>1, <1>2 DEF Shape, OnTime, Floor
<1>6. Bounded'
  BY <1>1 DEF Bounded, InHand
<1>7. Covered'
  <2> SUFFICES ASSUME honest', NEW k \in Counted PROVE CoveredKind(k)'
    BY DEF Covered
  <2> DEFINE d == counter[k] - owed[k] - Unwritten(k)
  <2>1. Cover(k, socket, inbox, d)
    BY <1>1 DEF Covered, CoveredKind
  <2>2. owed[k] \in Nat /\ counter[k] \in Int /\ Unwritten(k) \in Nat /\ k \in Kind /\ Unwritten(k)' = Unwritten(k)
    BY <1>1, UnwrittenNat DEF TypeOK, Counted, Unwritten
  <2>3. d \in Int /\ d' = d - Answers(e)[k]
    <3>1. owed'[k] = owed[k] + Answers(e)[k]
      BY <1>1, <2>2
    <3> QED
      BY <1>1, <1>3, <2>2, <3>1
  <2> HIDE DEF d
  <2>4. Cover(k, Tail(socket), inbox, d - Answers(e)[k])
    BY <1>1, <1>2, <2>1, <2>2, <2>3, CoverRead DEF e
  <2> QED
    BY <1>1, <2>3, <2>4 DEF CoveredKind, d
<1> QED
  BY <1>4, <1>5, <1>6, <1>7

\* An honest remote sends only what it owes.
LEMMA SettledOwed ==
    ASSUME TypeOK, NEW m \in Wire, Solicited(m)
    PROVE  /\ Settled(m) \in [Kind -> Nat]
           /\ ParseMessage(m) = <<>> => Settled(m) = owed
           /\ \A r \in Received : ParseMessage(m) = <<r>> /\ (r.kind = "addrs" => r.len = m.kept) =>
                \A k \in Kind : Settled(m)[k] = owed[k] - Count(r, k)
<1>1. owed \in [Kind -> Nat]
  BY DEF TypeOK
<1>2. CASE ParseMessage(m) = <<>>
  <2>1. Settled(m) = [k \in Kind |-> owed[k]]
    BY <1>2 DEF Settled
  <2> QED
    BY <1>1, <1>2, <2>1
<1>3. CASE \E r \in Received : ParseMessage(m) = <<r>> /\ (r.kind = "addrs" => r.len = m.kept)
  <2>1. ASSUME NEW r \in Received, ParseMessage(m) = <<r>>, r.kind = "addrs" => r.len = m.kept
        PROVE  \A k \in Kind : Settled(m)[k] = owed[k] - Count(r, k) /\ Settled(m)[k] \in Nat
    <3>1. DOMAIN ParseMessage(m) = {1} /\ ParseMessage(m)[1] = r
      BY <2>1
    <3> SUFFICES ASSUME NEW k \in Kind
                 PROVE  Settled(m)[k] = owed[k] - Count(r, k) /\ Settled(m)[k] \in Nat
      OBVIOUS
    <3>2. CASE r.kind = k
      <4>1. Settled(m)[k] = owed[k] - (IF k = "addrs" THEN m.kept ELSE 1)
        BY <3>1, <3>2 DEF Settled
      <4>2. Count(r, k) = IF k = "addrs" THEN m.kept ELSE 1
        BY <2>1, <3>2 DEF Count
      <4>3. owed[k] >= Count(r, k)
        BY <3>1, <3>2 DEF Solicited, Count
      <4>4. Count(r, k) \in Nat
        BY CountBounds
      <4> QED
        BY <1>1, <4>1, <4>2, <4>3, <4>4
    <3>3. CASE r.kind # k
      BY <1>1, <3>1, <3>3 DEF Settled, Count
    <3> QED
      BY <3>2, <3>3
  <2>2. Settled(m) \in [Kind -> Nat]
    <3>1. \A k \in Kind : Settled(m)[k] \in Nat
      BY <1>3, <2>1
    <3> QED
      BY <3>1 DEF Settled
  <2>3. ParseMessage(m) # <<>>
    BY <1>3
  <2> QED
    BY <2>1, <2>2, <2>3
<1> QED
  BY <1>2, <1>3, ParseShape

\* An answer that arrives is in the inbox instead of owed.
LEMMA RemoteSendsKeeps ==
    ASSUME ConnectionInv, RemoteSends
    PROVE  ConnectionInv'
<1> USE DEF ConnectionInv
<1>1. PICK m \in Wire :
        /\ Connected /\ (honest => Solicited(m)) /\ ReadFromRemote(m)
        /\ owed' = IF honest THEN Settled(m) ELSE owed
  BY DEF RemoteSends
<1>2. /\ phase # "start" /\ inbox' = inbox \o ParseMessage(m) /\ Len(inbox') <= InboxSize
      /\ UNCHANGED <<phase, why, hand, counter, timer, age, slept, socket, honest, requests, mailbox, asked, forwarded>>
  BY <1>1 DEF ReadFromRemote, Connected, clock, node, history
<1>3. inbox \in Seq(Received)
  BY DEF Shape
<1>4. inbox' \in Seq(Received)
  <2>1. CASE ParseMessage(m) = <<>>
    BY <1>2, <1>3, <2>1
  <2>2. CASE \E r \in Received : ParseMessage(m) = <<r>>
    BY <1>2, <1>3, <2>2
  <2> QED
    BY <2>1, <2>2, ParseShape
<1>5. TypeOK'
  <2>1. owed' \in [Kind -> Nat]
    BY <1>1, SettledOwed DEF TypeOK
  <2> QED
    BY <1>2, <2>1 DEF TypeOK
<1>6. Shape' /\ OnTime' /\ Floor'
  BY <1>2, <1>4 DEF Shape, OnTime, Floor
<1>7. Bounded'
  BY <1>2 DEF Bounded, InHand
<1>8. Covered'
  <2> SUFFICES ASSUME honest', NEW k \in Counted PROVE CoveredKind(k)'
    BY DEF Covered
  <2> DEFINE d == counter[k] - owed[k] - Unwritten(k)
  <2>1. Cover(k, socket, inbox, d) /\ Solicited(m) /\ owed' = Settled(m)
    BY <1>1, <1>2 DEF Covered, CoveredKind
  <2>2. owed[k] \in Nat /\ counter[k] \in Int /\ Unwritten(k) \in Nat /\ k \in Kind /\ Unwritten(k)' = Unwritten(k)
    BY <1>2, UnwrittenNat DEF TypeOK, Counted, Unwritten
  <2>3. CASE ParseMessage(m) = <<>>
    <3>1. inbox' = inbox
      BY <1>2, <1>3, <2>3
    <3>2. d' = d
      BY <1>2, <2>1, <2>2, <2>3, SettledOwed
    <3> HIDE DEF d
    <3> QED
      BY <1>2, <2>1, <3>1, <3>2 DEF CoveredKind, d
  <2>4. ASSUME NEW r \in Received, ParseMessage(m) = <<r>>, r.kind = "addrs" => r.len = m.kept
        PROVE  CoveredKind(k)'
    <3>1. inbox' = Append(inbox, r)
      BY <1>2, <1>3, <2>4
    <3>2. owed'[k] = owed[k] - Count(r, k) /\ Count(r, k) \in Nat
      BY <2>1, <2>2, <2>4, SettledOwed, CountBounds
    <3>3. d \in Int /\ d' = d + Count(r, k)
      BY <1>2, <2>2, <3>2
    <3> HIDE DEF d
    <3>4. Cover(k, socket, Append(inbox, r), d + Count(r, k))
      BY <1>3, <2>1, <2>2, <3>3, CoverArrive
    <3> QED
      BY <1>2, <3>1, <3>3, <3>4 DEF CoveredKind, d
  <2> QED
    BY <2>3, <2>4, ParseShape
<1> QED
  BY <1>5, <1>6, <1>7, <1>8

\* The other steps of the reader and of the main loop leave the record alone.
LEMMA OthersKeep ==
    ASSUME ConnectionInv, ReaderEnds \/ MainSends \/ MainReceives \/ NodeStops
    PROVE  ConnectionInv'
<1> USE DEF ConnectionInv
<1>1. UNCHANGED <<phase, why, hand, counter, timer, age, slept, inbox, honest, owed, socket, asked, forwarded>>
  BY DEF ReaderEnds, MainSends, MainReceives, NodeStops, clock, remote, history
<1>2. requests' \in Seq(Requests)
  <2>1. requests \in Seq(Requests)
    BY DEF TypeOK
  <2> QED
    BY <2>1 DEF ReaderEnds, MainSends, MainReceives, NodeStops, node
<1>3. mailbox' \in 0 .. MailboxSize
  <2>1. MailboxSize \in Nat /\ mailbox \in 0 .. MailboxSize
    BY ConnectionAssumption DEF TypeOK
  <2>2. \/ mailbox' = mailbox \/ mailbox' = 0
        \/ mailbox > 0 /\ mailbox' = mailbox - 1
    BY DEF ReaderEnds, MainSends, MainReceives, NodeStops, node
  <2> QED
    BY <2>1, <2>2
<1>4. TypeOK' /\ Shape' /\ OnTime'
  BY <1>1, <1>2, <1>3 DEF TypeOK, Shape, OnTime
<1>5. \A k \in Counted : InHand(k)' = InHand(k) /\ Unwritten(k)' = Unwritten(k)
  BY <1>1 DEF InHand, Unwritten
<1>6. phase' = "select" => \A k \in Counted : counter[k] >= 0
  BY <1>1 DEF Floor
<1> QED
  BY <1>1, <1>4, <1>5, <1>6, RecordKept

\* While the task sleeps the clocks move with it.
LEMMA TickKeeps ==
    ASSUME ConnectionInv, Tick
    PROVE  ConnectionInv'
<1> USE DEF ConnectionInv
<1>1. /\ UNCHANGED <<phase, why, hand, counter, inbox, honest, owed, socket, requests, mailbox, asked, forwarded>>
      /\ timer' \in {Off, timer, timer + 1} /\ age' \in {age, age + 1}
      /\ timer' # timer => timer' = timer + 1
      /\ slept' = IF phase = "select" THEN slept + 1 ELSE slept
      /\ phase = "select" => slept < MessageTimeout
  BY DEF Tick, Later, remote, node, history
<1>2. /\ timer \in Int /\ timer >= Off /\ age \in Nat /\ slept \in 0 .. MessageTimeout /\ MessageTimeout \in Nat
      /\ ResponseTimeout \in Nat /\ MaxConnectionTime \in Nat /\ Off \in Int
  BY ConnectionAssumption DEF TypeOK, Off
<1>3. TypeOK'
  <2>1. timer' \in Int /\ timer' >= Off /\ age' \in Nat /\ slept' \in 0 .. MessageTimeout
    BY <1>1, <1>2
  <2> QED
    BY <1>1, <2>1 DEF TypeOK
<1>4. Shape'
  BY <1>1 DEF Shape
<1>5. OnTime'
  BY <1>1, <1>2 DEF OnTime
<1>6. \A k \in Counted : InHand(k)' = InHand(k) /\ Unwritten(k)' = Unwritten(k)
  BY <1>1 DEF InHand, Unwritten
<1>7. phase' = "select" => \A k \in Counted : counter[k] >= 0
  BY <1>1 DEF Floor
<1> QED
  BY <1>1, <1>3, <1>4, <1>5, <1>6, <1>7, RecordKept

\* A step that changes nothing.
LEMMA StutterKeeps ==
    ASSUME ConnectionInv, UNCHANGED vars
    PROVE  ConnectionInv'
<1> USE DEF ConnectionInv
<1>1. UNCHANGED <<phase, why, hand, counter, timer, age, slept, inbox, honest, owed, socket, requests, mailbox,
                  asked, forwarded>>
  BY DEF vars, clock, remote, node, history
<1>2. TypeOK' /\ Shape' /\ OnTime'
  BY <1>1 DEF TypeOK, Shape, OnTime
<1>3. \A k \in Counted : InHand(k)' = InHand(k) /\ Unwritten(k)' = Unwritten(k)
  BY <1>1 DEF InHand, Unwritten
<1>4. phase' = "select" => \A k \in Counted : counter[k] >= 0
  BY <1>1 DEF Floor
<1> QED
  BY <1>1, <1>2, <1>3, <1>4, RecordKept

\* One case for each action of the task, the remote and the main loop.
LEMMA StepKeeps ==
    ASSUME ConnectionInv, [Next]_vars
    PROVE  ConnectionInv'
BY StartKeeps, LoopTopKeeps, WakeKeeps, HandlePeerMessageKeeps, SendToMainKeeps, MainThreadRequestKeeps,
   WriteBytesKeeps, RemoteReadsKeeps, RemoteSendsKeeps, OthersKeep, TickKeeps, StutterKeeps
   DEF Next, TaskStep, Ended

\* The invariant holds in every state.
LEMMA InvAlways == Spec => []ConnectionInv
BY InitInv, StepKeeps, PTL DEF Spec

-----------------------------------------------------------------------------
(* The theorems *)

\* The state of the connection has its type, and no channel exceeds its capacity,
\* whatever the remote sends and whenever the tasks run.
THEOREM TypeCorrect == Spec => []TypeOK
<1>1. ConnectionInv => TypeOK
  BY DEF ConnectionInv
<1> QED
  BY <1>1, InvAlways, PTL

\* A remote that answers what it was asked, late and in any order, is not taken
\* for one that sends unsolicited messages: unsolicited_message is reached with no
\* counter of an honest remote below zero.
THEOREM HonestNeverUnsolicited == Spec => []HonestKept
<1> DEFINE Fair == HonestKept /\ ConnectionInv
<1>1. Init => Fair
  BY InitInv DEF Init, HonestKept, Nothing
<1>2. Fair /\ [Next]_vars => Fair'
  <2> SUFFICES ASSUME HonestKept, ConnectionInv, [Next]_vars, honest'
               PROVE  why' # "unsolicited"
    BY StepKeeps DEF HonestKept
  <2>1. honest' = honest
    BY DEF Next, TaskStep, Start, LoopTop, Wake, HandlePeerMessage, SendToMain, MainThreadRequest, WriteBytes,
           ReaderEnds, RemoteReads, RemoteSends, ReadFromRemote, MainSends, MainReceives, NodeStops, Tick, Ended,
           remote, vars
  <2>2. why # "unsolicited"
    BY <2>1 DEF HonestKept
  <2>3. ~Unsolicited
    <3> SUFFICES ASSUME NEW k \in Kind PROVE ~(counter[k] < 0)
      BY DEF Unsolicited
    <3>1. CASE k = "header"
      BY <3>1 DEF ConnectionInv, Shape
    <3>2. CASE k \in Counted
      <4> DEFINE d == counter[k] - owed[k] - Unwritten(k)
      <4>1. Cover(k, socket, inbox, d)
        BY <2>1, <3>2 DEF ConnectionInv, Covered, CoveredKind
      <4>2. counter[k] \in Int /\ owed[k] \in Nat /\ Unwritten(k) \in Nat
        BY UnwrittenNat DEF ConnectionInv, TypeOK
      <4>3. d \in Int /\ d <= d
        BY <4>2
      <4> HIDE DEF d
      <4>4. d >= 0
        BY <4>1, <4>3, CoverMore
      <4> QED
        BY <4>2, <4>4 DEF d
    <3> QED
      BY <3>1, <3>2 DEF Counted
  <2>4. why' \in {why, "failed", "disconnect", Verdict}
    BY DEF Next, TaskStep, Start, LoopTop, Wake, HandlePeerMessage, SendToMain, MainThreadRequest, WriteBytes,
           ReaderEnds, RemoteReads, RemoteSends, ReadFromRemote, MainSends, MainReceives, NodeStops, Tick, Ended,
           End, vars
  <2>5. Verdict # "unsolicited"
    BY <2>3 DEF Verdict, Nothing
  <2> QED
    BY <2>2, <2>4, <2>5
<1>3. Fair => HonestKept
  OBVIOUS
<1> QED
  BY <1>1, <1>2, <1>3, PTL DEF Spec

\* What any remote gets through to the main loop is bounded by what was asked of
\* it, but for the one message that takes a counter below zero.
THEOREM ForwardingBounded == Spec => []ForwardedBounded
<1>1. ConnectionInv => ForwardedBounded
  <2> SUFFICES ASSUME ConnectionInv PROVE ForwardedBounded
    OBVIOUS
  <2>1. ASSUME NEW k \in Counted
        PROVE  forwarded[k] <= (Base(k) + asked[k] * Allowance(k)) + Slack(k)
    <3>1. InHand(k) \in Nat
      BY CountBounds DEF ConnectionInv, InHand, Shape, Counted
    <3>2. /\ forwarded[k] \in Nat /\ counter[k] \in Int /\ Slack(k) \in Nat
          /\ Base(k) + asked[k] * Allowance(k) \in Int
      BY ConstantsNat DEF ConnectionInv, TypeOK, Counted
    <3>3. /\ forwarded[k] + InHand(k) + counter[k] <= Base(k) + asked[k] * Allowance(k)
          /\ counter[k] + Slack(k) >= 0
      BY DEF ConnectionInv, Bounded, Floor
    <3> QED
      BY <3>1, <3>2, <3>3
  <2>2. \A k \in Kind : asked[k] \in Nat
    BY DEF ConnectionInv, TypeOK
  <2>3. forwarded["version"] <= (1 + asked["version"] * 1) + 1 /\ asked["version"] = 0
    BY <2>1 DEF Counted, Kind, Base, Allowance, Slack, ConnectionInv, Shape
  <2>4. forwarded["block"] <= (0 + asked["block"] * 1) + 1
    BY <2>1 DEF Counted, Kind, Base, Allowance, Slack
  <2>5. forwarded["filter_header"] <= (0 + asked["filter_header"] * 1) + 1
    BY <2>1 DEF Counted, Kind, Base, Allowance, Slack
  <2>6. forwarded["filters"] <= (0 + asked["filters"] * FilterAllowance) + 1
    BY <2>1 DEF Counted, Kind, Base, Allowance, Slack
  <2>7. forwarded["addrs"] <= (0 + asked["addrs"] * ADDR_HARD_LIMIT) + MAX_ADDR
    BY <2>1 DEF Counted, Kind, Base, Allowance, Slack
  <2>8. /\ FilterAllowance \in Nat /\ ADDR_HARD_LIMIT \in Nat /\ MAX_ADDR \in Nat
        /\ \A k \in {"version", "block", "filter_header", "filters", "addrs"} : asked[k] \in Nat
    BY <2>2, ConnectionAssumption DEF Kind
  <2> QED
    BY <2>3, <2>4, <2>5, <2>6, <2>7, <2>8 DEF ForwardedBounded
<1> QED
  BY <1>1, InvAlways, PTL

\* In select! a time limit is exceeded by one MESSAGE_TIMEOUT at most.
THEOREM LimitsNoticed == Spec => []DroppedInTime
<1>1. ConnectionInv => DroppedInTime
  <2> SUFFICES ASSUME ConnectionInv, phase = "select"
               PROVE  /\ timer <= ResponseTimeout + MessageTimeout
                      /\ age <= MaxConnectionTime + MessageTimeout
    BY DEF DroppedInTime
  <2>1. /\ timer \in Int /\ age \in Nat /\ slept \in 0 .. MessageTimeout /\ MessageTimeout \in Nat
        /\ ResponseTimeout \in Nat /\ MaxConnectionTime \in Nat
    BY ConnectionAssumption DEF ConnectionInv, TypeOK
  <2>2. timer <= ResponseTimeout + slept /\ age <= MaxConnectionTime + slept
    BY DEF ConnectionInv, OnTime
  <2> QED
    BY <2>1, <2>2
<1> QED
  BY <1>1, InvAlways, PTL
=============================================================================
