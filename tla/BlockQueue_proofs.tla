-------------------------- MODULE BlockQueue_proofs --------------------------
(***************************************************************************)
(* What BlockQueue promises, proved for any blocks, clients and bounds, and *)
(* for both builds of the crate.                                           *)
(***************************************************************************)
EXTENDS BlockQueue, Integers, FiniteSetTheorems, SequenceTheorems, TLAPS

-----------------------------------------------------------------------------
(* Subsequences *)

\* How many places in K come no later than k.
Rank(K, k) == Cardinality({j \in K : j <= k})

\* A larger element of a set has a higher rank.
LEMMA RankIncreases ==
    ASSUME NEW K, IsFiniteSet(K), K \subseteq Nat, NEW k \in K, NEW l \in K, k < l
    PROVE  Rank(K, k) < Rank(K, l)
<1> DEFINE A == {j \in K : j <= k}
           B == {j \in K : j <= l}
<1>1. A \subseteq B /\ B \subseteq K /\ l \in B /\ l \notin A
  <2>1. k \in Int /\ l \in Int /\ \A j \in K : j \in Int
    OBVIOUS
  <2>2. \A j \in K : j <= k => j <= l
    BY <2>1
  <2>3. l <= l /\ ~(l <= k)
    BY <2>1
  <2> QED
    BY <2>2, <2>3
<1> HIDE DEF A, B
<1>2. IsFiniteSet(B)
  BY <1>1, FS_Subset
<1>3. IsFiniteSet(A) /\ Cardinality(A) <= Cardinality(B) /\ Cardinality(A) # Cardinality(B)
  BY <1>1, <1>2, FS_Subset
<1>4. Cardinality(A) \in Nat /\ Cardinality(B) \in Nat
  BY <1>2, <1>3, FS_CardinalityType
<1> QED
  BY <1>3, <1>4 DEF Rank, A, B

\* The places of K are ranked from 1 to their number, each rank once.
LEMMA Ranks ==
    ASSUME NEW K, IsFiniteSet(K), K \subseteq Nat
    PROVE  /\ Cardinality(K) \in Nat
           /\ \A k \in K : Rank(K, k) \in 1 .. Cardinality(K)
           /\ \A n \in 1 .. Cardinality(K) : \E k \in K : Rank(K, k) = n
           /\ \A k, l \in K : Rank(K, k) < Rank(K, l) => k < l
           /\ \A k, l \in K : Rank(K, k) = Rank(K, l) => k = l
<1>1. Cardinality(K) \in Nat
  BY FS_CardinalityType
<1>2. \A k \in K : Rank(K, k) \in 1 .. Cardinality(K)
  <2> SUFFICES ASSUME NEW k \in K PROVE Rank(K, k) \in 1 .. Cardinality(K)
    OBVIOUS
  <2> DEFINE A == {j \in K : j <= k}
  <2>1. A \subseteq K /\ k \in A
    OBVIOUS
  <2> HIDE DEF A
  <2>2. IsFiniteSet(A) /\ Cardinality(A) <= Cardinality(K)
    BY <2>1, FS_Subset
  <2>3. Cardinality(A) \in Nat /\ Cardinality(A) # 0
    BY <2>1, <2>2, FS_CardinalityType, FS_EmptySet
  <2> QED
    BY <1>1, <2>2, <2>3 DEF Rank, A
<1>3. \A k, l \in K : Rank(K, k) \in Int /\ k \in Int /\ (k < l => Rank(K, k) < Rank(K, l))
  <2>1. \A k, l \in K : k < l => Rank(K, k) < Rank(K, l)
    BY RankIncreases
  <2>2. \A k \in K : Rank(K, k) \in Int /\ k \in Int
    BY <1>1, <1>2
  <2> QED
    BY <2>1, <2>2
<1>4. /\ \A k, l \in K : Rank(K, k) < Rank(K, l) => k < l
      /\ \A k, l \in K : Rank(K, k) = Rank(K, l) => k = l
  BY <1>3
<1>5. \A n \in 1 .. Cardinality(K) : \E k \in K : Rank(K, k) = n
  <2> DEFINE T == 1 .. Cardinality(K)
             f == [k \in K |-> Rank(K, k)]
  <2>1. f \in [K -> T]
    BY <1>2
  <2>2. f \in Injection(K, T)
    BY <1>4, <2>1 DEF Injection, IsInjective
  <2>3. IsFiniteSet(T) /\ Cardinality(T) = Cardinality(K)
    <3>1. IsFiniteSet(T) /\ Cardinality(T) = IF 1 > Cardinality(K) THEN 0 ELSE Cardinality(K) - 1 + 1
      BY <1>1, FS_Interval
    <3> QED
      BY <1>1, <3>1
  <2> HIDE DEF f, T
  <2>4. f \in Surjection(K, T)
    BY <2>2, <2>3, FS_Injection
  <2>5. \A n \in T : \E k \in K : f[k] = n
    BY <2>4 DEF Surjection
  <2> QED
    BY <2>5 DEF f, T
<1> QED
  BY <1>1, <1>2, <1>4, <1>5

\* A subsequence has the elements at the chosen places, each once and in their
\* order: e tells where each of them comes from.
LEMMA SubsequenceProperties ==
    ASSUME NEW S, NEW s \in Seq(S), NEW K \in SUBSET DOMAIN s
    PROVE  /\ Subsequence(s, K) \in Seq(S)
           /\ \E e \in [DOMAIN Subsequence(s, K) -> K] :
                /\ \A i \in DOMAIN e : Subsequence(s, K)[i] = s[e[i]]
                /\ \A i, j \in DOMAIN e : i < j => e[i] < e[j]
                /\ \A k \in K : \E i \in DOMAIN e : e[i] = k
<1> DEFINE N == Cardinality(K)
           e == [n \in 1 .. N |-> CHOOSE k \in K : Rank(K, k) = n]
<1>1. /\ Len(s) \in Nat /\ DOMAIN s = 1 .. Len(s) /\ K \subseteq Nat /\ \A k \in K : s[k] \in S
  BY LenProperties, ElementOfSeq
<1>2. IsFiniteSet(K)
  <2>1. IsFiniteSet(1 .. Len(s))
    BY <1>1, FS_Interval
  <2> QED
    BY <1>1, <2>1, FS_Subset
<1>3. /\ N \in Nat
      /\ \A k \in K : Rank(K, k) \in 1 .. N
      /\ \A n \in 1 .. N : \E k \in K : Rank(K, k) = n
      /\ \A k, l \in K : Rank(K, k) < Rank(K, l) => k < l
      /\ \A k, l \in K : Rank(K, k) = Rank(K, l) => k = l
  BY <1>1, <1>2, Ranks
<1>4. Subsequence(s, K) = [n \in 1 .. N |-> s[e[n]]]
  BY DEF Subsequence, Rank
<1> HIDE DEF N
<1>5. \A n \in 1 .. N : e[n] \in K /\ Rank(K, e[n]) = n
  BY <1>3
<1>6. e \in [1 .. N -> K]
  BY <1>5
<1>7. \A i, j \in 1 .. N : i < j => e[i] < e[j]
  BY <1>3, <1>5
<1>8. \A k \in K : \E i \in 1 .. N : e[i] = k
  BY <1>3, <1>5
<1> HIDE DEF e
<1>9. Subsequence(s, K) \in Seq(S) /\ DOMAIN Subsequence(s, K) = 1 .. N
  <2>1. [n \in 1 .. N |-> s[e[n]]] \in [1 .. N -> S]
    BY <1>1, <1>6
  <2> QED
    BY <1>3, <1>4, <2>1, SeqDef
<1> QED
  BY <1>4, <1>6, <1>7, <1>8, <1>9

-----------------------------------------------------------------------------
(* The inductive invariant *)

\* No block is requested twice.
Distinct ==
    /\ \A i, j \in DOMAIN queue : queue[i].hash = queue[j].hash => i = j
    /\ want # NoRequest => \A i \in DOMAIN queue : queue[i].hash # want.hash

\* Whenever a block was queued it was handed over, taken out, or is waited for.
Accounted ==
    \A h \in Block : added[h] = sent[h] + removed[h] + (IF QueueContains(h) THEN 1 ELSE 0)

\* No channel is in two requests.
OneSender ==
    /\ \A i, j \in DOMAIN queue : queue[i].sender = queue[j].sender /\ queue[i].sender # NoSender => i = j
    /\ want # NoRequest =>
         \A i \in DOMAIN queue : queue[i].sender = want.sender => want.sender = NoSender

Holds(c) ==
    \/ \E i \in DOMAIN queue : queue[i].sender = c
    \/ want # NoRequest /\ want.sender = c

Waiting == \A c \in Client : channel[c] = "waiting" <=> Holds(c)

\* Every requested block has one ticket.
Ticketed ==
    /\ \A n, l \in DOMAIN ticket : ticket[n] = ticket[l] => n = l
    /\ \A h \in Block : QueueContains(h) => \E n \in DOMAIN ticket : ticket[n] = h

Before(t, g, h) == \A n, l \in DOMAIN t : t[n] = g /\ t[l] = h => n < l

Ordered ==
    /\ \A i, j \in DOMAIN queue : i < j => Before(ticket, queue[i].hash, queue[j].hash)
    /\ want # NoRequest => \A i \in DOMAIN queue : Before(ticket, want.hash, queue[i].hash)

QueueInv == TypeOK /\ Distinct /\ Accounted /\ OneSender /\ Waiting /\ Ticketed /\ Ordered

\* An empty queue keeps its books.
LEMMA InitInv == Init => QueueInv
<1> SUFFICES ASSUME Init PROVE QueueInv
  OBVIOUS
<1> USE DEF Init
<1>1. queue = <<>> /\ DOMAIN queue = {} /\ want = NoRequest /\ ticket = <<>> /\ DOMAIN ticket = {}
  OBVIOUS
<1>2. TypeOK
  BY <1>1, QueueAssumption DEF TypeOK, NodeState
<1>3. Distinct /\ OneSender /\ Ordered
  BY <1>1 DEF Distinct, OneSender, Ordered
<1>4. \A h \in Block : ~QueueContains(h)
  BY <1>1 DEF QueueContains, Hashes
<1>5. Accounted /\ Ticketed
  BY <1>1, <1>4 DEF Accounted, Ticketed
<1>6. Waiting
  BY <1>1 DEF Waiting, Holds
<1> QED
  BY <1>2, <1>3, <1>5, <1>6 DEF QueueInv

\* The latest ticket comes last and the others keep their order.
LEMMA LatestProperties ==
    ASSUME TypeOK, Ticketed, NEW h \in Block
    PROVE  /\ Latest(h) \in Seq(Block)
           /\ \A n, l \in DOMAIN Latest(h) : Latest(h)[n] = Latest(h)[l] => n = l
           /\ \A g : g = h \/ (\E n \in DOMAIN ticket : ticket[n] = g) => \E n \in DOMAIN Latest(h) : Latest(h)[n] = g
           /\ \A g, f : g # h /\ f # h /\ Before(ticket, g, f) => Before(Latest(h), g, f)
           /\ \A g : g # h => Before(Latest(h), g, h)
<1> DEFINE K == {n \in DOMAIN ticket : ticket[n] # h}
           t == Subsequence(ticket, K)
<1>1. ticket \in Seq(Block) /\ K \in SUBSET DOMAIN ticket
  BY DEF TypeOK
<1>2. /\ t \in Seq(Block)
      /\ \E e \in [DOMAIN t -> K] :
           /\ \A i \in DOMAIN e : t[i] = ticket[e[i]]
           /\ \A i, j \in DOMAIN e : i < j => e[i] < e[j]
           /\ \A k \in K : \E i \in DOMAIN e : e[i] = k
  BY <1>1, SubsequenceProperties
<1>3. Latest(h) = Append(t, h)
  BY DEF Latest
<1> HIDE DEF t, K
<1>4. PICK e \in [DOMAIN t -> K] :
        /\ \A i \in DOMAIN t : t[i] = ticket[e[i]]
        /\ \A i, j \in DOMAIN t : i < j => e[i] < e[j]
        /\ \A k \in K : \E i \in DOMAIN t : e[i] = k
  <2>1. PICK e \in [DOMAIN t -> K] :
           /\ \A i \in DOMAIN e : t[i] = ticket[e[i]]
           /\ \A i, j \in DOMAIN e : i < j => e[i] < e[j]
           /\ \A k \in K : \E i \in DOMAIN e : e[i] = k
    BY <1>2
  <2>2. DOMAIN e = DOMAIN t
    OBVIOUS
  <2> QED
    BY <2>1, <2>2
<1> DEFINE L == Len(t) + 1
           u == Append(t, h)
<1>5. /\ Len(t) \in Nat /\ DOMAIN t = 1 .. Len(t) /\ u \in Seq(Block) /\ DOMAIN u = 1 .. L
      /\ u[L] = h /\ \A i \in DOMAIN t : u[i] = t[i]
  BY <1>2, LenProperties, AppendProperties
<1>6. \A i \in DOMAIN u : (i = L /\ u[i] = h) \/ (i \in DOMAIN t /\ i < L /\ u[i] = ticket[e[i]] /\ u[i] # h)
  <2> SUFFICES ASSUME NEW i \in DOMAIN u, i # L
               PROVE  i \in DOMAIN t /\ i < L /\ u[i] = ticket[e[i]] /\ u[i] # h
    BY <1>5
  <2>1. i \in DOMAIN t /\ i < L
    BY <1>5
  <2>2. e[i] \in K
    BY <2>1
  <2> QED
    BY <1>4, <1>5, <2>1, <2>2 DEF K
<1>7. L \in DOMAIN u /\ \A i \in DOMAIN t : i \in DOMAIN u
  BY <1>5
<1> HIDE DEF u, L
<1>8. \A n, l \in DOMAIN u : u[n] = u[l] => n = l
  <2> SUFFICES ASSUME NEW n \in DOMAIN u, NEW l \in DOMAIN u, u[n] = u[l], n # L, l # L PROVE n = l
    <3> SUFFICES ASSUME NEW n \in DOMAIN u, NEW l \in DOMAIN u, u[n] = u[l], n = L \/ l = L PROVE n = l
      OBVIOUS
    <3> QED
      BY <1>5, <1>6
  <2>1. n \in DOMAIN t /\ l \in DOMAIN t /\ ticket[e[n]] = ticket[e[l]] /\ e[n] \in DOMAIN ticket /\ e[l] \in DOMAIN ticket
    BY <1>6 DEF K
  <2>2. e[n] = e[l]
    BY <2>1 DEF Ticketed
  <2>3. n \in Int /\ l \in Int /\ e[n] \in Int /\ e[l] \in Int
    BY <1>1, <1>5, <2>1, LenProperties
  <2> QED
    BY <1>4, <2>1, <2>2, <2>3
<1>9. ASSUME NEW g, g = h \/ (\E n \in DOMAIN ticket : ticket[n] = g)
      PROVE  \E n \in DOMAIN u : u[n] = g
  <2>1. CASE g = h
    BY <1>5, <1>7, <2>1 DEF u, L
  <2>2. CASE g # h
    <3>1. PICK n \in DOMAIN ticket : ticket[n] = g
      BY <1>9, <2>2
    <3>2. PICK i \in DOMAIN t : e[i] = n
      BY <1>4, <2>2, <3>1 DEF K
    <3> QED
      BY <1>4, <1>5, <1>7, <3>1, <3>2 DEF u
  <2> QED
    BY <2>1, <2>2
<1>10. ASSUME NEW g, NEW f, g # h, f # h, Before(ticket, g, f)
       PROVE  Before(u, g, f)
  <2> SUFFICES ASSUME NEW n \in DOMAIN u, NEW l \in DOMAIN u, u[n] = g, u[l] = f PROVE n < l
    BY DEF Before
  <2>1. /\ n \in DOMAIN t /\ l \in DOMAIN t /\ ticket[e[n]] = g /\ ticket[e[l]] = f
        /\ e[n] \in DOMAIN ticket /\ e[l] \in DOMAIN ticket
    BY <1>6, <1>10 DEF K
  <2>2. e[n] < e[l]
    BY <1>10, <2>1 DEF Before
  <2>3. n \in Int /\ l \in Int /\ e[n] \in Int /\ e[l] \in Int
    BY <1>1, <1>5, <2>1, LenProperties
  <2>4. ~(l < n) /\ n # l
    BY <1>4, <2>1, <2>2, <2>3
  <2> QED
    BY <2>3, <2>4
<1>11. ASSUME NEW g, g # h
       PROVE  Before(u, g, h)
  BY <1>6, <1>11 DEF Before
<1>12. u \in Seq(Block) /\ Latest(h) = u
  BY <1>3, <1>5 DEF u
<1> QED
  BY <1>8, <1>9, <1>10, <1>11, <1>12

-----------------------------------------------------------------------------
(* The steps *)

\* A request joins the queue: of a block that is in no other, with a channel that
\* is in no other.
LEMMA AddedKeeps ==
    ASSUME QueueInv, NEW h \in Block, NEW a \in Client \cup {NoSender},
           ~QueueContains(h), Enqueue(h, a),
           UNCHANGED <<build, want, recent, coming, sent, removed>>, state' \in NodeState,
           \/ a = NoSender /\ channel' = channel
           \/ a \in Client /\ channel[a] = "unused" /\ channel' = [channel EXCEPT ![a] = "waiting"]
    PROVE  QueueInv'
<1> DEFINE r == [hash |-> h, sender |-> a]
           L == Len(queue) + 1
<1>1. /\ queue' = Append(queue, r) /\ ticket' = Latest(h) /\ added' = [added EXCEPT ![h] = @ + 1]
      /\ r \in Request /\ r.hash = h /\ r.sender = a
  BY DEF Enqueue, Request
<1>2. queue \in Seq(Request)
  BY DEF QueueInv, TypeOK
<1> HIDE DEF r
<1>3. /\ Len(queue) \in Nat /\ DOMAIN queue = 1 .. Len(queue) /\ queue' \in Seq(Request) /\ DOMAIN queue' = 1 .. L
      /\ queue'[L] = r /\ \A i \in DOMAIN queue : queue'[i] = queue[i]
  BY <1>1, <1>2, LenProperties, AppendProperties
<1>4. \A i \in DOMAIN queue' :
        \/ i = L /\ queue'[i].hash = h /\ queue'[i].sender = a
        \/ i \in DOMAIN queue /\ i < L /\ queue'[i] = queue[i]
  BY <1>1, <1>3
<1>5. L \in DOMAIN queue' /\ \A i \in DOMAIN queue : i \in DOMAIN queue' /\ i < L
  BY <1>3
<1>6. /\ \A i \in DOMAIN queue : queue[i].hash # h
      /\ want # NoRequest => want.hash # h
  BY DEF QueueContains, Hashes
<1>7. a # NoSender => /\ \A i \in DOMAIN queue : queue[i].sender # a
                      /\ want # NoRequest => want.sender # a
  BY DEF QueueInv, Waiting, Holds
<1> HIDE DEF L
<1>8. TypeOK'
  <2>1. Latest(h) \in Seq(Block)
    BY LatestProperties DEF QueueInv
  <2>2. channel' \in [Client -> {"unused", "waiting", "block", "UnknownHash", "dropped"}]
    BY DEF QueueInv, TypeOK
  <2>3. added' \in [Block -> Nat]
    BY <1>1 DEF QueueInv, TypeOK
  <2> QED
    BY <1>1, <1>3, <2>1, <2>2, <2>3 DEF QueueInv, TypeOK
<1>9. Distinct'
  <2>1. ASSUME NEW i \in DOMAIN queue', NEW j \in DOMAIN queue', queue'[i].hash = queue'[j].hash
        PROVE  i = j
    BY <1>4, <1>6, <2>1 DEF QueueInv, Distinct
  <2>2. ASSUME want' # NoRequest, NEW i \in DOMAIN queue'
        PROVE  queue'[i].hash # want'.hash
    BY <1>4, <1>6, <2>2 DEF QueueInv, Distinct
  <2> QED
    BY <2>1, <2>2 DEF Distinct
<1>10. \A g \in Block : QueueContains(g)' <=> QueueContains(g) \/ g = h
  <2> SUFFICES ASSUME NEW g \in Block PROVE QueueContains(g)' <=> QueueContains(g) \/ g = h
    OBVIOUS
  <2>1. (\E i \in DOMAIN queue' : queue'[i].hash = g) <=> g = h \/ \E i \in DOMAIN queue : queue[i].hash = g
    BY <1>3, <1>4, <1>5
  <2> QED
    BY <2>1 DEF QueueContains, Hashes
<1>11. Accounted'
  <2> SUFFICES ASSUME NEW g \in Block
               PROVE  added'[g] = sent'[g] + removed'[g] + (IF QueueContains(g)' THEN 1 ELSE 0)
    BY DEF Accounted
  <2>1. added[g] \in Nat /\ sent[g] \in Nat /\ removed[g] \in Nat
        /\ added[g] = sent[g] + removed[g] + (IF QueueContains(g) THEN 1 ELSE 0)
    BY DEF QueueInv, TypeOK, Accounted
  <2>2. added'[g] = IF g = h THEN added[g] + 1 ELSE added[g]
    BY <1>1 DEF QueueInv, TypeOK
  <2> QED
    BY <1>10, <2>1, <2>2
<1>12. OneSender'
  <2>1. ASSUME NEW i \in DOMAIN queue', NEW j \in DOMAIN queue', queue'[i].sender = queue'[j].sender,
               queue'[i].sender # NoSender
        PROVE  i = j
    BY <1>4, <1>7, <2>1 DEF QueueInv, OneSender
  <2>2. ASSUME want' # NoRequest, NEW i \in DOMAIN queue', queue'[i].sender = want'.sender
        PROVE  want'.sender = NoSender
    BY <1>4, <1>7, <2>2 DEF QueueInv, OneSender
  <2> QED
    BY <2>1, <2>2 DEF OneSender
<1>13. Waiting'
  <2> SUFFICES ASSUME NEW c \in Client PROVE channel'[c] = "waiting" <=> Holds(c)'
    BY DEF Waiting
  <2>1. Holds(c)' <=> Holds(c) \/ c = a
    <3>1. (\E i \in DOMAIN queue' : queue'[i].sender = c) <=> c = a \/ \E i \in DOMAIN queue : queue[i].sender = c
      BY <1>1, <1>3, <1>4, <1>5
    <3> QED
      BY <3>1 DEF Holds
  <2>2. channel'[c] = "waiting" <=> channel[c] = "waiting" \/ c = a
    BY QueueAssumption DEF QueueInv, TypeOK
  <2> QED
    BY <2>1, <2>2 DEF QueueInv, Waiting
<1>14. Ticketed'
  <2>1. \A g \in Block : QueueContains(g)' => \E n \in DOMAIN ticket' : ticket'[n] = g
    <3> SUFFICES ASSUME NEW g \in Block, QueueContains(g)' PROVE \E n \in DOMAIN ticket' : ticket'[n] = g
      OBVIOUS
    <3>1. g = h \/ \E n \in DOMAIN ticket : ticket[n] = g
      BY <1>10 DEF QueueInv, Ticketed
    <3>2. \E n \in DOMAIN Latest(h) : Latest(h)[n] = g
      BY <3>1, LatestProperties DEF QueueInv
    <3> QED
      BY <1>1, <3>2
  <2>2. \A n, l \in DOMAIN ticket' : ticket'[n] = ticket'[l] => n = l
    BY <1>1, LatestProperties DEF QueueInv
  <2> QED
    BY <2>1, <2>2 DEF Ticketed
<1>15. Ordered'
  <2>0. /\ \A g, f : g # h /\ f # h /\ Before(ticket, g, f) => Before(ticket', g, f)
        /\ \A g : g # h => Before(ticket', g, h)
    BY <1>1, LatestProperties DEF QueueInv
  <2>1. ASSUME NEW i \in DOMAIN queue', NEW j \in DOMAIN queue', i < j
        PROVE  Before(ticket', queue'[i].hash, queue'[j].hash)
    <3>1. i \in DOMAIN queue /\ queue'[i] = queue[i] /\ queue[i].hash # h
      <4>1. i # L
        BY <1>3, <1>4, <2>1 DEF L
      <4> QED
        BY <1>4, <1>6, <4>1
    <3>2. CASE j = L
      BY <1>1, <1>3, <2>0, <3>1, <3>2
    <3>3. CASE j # L
      BY <1>4, <1>6, <2>0, <2>1, <3>1, <3>3 DEF QueueInv, Ordered
    <3> QED
      BY <3>2, <3>3
  <2>2. ASSUME want' # NoRequest, NEW i \in DOMAIN queue'
        PROVE  Before(ticket', want'.hash, queue'[i].hash)
    BY <1>4, <1>6, <2>0, <2>2 DEF QueueInv, Ordered
  <2> QED
    BY <2>1, <2>2 DEF Ordered
<1> QED
  BY <1>8, <1>9, <1>11, <1>12, <1>13, <1>14, <1>15 DEF QueueInv

\* A step that leaves the requests alone, and no channel that a request holds.
LEMMA QuietKeeps ==
    ASSUME QueueInv, UNCHANGED <<build, queue, want, added, sent, removed, ticket>>,
           state' \in NodeState, recent' \in BOOLEAN, coming' \in [Block -> 0 .. MaxCopies],
           \/ channel' = channel
           \/ \E c \in Client, v \in {"UnknownHash", "dropped"} :
                channel[c] = "unused" /\ channel' = [channel EXCEPT ![c] = v]
    PROVE  QueueInv'
<1>1. TypeOK'
  <2>1. channel' \in [Client -> {"unused", "waiting", "block", "UnknownHash", "dropped"}]
    BY DEF QueueInv, TypeOK
  <2> QED
    BY <2>1 DEF QueueInv, TypeOK
<1>2. \A h \in Block : QueueContains(h)' = QueueContains(h)
  BY DEF QueueContains, Hashes
<1>3. Distinct' /\ OneSender' /\ Ordered'
  BY DEF QueueInv, Distinct, OneSender, Ordered
<1>4. Accounted' /\ Ticketed'
  BY <1>2 DEF QueueInv, Accounted, Ticketed
<1>5. Waiting'
  <2> SUFFICES ASSUME NEW c \in Client PROVE channel'[c] = "waiting" <=> Holds(c)'
    BY DEF Waiting
  <2>1. Holds(c)' <=> Holds(c)
    BY DEF Holds
  <2>2. channel'[c] = "waiting" <=> channel[c] = "waiting"
    BY DEF QueueInv, TypeOK
  <2> QED
    BY <2>1, <2>2 DEF QueueInv, Waiting
<1> QED
  BY <1>1, <1>3, <1>4, <1>5 DEF QueueInv

\* get_block of a client: an unknown block, one that is queued already, or a new request.
LEMMA GetBlockKeeps ==
    ASSUME QueueInv, NEW c \in Client, NEW h \in Block, GetBlock(c, h)
    PROVE  QueueInv'
<1>1. /\ channel[c] = "unused" /\ UNCHANGED <<build, want, recent, coming, sent, removed>>
      /\ recent' \in BOOLEAN /\ coming' \in [Block -> 0 .. MaxCopies] /\ state' \in NodeState
  BY DEF GetBlock, Reopen, NodeState, QueueInv, TypeOK
<1>2. CASE h \notin Chained
  <2>1. channel' = [channel EXCEPT ![c] = "UnknownHash"] /\ UNCHANGED <<queue, added, ticket>>
    BY <1>2 DEF GetBlock
  <2> QED
    BY <1>1, <2>1, QuietKeeps
<1>3. CASE h \in Chained /\ QueueContains(h)
  <2>1. channel' = [channel EXCEPT ![c] = "dropped"] /\ UNCHANGED <<queue, added, ticket>>
    BY <1>3 DEF GetBlock, Enqueue
  <2> QED
    BY <1>1, <2>1, QuietKeeps
<1>4. CASE h \in Chained /\ ~QueueContains(h)
  <2>1. channel' = [channel EXCEPT ![c] = "waiting"] /\ Enqueue(h, c)
    BY <1>4 DEF GetBlock
  <2> QED
    BY <1>1, <1>4, <2>1, AddedKeeps
<1> QED
  BY <1>2, <1>3, <1>4

\* The oldest request becomes the wanted one: nothing leaves.
LEMMA PopNextKeeps ==
    ASSUME QueueInv, PopNext, state' \in NodeState, UNCHANGED <<build, channel, history>>
    PROVE  QueueInv'
<1>1. /\ want = NoRequest /\ queue # <<>> /\ want' = Head(queue) /\ queue' = Tail(queue) /\ recent' = TRUE
      /\ coming[Head(queue).hash] < MaxCopies
      /\ coming' = [coming EXCEPT ![Head(queue).hash] = @ + 1]
      /\ UNCHANGED <<build, channel, added, sent, removed, ticket>>
  BY DEF PopNext, history
<1>2. queue \in Seq(Request)
  BY DEF QueueInv, TypeOK
<1>3. /\ Len(queue) \in Nat \ {0} /\ DOMAIN queue = 1 .. Len(queue) /\ Head(queue) = queue[1]
      /\ want' \in Request /\ queue' \in Seq(Request) /\ DOMAIN queue' = 1 .. (Len(queue) - 1)
      /\ \A i \in 1 .. (Len(queue) - 1) : queue'[i] = queue[i + 1]
  BY <1>1, <1>2, EmptySeq, LenProperties, HeadTailProperties, ElementOfSeq
<1>4. want' # NoRequest /\ want' = queue[1] /\ 1 \in DOMAIN queue
  BY <1>1, <1>3, NoRequestAssumption
<1>5. \A i \in DOMAIN queue' : i \in Nat /\ i + 1 \in DOMAIN queue /\ 1 < i + 1 /\ queue'[i] = queue[i + 1]
  BY <1>3
<1>6. \A i \in DOMAIN queue : i = 1 \/ \E j \in DOMAIN queue' : i = j + 1 /\ queue'[j] = queue[i]
  <2> SUFFICES ASSUME NEW i \in DOMAIN queue, i # 1
               PROVE  \E j \in DOMAIN queue' : i = j + 1 /\ queue'[j] = queue[i]
    OBVIOUS
  <2>1. i - 1 \in DOMAIN queue' /\ i = (i - 1) + 1
    BY <1>3
  <2> QED
    BY <1>5, <2>1
<1>7. TypeOK'
  <2>1. coming' \in [Block -> 0 .. MaxCopies]
    <3>1. Head(queue).hash \in Block /\ coming \in [Block -> 0 .. MaxCopies] /\ MaxCopies \in Nat
      BY <1>1, <1>3, QueueAssumption DEF Request, QueueInv, TypeOK
    <3>2. coming[Head(queue).hash] + 1 \in 0 .. MaxCopies
      BY <1>1, <3>1
    <3> QED
      BY <1>1, <3>1, <3>2
  <2> QED
    BY <1>1, <1>3, <2>1 DEF QueueInv, TypeOK
<1>8. Distinct'
  <2>1. ASSUME NEW i \in DOMAIN queue', NEW j \in DOMAIN queue', queue'[i].hash = queue'[j].hash PROVE i = j
    <3>1. i + 1 = j + 1
      BY <1>5, <2>1 DEF QueueInv, Distinct
    <3> QED
      BY <1>5, <3>1
  <2>2. ASSUME NEW i \in DOMAIN queue' PROVE queue'[i].hash # want'.hash
    BY <1>4, <1>5 DEF QueueInv, Distinct
  <2> QED
    BY <2>1, <2>2 DEF Distinct
<1>9. \A h \in Block : QueueContains(h)' <=> QueueContains(h)
  <2> SUFFICES ASSUME NEW h \in Block PROVE QueueContains(h)' <=> QueueContains(h)
    OBVIOUS
  <2>1. (\E i \in DOMAIN queue : queue[i].hash = h) <=> want'.hash = h \/ \E i \in DOMAIN queue' : queue'[i].hash = h
    BY <1>4, <1>5, <1>6
  <2> QED
    BY <1>1, <1>4, <2>1 DEF QueueContains, Hashes
<1>10. Accounted' /\ Ticketed'
  BY <1>1, <1>9 DEF QueueInv, Accounted, Ticketed
<1>11. OneSender'
  <2>1. ASSUME NEW i \in DOMAIN queue', NEW j \in DOMAIN queue', queue'[i].sender = queue'[j].sender,
               queue'[i].sender # NoSender
        PROVE  i = j
    <3>1. i + 1 = j + 1
      BY <1>5, <2>1 DEF QueueInv, OneSender
    <3> QED
      BY <1>5, <3>1
  <2>2. ASSUME NEW i \in DOMAIN queue', queue'[i].sender = want'.sender PROVE want'.sender = NoSender
    <3>1. i + 1 \in DOMAIN queue /\ i + 1 # 1 /\ queue[i + 1].sender = queue[1].sender
      BY <1>4, <1>5, <2>2
    <3> QED
      BY <1>4, <3>1 DEF QueueInv, OneSender
  <2> QED
    BY <2>1, <2>2 DEF OneSender
<1>12. Waiting'
  <2> SUFFICES ASSUME NEW c \in Client PROVE channel'[c] = "waiting" <=> Holds(c)'
    BY DEF Waiting
  <2>1. (\E i \in DOMAIN queue : queue[i].sender = c) <=> want'.sender = c \/ \E i \in DOMAIN queue' : queue'[i].sender = c
    BY <1>4, <1>5, <1>6
  <2>2. Holds(c)' <=> Holds(c)
    BY <1>1, <1>4, <2>1 DEF Holds
  <2> QED
    BY <1>1, <2>2 DEF QueueInv, Waiting
<1>13. Ordered'
  <2>1. ASSUME NEW i \in DOMAIN queue', NEW j \in DOMAIN queue', i < j
        PROVE  Before(ticket', queue'[i].hash, queue'[j].hash)
    <3>1. i + 1 < j + 1
      BY <1>5, <2>1
    <3> QED
      BY <1>1, <1>5, <3>1 DEF QueueInv, Ordered
  <2>2. ASSUME NEW i \in DOMAIN queue' PROVE Before(ticket', want'.hash, queue'[i].hash)
    BY <1>1, <1>4, <1>5 DEF QueueInv, Ordered
  <2> QED
    BY <2>1, <2>2 DEF Ordered
<1> QED
  BY <1>7, <1>8, <1>10, <1>11, <1>12, <1>13 DEF QueueInv

\* A turn of the loop: whatever state advance_state leads to, the requests are left
\* alone or the oldest becomes the wanted one.
LEMMA TurnKeeps ==
    ASSUME QueueInv, Turn
    PROVE  QueueInv'
<1>1. /\ recent \in BOOLEAN /\ coming \in [Block -> 0 .. MaxCopies] /\ MaxCopies \in Nat
      /\ UNCHANGED <<build, channel, history>>
  BY QueueAssumption DEF QueueInv, TypeOK, Turn
<1>2. state' \in NodeState
  <2>1. state \in NodeState /\ AdvanceState
    BY DEF QueueInv, TypeOK, Turn
  <2> QED
    BY <2>1 DEF AdvanceState, NodeState
<1>3. UNCHANGED <<held, coming>> \/ NextBlock
  BY DEF Turn, PopBlockQueue
<1>4. CASE UNCHANGED <<held, coming>>
  BY <1>1, <1>2, <1>4, QuietKeeps DEF held, history
<1>5. CASE PopWanted
  <2>1. want.hash \in Block
    BY <1>5 DEF PopWanted, QueueInv, TypeOK, Request
  <2>2. coming[want.hash] + 1 \in 0 .. MaxCopies
    BY <1>1, <1>5, <2>1 DEF PopWanted
  <2>3. coming' \in [Block -> 0 .. MaxCopies]
    BY <1>1, <1>5, <2>1, <2>2 DEF PopWanted
  <2> QED
    BY <1>1, <1>2, <1>5, <2>3, QuietKeeps DEF PopWanted, history
<1>6. CASE PopNext
  BY <1>1, <1>2, <1>6, PopNextKeeps
<1>7. CASE PopNone
  BY <1>1, <1>2, <1>7, QuietKeeps DEF PopNone, history
<1> QED
  BY <1>3, <1>4, <1>5, <1>6, <1>7 DEF NextBlock, PopTooSoon

\* The wanted block is handed over, to the channel of its request if it has one.
LEMMA ReceiveKeeps ==
    ASSUME QueueInv, NEW h \in Block, Needed(h), Receive(h),
           coming' \in [Block -> 0 .. MaxCopies], UNCHANGED <<build, state, queue, recent, added, removed, ticket>>
    PROVE  QueueInv'
<1>1. /\ want # NoRequest /\ want.hash = h /\ want' = NoRequest
      /\ sent' = [sent EXCEPT ![h] = @ + 1]
      /\ \/ want.sender = NoSender /\ channel' = channel
         \/ want.sender # NoSender /\ channel' = [channel EXCEPT ![want.sender] = "block"]
  BY DEF Needed, Receive, Deliver
<1>2. want.sender \in Client \cup {NoSender}
  BY <1>1 DEF QueueInv, TypeOK, Request
<1>3. TypeOK'
  <2>1. sent' \in [Block -> Nat]
    BY <1>1 DEF QueueInv, TypeOK
  <2>2. channel' \in [Client -> {"unused", "waiting", "block", "UnknownHash", "dropped"}]
    BY <1>1 DEF QueueInv, TypeOK
  <2> QED
    BY <1>1, <2>1, <2>2 DEF QueueInv, TypeOK
<1>4. Distinct' /\ OneSender' /\ Ordered'
  BY <1>1 DEF QueueInv, Distinct, OneSender, Ordered
<1>5. \A g \in Block : QueueContains(g)' <=> QueueContains(g) /\ g # h
  BY <1>1 DEF QueueContains, Hashes, QueueInv, Distinct
<1>6. Accounted'
  <2> SUFFICES ASSUME NEW g \in Block
               PROVE  added'[g] = sent'[g] + removed'[g] + (IF QueueContains(g)' THEN 1 ELSE 0)
    BY DEF Accounted
  <2>1. added[g] \in Nat /\ sent[g] \in Nat /\ removed[g] \in Nat
        /\ added[g] = sent[g] + removed[g] + (IF QueueContains(g) THEN 1 ELSE 0)
    BY DEF QueueInv, TypeOK, Accounted
  <2>2. sent'[g] = IF g = h THEN sent[g] + 1 ELSE sent[g]
    BY <1>1 DEF QueueInv, TypeOK
  <2>3. QueueContains(h)
    BY <1>1 DEF QueueContains
  <2> QED
    BY <1>5, <2>1, <2>2, <2>3
<1>7. Ticketed'
  BY <1>5 DEF QueueInv, Ticketed
<1>8. Waiting'
  <2> SUFFICES ASSUME NEW c \in Client PROVE channel'[c] = "waiting" <=> Holds(c)'
    BY DEF Waiting
  <2>1. Holds(c)' <=> Holds(c) /\ c # want.sender
    <3>1. c = want.sender => ~\E i \in DOMAIN queue : queue[i].sender = c
      BY <1>1, QueueAssumption DEF QueueInv, OneSender
    <3> QED
      BY <1>1, <3>1 DEF Holds
  <2>2. channel'[c] = "waiting" <=> channel[c] = "waiting" /\ c # want.sender
    BY <1>1, <1>2, QueueAssumption DEF QueueInv, TypeOK
  <2> QED
    BY <2>1, <2>2 DEF QueueInv, Waiting
<1> QED
  BY <1>3, <1>4, <1>6, <1>7, <1>8 DEF QueueInv

\* A reorganization takes out the requests for the blocks in gone, wherever they
\* are in the queue, and closes their channels.
LEMMA RemoveKeeps ==
    ASSUME QueueInv, NEW gone \in SUBSET Chained, Remove(gone)
    PROVE  QueueInv'
<1> DEFINE K == {i \in DOMAIN queue : queue[i].hash \notin gone}
<1>1. /\ queue' = Subsequence(queue, K) /\ want' = RemovedWant(gone)
      /\ UNCHANGED <<build, state, recent, coming, added, sent, ticket>>
  BY DEF Remove
<1>2. queue \in Seq(Request) /\ K \in SUBSET DOMAIN queue
  BY DEF QueueInv, TypeOK
<1>3. /\ queue' \in Seq(Request)
      /\ \E e \in [DOMAIN queue' -> K] :
           /\ \A i \in DOMAIN e : queue'[i] = queue[e[i]]
           /\ \A i, j \in DOMAIN e : i < j => e[i] < e[j]
           /\ \A k \in K : \E i \in DOMAIN e : e[i] = k
  <2> DEFINE t == Subsequence(queue, K)
  <2> HIDE DEF K
  <2>1. /\ t \in Seq(Request)
        /\ \E e \in [DOMAIN t -> K] :
             /\ \A i \in DOMAIN e : t[i] = queue[e[i]]
             /\ \A i, j \in DOMAIN e : i < j => e[i] < e[j]
             /\ \A k \in K : \E i \in DOMAIN e : e[i] = k
    BY <1>2, SubsequenceProperties
  <2>2. queue' = t
    BY <1>1
  <2> HIDE DEF t
  <2> QED
    BY <2>1, <2>2
<1> HIDE DEF K
<1>4. PICK e \in [DOMAIN queue' -> K] :
        /\ \A i \in DOMAIN e : queue'[i] = queue[e[i]]
        /\ \A i, j \in DOMAIN e : i < j => e[i] < e[j]
        /\ \A k \in K : \E i \in DOMAIN e : e[i] = k
  BY <1>3
<1>5. DOMAIN e = DOMAIN queue'
  OBVIOUS
<1>6. \A i \in DOMAIN queue' :
        e[i] \in DOMAIN queue /\ queue'[i] = queue[e[i]] /\ queue'[i].hash \notin gone
  BY <1>4, <1>5 DEF K
<1>7. \A k \in DOMAIN queue : queue[k].hash \notin gone => \E i \in DOMAIN queue' : e[i] = k
  BY <1>4, <1>5 DEF K
<1>8. \A i, j \in DOMAIN queue' : i \in Int /\ e[i] \in Int /\ (i < j => e[i] < e[j]) /\ (e[i] = e[j] => i = j)
  <2>1. \A i \in DOMAIN queue' : i \in Int /\ e[i] \in Int
    BY <1>2, <1>3, <1>6, LenProperties
  <2>2. \A i, j \in DOMAIN queue' : i < j => e[i] < e[j]
    BY <1>4, <1>5
  <2> QED
    BY <2>1, <2>2
<1>9. /\ want' # NoRequest => want' = want /\ want.hash \notin gone
      /\ want # NoRequest /\ want.hash \notin gone => want' = want
  BY <1>1 DEF RemovedWant
<1>10. \A g \in Block : QueueContains(g)' <=> QueueContains(g) /\ g \notin gone
  <2> SUFFICES ASSUME NEW g \in Block PROVE QueueContains(g)' <=> QueueContains(g) /\ g \notin gone
    OBVIOUS
  <2>1. (\E i \in DOMAIN queue' : queue'[i].hash = g) <=> g \notin gone /\ \E i \in DOMAIN queue : queue[i].hash = g
    BY <1>6, <1>7
  <2> QED
    BY <1>9, <2>1 DEF QueueContains, Hashes
<1>11. TypeOK'
  <2>1. want' \in Request \cup {NoRequest}
    BY <1>9 DEF QueueInv, TypeOK
  <2>2. channel' \in [Client -> {"unused", "waiting", "block", "UnknownHash", "dropped"}]
    BY DEF Remove, QueueInv, TypeOK
  <2>3. removed' \in [Block -> Nat]
    BY DEF Remove, QueueInv, TypeOK
  <2> QED
    BY <1>1, <1>3, <2>1, <2>2, <2>3 DEF QueueInv, TypeOK
<1>12. Distinct'
  <2>1. ASSUME NEW i \in DOMAIN queue', NEW j \in DOMAIN queue', queue'[i].hash = queue'[j].hash PROVE i = j
    BY <1>6, <1>8, <2>1 DEF QueueInv, Distinct
  <2>2. ASSUME want' # NoRequest, NEW i \in DOMAIN queue' PROVE queue'[i].hash # want'.hash
    BY <1>6, <1>9, <2>2 DEF QueueInv, Distinct
  <2> QED
    BY <2>1, <2>2 DEF Distinct
<1>13. Accounted'
  <2> SUFFICES ASSUME NEW g \in Block
               PROVE  added'[g] = sent'[g] + removed'[g] + (IF QueueContains(g)' THEN 1 ELSE 0)
    BY DEF Accounted
  <2>1. added[g] \in Nat /\ sent[g] \in Nat /\ removed[g] \in Nat
        /\ added[g] = sent[g] + removed[g] + (IF QueueContains(g) THEN 1 ELSE 0)
    BY DEF QueueInv, TypeOK, Accounted
  <2>2. removed'[g] = IF g \in gone /\ QueueContains(g) THEN removed[g] + 1 ELSE removed[g]
    BY DEF Remove
  <2> QED
    BY <1>1, <1>10, <2>1, <2>2
<1>14. OneSender'
  <2>1. ASSUME NEW i \in DOMAIN queue', NEW j \in DOMAIN queue', queue'[i].sender = queue'[j].sender,
               queue'[i].sender # NoSender
        PROVE  i = j
    BY <1>6, <1>8, <2>1 DEF QueueInv, OneSender
  <2>2. ASSUME want' # NoRequest, NEW i \in DOMAIN queue', queue'[i].sender = want'.sender
        PROVE  want'.sender = NoSender
    BY <1>6, <1>9, <2>2 DEF QueueInv, OneSender
  <2> QED
    BY <2>1, <2>2 DEF OneSender
<1>15. Waiting'
  <2> SUFFICES ASSUME NEW c \in Client PROVE channel'[c] = "waiting" <=> Holds(c)'
    BY DEF Waiting
  <2>1. Holds(c)' => Holds(c)
    BY <1>6, <1>9 DEF Holds
  <2>2. channel'[c] = IF channel[c] = "waiting" /\ ~Holds(c)' THEN "dropped" ELSE channel[c]
    BY DEF Remove, Holds
  <2>3. channel[c] = "waiting" <=> Holds(c)
    BY DEF QueueInv, Waiting
  <2> QED
    BY <2>1, <2>2, <2>3
<1>16. Ticketed'
  BY <1>1, <1>10 DEF QueueInv, Ticketed
<1>17. Ordered'
  <2>1. ASSUME NEW i \in DOMAIN queue', NEW j \in DOMAIN queue', i < j
        PROVE  Before(ticket', queue'[i].hash, queue'[j].hash)
    <3>1. e[i] < e[j]
      BY <1>8, <2>1
    <3> QED
      BY <1>1, <1>6, <3>1 DEF QueueInv, Ordered
  <2>2. ASSUME want' # NoRequest, NEW i \in DOMAIN queue' PROVE Before(ticket', want'.hash, queue'[i].hash)
    BY <1>1, <1>6, <1>9, <2>2 DEF QueueInv, Ordered
  <2> QED
    BY <2>1, <2>2 DEF Ordered
<1> QED
  BY <1>11, <1>12, <1>13, <1>14, <1>15, <1>16, <1>17 DEF QueueInv

\* One case for each action of the queue.
LEMMA StepKeeps ==
    ASSUME QueueInv, [Next]_vars
    PROVE  QueueInv'
<1> USE DEF vars, held, history
<1>0. /\ recent \in BOOLEAN /\ coming \in [Block -> 0 .. MaxCopies] /\ MaxCopies \in Nat
      /\ NoSender \in Client \cup {NoSender} /\ state \in NodeState
  BY QueueAssumption DEF QueueInv, TypeOK
<1>1. CASE \E h \in Block : FilterMatched(h)
  <2>1. PICK h \in Block : FilterMatched(h)
    BY <1>1
  <2>2. /\ ~QueueContains(h) /\ Enqueue(h, NoSender)
        /\ UNCHANGED <<build, state, want, recent, channel, coming, sent, removed>>
    BY <2>1 DEF FilterMatched
  <2> QED
    BY <1>0, <2>2, AddedKeeps
<1>2. CASE \E c \in Client, h \in Block : GetBlock(c, h)
  BY <1>2, GetBlockKeeps
<1>3. CASE Turn
  BY <1>3, TurnKeeps
<1>4. CASE NewBlock
  BY <1>0, <1>4, QuietKeeps DEF NewBlock, NodeState
<1>5. CASE Rescan
  BY <1>0, <1>5, QuietKeeps DEF Rescan, NodeState
<1>6. ASSUME NEW h \in Block, coming[h] > 0, coming' = [coming EXCEPT ![h] = @ - 1]
      PROVE  coming' \in [Block -> 0 .. MaxCopies]
  <2>1. coming[h] - 1 \in 0 .. MaxCopies
    BY <1>0, <1>6
  <2> QED
    BY <1>0, <1>6, <2>1
<1>7. CASE \E h \in Block, valid \in BOOLEAN : CheckSendBlock(h, valid)
  <2>1. PICK h \in Block, valid \in BOOLEAN : CheckSendBlock(h, valid)
    BY <1>7
  <2>2. coming' \in [Block -> 0 .. MaxCopies] /\ UNCHANGED <<build, state, queue, recent, added, removed, ticket>>
    BY <1>6, <2>1 DEF CheckSendBlock
  <2>3. CASE Needed(h) /\ valid
    BY <2>1, <2>2, <2>3, ReceiveKeeps DEF CheckSendBlock
  <2>4. CASE ~(Needed(h) /\ valid)
    BY <1>0, <2>1, <2>2, <2>4, QuietKeeps DEF CheckSendBlock
  <2> QED
    BY <2>3, <2>4
<1>8. CASE \E h \in Block : NeverSent(h)
  <2>1. PICK h \in Block : NeverSent(h)
    BY <1>8
  <2>2. coming' \in [Block -> 0 .. MaxCopies]
    BY <1>6, <2>1 DEF NeverSent
  <2> QED
    BY <1>0, <2>1, <2>2, QuietKeeps DEF NeverSent
<1>9. CASE SpamLimitPasses
  BY <1>0, <1>9, QuietKeeps DEF SpamLimitPasses
<1>10. CASE \E gone \in SUBSET Chained : gone # {} /\ Remove(gone)
  BY <1>10, RemoveKeeps
<1>11. CASE UNCHANGED vars
  BY <1>0, <1>11, QuietKeeps
<1> QED
  BY <1>1, <1>2, <1>3, <1>4, <1>5, <1>7, <1>8, <1>9, <1>10, <1>11 DEF Next

\* The books are kept in every state.
LEMMA InvAlways == Spec => []QueueInv
BY InitInv, StepKeeps, PTL DEF Spec

-----------------------------------------------------------------------------
(* The requests as one sequence *)

\* Pending has the wanted request first and then the queue, so what is distinct or
\* ordered in both is so in Pending.
LEMMA PendingProperties ==
    ASSUME QueueInv
    PROVE  /\ IsFiniteSet(DOMAIN Pending)
           /\ \A i \in DOMAIN Pending : i \in Int /\ Pending[i] \in Request
           /\ \A i, j \in DOMAIN Pending : Pending[i].hash = Pending[j].hash => i = j
           /\ \A i, j \in DOMAIN Pending : Pending[i].sender = Pending[j].sender /\ Pending[i].sender # NoSender => i = j
           /\ \A i, j \in DOMAIN Pending : i < j => Before(ticket, Pending[i].hash, Pending[j].hash)
           /\ \A h : QueueContains(h) <=> \E i \in DOMAIN Pending : Pending[i].hash = h
           /\ \A c : Holds(c) <=> \E i \in DOMAIN Pending : Pending[i].sender = c
<1>1. queue \in Seq(Request) /\ Len(queue) \in Nat /\ DOMAIN queue = 1 .. Len(queue)
  BY LenProperties DEF QueueInv, TypeOK
<1>2. CASE want = NoRequest
  <2>1. Pending = queue
    BY <1>2 DEF Pending
  <2>2. IsFiniteSet(DOMAIN queue)
    BY <1>1, FS_Interval
  <2>3. \A i \in DOMAIN queue : i \in Int /\ queue[i] \in Request
    BY <1>1, ElementOfSeq
  <2>4. \A h : QueueContains(h) <=> \E i \in DOMAIN queue : queue[i].hash = h
    BY <1>2 DEF QueueContains, Hashes
  <2>5. \A c : Holds(c) <=> \E i \in DOMAIN queue : queue[i].sender = c
    BY <1>2 DEF Holds
  <2> QED
    BY <2>1, <2>2, <2>3, <2>4, <2>5 DEF QueueInv, Distinct, OneSender, Ordered
<1>3. CASE want # NoRequest
  <2> DEFINE L == Len(queue) + 1
  <2>1. want \in Request
    BY <1>3 DEF QueueInv, TypeOK
  <2>2. /\ Pending \in Seq(Request) /\ DOMAIN Pending = 1 .. L /\ Pending[1] = want
        /\ \A i \in 2 .. L : Pending[i] = queue[i - 1]
    <3>1. Pending = <<want>> \o queue
      BY <1>3 DEF Pending
    <3>2. <<want>> \in Seq(Request) /\ Len(<<want>>) = 1 /\ <<want>>[1] = want
      BY <2>1
    <3> QED
      BY <1>1, <3>1, <3>2, ConcatProperties, LenProperties
  <2>3. \A i \in DOMAIN Pending : i \in Int /\ Pending[i] \in Request
    BY <1>1, <2>2, ElementOfSeq
  <2>4. \A i \in DOMAIN Pending : i = 1 \/ (i > 1 /\ i - 1 \in DOMAIN queue /\ Pending[i] = queue[i - 1])
    BY <1>1, <2>2
  <2>5. 1 \in DOMAIN Pending /\ \A k \in DOMAIN queue : k + 1 \in DOMAIN Pending /\ Pending[k + 1] = queue[k]
    BY <1>1, <2>2
  <2>6. IsFiniteSet(DOMAIN Pending)
    BY <1>1, <2>2, FS_Interval
  <2>7. ASSUME NEW i \in DOMAIN Pending, NEW j \in DOMAIN Pending, Pending[i].hash = Pending[j].hash
        PROVE  i = j
    <3>1. CASE i = 1 \/ j = 1
      BY <1>3, <2>2, <2>4, <2>7, <3>1 DEF QueueInv, Distinct
    <3>2. CASE i # 1 /\ j # 1
      <4>1. i - 1 = j - 1
        BY <2>4, <2>7, <3>2 DEF QueueInv, Distinct
      <4> QED
        BY <2>3, <4>1
    <3> QED
      BY <3>1, <3>2
  <2>8. ASSUME NEW i \in DOMAIN Pending, NEW j \in DOMAIN Pending, Pending[i].sender = Pending[j].sender,
               Pending[i].sender # NoSender
        PROVE  i = j
    <3>1. CASE i = 1 \/ j = 1
      BY <1>3, <2>2, <2>4, <2>8, <3>1 DEF QueueInv, OneSender
    <3>2. CASE i # 1 /\ j # 1
      <4>1. i - 1 = j - 1
        BY <2>4, <2>8, <3>2 DEF QueueInv, OneSender
      <4> QED
        BY <2>3, <4>1
    <3> QED
      BY <3>1, <3>2
  <2>9. ASSUME NEW i \in DOMAIN Pending, NEW j \in DOMAIN Pending, i < j
        PROVE  Before(ticket, Pending[i].hash, Pending[j].hash)
    <3>1. j # 1
      BY <2>3, <2>4, <2>9
    <3>2. CASE i = 1
      BY <1>3, <2>2, <2>4, <3>1, <3>2 DEF QueueInv, Ordered
    <3>3. CASE i # 1
      <4>1. i - 1 < j - 1
        BY <2>3, <2>9
      <4> QED
        BY <2>4, <3>1, <3>3, <4>1 DEF QueueInv, Ordered
    <3> QED
      BY <3>2, <3>3
  <2>10. \A h : QueueContains(h) <=> \E i \in DOMAIN Pending : Pending[i].hash = h
    <3>1. \A h : (\E i \in DOMAIN Pending : Pending[i].hash = h)
                   <=> want.hash = h \/ \E k \in DOMAIN queue : queue[k].hash = h
      BY <2>2, <2>4, <2>5
    <3> QED
      BY <1>3, <3>1 DEF QueueContains, Hashes
  <2>11. \A c : Holds(c) <=> \E i \in DOMAIN Pending : Pending[i].sender = c
    <3>1. ASSUME NEW c, NEW i \in DOMAIN Pending, Pending[i].sender = c
          PROVE  Holds(c)
      <4>1. CASE i = 1
        BY <1>3, <2>2, <3>1, <4>1 DEF Holds
      <4>2. CASE i # 1
        BY <2>4, <3>1, <4>2 DEF Holds
      <4> QED
        BY <4>1, <4>2
    <3>2. ASSUME NEW c, Holds(c)
          PROVE  \E i \in DOMAIN Pending : Pending[i].sender = c
      <4>1. CASE want # NoRequest /\ want.sender = c
        BY <2>2, <2>5, <4>1
      <4>2. CASE \E k \in DOMAIN queue : queue[k].sender = c
        <5>1. PICK k \in DOMAIN queue : queue[k].sender = c
          BY <4>2
        <5>2. k + 1 \in DOMAIN Pending /\ Pending[k + 1].sender = c
          BY <2>5, <5>1
        <5> QED
          BY <5>2
      <4> QED
        BY <3>2, <4>1, <4>2 DEF Holds
    <3> QED
      BY <3>1, <3>2
  <2> QED
    BY <2>3, <2>6, <2>7, <2>8, <2>9, <2>10, <2>11
<1> QED
  BY <1>2, <1>3

\* A set of places with at most one member has as many as there are.
LEMMA AtMostOne ==
    ASSUME NEW I, \A i, j \in I : i = j
    PROVE  Cardinality(I) = IF I = {} THEN 0 ELSE 1
<1>1. CASE I = {}
  BY <1>1, FS_EmptySet
<1>2. CASE I # {}
  <2>1. PICK i : I = {i}
    BY <1>2
  <2> QED
    BY <1>2, <2>1, FS_Singleton
<1> QED
  BY <1>1, <1>2

-----------------------------------------------------------------------------
(* The theorems *)

\* Requests, channels and counters have their types, whatever is asked for and
\* whatever peers send.
THEOREM TypeCorrect == Spec => []TypeOK
<1>1. QueueInv => TypeOK
  BY DEF QueueInv
<1> QED
  BY <1>1, InvAlways, PTL

\* Each time a block is queued it is handed over once, taken out by a
\* reorganization, or still waited for, once: BlockQueue::add, pop, receive and
\* remove lose no request and serve none twice.
THEOREM RequestsAccounted == Spec => []EveryRequestAccounted
<1>1. QueueInv => EveryRequestAccounted
  <2> SUFFICES ASSUME QueueInv, NEW h \in Block
               PROVE  added[h] = sent[h] + removed[h] + Copies(h) /\ Copies(h) <= 1
    BY DEF EveryRequestAccounted
  <2> DEFINE I == {i \in DOMAIN Pending : Pending[i].hash = h}
  <2>1. \A i, j \in I : i = j
    BY PendingProperties
  <2>2. (I # {}) <=> QueueContains(h)
    BY PendingProperties
  <2> HIDE DEF I
  <2>3. Cardinality(I) = IF QueueContains(h) THEN 1 ELSE 0
    BY <2>1, <2>2, AtMostOne
  <2>4. Copies(h) = Cardinality(I)
    BY DEF Copies, I
  <2> QED
    BY <2>3, <2>4 DEF QueueInv, Accounted
<1> QED
  BY <1>1, InvAlways, PTL

\* A client that waits has its channel in exactly one request, and a request with a
\* channel has a client that waits for it: no oneshot sender is leaked or doubled.
THEOREM ChannelsAccounted == Spec => []ChannelsHeld
<1>1. QueueInv => ChannelsHeld
  <2> SUFFICES ASSUME QueueInv, NEW c \in Client
               PROVE  Cardinality({i \in DOMAIN Pending : Pending[i].sender = c})
                        = (IF channel[c] = "waiting" THEN 1 ELSE 0)
    BY DEF ChannelsHeld
  <2> DEFINE I == {i \in DOMAIN Pending : Pending[i].sender = c}
  <2>1. \A i, j \in I : i = j
    BY PendingProperties, QueueAssumption
  <2>2. (I # {}) <=> Holds(c)
    BY PendingProperties
  <2> HIDE DEF I
  <2>3. Cardinality(I) = IF Holds(c) THEN 1 ELSE 0
    BY <2>1, <2>2, AtMostOne
  <2> QED
    BY <2>3 DEF QueueInv, Waiting, I
<1> QED
  BY <1>1, InvAlways, PTL

\* Blocks are asked for in the order in which they were queued: pop_back takes the
\* oldest request, also after remove took some out of the middle.
THEOREM ServedInOrder == Spec => []OldestFirst
<1>1. QueueInv => OldestFirst
  <2> SUFFICES ASSUME QueueInv, NEW i \in DOMAIN Pending, NEW j \in DOMAIN Pending, i < j
               PROVE  Ticket(Pending[i].hash) < Ticket(Pending[j].hash)
    BY DEF OldestFirst
  <2>1. Before(ticket, Pending[i].hash, Pending[j].hash)
    BY PendingProperties
  <2>2. ASSUME NEW k \in DOMAIN Pending
        PROVE  Ticket(Pending[k].hash) \in DOMAIN ticket /\ ticket[Ticket(Pending[k].hash)] = Pending[k].hash
    <3>1. QueueContains(Pending[k].hash) /\ Pending[k] \in Request
      BY PendingProperties
    <3>2. \E n \in DOMAIN ticket : ticket[n] = Pending[k].hash
      BY <3>1 DEF QueueInv, Ticketed, Request
    <3> QED
      BY <3>2 DEF Ticket
  <2> QED
    BY <2>1, <2>2 DEF Before
<1> QED
  BY <1>1, InvAlways, PTL
=============================================================================
