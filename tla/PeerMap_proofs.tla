---------------------------- MODULE PeerMap_proofs ----------------------------
(***************************************************************************)
(* What PeerMap promises, proved for every set of addresses, every number  *)
(* of required connections and every configuration.                        *)
(***************************************************************************)
EXTENDS PeerMap, FiniteSetTheorems, TLAPS

Statuses == {"absent", "Gossiped", "Tried", "Ban"}

-----------------------------------------------------------------------------
(* The operators *)

\* A statement on the table keeps it a table.
LEMMA UpdateType ==
    ASSUME NEW rows \in [Addr -> Statuses], NEW S, NEW status \in Statuses
    PROVE  Update(rows, S, status) \in [Addr -> Statuses]
BY DEF Update

\* So does a statement that may fail, and asking the seeds.
LEMMA StoreType ==
    ASSUME store \in [Addr -> Statuses]
    PROVE  /\ \A S : \A status \in Statuses :
                Updated(S, status) => store' \in [Addr -> Statuses]
           /\ \A found : Bootstrapped(found) \in [Addr -> Statuses]
<1> USE DEF Statuses
<1>1. \A S : \A status \in Statuses : Update(store, S, status) \in [Addr -> Statuses]
  BY UpdateType
<1> QED
  BY <1>1 DEF Updated, Bootstrapped

MapType(m) == DOMAIN m \subseteq Id /\ m \in [DOMAIN m -> Connection]

\* Sending a Disconnect and removing what has ended keep the map a map.
LEMMA MapKept ==
    ASSUME MapType(map)
    PROVE  /\ \A S : MapType(Told(S)) /\ DOMAIN Told(S) = DOMAIN map
           /\ MapType(CleanMap) /\ DOMAIN CleanMap = Live /\ Live \subseteq DOMAIN map
<1>1. ASSUME NEW S
      PROVE  MapType(Told(S)) /\ DOMAIN Told(S) = DOMAIN map
  BY DEF MapType, Told, Connection
<1>2. MapType(CleanMap) /\ DOMAIN CleanMap = Live /\ Live \subseteq DOMAIN map
  BY DEF MapType, CleanMap, Live
<1> QED
  BY <1>1, <1>2

\* Dialling leaves the connections that have not ended, and perhaps a new one.
LEMMA DialMap ==
    ASSUME MapType(map), NEW a \in Addr, NEW connected \in BOOLEAN, Dial(a, connected)
    PROVE  /\ MapType(map') /\ phase' = "select"
           /\ DOMAIN map' = Live \/ \E i \in Id : DOMAIN map' = Live \cup {i}
<1>1. MapType(CleanMap) /\ DOMAIN CleanMap = Live
  BY MapKept
<1>2. CASE ~connected
  BY <1>1, <1>2 DEF Dial
<1>3. CASE connected
  <2> DEFINE c == [addr |-> a, finished |-> FALSE, told |-> FALSE]
  <2>1. PICK i \in Id \ DOMAIN CleanMap :
          map' = [j \in DOMAIN CleanMap \cup {i} |-> IF j = i THEN c ELSE CleanMap[j]]
    BY <1>3 DEF Dial
  <2>2. c \in Connection
    BY DEF Connection
  <2> HIDE DEF c
  <2>3. MapType(map') /\ DOMAIN map' = Live \cup {i}
    BY <1>1, <2>1, <2>2 DEF MapType
  <2> QED
    BY <1>3, <2>3 DEF Dial
<1> QED
  BY <1>2, <1>3

-----------------------------------------------------------------------------
(* Types *)

\* One turn of dispatch keeps the types and ends the phase.
LEMMA DispatchStep ==
    ASSUME TypeOK, Dispatch
    PROVE  /\ TypeOK' /\ phase' \in {"select", "stopped"} /\ heights' = heights \cap Live
           /\ Live \subseteq DOMAIN map'
           /\ \/ DOMAIN map' = Live
              \/ /\ \E i \in Id : DOMAIN map' = Live \cup {i}
                 /\ Cardinality(Live) < NextRequiredPeers
<1>0. MapType(map) /\ store \in [Addr -> Statuses] /\ whitelist \in Seq(Addr)
  BY DEF TypeOK, MapType, Statuses
<1>1. MapType(CleanMap) /\ DOMAIN CleanMap = Live /\ Live \subseteq Id
  BY <1>0, MapKept DEF MapType
<1>2. behind' = behind /\ heights' = heights \cap Live
  BY DEF Dispatch, Connect, CleanHeights
<1>3. ASSUME NEW connected \in BOOLEAN, Connect(connected)
      PROVE  \E a \in Addr : Dial(a, connected) /\ whitelist' \in Seq(Addr)
                             /\ store' \in [Addr -> Statuses]
  <2>1. CASE DialConfigured(connected)
    <3>1. Len(whitelist) \in Nat /\ Len(whitelist) # 0
      BY <1>0, <2>1 DEF DialConfigured
    <3>2. whitelist[Len(whitelist)] \in Addr /\ whitelist' \in Seq(Addr)
      BY <1>0, <2>1, <3>1 DEF DialConfigured
    <3> QED
      BY <1>0, <2>1, <3>2 DEF DialConfigured
  <2>2. CASE DialStored(connected)
    <3>1. PICK found \in SUBSET Seeds : /\ store' = Bootstrapped(found)
                                        /\ \E a \in Unbanned(store') : Dial(a, connected)
                                        /\ whitelist' = whitelist
      BY <2>2 DEF DialStored
    <3>2. store' \in [Addr -> Statuses]
      BY <1>0, <3>1, StoreType
    <3> QED
      BY <1>0, <3>1, <3>2 DEF Unbanned
  <2> QED
    BY <1>3, <2>1, <2>2 DEF Connect
<1>4. ASSUME NEW connected \in BOOLEAN, Connect(connected)
      PROVE  /\ MapType(map') /\ phase' = "select" /\ whitelist' \in Seq(Addr)
             /\ store' \in [Addr -> Statuses]
             /\ DOMAIN map' = Live \/ \E i \in Id : DOMAIN map' = Live \cup {i}
             /\ Cardinality(Live) < NextRequiredPeers
  BY <1>0, <1>3, <1>4, DialMap DEF Connect
<1>5. ASSUME EnoughPeers \/ NoPeerFound
      PROVE  /\ MapType(map') /\ phase' \in {"select", "stopped"} /\ whitelist' \in Seq(Addr)
             /\ store' \in [Addr -> Statuses] /\ DOMAIN map' = Live
  BY <1>0, <1>1, <1>5, StoreType DEF EnoughPeers, NoPeerFound
<1>6. /\ MapType(map') /\ phase' \in {"select", "stopped"} /\ whitelist' \in Seq(Addr)
      /\ store' \in [Addr -> Statuses]
      /\ \/ DOMAIN map' = Live
         \/ /\ \E i \in Id : DOMAIN map' = Live \cup {i}
            /\ Cardinality(Live) < NextRequiredPeers
  BY <1>4, <1>5 DEF Dispatch
<1> QED
  BY <1>1, <1>2, <1>6 DEF TypeOK, MapType, Statuses

\* A message keeps the types and the connections; it ends the phase.
LEMMA MessageStep ==
    ASSUME TypeOK, Message
    PROVE  TypeOK' /\ DOMAIN map' = DOMAIN map /\ phase' \in {"top", "stopped"}
<1>0. MapType(map) /\ store \in [Addr -> Statuses] /\ whitelist \in Seq(Addr)
  BY DEF TypeOK, MapType, Statuses
<1>1. /\ \A S : MapType(Told(S)) /\ DOMAIN Told(S) = DOMAIN map
      /\ \A S : \A status \in Statuses : Updated(S, status) => store' \in [Addr -> Statuses]
  BY <1>0, MapKept, StoreType
<1>2. ASSUME NEW i \in Id, NEW suits \in BOOLEAN, NEW filters \in BOOLEAN,
             Version(i, suits, filters)
      PROVE  TypeOK' /\ DOMAIN map' = DOMAIN map /\ phase' \in {"top", "stopped"}
  BY <1>0, <1>1, <1>2 DEF Version, TypeOK, MapType, Statuses
<1>3. ASSUME NEW S \in SUBSET Addr, HandleNewAddrs(S)
      PROVE  TypeOK' /\ DOMAIN map' = DOMAIN map /\ phase' \in {"top", "stopped"}
  BY <1>0, <1>1, <1>3 DEF HandleNewAddrs, TypeOK, Statuses
<1>4. ASSUME NEW i \in Id, NEW banned \in BOOLEAN, NEW all \in BOOLEAN,
             HandleBadMessage(i, banned, all)
      PROVE  TypeOK' /\ DOMAIN map' = DOMAIN map /\ phase' \in {"top", "stopped"}
  <2>1. store' \in [Addr -> Statuses]
    BY <1>0, <1>1, <1>4 DEF HandleBadMessage, Statuses
  <2>2. MapType(map') /\ DOMAIN map' = DOMAIN map
    BY <1>0, <1>1, <1>4 DEF HandleBadMessage, Disconnect
  <2> QED
    BY <1>4, <2>1, <2>2 DEF HandleBadMessage, TypeOK, MapType, Statuses
<1>5. ASSUME NEW a \in Addr, AddPeer(a)
      PROVE  TypeOK' /\ DOMAIN map' = DOMAIN map /\ phase' \in {"top", "stopped"}
  BY <1>0, <1>5 DEF AddPeer, TypeOK
<1>6. ASSUME Shutdown \/ Other
      PROVE  TypeOK' /\ DOMAIN map' = DOMAIN map /\ phase' \in {"top", "stopped"}
  BY <1>6 DEF Shutdown, Other, TypeOK
<1> QED
  BY <1>2, <1>3, <1>4, <1>5, <1>6 DEF Message

\* So do advance_state and the end of a peer task.
LEMMA OtherStep ==
    ASSUME TypeOK, AdvanceState \/ \E i \in Id : Close(i) \/ Leave(i)
    PROVE  /\ TypeOK' /\ DOMAIN map' = DOMAIN map /\ heights' = heights /\ store' = store
           /\ phase' \in {phase, "dispatch"}
<1>1. CASE AdvanceState
  <2>1. \A S : MapType(Told(S)) /\ DOMAIN Told(S) = DOMAIN map
    BY MapKept DEF TypeOK, MapType
  <2>2. MapType(map') /\ DOMAIN map' = DOMAIN map
    BY <1>1, <2>1 DEF AdvanceState, TypeOK, MapType
  <2> QED
    BY <1>1, <2>2 DEF AdvanceState, TypeOK, MapType
<1>2. ASSUME NEW i \in Id, Finish(i)
      PROVE  TypeOK' /\ DOMAIN map' = DOMAIN map /\ UNCHANGED <<heights, store, phase>>
  <2>1. DOMAIN map' = DOMAIN map /\ map' \in [DOMAIN map -> Connection]
    BY <1>2 DEF Finish, TypeOK, Connection
  <2> QED
    BY <1>2, <2>1 DEF Finish, TypeOK
<1> QED
  BY <1>1, <1>2 DEF Close, Leave

\* Phases, rows of the peer store, connections and heights always have their types.
THEOREM TypeCorrect == Spec => []TypeOK
<1>1. Init => TypeOK
  BY PeerMapAssumption DEF Init, TypeOK
<1>2. TypeOK /\ [Next]_vars => TypeOK'
  <2> SUFFICES ASSUME TypeOK, [Next]_vars PROVE TypeOK'
    OBVIOUS
  <2>1. CASE UNCHANGED vars
    BY <2>1 DEF vars, TypeOK
  <2> QED
    BY <2>1, DispatchStep, MessageStep, OtherStep DEF Next
<1> QED
  BY <1>1, <1>2, PTL DEF Spec

-----------------------------------------------------------------------------
(* Heights *)

\* clean runs between every message and the next wait, so the heights the node
\* compares its chain with while it waits are those of connections in its map,
\* although a late version message adds one without looking at the map.
THEOREM HeightsCorrect == Spec => []HeightsOfConnections
<1>1. Init => HeightsOfConnections
  BY DEF Init, HeightsOfConnections
<1>2. TypeOK /\ HeightsOfConnections /\ [Next]_vars => HeightsOfConnections'
  <2> SUFFICES ASSUME TypeOK, HeightsOfConnections, [Next]_vars
               PROVE  HeightsOfConnections'
    OBVIOUS
  <2>1. CASE UNCHANGED vars
    BY <2>1 DEF vars, HeightsOfConnections
  <2>2. CASE Dispatch
    BY <2>2, DispatchStep DEF HeightsOfConnections
  <2>3. CASE Message
    BY <2>3, MessageStep DEF HeightsOfConnections
  <2>4. CASE AdvanceState \/ \E i \in Id : Close(i) \/ Leave(i)
    BY <2>4, OtherStep DEF HeightsOfConnections
  <2> QED
    BY <2>1, <2>2, <2>3, <2>4 DEF Next
<1> QED
  BY <1>1, <1>2, TypeCorrect, PTL DEF Spec

-----------------------------------------------------------------------------
(* The number of connections *)

\* The map never has more connections than required, those that have ended and
\* are not yet removed included: dispatch opens one only when fewer are live.
AtMostRequired == Cardinality(DOMAIN map) <= Required

\* dispatch compares the live connections and opens at most one, so the number
\* of connections is bounded by required_peers through all states of the node.
THEOREM ConnectionsBounded == Spec => []AtMostRequired
<1>0. Required \in Nat /\ 1 <= Required /\ IsFiniteSet(Id)
  <2>1. Cardinality(Id) \in Nat
    BY PeerMapAssumption, FS_CardinalityType
  <2> QED
    BY <2>1, PeerMapAssumption
<1>1. Init => AtMostRequired
  BY <1>0, FS_EmptySet DEF Init, AtMostRequired
<1>2. TypeOK /\ AtMostRequired /\ [Next]_vars => AtMostRequired'
  <2> SUFFICES ASSUME TypeOK, AtMostRequired, [Next]_vars
               PROVE  AtMostRequired'
    OBVIOUS
  <2>1. CASE Dispatch
    <3>1. IsFiniteSet(DOMAIN map) /\ Live \subseteq DOMAIN map
      BY <1>0, FS_Subset DEF TypeOK, Live
    <3>2. /\ IsFiniteSet(Live) /\ Cardinality(Live) <= Cardinality(DOMAIN map)
          /\ Cardinality(Live) \in Nat /\ Cardinality(DOMAIN map) \in Nat
      BY <3>1, FS_Subset, FS_CardinalityType
    <3>3. CASE DOMAIN map' = Live
      BY <1>0, <3>2, <3>3 DEF AtMostRequired
    <3>4. ASSUME NEW i \in Id, DOMAIN map' = Live \cup {i},
                 Cardinality(Live) < NextRequiredPeers
          PROVE  AtMostRequired'
      <4>1. Cardinality(Live) < Required
        BY <1>0, <3>2, <3>4 DEF NextRequiredPeers
      <4>2. \/ Cardinality(Live \cup {i}) = Cardinality(Live)
            \/ Cardinality(Live \cup {i}) = Cardinality(Live) + 1
        BY <3>2, FS_AddElement
      <4> QED
        BY <1>0, <3>2, <3>4, <4>1, <4>2 DEF AtMostRequired
    <3> QED
      BY <2>1, <3>3, <3>4, DispatchStep
  <2>2. CASE DOMAIN map' = DOMAIN map
    BY <2>2 DEF AtMostRequired
  <2> QED
    BY <2>1, <2>2, MessageStep, OtherStep DEF Next, vars
<1> QED
  BY <1>1, <1>2, TypeCorrect, PTL DEF Spec

-----------------------------------------------------------------------------
(* Bans *)

\* update never overwrites a ban by gossip, and the one other status that is
\* written over it comes from handle_version, for an address of the map.
THEOREM BansKept == Spec => OnlyHandshakeLiftsBan
<1> DEFINE Lifts(a) == store[a] = "Ban" /\ store'[a] # "Ban"
           Kept == \A a \in Addr : Lifts(a) =>
                     store'[a] = "Tried" /\ \E i \in DOMAIN map : map[i].addr = a
<1>1. TypeOK /\ [Next]_vars => [Kept]_vars
  <2> SUFFICES ASSUME TypeOK, Next, NEW a \in Addr, Lifts(a)
               PROVE  store'[a] = "Tried" /\ \E i \in DOMAIN map : map[i].addr = a
    OBVIOUS
  <2>1. \A S : Update(store, S, "Gossiped")[a] = "Ban"
    BY DEF Update
  <2>2. \A found : Bootstrapped(found)[a] = "Ban"
    BY <2>1 DEF Bootstrapped
  <2>3. ~Dispatch
    BY <2>2 DEF Dispatch, Connect, DialConfigured, DialStored, EnoughPeers, NoPeerFound
  <2>4. Message
    BY <2>3, OtherStep DEF Next
  <2>5. PICK i \in Id, suits \in BOOLEAN, filters \in BOOLEAN : Version(i, suits, filters)
    <3>1. ASSUME NEW S, HandleNewAddrs(S) PROVE FALSE
      BY <2>1, <3>1 DEF HandleNewAddrs, Updated
    <3>2. ASSUME NEW i, NEW banned, NEW all, HandleBadMessage(i, banned, all) PROVE FALSE
      <4>1. \A S : Update(store, S, "Ban")[a] = "Ban"
        BY DEF Update
      <4> QED
        BY <3>2, <4>1 DEF HandleBadMessage, Updated
    <3>3. ASSUME NEW p, AddPeer(p) PROVE FALSE
      BY <3>3 DEF AddPeer
    <3> QED
      BY <2>4, <3>1, <3>2, <3>3 DEF Message, Shutdown, Other
  <2>6. store' = Update(store, AddrOf(i), "Tried")
    BY <2>5 DEF Version, Updated
  <2>7. a \in AddrOf(i) /\ store'[a] = "Tried"
    BY <2>6 DEF Update
  <2> QED
    BY <2>7 DEF AddrOf
<1> QED
  BY <1>1, TypeCorrect, PTL DEF Spec, OnlyHandshakeLiftsBan
=============================================================================
