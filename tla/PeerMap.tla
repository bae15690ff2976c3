------------------------------- MODULE PeerMap -------------------------------
(***************************************************************************)
(* The connections of the node and the addresses it knows: the peer map    *)
(* with its connections, the heights they report, the peers of the         *)
(* configuration and the table of the peer store (SqlitePeerDb), under the *)
(* main loop.  In each turn the NodeState may advance, dispatch removes     *)
(* connections that have ended and opens one more if some are missing, and *)
(* one message is handled.                                                 *)
(* Messages of a connection may be handled when it has ended or is removed.*)
(*                                                                         *)
(* Left out is what only changes odds or is only reported: services and    *)
(* ports of an address, the preference of next_peer for new or tried       *)
(* addresses with filters (after MAX_TRIES draws it takes any; net_groups  *)
(* is never filled), time offsets, fee rates and the values of heights.    *)
(***************************************************************************)
EXTENDS Integers, Sequences, FiniteSets

CONSTANTS
    Addr,       \* addresses of peers
    Id,         \* names for connections; one that is removed may be used again
    Required,   \* required_peers
    Configured, \* the whitelist of the configuration
    MaxWhitelist, \* bound: how many peers of the whitelist wait at a time
    Seeds       \* addresses the DNS seeds may return

ASSUME PeerMapAssumption ==
    /\ IsFiniteSet(Id)
    /\ Required \in 1 .. Cardinality(Id)
    /\ Configured \in Seq(Addr)
    /\ MaxWhitelist \in Nat
    /\ Seeds \subseteq Addr

Connection == [addr : Addr, finished : BOOLEAN, told : BOOLEAN]

VARIABLES
    phase,      \* "top" of the loop, "dispatch", "select": waiting for a message,
                \* "stopped"
    behind,     \* NodeState is Behind
    whitelist,  \* PeerMap.whitelist
    store,      \* the table peers: the status of each address, or "absent"
    map,        \* PeerMap.map; told: a Disconnect is in its channel
    heights     \* the connections in the HeightMonitor

vars == <<phase, behind, whitelist, store, map, heights>>

Init ==
    /\ phase = "top"
    /\ behind = TRUE
    /\ whitelist = Configured
    /\ store = [a \in Addr |-> "absent"]
    /\ map = [i \in {} |-> 0]
    /\ heights = {}

-----------------------------------------------------------------------------
(* SqlitePeerDb *)

\* Mutant: each status replaces the row.
UpdateReplacesMutant(rows, S, status) == [a \in Addr |-> IF a \in S THEN status ELSE rows[a]]

\* update: a gossiped address keeps the status it has, another one replaces it.
Update(rows, S, status) ==
    [a \in Addr |-> IF a \notin S THEN rows[a]
                    ELSE IF status = "Gossiped" /\ rows[a] # "absent" THEN rows[a]
                    ELSE status]

\* The rows that random draws from and num_unbanned counts.
Unbanned(rows) == {a \in Addr : rows[a] \in {"Gossiped", "Tried"}}

\* Statements on the table may fail; outside of dispatch that is only reported.
Updated(S, status) == store' \in {store, Update(store, S, status)}

-----------------------------------------------------------------------------
(* The top of the loop *)

Live == {i \in DOMAIN map : ~map[i].finished}

\* send_message and broadcast of a Disconnect
Told(S) == [i \in DOMAIN map |-> IF i \in S THEN [map[i] EXCEPT !.told = TRUE] ELSE map[i]]

\* advance_state: headers get synced, or the tip is stale and all connections
\* are dismissed, or nothing changes here.
AdvanceState ==
    /\ phase = "top"
    /\ phase' = "dispatch"
    /\ \/ behind' \in {behind, FALSE} /\ map' = map
       \/ ~behind /\ map' = Told(Live) /\ UNCHANGED behind
    /\ UNCHANGED <<whitelist, store, heights>>

-----------------------------------------------------------------------------
(* dispatch *)

\* next_required_peers
NextRequiredPeers == IF behind THEN 1 ELSE Required

\* Mutant: keeps connections that have ended.
CleanMapMutant == map

\* clean: what it leaves of the map.
CleanMap == [i \in Live |-> map[i]]

\* Mutant: keeps the heights of connections that have ended.
CleanHeightsMutant == heights

\* clean: retain of the HeightMonitor.
CleanHeights == heights \cap Live

EnoughPeers ==
    /\ Cardinality(Live) >= NextRequiredPeers
    /\ map' = CleanMap
    /\ phase' = "select"
    /\ UNCHANGED <<whitelist, store>>

\* Mutant: current_id is not incremented.
DialSameIdMutant(a, connected) ==
    /\ phase' = "select"
    /\ IF connected
       THEN map' = [j \in DOMAIN CleanMap \cup {CHOOSE i \in Id : TRUE} |->
                     IF j \in DOMAIN CleanMap THEN CleanMap[j]
                     ELSE [addr |-> a, finished |-> FALSE, told |-> FALSE]]
       ELSE map' = CleanMap

\* PeerMap::dispatch; a peer that cannot be reached is only reported.
Dial(a, connected) ==
    /\ phase' = "select"
    /\ IF connected
       THEN \E i \in Id \ DOMAIN CleanMap :
              map' = [j \in DOMAIN CleanMap \cup {i} |->
                        IF j = i THEN [addr |-> a, finished |-> FALSE, told |-> FALSE]
                        ELSE CleanMap[j]]
       ELSE map' = CleanMap

\* next_peer takes a configured peer, once ...
DialConfigured(connected) ==
    /\ whitelist # <<>>
    /\ whitelist' = SubSeq(whitelist, 1, Len(whitelist) - 1)
    /\ Dial(whitelist[Len(whitelist)], connected)
    /\ UNCHANGED store

\* bootstrap asks the seeds when no address is left.
Bootstrapped(found) ==
    IF Unbanned(store) = {} THEN Update(store, found, "Gossiped") ELSE store

\* ... else any address of the store that is not banned.
DialStored(connected) ==
    \E found \in SUBSET Seeds :
        /\ store' = Bootstrapped(found)
        /\ \E a \in Unbanned(store') : Dial(a, connected)
        /\ UNCHANGED whitelist

\* The store is empty after that, or fails: the node ends.
NoPeerFound ==
    /\ whitelist = <<>>
    /\ \E found \in SUBSET Seeds : store' = Bootstrapped(found)
    /\ phase' = "stopped"
    /\ map' = CleanMap
    /\ UNCHANGED whitelist

Connect(connected) ==
    /\ phase = "dispatch"
    /\ Cardinality(Live) < NextRequiredPeers
    /\ DialConfigured(connected) \/ (whitelist = <<>> /\ DialStored(connected))
    /\ heights' = CleanHeights
    /\ UNCHANGED behind

Dispatch ==
    \/ Connect(TRUE)
    \/ Connect(FALSE)
    \/ /\ phase = "dispatch"
       /\ EnoughPeers \/ (Cardinality(Live) < NextRequiredPeers /\ NoPeerFound)
       /\ heights' = CleanHeights
       /\ UNCHANGED behind

-----------------------------------------------------------------------------
(* Messages *)

\* The addresses of a connection that is still in the map.
AddrOf(i) == {map[j].addr : j \in DOMAIN map \cap {i}}

\* handle_version: suits says that the peer's version will do, filters that it
\* serves blocks and filters, which counts once headers are synced.
Suitable(suits, filters) == suits /\ (behind \/ filters)

\* set_height, then handle_version: the peer is tried, or it is dismissed.  A
\* failing count of the addresses ends the node.
Version(i, suits, filters) ==
    /\ phase = "select"
    /\ heights' = heights \cup {i}
    /\ IF Suitable(suits, filters)
       THEN phase' \in {"top", "stopped"} /\ Updated(AddrOf(i), "Tried") /\ UNCHANGED map
       ELSE phase' = "top" /\ map' = Told({i}) /\ UNCHANGED store
    /\ UNCHANGED <<behind, whitelist>>

\* handle_new_addrs
HandleNewAddrs(S) ==
    /\ phase = "select"
    /\ phase' = "top"
    /\ Updated(S, "Gossiped")
    /\ UNCHANGED <<behind, whitelist, map, heights>>

\* A Disconnect is sent to the peer, or to all of them after filter headers.
Disconnect(i, all) == map' = Told(IF all THEN Live ELSE {i})

\* Headers, filter headers, a filter or a block that cannot be used: most get
\* the peer banned, a conflict and an undecodable filter do not.
HandleBadMessage(i, banned, all) ==
    /\ phase = "select"
    /\ phase' = "top"
    /\ IF banned THEN Updated(AddrOf(i), "Ban") ELSE UNCHANGED store
    /\ Disconnect(i, all)
    /\ UNCHANGED <<behind, whitelist, heights>>

\* add_trusted_peer, for the client
AddPeer(a) ==
    /\ phase = "select"
    /\ phase' = "top"
    /\ Len(whitelist) < MaxWhitelist
    /\ whitelist' = Append(whitelist, a)
    /\ UNCHANGED <<behind, store, map, heights>>

\* Shutdown of the client
Shutdown ==
    /\ phase = "select"
    /\ phase' = "stopped"
    /\ UNCHANGED <<behind, whitelist, store, map, heights>>

\* Any other message, or LOOP_TIMEOUT; an inventory puts the node Behind.
Other ==
    /\ phase = "select"
    /\ phase' = "top"
    /\ behind' \in {behind, TRUE}
    /\ UNCHANGED <<whitelist, store, map, heights>>

Message ==
    \/ \E i \in Id, suits \in BOOLEAN, filters \in BOOLEAN : Version(i, suits, filters)
    \/ \E S \in SUBSET Addr : HandleNewAddrs(S)
    \/ \E i \in Id, banned \in BOOLEAN, all \in BOOLEAN : HandleBadMessage(i, banned, all)
    \/ \E a \in Addr : AddPeer(a)
    \/ Shutdown
    \/ Other

-----------------------------------------------------------------------------
(* Peer tasks *)

Finish(i) ==
    /\ i \in Live
    /\ map' = [map EXCEPT ![i].finished = TRUE]
    /\ UNCHANGED <<phase, behind, whitelist, store, heights>>

\* The task reads the Disconnect.
Close(i) == i \in Live /\ map[i].told /\ Finish(i)

\* The peer disconnects, times out, sends what was not asked for, or the
\* connection has lasted max_connection_time.
Leave(i) == i \in Live /\ ~map[i].told /\ Finish(i)

Next == AdvanceState \/ Dispatch \/ Message \/ \E i \in Id : Close(i) \/ Leave(i)

Spec == Init /\ [][Next]_vars

\* The loop comes round at least every LOOP_TIMEOUT, tasks read their channel,
\* and some of the peers that are tried over and over can be reached.
Fairness ==
    /\ WF_vars(AdvanceState)
    /\ WF_vars(Dispatch)
    /\ WF_vars(Message)
    /\ SF_vars(Connect(TRUE))
    /\ \A i \in Id : WF_vars(Close(i))

FairSpec == Spec /\ Fairness

-----------------------------------------------------------------------------
(* Properties *)

\* Phases, rows, connections and heights have their types.
TypeOK ==
    /\ phase \in {"top", "dispatch", "select", "stopped"}
    /\ behind \in BOOLEAN
    /\ whitelist \in Seq(Addr)
    /\ store \in [Addr -> {"absent", "Gossiped", "Tried", "Ban"}]
    /\ DOMAIN map \subseteq Id /\ map \in [DOMAIN map -> Connection]
    /\ heights \subseteq Id

\* Whenever the node waits for a message, the heights it compares its chain with
\* are those of connections it has: a version message that is handled after its
\* connection was removed leaves no height behind for long.
HeightsOfConnections == phase = "select" => heights \subseteq DOMAIN map

\* Gossip and the seeds never lift a ban: an address loses it only by a complete
\* handshake on a connection to it that the map still has.
OnlyHandshakeLiftsBan ==
    [][\A a \in Addr : store[a] = "Ban" /\ store'[a] # "Ban" =>
            store'[a] = "Tried" /\ \E i \in DOMAIN map : map[i].addr = a]_vars

\* A connection that was sent a Disconnect is closed and removed from the map
\* (its name may be in use again), unless the node stops.
Dismissed ==
    \A i \in Id :
        (i \in DOMAIN map /\ map[i].told)
            ~> (phase = "stopped" \/ i \notin DOMAIN map \/ ~map[i].told)

\* If from some time on no connection ends, the node has the connections that it
\* requires again and again, whatever was banned or could not be reached before.
ConnectionsReached ==
    <>[][Live \subseteq Live']_vars =>
        []<>(phase = "stopped" \/ Cardinality(Live) >= NextRequiredPeers)
=============================================================================
