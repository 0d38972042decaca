----------------------------- MODULE EnetServer -----------------------------
(***************************************************************************)
(* The server's side of its connections: the threads that ServerHost and   *)
(* ServerStandard run around an enetpp::server, and the IDs they give to   *)
(* clients.                                                                *)
(*                                                                         *)
(*   enetpp thread   sends what is in _packet_queue, then captures enet's  *)
(*                   events: gives a new peer its ID, enters it into       *)
(*                   _thread_peer_map, queues CONNECT / RECEIVE /          *)
(*                   DISCONNECT events;                                    *)
(*   network thread  consume_events: takes the queued events as a batch,   *)
(*                   keeps _connected_clients, pushes one packet for each; *)
(*   main thread     Server::update: drains the pushed packets under the   *)
(*                   mutex, its handlers send packets and return the IDs   *)
(*                   of clients that have gone to free_ids.                *)
(*                                                                         *)
(* A connection c \in Conns stands for one peer from its CONNECT to its    *)
(* DISCONNECT.  It is never used twice; its ID may be.                     *)
(***************************************************************************)
EXTENDS Integers, Sequences, FiniteSets, Functions, SequenceFilter

CONSTANTS
  Conns,     \* the connections
  MaxData,   \* bound: packets that clients send
  MaxSends   \* bound: packets that the main thread sends on its own account

ASSUME BoundsAssumption == MaxData \in Nat /\ MaxSends \in Nat

FirstID == 2    \* 1 is the host's own client

VARIABLES
  conn,       \* conn[c]: "out", "in" (enet: CONNECTED) or "gone"
  id,         \* id[c]: ClientInfo::id, 0 before the connection
  next_uid,   \* ServerHost::next_uid
  free_ids,   \* ServerHost::free_ids, a FIFO
  peer_map,   \* _thread_peer_map: a function from IDs to connections
  sending,    \* the enetpp thread is at send_queued_packets_in_thread
  queue,      \* _packet_queue
  events,     \* _event_queue
  batch,      \* _event_queue_copy
  connected,  \* _connected_clients
  pushing,    \* the packet that the network thread is about to push, if any
  packets,    \* Server::packets
  draining,   \* the main thread holds Server::mutex in Server::update
  seen,       \* history: what main has seen of c: "new", "connected", "freed"
  inbox,      \* inbox[c]: the packets enet has delivered to c
  data, sends \* counters for MaxData and MaxSends

vars == <<conn, id, next_uid, free_ids, peer_map, sending, queue, events, batch,
          connected, pushing, packets, draining, seen, inbox, data, sends>>
enetVars == <<conn, id, next_uid, peer_map, inbox>>
netVars == <<batch, connected, pushing>>
mainVars == <<draining, seen, sends>>

(* An event, or the packet made of it.  c is the ClientInfo it points to.  *)
Event(kind, c) == [kind |-> kind, c |-> c]

Kinds == {"CONNECTED", "DATA", "DISCONNECTED"}
Events == [kind : Kinds, c : Conns]

(* A queued packet is addressed by ID; `for' records whom the caller meant.*)
Queued(k, what, c) == [to |-> k, what |-> what, for |-> c]

Init ==
  /\ conn = [c \in Conns |-> "out"]
  /\ id = [c \in Conns |-> 0]
  /\ next_uid = FirstID
  /\ free_ids = <<>>
  /\ peer_map = <<>>
  /\ sending = TRUE
  /\ queue = <<>>
  /\ events = <<>>
  /\ batch = <<>>
  /\ connected = {}
  /\ pushing = <<>>
  /\ packets = <<>>
  /\ draining = FALSE
  /\ seen = [c \in Conns |-> "new"]
  /\ inbox = [c \in Conns |-> <<>>]
  /\ data = 0
  /\ sends = 0

-----------------------------------------------------------------------------
(* The enetpp thread.                                                      *)

(* What is queued for c: whoever the map holds under the packet's ID gets  *)
(* it; without an entry the packet is dropped.                             *)
Addressed(c) ==
  {q \in Range(queue) : q.to \in DOMAIN peer_map /\ peer_map[q.to] = c /\ conn[c] = "in"}

SendQueued ==
  /\ sending
  /\ sending' = FALSE
  /\ queue' = <<>>
  /\ inbox' = [c \in Conns |-> inbox[c] \o Filter(queue, Addressed(c))]
  /\ UNCHANGED <<conn, id, next_uid, free_ids, peer_map, events, netVars, packets, mainVars, data>>

EndCapture ==
  /\ ~sending
  /\ sending' = TRUE
  /\ UNCHANGED <<enetVars, free_ids, queue, events, netVars, packets, mainVars, data>>

(* Faulty: one more than the clients that are connected now.               *)
UIDCounted(c) ==
  /\ id' = [id EXCEPT ![c] = FirstID + Cardinality({d \in Conns : conn[d] = "in"})]
  /\ next_uid' = IF id'[c] < next_uid THEN next_uid ELSE id'[c] + 1
  /\ UNCHANGED free_ids

(* Faulty: counts down, as Scenegraph::localID does.                       *)
UIDCountedDown(c) ==
  /\ id' = [id EXCEPT ![c] = next_uid]
  /\ next_uid' = next_uid - 1
  /\ UNCHANGED free_ids

(* Faulty: front() of the free list without pop_front().                   *)
UIDNotPopped(c) ==
  /\ id' = [id EXCEPT ![c] = IF free_ids = <<>> THEN next_uid ELSE Head(free_ids)]
  /\ next_uid' = IF free_ids = <<>> THEN next_uid + 1 ELSE next_uid
  /\ UNCHANGED free_ids

GetNextUID(c) ==
  \/ /\ free_ids = <<>>
     /\ id' = [id EXCEPT ![c] = next_uid]
     /\ next_uid' = next_uid + 1
     /\ UNCHANGED free_ids
  \/ /\ free_ids # <<>>
     /\ id' = [id EXCEPT ![c] = Head(free_ids)]
     /\ free_ids' = Tail(free_ids)
     /\ UNCHANGED next_uid

(* getNextUID, then the packet that tells the client its ID, then the map, *)
(* then the event.                                                         *)
HandleConnect(c) ==
  /\ ~sending
  /\ conn[c] = "out"
  /\ conn' = [conn EXCEPT ![c] = "in"]
  /\ GetNextUID(c)
  /\ queue' = Append(queue, Queued(id'[c], "CLIENT_INITIALIZED", c))
  /\ peer_map' = [k \in DOMAIN peer_map \cup {id'[c]} |-> IF k = id'[c] THEN c ELSE peer_map[k]]
  /\ events' = Append(events, Event("CONNECTED", c))
  /\ UNCHANGED <<sending, netVars, packets, mainVars, inbox, data>>

HandleReceive(c) ==
  /\ ~sending
  /\ conn[c] = "in"
  /\ data < MaxData
  /\ data' = data + 1
  /\ events' = Append(events, Event("DATA", c))
  /\ UNCHANGED <<enetVars, free_ids, sending, queue, netVars, packets, mainVars>>

(* Faulty: the peer's entry stays in the map.                              *)
MapKept(k) == peer_map

MapWithout(k) == [j \in DOMAIN peer_map \ {k} |-> peer_map[j]]

HandleDisconnect(c) ==
  /\ ~sending
  /\ conn[c] = "in"
  /\ conn' = [conn EXCEPT ![c] = "gone"]
  /\ peer_map' = MapWithout(id[c])
  /\ events' = Append(events, Event("DISCONNECTED", c))
  /\ UNCHANGED <<id, next_uid, inbox, free_ids, sending, queue, netVars, packets, mainVars, data>>

-----------------------------------------------------------------------------
(* The network thread: processPackets -> consume_events.                   *)

(* Faulty: the events are copied, not swapped out.                         *)
TakeCopy ==
  /\ batch = <<>> /\ pushing = <<>> /\ events # <<>>
  /\ batch' = events
  /\ UNCHANGED <<enetVars, free_ids, sending, queue, events, connected, pushing, packets, mainVars, data>>

TakeBatch ==
  /\ batch = <<>>
  /\ pushing = <<>>
  /\ events # <<>>
  /\ batch' = events
  /\ events' = <<>>
  /\ UNCHANGED <<enetVars, free_ids, sending, queue, connected, pushing, packets, mainVars, data>>

(* _connected_clients changes before the callback pushes the packet.       *)
ConsumeEvent ==
  /\ batch # <<>>
  /\ pushing = <<>>
  /\ LET e == Head(batch) IN
       /\ pushing' = <<e>>
       /\ connected' = CASE e.kind = "CONNECTED" -> connected \cup {e.c}
                         [] e.kind = "DISCONNECTED" -> connected \ {e.c}
                         [] OTHER -> connected
  /\ batch' = Tail(batch)
  /\ UNCHANGED <<enetVars, free_ids, sending, queue, events, packets, mainVars, data>>

(* Faulty: the newest packet goes to the front.                            *)
PushFront ==
  /\ pushing # <<>> /\ ~draining
  /\ packets' = pushing \o packets
  /\ pushing' = <<>>
  /\ UNCHANGED <<enetVars, free_ids, sending, queue, events, batch, connected, mainVars, data>>

PushPacket ==
  /\ pushing # <<>>
  /\ ~draining
  /\ packets' = packets \o pushing
  /\ pushing' = <<>>
  /\ UNCHANGED <<enetVars, free_ids, sending, queue, events, batch, connected, mainVars, data>>

-----------------------------------------------------------------------------
(* The main thread.                                                        *)

StartDrain ==
  /\ ~draining
  /\ draining' = TRUE
  /\ UNCHANGED <<enetVars, free_ids, sending, queue, events, netVars, packets, seen, sends, data>>

EndDrain ==
  /\ draining
  /\ packets = <<>>
  /\ draining' = FALSE
  /\ UNCHANGED <<enetVars, free_ids, sending, queue, events, netVars, packets, seen, sends, data>>

Handling(kind, c) ==
  /\ draining
  /\ packets # <<>>
  /\ Head(packets) = Event(kind, c)
  /\ packets' = Tail(packets)
  /\ UNCHANGED <<enetVars, sending, events, netVars, draining, sends, data>>

(* The Scenegraph answers with a snapshot, addressed to the sender's ID.   *)
HandleConnected(c) ==
  /\ Handling("CONNECTED", c)
  /\ seen' = [seen EXCEPT ![c] = "connected"]
  /\ queue' = Append(queue, Queued(id[c], "SNAPSHOT", c))
  /\ UNCHANGED free_ids

HandleData(c) ==
  /\ Handling("DATA", c)
  /\ UNCHANGED <<seen, queue, free_ids>>

(* Faulty: the ID of a client that has gone is not returned.               *)
IDNotReturned(c) ==
  /\ Handling("DISCONNECTED", c)
  /\ seen' = [seen EXCEPT ![c] = "freed"]
  /\ UNCHANGED <<free_ids, queue>>

HandleDisconnected(c) ==
  /\ Handling("DISCONNECTED", c)
  /\ seen' = [seen EXCEPT ![c] = "freed"]
  /\ free_ids' = Append(free_ids, id[c])
  /\ UNCHANGED queue

(* send_packet_to_all_if: one entry for each client in _connected_clients. *)
Broadcast ==
  /\ sends < MaxSends
  /\ sends' = sends + 1
  /\ \E order \in {q \in [1..Cardinality(connected) -> connected] : Range(q) = connected} :
       queue' = queue \o [i \in DOMAIN order |-> Queued(id[order[i]], "BROADCAST", order[i])]
  /\ UNCHANGED <<enetVars, free_ids, sending, events, netVars, packets, draining, seen, data>>

-----------------------------------------------------------------------------
EnetThread ==
  \/ SendQueued \/ EndCapture
  \/ \E c \in Conns : HandleConnect(c) \/ HandleReceive(c) \/ HandleDisconnect(c)

NetworkThread == TakeBatch \/ ConsumeEvent \/ PushPacket

MainHandle == \E c \in Conns : HandleConnected(c) \/ HandleData(c) \/ HandleDisconnected(c)

MainThread == StartDrain \/ EndDrain \/ MainHandle \/ Broadcast

Next == EnetThread \/ NetworkThread \/ MainThread

Spec == Init /\ [][Next]_vars

(* The threads keep running: the network thread gets the mutex in the end, *)
(* since a drain holds it for a fraction of a frame only.  Whether peers   *)
(* connect, send and leave is up to them.                                  *)
Fairness ==
  /\ WF_vars(SendQueued) /\ WF_vars(EndCapture)
  /\ WF_vars(TakeBatch) /\ WF_vars(ConsumeEvent) /\ SF_vars(PushPacket)
  /\ WF_vars(StartDrain) /\ WF_vars(EndDrain) /\ WF_vars(MainHandle)

FairSpec == Spec /\ Fairness
-----------------------------------------------------------------------------
(* Properties.                                                             *)

QueuedPackets ==
  [to : Nat, what : {"CLIENT_INITIALIZED", "SNAPSHOT", "BROADCAST"}, for : Conns]

(* The shape of the state.                                                 *)
ServerTypeOK ==
  /\ conn \in [Conns -> {"out", "in", "gone"}]
  /\ id \in [Conns -> Nat]
  /\ next_uid \in Nat /\ next_uid >= FirstID
  /\ free_ids \in Seq(Nat)
  /\ peer_map \in [DOMAIN peer_map -> Conns]
  /\ events \in Seq(Events)
  /\ batch \in Seq(Events)
  /\ pushing \in Seq(Events)
  /\ packets \in Seq(Events)
  /\ connected \subseteq Conns
  /\ seen \in [Conns -> {"new", "connected", "freed"}]

TypeOK ==
  /\ ServerTypeOK
  /\ queue \in Seq(QueuedPackets)
  /\ inbox \in [Conns -> Seq(QueuedPackets)]
  /\ sending \in BOOLEAN
  /\ draining \in BOOLEAN
  /\ data \in 0..MaxData
  /\ sends \in 0..MaxSends

(* From its CONNECT until the main thread has returned its ID.             *)
Holders == {c \in Conns : conn[c] # "out" /\ seen[c] # "freed"}

(* No two clients have the same ID, even while the server still has        *)
(* packets to handle of the one that has gone: senderID and ownerID mean   *)
(* one client.  The ID goes back through the network thread's queue and    *)
(* the main thread's before getNextUID may give it again.                  *)
UniqueIDs == \A c, d \in Holders : c # d => id[c] # id[d]

(* No ID is lost or free twice: each one that was ever given is either     *)
(* held by a client or once in free_ids.                                   *)
IDsAccounted ==
  /\ Range(free_ids) \cup {id[c] : c \in Holders} = FirstID..(next_uid - 1)
  /\ Range(free_ids) \cap {id[c] : c \in Holders} = {}
  /\ \A i, j \in DOMAIN free_ids : i # j => free_ids[i] # free_ids[j]

(* _thread_peer_map holds exactly the connected peers, each under its ID   *)
(* (the assertions of server.h 312-313): entering a peer under a reused ID *)
(* never takes the place of another.                                       *)
PeerMapExact ==
  /\ \A c \in Conns : conn[c] = "in" => id[c] \in DOMAIN peer_map /\ peer_map[id[c]] = c
  /\ \A k \in DOMAIN peer_map : conn[peer_map[k]] = "in" /\ id[peer_map[k]] = k

(* What the main thread has still to handle, oldest first.                 *)
Stream == packets \o pushing \o batch \o events

(* Main sees CONNECTED, then data, then DISCONNECTED of each connection,   *)
(* once each, and nothing of it after its ID has been returned, although   *)
(* three threads pass the events on.                                       *)
WellBracketed ==
  /\ \A i \in DOMAIN Stream :
       /\ conn[Stream[i].c] # "out" /\ seen[Stream[i].c] # "freed"
       /\ Stream[i].kind = "CONNECTED" => seen[Stream[i].c] = "new"
       /\ Stream[i].kind = "DISCONNECTED" => conn[Stream[i].c] = "gone"
  /\ \A i, j \in DOMAIN Stream :
       i < j /\ Stream[i].c = Stream[j].c =>
         Stream[i].kind # "DISCONNECTED" /\ Stream[j].kind # "CONNECTED"
  /\ \A c \in Conns :
       /\ seen[c] = "new" /\ conn[c] # "out" => Event("CONNECTED", c) \in Range(Stream)
       /\ seen[c] # "freed" /\ conn[c] = "gone" => Event("DISCONNECTED", c) \in Range(Stream)
       /\ conn[c] = "out" => seen[c] = "new"
       /\ seen[c] = "freed" => conn[c] = "gone"

(* A DISCONNECT that consume_events takes is of a client in                *)
(* _connected_clients, which is there once (the assertion of server.h      *)
(* 155): the object it deletes is no longer reachable from the vector.     *)
DisconnectFindsClient ==
  batch # <<>> =>
    /\ Head(batch).kind = "DISCONNECTED" => Head(batch).c \in connected
    /\ Head(batch).kind = "CONNECTED" => Head(batch).c \notin connected

Initialized(c) == Queued(id[c], "CLIENT_INITIALIZED", c)

(* Every packet a client receives after the one that tells it its ID was   *)
(* meant for it, and that one is the first of its own.  What was queued    *)
(* for an earlier holder of the ID can only come before it.                *)
OwnAfterInitialized ==
  \A c \in Conns : \A i \in DOMAIN inbox[c] :
    /\ inbox[c][i] = Initialized(c) => \A j \in i..Len(inbox[c]) : inbox[c][j].for = c
    /\ inbox[c][i].for = c => \E j \in 1..i : inbox[c][j] = Initialized(c)

(* The inductive invariant behind UniqueIDs.                               *)
IInv == ServerTypeOK /\ WellBracketed /\ UniqueIDs /\ IDsAccounted /\ PeerMapExact

(* The ID of a client that has gone is free again in the end, or another   *)
(* client has it by then (ServerHost.cpp 26-34).                           *)
IDsComeBack ==
  \A c \in Conns :
    (conn[c] = "gone") ~>
      (id[c] \in Range(free_ids) \/ \E d \in Holders \ {c} : id[d] = id[c])

(* server.h 35: "mapping of uid to peer so that sending packets to         *)
(* specific peers is safe": a client gets what was queued for it and       *)
(* nothing else.                                                           *)
OnlyOwnPackets == \A c \in Conns : \A i \in DOMAIN inbox[c] : inbox[c][i].for = c

=============================================================================
