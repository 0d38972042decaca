----------------------------- MODULE Scenegraph -----------------------------
(***************************************************************************)
(* Entity replication of EnkiNet: the Scenegraph of a listen server (a     *)
(* ServerHost and its ClientHost in one process) and those of the remote   *)
(* clients (ClientStandard) connected to it.                               *)
(*                                                                         *)
(* The host has a main thread and a network thread.  The main thread       *)
(* repeats: Server::update drains the packet queue under its mutex,        *)
(* NetworkManager::update may emit a network tick, Scenegraph::update      *)
(* removes orphans and marked entities.  The network thread moves events   *)
(* of the enetpp server into that queue.  Game code creates, mutates and   *)
(* deletes entities from packet handlers and from Entity::update, so at    *)
(* any point of a main loop.                                               *)
(*                                                                         *)
(* A client's channel is reliable and ordered in both directions (every    *)
(* packet is sent on channel 0 with ENET_PACKET_FLAG_RELIABLE).  A client  *)
(* ID is used by one connection only; reuse of IDs is the subject of       *)
(* module EnetServer.  The name of an entity is abstracted into its type,  *)
(* what serializeOnTick / serializeOnConnection write into a number.       *)
(***************************************************************************)
EXTENDS Naturals, Sequences, FiniteSets

CONSTANTS
  Host,       \* the listen server's own client, ID 1 in the code
  Remotes,    \* the remote clients
  Types,      \* the entity types with a registered builder
  Children,   \* Children[t]: the types of t's registered children
  Calls,      \* which of "create", "delete", "mutate", "tick" the instance makes
  MaxCalls,   \* bound: how many of them
  Leavers,    \* bound: the clients that may leave
  MaxQueue,   \* bound: packets under way to the host when a client sends
  WatchedIDs  \* the entities whose deletion DeletionCompletes follows

ASSUME HostAssumption == Host \notin Remotes
ASSUME ChildrenAssumption ==
  /\ Children \in [Types -> Seq(Types)]
  \* One level of children, as Asteroids' Player has; Pong's Paddle has three.
  /\ \A t \in Types : \A i \in 1..Len(Children[t]) : Children[Children[t][i]] = <<>>

Clients == {Host} \cup Remotes

(* EntityInfo: the part every replica of an entity has to agree on.        *)
Info == [type : Types, owner : Clients, parent : Nat]

VARIABLES
  ents,       \* ents[c]: the entities of c's Scenegraph, a function on IDs
  born,       \* history: born[i] is the info that ID i was created with; the
              \* server's counter Scenegraph::ID is Len(born) + 1
  link,       \* link[r]: "out" (never connected), "in" or "gone"
  up,         \* up[r]: packets of r the host's network thread has not consumed
  down,       \* down[r]: packets sent to r that r has not handled
  net,        \* the packet the network thread is about to push, if any
  connected,  \* enetpp::server::_connected_clients
  packets,    \* Server::packets
  phase,      \* the main thread's place in its loop
  joined,     \* history: clients whose CONNECTED packet the host handled
  ghosts,     \* history: <<r, i>>: r's snapshot held i, already marked
  calls       \* number of calls made by game code

vars == <<ents, born, link, up, down, net, connected, packets, phase, joined, ghosts, calls>>

IDs == 1..Len(born)

Entity == [info : Info, val : Nat, remove : BOOLEAN]

(* Every entity as its builder constructs it.                              *)
Fresh(info, v) == [info |-> info, val |-> v, remove |-> FALSE]

Put(e, i, x) == [j \in DOMAIN e \cup {i} |-> IF j = i THEN x ELSE e[j]]

MarkIn(e, S) == [j \in DOMAIN e |-> IF j \in S THEN [e[j] EXCEPT !.remove = TRUE] ELSE e[j]]

Marked(e) == {i \in DOMAIN e : e[i].remove}

(* Scenegraph::update treats an entity as an orphan when it has a parent   *)
(* that its own container does not hold.                                   *)
Orphans(e) == {i \in DOMAIN e : e[i].info.parent # 0 /\ e[i].info.parent \notin DOMAIN e}

Erase(e, S) == [i \in DOMAIN e \ S |-> e[i]]

(* The container is a std::map: iterated by increasing ID, and by          *)
(* decreasing ID in sendAllNetworkedEntitiesToClient.                      *)
Ascending(S) ==
  {q \in [1..Cardinality(S) -> S] : \A i, j \in DOMAIN q : i < j => q[i] < q[j]}
Descending(S) ==
  {q \in [1..Cardinality(S) -> S] : \A i, j \in DOMAIN q : i < j => q[i] > q[j]}

-----------------------------------------------------------------------------
(* Packets.  A request to create carries no ID: the server assigns it.     *)
Connected == [kind |-> "connected"]
Disconnected == [kind |-> "disconnected"]
CreateRequest(t) == [kind |-> "request", type |-> t]

(* Faulty: the owner is not the client that asked for the entity.          *)
CreationOwnedByHost(i, info) ==
  [kind |-> "create", id |-> i, info |-> [info EXCEPT !.owner = Host]]

Creation(i, info) == [kind |-> "create", id |-> i, info |-> info]

(* Faulty: the snapshot claims the entity for the host.                    *)
SnapshotOwnedByHost(i, x) ==
  [kind |-> "snapshot", id |-> i, info |-> [x.info EXCEPT !.owner = Host], val |-> x.val]

(* Faulty: serializeOnConnection is not called.                            *)
SnapshotUnserialized(i, x) == [kind |-> "snapshot", id |-> i, info |-> x.info, val |-> 0]

Snapshot(i, x) == [kind |-> "snapshot", id |-> i, info |-> x.info, val |-> x.val]
Update(i, x) == [kind |-> "update", id |-> i, info |-> x.info, val |-> x.val]
Deletion(i) == [kind |-> "delete", id |-> i]

(* Client::on_packet_received: the effect of one packet on a replica e.    *)
Apply(e, m) ==
  CASE m.kind = "create" -> Put(e, m.id, Fresh(m.info, 0))
    [] m.kind = "snapshot" -> Put(e, m.id, Fresh(m.info, m.val))
    [] m.kind = "update" /\ m.id \in DOMAIN e /\ e[m.id].info = m.info ->
         [e EXCEPT ![m.id].val = m.val]
    [] m.kind = "delete" -> MarkIn(e, {m.id})
    [] OTHER -> e

(* ServerHost::sendPacketTo...: enetpp drops what is sent to a peer that   *)
(* is no longer connected.                                                 *)
Send(S, q) ==
  down' = [r \in Remotes |-> IF r \in S /\ link[r] = "in" THEN down[r] \o q ELSE down[r]]

(* createNetworkedEntity on the server: the parent takes the first ID, the *)
(* children the next ones; the children are created and sent first.  The   *)
(* host's own client handles every packet before the call returns.         *)
CreateNetworked(t, owner) ==
  LET base == Len(born) + 1
      kids == Children[t]
      kid(i) == [type |-> kids[i], owner |-> owner, parent |-> base]
      top == [type |-> t, owner |-> owner, parent |-> 0]
      born1 == born \o <<top>> \o [i \in 1..Len(kids) |-> kid(i)]
      creations == [i \in 1..Len(kids) |-> Creation(base + i, born1[base + i])]
                     \o <<Creation(base, born1[base])>>
  IN /\ born' = born1
     /\ ents' = [ents EXCEPT ![Host] =
          [i \in DOMAIN @ \cup base..Len(born1) |->
             IF i \in base..Len(born1) THEN Fresh(born1[i], 0) ELSE @[i]]]
     /\ Send(connected, creations)

(* sendAllNetworkedEntitiesToClient: the whole container, marked entities  *)
(* included.                                                               *)
SnapshotsOf(S) ==
  {[i \in 1..Len(ids) |-> Snapshot(ids[i], ents[Host][ids[i]])] : ids \in Descending(S)}

(* Faulty: the iteration ends one entity early.                            *)
SnapshotsButFirst == SnapshotsOf(DOMAIN ents[Host] \ {1})

Snapshots == SnapshotsOf(DOMAIN ents[Host])

(* Faulty: the deletion stays with the host.                               *)
DeleteSilently(ids) == UNCHANGED down

(* An ENTITY_DELETION broadcast for each of the IDs.                       *)
BroadcastDeletions(ids) == Send(connected, [i \in 1..Len(ids) |-> Deletion(ids[i])])
-----------------------------------------------------------------------------
Init ==
  /\ ents = [c \in Clients |-> <<>>]
  /\ born = <<>>
  /\ link = [r \in Remotes |-> "out"]
  /\ up = [r \in Remotes |-> <<>>]
  /\ down = [r \in Remotes |-> <<>>]
  /\ net = <<>>
  /\ connected = {}
  /\ packets = <<>>
  /\ phase = "idle"
  /\ joined = {}
  /\ ghosts = {}
  /\ calls = 0

(* The enet connection of r is established: the server's enetpp thread has *)
(* queued the CONNECT event.                                               *)
Join(r) ==
  /\ link[r] = "out"
  /\ link' = [link EXCEPT ![r] = "in"]
  /\ up' = [up EXCEPT ![r] = <<Connected>>]
  /\ UNCHANGED <<ents, born, down, net, connected, packets, phase, joined, ghosts, calls>>

(* One more call of game code, or one more network tick.                  *)
Call(op) ==
  /\ op \in Calls
  /\ calls < MaxCalls
  /\ calls' = calls + 1

(* r goes away, by itself or by a timeout.  What it sent last may be lost, *)
(* and nothing that is under way to it arrives.                            *)
Leave(r) ==
  /\ r \in Leavers
  /\ link[r] = "in"
  /\ link' = [link EXCEPT ![r] = "gone"]
  /\ \E k \in 0..Len(up[r]) :
       /\ Connected \in {up[r][i] : i \in 1..Len(up[r])} => k > 0
       /\ up' = [up EXCEPT ![r] = Append(SubSeq(@, 1, k), Disconnected)]
  /\ down' = [down EXCEPT ![r] = <<>>]
  /\ ents' = [ents EXCEPT ![r] = <<>>]
  /\ UNCHANGED <<born, net, connected, packets, phase, joined, ghosts, calls>>

-----------------------------------------------------------------------------
(* The host's network thread: ServerHost::processPackets.                  *)

(* consume_events takes one event.  _connected_clients changes here, before *)
(* the callback pushes the packet.                                         *)
NetConsume(r) ==
  /\ net = <<>>
  /\ up[r] # <<>>
  /\ LET m == Head(up[r]) IN
       /\ net' = <<[from |-> r, msg |-> m]>>
       /\ connected' = CASE m.kind = "connected" -> connected \cup {r}
                         [] m.kind = "disconnected" -> connected \ {r}
                         [] OTHER -> connected
  /\ up' = [up EXCEPT ![r] = Tail(@)]
  /\ UNCHANGED <<ents, born, link, down, packets, phase, joined, ghosts, calls>>

(* Server::pushPacket waits for the mutex that Server::update holds for    *)
(* the whole of its drain.                                                 *)
NetPush ==
  /\ net # <<>>
  /\ phase # "drain"
  /\ packets' = packets \o net
  /\ net' = <<>>
  /\ UNCHANGED <<ents, born, link, up, down, connected, phase, joined, ghosts, calls>>

-----------------------------------------------------------------------------
(* The host's main thread: Server::update.                                 *)

StartDrain ==
  /\ phase = "idle"
  /\ phase' = "drain"
  /\ UNCHANGED <<ents, born, link, up, down, net, connected, packets, joined, ghosts, calls>>

(* The first packet is of this kind and from this client; it is popped.    *)
Handling(r, m) ==
  /\ phase = "drain"
  /\ packets # <<>>
  /\ Head(packets) = [from |-> r, msg |-> m]
  /\ packets' = Tail(packets)
  /\ UNCHANGED <<link, up, net, connected, phase, calls>>

HandleConnected(r) ==
  /\ Handling(r, Connected)
  /\ \E q \in Snapshots : Send({r}, q)
  /\ joined' = joined \cup {r}
  /\ ghosts' = ghosts \cup {<<r, i>> : i \in Marked(ents[Host])}
  /\ UNCHANGED <<ents, born>>

(* Scenegraph does not react; what game code does then is HostDelete.      *)
HandleDisconnected(r) ==
  /\ Handling(r, Disconnected)
  /\ joined' = joined \ {r}
  /\ UNCHANGED <<ents, born, down, ghosts>>

(* The sender becomes the owner, whatever the request says.  Its parentID  *)
(* is passed on in the code; the requests of clients have none.            *)
HandleRequest(r) ==
  \E t \in Types :
    /\ Handling(r, CreateRequest(t))
    /\ CreateNetworked(t, r)
    /\ UNCHANGED <<joined, ghosts>>

(* Faulty: the sender gets its own update back.                            *)
EveryClient(r) == connected

(* sendPacketToAllExceptOneClient.                                         *)
OtherClients(r) == connected \ {r}

(* Forwarded to everyone but the sender; the host's own replica follows.   *)
HandleUpdate(r) ==
  /\ packets # <<>>
  /\ LET m == Head(packets).msg IN
       /\ m.kind = "update"
       /\ Handling(r, m)
       /\ Send(OtherClients(r), <<m>>)
       /\ ents' = [ents EXCEPT ![Host] = Apply(@, m)]
  /\ UNCHANGED <<born, joined, ghosts>>

(* Faulty: the client that asked is left out of the broadcast.             *)
DeletionNotReturned(r) ==
  \E i \in IDs :
    /\ Handling(r, Deletion(i))
    /\ IF i \in DOMAIN ents[Host] /\ ents[Host][i].info.owner = r
       THEN /\ Send(connected \ {r}, <<Deletion(i)>>)
            /\ ents' = [ents EXCEPT ![Host] = MarkIn(@, {i})]
       ELSE UNCHANGED <<ents, down>>
    /\ UNCHANGED <<born, joined, ghosts>>

(* Only the owner's request is carried out.                                *)
HandleDeletion(r) ==
  \E i \in IDs :
    /\ Handling(r, Deletion(i))
    /\ IF i \in DOMAIN ents[Host] /\ ents[Host][i].info.owner = r
       THEN /\ BroadcastDeletions(<<i>>)
            /\ ents' = [ents EXCEPT ![Host] = MarkIn(@, {i})]
       ELSE UNCHANGED <<ents, down>>
    /\ UNCHANGED <<born, joined, ghosts>>

(* The drain ends.  When the send timer has elapsed the tick serializes    *)
(* each entity the host owns; ClientHost::sendPacket hands it straight to  *)
(* the server's handler, which forwards it to the remote clients.          *)
EndDrain ==
  /\ phase = "drain"
  /\ packets = <<>>
  /\ phase' = "update"
  /\ \/ UNCHANGED <<down, calls>>
     \/ /\ Call("tick")
        /\ \E ids \in Ascending({i \in DOMAIN ents[Host] : ents[Host][i].info.owner = Host}) :
             Send(connected, [i \in 1..Len(ids) |-> Update(ids[i], ents[Host][ids[i]])])
  /\ UNCHANGED <<ents, born, link, up, net, connected, packets, joined, ghosts>>

(* Faulty: the host erases its orphans and tells nobody.                   *)
SceneUpdateSilently ==
  /\ phase = "update"
  /\ phase' = "idle"
  /\ ents' = [ents EXCEPT ![Host] = Erase(@, Marked(@) \cup Orphans(@))]
  /\ UNCHANGED <<born, link, up, down, net, connected, packets, joined, ghosts, calls>>

(* Scenegraph::update: orphans are deleted for everyone, then every marked *)
(* entity is erased.                                                       *)
SceneUpdate ==
  /\ phase = "update"
  /\ phase' = "idle"
  /\ \E ids \in Ascending(Orphans(ents[Host])) : BroadcastDeletions(ids)
  /\ ents' = [ents EXCEPT ![Host] = Erase(@, Marked(@) \cup Orphans(@))]
  /\ UNCHANGED <<born, link, up, net, connected, packets, joined, ghosts, calls>>

-----------------------------------------------------------------------------
(* Game code on the host.                                                  *)

(* The owner is the host, or a client of which a CONNECTED packet came.    *)
HostCreate ==
  /\ Call("create")
  /\ \E t \in Types, owner \in {Host} \cup joined : CreateNetworked(t, owner)
  /\ UNCHANGED <<link, up, net, connected, packets, phase, joined, ghosts>>

HostDelete ==
  /\ Call("delete")
  /\ \E i \in DOMAIN ents[Host] :
       /\ BroadcastDeletions(<<i>>)
       /\ ents' = [ents EXCEPT ![Host] = MarkIn(@, {i})]
  /\ UNCHANGED <<born, link, up, net, connected, packets, phase, joined, ghosts>>

(* Entity::update changes the state of an entity that c owns.              *)
Mutate(c) ==
  /\ Call("mutate")
  /\ \E i \in DOMAIN ents[c] :
       /\ ents[c][i].info.owner = c
       /\ ents' = [ents EXCEPT ![c][i].val = @ + 1]
  /\ UNCHANGED <<born, link, up, down, net, connected, packets, phase, joined, ghosts>>

-----------------------------------------------------------------------------
(* A remote client.  Its main loop is: handle any number of packets, tick  *)
(* perhaps, update once.                                                   *)

RemoteHandle(r) ==
  /\ down[r] # <<>>
  /\ ents' = [ents EXCEPT ![r] = Apply(@, Head(down[r]))]
  /\ down' = [down EXCEPT ![r] = Tail(@)]
  /\ UNCHANGED <<born, link, up, net, connected, packets, phase, joined, ghosts, calls>>

RemoteSend(r, q) ==
  /\ link[r] = "in"
  /\ Len(up[r]) + Len(net) + Len(packets) + Len(q) <= MaxQueue
  /\ up' = [up EXCEPT ![r] = @ \o q]
  /\ UNCHANGED <<born, link, down, net, connected, packets, phase, joined, ghosts>>

(* Scenegraph::update of a client: deleteEntity sends a request for every  *)
(* orphan, marked ones are erased.                                         *)
RemoteUpdate(r) ==
  /\ Marked(ents[r]) \cup Orphans(ents[r]) # {}
  /\ \E ids \in Ascending(Orphans(ents[r])) :
       RemoteSend(r, [i \in 1..Len(ids) |-> Deletion(ids[i])])
  /\ ents' = [ents EXCEPT ![r] = Erase(@, Marked(@))]
  /\ UNCHANGED calls

RemoteTick(r) ==
  /\ Call("tick")
  /\ \E ids \in Ascending({i \in DOMAIN ents[r] : ents[r][i].info.owner = r}) :
       RemoteSend(r, [i \in 1..Len(ids) |-> Update(ids[i], ents[r][ids[i]])])
  /\ UNCHANGED ents

(* createNetworkedEntity on a client sends a request for each registered   *)
(* child, with no parent since the ID is not known yet, then its own.      *)
RemoteCreate(r) ==
  /\ Call("create")
  /\ \E t \in Types :
       RemoteSend(r, Append([i \in 1..Len(Children[t]) |-> CreateRequest(Children[t][i])],
                            CreateRequest(t)))
  /\ UNCHANGED ents

RemoteDelete(r) ==
  /\ Call("delete")
  /\ \E i \in DOMAIN ents[r] : RemoteSend(r, <<Deletion(i)>>)
  /\ UNCHANGED ents

-----------------------------------------------------------------------------
HostHandle ==
  \E r \in Remotes :
    \/ HandleConnected(r) \/ HandleDisconnected(r) \/ HandleRequest(r)
    \/ HandleUpdate(r) \/ HandleDeletion(r)

Next ==
  \/ NetPush \/ StartDrain \/ HostHandle \/ EndDrain \/ SceneUpdate
  \/ HostCreate \/ HostDelete \/ Mutate(Host)
  \/ \E r \in Remotes :
       \/ Join(r) \/ Leave(r) \/ NetConsume(r)
       \/ RemoteHandle(r) \/ RemoteUpdate(r) \/ RemoteTick(r)
       \/ RemoteCreate(r) \/ RemoteDelete(r) \/ Mutate(r)

Spec == Init /\ [][Next]_vars

(* What the programs do on their own: enet delivers, the network thread    *)
(* and the main loops keep turning.  The network thread gets the mutex in  *)
(* the end because a drain holds it for a fraction of a frame, it takes    *)
(* the events of all clients in the order they came, and a client's frame  *)
(* is held up by nothing but the bound MaxQueue: strong fairness.  Game    *)
(* code, ticks, joining and leaving are never forced.                      *)
Fairness ==
  /\ SF_vars(NetPush) /\ WF_vars(StartDrain) /\ WF_vars(HostHandle)
  /\ WF_vars(EndDrain) /\ WF_vars(SceneUpdate)
  /\ \A r \in Remotes :
       SF_vars(NetConsume(r)) /\ WF_vars(RemoteHandle(r)) /\ SF_vars(RemoteUpdate(r))

FairSpec == Spec /\ Fairness

-----------------------------------------------------------------------------
(* Properties.                                                             *)

(* What is under way: every packet that carries an EntityInfo carries the  *)
(* one its ID was created with.                                            *)
UpPackets == {Connected, Disconnected}
  \cup {CreateRequest(t) : t \in Types}
  \cup {m \in [kind : {"update"}, id : IDs, info : Info, val : Nat] : m.info = born[m.id]}
  \cup [kind : {"delete"}, id : IDs]

DownPackets ==
  {m \in [kind : {"create"}, id : IDs, info : Info] : m.info = born[m.id]}
  \cup {m \in [kind : {"snapshot", "update"}, id : IDs, info : Info, val : Nat] : m.info = born[m.id]}
  \cup [kind : {"delete"}, id : IDs]

ServerPackets == [from : Remotes, msg : UpPackets]

(* A replica holds known entities, each with the info it was created with. *)
IsReplica(e) ==
  /\ e \in [DOMAIN e -> Entity]
  /\ \A i \in DOMAIN e : i \in IDs /\ e[i].info = born[i]

(* The shape of the state.  It is inductive: every ID a replica or a       *)
(* packet mentions is one that the server has assigned, and the EntityInfo *)
(* that goes with it was fixed then.                                       *)
TypeOK ==
  /\ born \in Seq(Info)
  /\ DOMAIN ents = Clients
  /\ \A c \in Clients : IsReplica(ents[c])
  /\ link \in [Remotes -> {"out", "in", "gone"}]
  /\ up \in [Remotes -> Seq(UpPackets)]
  /\ down \in [Remotes -> Seq(DownPackets)]
  /\ net \in Seq(ServerPackets)
  /\ connected \subseteq Remotes
  /\ packets \in Seq(ServerPackets)
  /\ phase \in {"idle", "drain", "update"}
  /\ joined \subseteq Remotes
  /\ ghosts \subseteq Remotes \X IDs
  /\ calls \in Nat

(* Two replicas that hold the same ID hold the same entity: updates and    *)
(* RPCs are accepted only when EntityInfo matches exactly (Scenegraph.cpp  *)
(* 83, 192, 220), so a disagreement would silence the entity for good.     *)
ReplicasAgree ==
  \A c, d \in Clients : \A i \in DOMAIN ents[c] \cap DOMAIN ents[d] :
    ents[c][i].info = ents[d][i].info

(* The replica e after all the packets of q.                               *)
Deliver(e, q) ==
  LET d[n \in 0..Len(q)] == IF n = 0 THEN e ELSE Apply(d[n - 1], q[n])
  IN d[Len(q)]

(* What r's replica becomes once everything sent to it has arrived.        *)
Future(r) == Deliver(ents[r], down[r])

Live(e) == {i \in DOMAIN e : ~e[i].remove}

Served == {r \in joined : link[r] = "in"}

(* No entity is missed by a late joiner: once its CONNECTED is handled,    *)
(* each live entity of the host is in its replica or on its way to it,     *)
(* whatever was created, deleted or sent twice around the snapshot.        *)
CreationsReachClients ==
  \A r \in Served : Live(ents[Host]) \subseteq Live(Future(r))

(* A connected replica that outlives the host's has its deletion under     *)
(* way, except for entities that the host's snapshot revived (ghosts).     *)
DeletionsReachClients ==
  \A r \in Remotes : link[r] = "in" =>
    \A i \in Live(Future(r)) : i \in Live(ents[Host]) \/ <<r, i>> \in ghosts

(* State replication: a served client's replica of what another client     *)
(* owns is going to be what the host's replica is; of what the host owns   *)
(* it never gets ahead.                                                    *)
StateReachesClients ==
  \A r \in Served : \A i \in Live(ents[Host]) \cap DOMAIN Future(r) :
    LET x == ents[Host][i] IN
      /\ x.info.owner \notin {r, Host} => Future(r)[i].val = x.val
      /\ x.info.owner = Host => Future(r)[i].val <= x.val

(* The owner's state is the authority: nothing the network brings back     *)
(* (an echo of its own update, a second creation, a snapshot) may set it   *)
(* back (Scenegraph.cpp 71: updates are not sent back to the sender).      *)
OwnerNeverSetBack ==
  [][\A c \in Clients : \A i \in DOMAIN ents[c] \cap DOMAIN ents'[c] :
       ents[c][i].info.owner = c => ents'[c][i].val >= ents[c][i].val]_vars

(* Every deletion completes, and takes the children along: what the host   *)
(* has marked, or holds as an orphan, leaves the replica of every client   *)
(* that stays connected, unless the client's snapshot revived it.          *)
DeletionCompletes ==
  \A r \in Remotes : \A i \in WatchedIDs :
    (i \in Marked(ents[Host]) \cup Orphans(ents[Host])) ~>
      (i \notin DOMAIN ents[r] \/ <<r, i>> \in ghosts \/ link[r] # "in")

(* Scenegraph.hpp 97-98 promises that a deletion is sent across the        *)
(* network: a client with nothing left to receive keeps no entity that     *)
(* the host has deleted.                                                   *)
NoGhosts ==
  \A r \in Served : down[r] = <<>> => Live(ents[r]) \subseteq Live(ents[Host])

(* Scenegraph.cpp 294-295: "If the parent doesn't exist it's because it    *)
(* was deleted".  A client's orphans are children of entities that the     *)
(* host no longer has.                                                     *)
OrphanMeansParentDeleted ==
  \A r \in Remotes : \A i \in Orphans(ents[r]) :
    ents[r][i].info.parent \notin Live(ents[Host])

=============================================================================
