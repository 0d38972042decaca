----------------------------- MODULE EntityRPC ------------------------------
(***************************************************************************)
(* Remote procedure calls on networked entities: RPCManager, the ENTITY_RPC*)
(* handlers of Scenegraph, and the entity state that the RPCs of the demos *)
(* change (the points of Pong's Score, the pickup of Shooter's             *)
(* HealthSpawner).                                                         *)
(*                                                                         *)
(* A listen server and remote clients, as in module Scenegraph, whose      *)
(* ReplicasAgree is why `info == ent->info` always holds here and is not   *)
(* spelt out.  The two queues between a client and the host's main thread  *)
(* are one, up[r]; a client is among _connected_clients, and receives what *)
(* is broadcast, before the main thread has handled its CONNECTED packet.  *)
(*                                                                         *)
(* Calls are numbered.  The state of an entity is the sequence of calls it *)
(* reflects: Score's points are its length, a Paddle's colour its last     *)
(* element.                                                                *)
(***************************************************************************)
EXTENDS Naturals, Sequences, FiniteSets, SequenceFilter

CONSTANTS
  Host,      \* the listen server's own client
  Remotes,   \* the remote clients
  Entities,  \* the IDs of the networked entities
  RPCs,      \* RPCs[e]: the types of the RPCs registered for e's type
  Lacks,     \* Lacks[c]: the entities of whose RPCs c has registered none
  Carried,   \* the entities whose serializeOnConnection writes what RPCs change
  MaxCalls,  \* bound: calls made and entities deleted
  Leavers,   \* bound: the clients that may leave
  Mortal     \* bound: the entities that may be deleted

Clients == {Host} \cup Remotes

RPCTypes == {"Master", "Remote", "RemoteAndLocal", "MasterAndRemote", "Local", "All"}

ASSUME HostAssumption == Host \notin Remotes
ASSUME EntityAssumption ==
  /\ Entities \subseteq Nat /\ IsFiniteSet(Entities)
  /\ RPCs \in [Entities -> SUBSET RPCTypes]
ASSUME LacksAssumption ==
  /\ Lacks \in [Clients -> SUBSET Entities]
  \* RPCManager::getRPCType would throw in the host's packet handler.
  /\ Lacks[Host] = {}
ASSUME BoundAssumption == MaxCalls \in Nat

VARIABLES
  ents,      \* ents[c]: what c's Scenegraph holds, a function on entities
  owner,     \* owner[e]: EntityInfo::ownerID of each entity created so far
  link,      \* link[r]: "out" (never connected), "in" or "gone"
  served,    \* history: the clients whose CONNECTED packet was handled
  up,        \* up[r]: packets of r the host's main thread has not handled
  down,      \* down[r]: packets sent to r that r has not handled
  issued,    \* history: the calls
  executed   \* history: executed[c]: the calls c has executed

vars == <<ents, owner, link, served, up, down, issued, executed>>

Numbers == 1..MaxCalls

Entity == [ran : Seq(Numbers), remove : BOOLEAN]

Call == [caller : Clients, ent : Entities, type : RPCTypes, to : SUBSET Clients]

Connected == [kind |-> "connected"]
Creation(e) == [kind |-> "create", ent |-> e]
Deletion(e) == [kind |-> "delete", ent |-> e]
RPC(n) == [kind |-> "rpc", call |-> n]

(* Faulty: serializeOnConnection forgets what the RPCs changed.            *)
EmptySnapshot(e) == [kind |-> "snapshot", ent |-> e, ran |-> <<>>]

Snapshot(e) ==
  [kind |-> "snapshot", ent |-> e, ran |-> IF e \in Carried THEN ents[Host][e].ran ELSE <<>>]

connected == {r \in Remotes : link[r] = "in"}

Put(f, e, ran) ==
  [x \in DOMAIN f \cup {e} |-> IF x = e THEN [ran |-> ran, remove |-> FALSE] ELSE f[x]]

Holds(c, e) == e \in DOMAIN ents[c]

-----------------------------------------------------------------------------
(* Faulty: everyone who calls Master or RemoteAndLocal runs it.            *)
RunsForAnyone(type, isOwner) == type \in {"Master", "RemoteAndLocal", "Local", "All"}

(* RPCManager::RPCInfo: where a call runs as seen by the caller.           *)
RunsLocally(type, isOwner) ==
  \/ type \in {"Master", "RemoteAndLocal"} /\ isOwner
  \/ type \in {"Local", "All"}

RunsRemotely(type, isOwner) ==
  \/ type = "Master" /\ ~isOwner
  \/ type \in {"Remote", "RemoteAndLocal"} /\ isOwner
  \/ type \in {"MasterAndRemote", "All"}

(* Faulty: everyone, the sender included, gets the call.                   *)
SentToEveryone(sender, e, type) ==
  CASE type = "Master" -> {owner[e]} \ {sender}
    [] type \in {"Remote", "RemoteAndLocal"} /\ owner[e] = sender -> connected \cup {Host}
    [] type \in {"MasterAndRemote", "All"} -> connected \cup {Host}
    [] OTHER -> {}

(* Faulty: MasterAndRemote and All reach only the owner.                   *)
SentToMaster(sender, e, type) ==
  CASE type \in {"Remote", "RemoteAndLocal"} /\ owner[e] = sender ->
         (connected \cup {Host}) \ {sender}
    [] type \in {"Master", "MasterAndRemote", "All"} -> {owner[e]} \ {sender}
    [] OTHER -> {}

(* The server's handler: whom an ENTITY_RPC packet of the sender goes to.  *)
(* A Local call is an error, and so are Master from the owner, Remote and  *)
(* RemoteAndLocal from anyone else.                                        *)
SentTo(sender, e, type) ==
  CASE type = "Master" -> {owner[e]} \ {sender}
    [] type \in {"Remote", "RemoteAndLocal"} /\ owner[e] = sender ->
         (connected \cup {Host}) \ {sender}
    [] type \in {"MasterAndRemote", "All"} -> (connected \cup {Host}) \ {sender}
    [] OTHER -> {}

(* The packet of a call made, if the host has the entity.                  *)
Receivers(call) ==
  IF Holds(Host, call.ent) THEN SentTo(call.caller, call.ent, call.type) ELSE {}

(* Faulty: packets pile up for a peer that is gone.                        *)
SendAnyway(S, q) == down' = [r \in Remotes |-> IF r \in S THEN down[r] \o q ELSE down[r]]

(* enetpp drops what is sent to a peer that is not connected.              *)
Send(S, q) == down' = [r \in Remotes |-> IF r \in S \cap connected THEN down[r] \o q ELSE down[r]]

(* RPCManager::receive on c: it runs if c has the entity and the RPC.      *)
Run(c, call, n) ==
  IF Holds(c, call.ent) /\ call.ent \notin Lacks[c]
  THEN /\ ents' = [ents EXCEPT ![c][call.ent].ran = Append(@, n)]
       /\ executed' = [executed EXCEPT ![c] = Append(@, n)]
  ELSE UNCHANGED <<ents, executed>>

-----------------------------------------------------------------------------
Init ==
  /\ ents = [c \in Clients |-> <<>>]
  /\ owner = <<>>
  /\ link = [r \in Remotes |-> "out"]
  /\ served = {}
  /\ up = [r \in Remotes |-> <<>>]
  /\ down = [r \in Remotes |-> <<>>]
  /\ issued = <<>>
  /\ executed = [c \in Clients |-> <<>>]

(* The host's network thread has consumed the CONNECT event.               *)
Join(r) ==
  /\ link[r] = "out"
  /\ link' = [link EXCEPT ![r] = "in"]
  /\ up' = [up EXCEPT ![r] = <<Connected>>]
  /\ UNCHANGED <<ents, owner, served, down, issued, executed>>

(* r is gone; what it sent last may be lost.                               *)
Leave(r) ==
  /\ r \in Leavers
  /\ link[r] = "in"
  /\ link' = [link EXCEPT ![r] = "gone"]
  /\ \E k \in 0..Len(up[r]) :
       /\ Connected \in {up[r][i] : i \in 1..Len(up[r])} => k > 0
       /\ up' = [up EXCEPT ![r] = SubSeq(@, 1, k)]
  /\ down' = [down EXCEPT ![r] = <<>>]
  /\ ents' = [ents EXCEPT ![r] = <<>>]
  /\ UNCHANGED <<owner, served, issued, executed>>

(* createNetworkedEntity on the host, for itself or for a client of which  *)
(* a CONNECTED packet came.                                                *)
Spawn(e) ==
  /\ e \notin DOMAIN owner
  /\ \E o \in served \cup {Host} :
       owner' = [x \in DOMAIN owner \cup {e} |-> IF x = e THEN o ELSE owner[x]]
  /\ ents' = [ents EXCEPT ![Host] = Put(@, e, <<>>)]
  /\ Send(connected, <<Creation(e)>>)
  /\ UNCHANGED <<link, served, up, issued, executed>>

(* What the host has deleted.                                              *)
Deleted == {e \in DOMAIN owner : ~Holds(Host, e) \/ ents[Host][e].remove}

MoreCalls == Len(issued) + Cardinality(Deleted) < MaxCalls

(* deleteEntity on the host.                                               *)
Delete(e) ==
  /\ e \in Mortal \cap (DOMAIN owner \ Deleted)
  /\ MoreCalls
  /\ ents' = [ents EXCEPT ![Host][e].remove = TRUE]
  /\ Send(connected, <<Deletion(e)>>)
  /\ UNCHANGED <<owner, link, served, up, issued, executed>>

(* Scenegraph::update: the marked entities are erased.                     *)
Sweep(c) ==
  LET kept == {e \in DOMAIN ents[c] : ~ents[c][e].remove} IN
    /\ kept # DOMAIN ents[c]
    /\ ents' = [ents EXCEPT ![c] = [e \in kept |-> ents[c][e]]]
    /\ UNCHANGED <<owner, link, served, up, down, issued, executed>>

-----------------------------------------------------------------------------
(* RPCManager::call on an entity that c holds.                             *)

NewCall(c, e, t) ==
  [caller |-> c, ent |-> e, type |-> t, to |-> {Host} \cup (served \cap connected)]

(* A call that would run nowhere is not counted.                           *)
CanCall(c, e, t) ==
  /\ MoreCalls
  /\ Holds(c, e)
  /\ t \in RPCs[e]
  /\ e \notin Lacks[c]
  /\ RunsLocally(t, owner[e] = c) \/ RunsRemotely(t, owner[e] = c)

(* On the host ClientHost::sendPacket runs the server's handler at once,   *)
(* before the caller's own execution.                                      *)
HostCall ==
  \E e \in Entities, t \in RPCTypes :
    LET call == NewCall(Host, e, t)
        n == Len(issued) + 1
    IN /\ CanCall(Host, e, t)
       /\ issued' = Append(issued, call)
       /\ IF RunsRemotely(t, owner[e] = Host)
          THEN Send(Receivers(call), <<RPC(n)>>) ELSE UNCHANGED down
       /\ IF RunsLocally(t, owner[e] = Host)
          THEN Run(Host, call, n) ELSE UNCHANGED <<ents, executed>>
       /\ UNCHANGED <<owner, link, served, up>>

RemoteCall(r) ==
  \E e \in Entities, t \in RPCTypes :
    LET call == NewCall(r, e, t)
        n == Len(issued) + 1
    IN /\ link[r] = "in"
       /\ CanCall(r, e, t)
       /\ issued' = Append(issued, call)
       /\ up' = IF RunsRemotely(t, owner[e] = r) THEN [up EXCEPT ![r] = Append(@, RPC(n))] ELSE up
       /\ IF RunsLocally(t, owner[e] = r)
          THEN Run(r, call, n) ELSE UNCHANGED <<ents, executed>>
       /\ UNCHANGED <<owner, link, served, down>>

-----------------------------------------------------------------------------
(* The host's main thread: Server::update, one packet.                     *)

Descending(S) ==
  {q \in [1..Cardinality(S) -> S] : \A i, j \in DOMAIN q : i < j => q[i] > q[j]}

(* The snapshot: everything the host holds, by decreasing ID.              *)
HandleConnected(r) ==
  /\ up[r] # <<>>
  /\ Head(up[r]) = Connected
  /\ up' = [up EXCEPT ![r] = Tail(@)]
  /\ served' = served \cup {r}
  /\ \E ids \in Descending(DOMAIN ents[Host]) :
       Send({r}, [i \in 1..Len(ids) |-> Snapshot(ids[i])])
  /\ UNCHANGED <<ents, owner, link, issued, executed>>

(* Forwarded first; ServerHost then hands the packet to the host's client. *)
HandleRPC(r) ==
  \E n \in 1..Len(issued) :
    /\ up[r] # <<>>
    /\ Head(up[r]) = RPC(n)
    /\ up' = [up EXCEPT ![r] = Tail(@)]
    /\ Send(Receivers(issued[n]), <<RPC(n)>>)
    /\ IF Host \in Receivers(issued[n])
       THEN Run(Host, issued[n], n) ELSE UNCHANGED <<ents, executed>>
    /\ UNCHANGED <<owner, link, served, issued>>

-----------------------------------------------------------------------------
(* A remote client handles one packet.                                     *)

Receiving(r, m) ==
  /\ down[r] # <<>>
  /\ Head(down[r]) = m
  /\ down' = [down EXCEPT ![r] = Tail(@)]
  /\ UNCHANGED <<owner, link, served, up, issued>>

RemoteCreate(r) ==
  \E e \in Entities :
    /\ Receiving(r, Creation(e))
    /\ ents' = [ents EXCEPT ![r] = Put(@, e, <<>>)]
    /\ UNCHANGED executed

(* The entity is built anew, then deserializeOnConnection.                 *)
RemoteSnapshot(r) ==
  /\ down[r] # <<>>
  /\ LET m == Head(down[r]) IN
       /\ m.kind = "snapshot"
       /\ Receiving(r, m)
       /\ ents' = [ents EXCEPT ![r] = Put(@, m.ent, m.ran)]
  /\ UNCHANGED executed

RemoteDelete(r) ==
  \E e \in Entities :
    /\ Receiving(r, Deletion(e))
    /\ ents' = IF Holds(r, e) THEN [ents EXCEPT ![r][e].remove = TRUE] ELSE ents
    /\ UNCHANGED executed

RemoteRPC(r) ==
  \E n \in 1..Len(issued) :
    /\ Receiving(r, RPC(n))
    /\ Run(r, issued[n], n)

-----------------------------------------------------------------------------
RemoteHandle(r) == RemoteCreate(r) \/ RemoteSnapshot(r) \/ RemoteDelete(r) \/ RemoteRPC(r)

HostHandle(r) == HandleConnected(r) \/ HandleRPC(r)

Next ==
  \/ HostCall
  \/ \E e \in Entities : Spawn(e) \/ Delete(e)
  \/ \E c \in Clients : Sweep(c)
  \/ \E r \in Remotes :
       Join(r) \/ Leave(r) \/ RemoteCall(r) \/ HostHandle(r) \/ RemoteHandle(r)

Spec == Init /\ [][Next]_vars

(* enet delivers, and the main loops keep turning.                         *)
Fairness == \A r \in Remotes : WF_vars(HostHandle(r)) /\ WF_vars(RemoteHandle(r))

FairSpec == Spec /\ Fairness

-----------------------------------------------------------------------------
(* Properties.                                                             *)

UpPackets == {Connected} \cup [kind : {"rpc"}, call : 1..Len(issued)]

DownPackets ==
  [kind : {"create", "delete"}, ent : Entities]
    \cup [kind : {"snapshot"}, ent : Entities, ran : Seq(1..Len(issued))]
    \cup [kind : {"rpc"}, call : 1..Len(issued)]

(* The shape of the state: packets mention calls that were made, replicas  *)
(* entities that were created, and nothing is kept for a client that is    *)
(* not connected.                                                          *)
TypeOK ==
  /\ issued \in Seq(Call)
  /\ executed \in [Clients -> Seq(1..Len(issued))]
  /\ DOMAIN ents = Clients
  /\ \A c \in Clients :
       /\ DOMAIN ents[c] \subseteq DOMAIN owner
       /\ ents[c] \in [DOMAIN ents[c] -> [ran : Seq(1..Len(issued)), remove : BOOLEAN]]
  /\ DOMAIN owner \subseteq Entities
  /\ owner \in [DOMAIN owner -> Clients]
  /\ link \in [Remotes -> {"out", "in", "gone"}]
  /\ served \subseteq Remotes
  /\ up \in [Remotes -> Seq(UpPackets)]
  /\ down \in [Remotes -> Seq(DownPackets)]
  /\ \A r \in Remotes : link[r] # "in" => down[r] = <<>> /\ ents[r] = <<>>

(* The calls as the contract sees them.                                    *)
Calls == [i \in 1..Len(issued) |->
            [caller |-> issued[i].caller, owner |-> owner[issued[i].ent], type |-> issued[i].type]]

Contract == INSTANCE RPCContract WITH
  Machines <- Clients, Types <- RPCTypes, issued <- Calls, executed <- executed

(* The RPCs implement what RPC.hpp 13-38 says of their types: RPCInfo on   *)
(* the caller's machine and the handlers of the server and of the other    *)
(* clients together execute a call only on the machines it is for, at most *)
(* once, and one caller's calls in order, through joins, departures and    *)
(* deletions.                                                              *)
KeepsContract == Contract!Spec

Reflected(c, e) == {ents[c][e].ran[i] : i \in 1..Len(ents[c][e].ran)}

(* No replica counts a call twice: not when a client that is receiving     *)
(* broadcasts already is sent a snapshot that includes them, nor when the  *)
(* call comes back from the host (Score::increaseScore1 would show a goal  *)
(* too many).                                                              *)
CountedOnce ==
  \A c \in Clients : \A e \in DOMAIN ents[c] :
    Cardinality(Reflected(c, e)) = Len(ents[c][e].ran)

Quiet(r) == r \in served /\ link[r] = "in" /\ down[r] = <<>>

(* The owner's calls for everyone, in the order the replica reflects them. *)
OwnersCalls(e) ==
  {n \in 1..Len(issued) :
     issued[n].type \in {"RemoteAndLocal", "All"} /\ issued[n].caller = owner[e]}

FromOwner(c, e) == Filter(ents[c][e].ran, OwnersCalls(e))

(* A late joiner ends up with the same points: once everything sent to r   *)
(* has arrived, its replica reflects exactly the owner's calls that the    *)
(* host's reflects, in that order, whether they came by snapshot or by     *)
(* call (Score::serializeOnConnection sends the points).                   *)
ScoresAgree ==
  \A r \in Remotes : Quiet(r) =>
    \A e \in (DOMAIN ents[r] \cap DOMAIN ents[Host] \cap Carried) \ Lacks[r] :
      owner[e] # r => FromOwner(r, e) = FromOwner(Host, e)

(* c is the host, or was connected and served, when call n for it was made.*)
Due(c, n) ==
  /\ n <= Len(issued)
  /\ c \in issued[n].to
  /\ c \in Contract!Audience(Calls[n])

Executed(c, n) == \E i \in 1..Len(executed[c]) : executed[c][i] = n

Excused(c, n) ==
  /\ n <= Len(issued)
  /\ \/ \E x \in {c, issued[n].caller} \ {Host} : link[x] # "in"
     \/ issued[n].ent \in Lacks[c]
     \/ issued[n].ent \in Deleted

(* No call is lost without a reason: every client it is due on executes it *)
(* in the end, unless it or the caller leaves, the entity is deleted or it *)
(* has registered no RPC of that name.                                     *)
CallsArrive ==
  \A n \in Numbers : \A c \in Clients : Due(c, n) ~> (Executed(c, n) \/ Excused(c, n))

=============================================================================
