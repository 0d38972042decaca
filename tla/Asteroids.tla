----------------------------- MODULE Asteroids ------------------------------
(***************************************************************************)
(* The Asteroids demo on top of the library: its Game, Player, Bullet,     *)
(* Asteroid and CollisionManager on a listen server and on remote clients  *)
(* that come and go, with the client IDs that ServerHost uses again.       *)
(*                                                                         *)
(* Every machine runs the same loop: handle packets, then                  *)
(* Scenegraph::update, in which the CollisionManager (a local entity, so   *)
(* the first by ID) lets what touches collide, then every entity updates,  *)
(* then what is marked is erased.  An entity acts only on the machine whose*)
(* client ID is its ownerID (Entity::isOwner).                             *)
(*                                                                         *)
(* Positions and lives are left out: whatever may touch an asteroid may or *)
(* may not touch it, on each machine by itself.  ENTITY_UPDATE packets and *)
(* the PlayerText child of a Player are the subject of module Scenegraph.  *)
(* stopInvincible is called in every frame after the flashing; only a call *)
(* that changes was_damaged is a step here.  The CollisionManager has ID -1*)
(* on every machine and no state; the snapshot's copy replaces a client's. *)
(*                                                                         *)
(* ServerHost queues a packet under the ID of the client, and enetpp looks *)
(* for the ID's holder when it sends: what is left in the queue when its   *)
(* holder goes is dropped, unless a new holder has come by then, who gets  *)
(* it.  A client has its ID at once here (CLIENT_INITIALIZED comes after   *)
(* such packets), so that it acts on them sooner than in the code.         *)
(***************************************************************************)
EXTENDS Integers, FiniteSets, SequencesExt

CONSTANTS
  Host,      \* the listen server's own client
  Conns,     \* the connections of remote clients; each is acts once, its ID
             \* may be acts by another
  Sides,     \* the sizes of the asteroids that the game creates
  Leavers,   \* bound: the connections that may end
  MaxActs,   \* bound: asteroids and bullets created (pieces not counted), and
             \* calls of startInvincible
  MaxBreaks, \* bound: asteroids that are broken
  MaxQueue,  \* bound: packets under way to the host when a client's frame begins
  MaxLag     \* bound: packets under way to a client when the host's frame begins

ASSUME HostAssumption == Host \notin Conns
ASSUME SidesAssumption == Sides \subseteq 5..12   \* (std::rand() % 8) + 5
ASSUME BoundAssumption == {MaxActs, MaxBreaks, MaxQueue, MaxLag} \subseteq Nat

Machines == {Host} \cup Conns

VARIABLES
  link,      \* link[c]: "out", "in" (enetpp has the peer) or "gone"
  listed,    \* listed[c]: in _connected_clients, "not", "yes" or "erased"
  id,        \* id[c]: the client's ID, 0 before it joins
  next_uid,  \* ServerHost::next_uid
  free_ids,  \* ServerHost::free_ids
  served,    \* history: CONNECTED was handled, DISCONNECTED was not
  up,        \* up[c]: packets of c the host's main thread has not handled
  down,      \* down[c]: packets queued for c's ID or sent to c that c has not
             \* handled; once c is gone, what is still queued for its ID
  updating,  \* the host is in Game::update, between taking the packets and
             \* the end of Scenegraph::update
  due,       \* due[c]: how many packets of up[c] this Server::update handles
  ents,      \* ents[m]: what m's Scenegraph holds, a function on IDs
  born,      \* history: what each entity was created as; Scenegraph::ID on
             \* the server is Len(born) + 1
  acts       \* counter for MaxActs

vars == <<link, listed, id, next_uid, free_ids, served, up, down, updating, due, ents, born, acts>>
connVars == <<link, listed, id, next_uid>>

(* EntityInfo, the sides of an asteroid, and for whom it was created.      *)
Made(type, owner, for, sides) == [type |-> type, owner |-> owner, for |-> for, sides |-> sides]

(* Player::was_damaged, Bullet/Asteroid::alive (negated), Entity::remove.  *)
Fresh == [damaged |-> FALSE, dead |-> FALSE, remove |-> FALSE]

Packet(kind, e, on) == [kind |-> kind, ent |-> e, on |-> on]
Connected == Packet("connected", 0, FALSE)
Disconnected == Packet("disconnected", 0, FALSE)
Shot == Packet("shot", 0, FALSE)            \* asks the host to create a bullet
Creation(e) == Packet("create", e, FALSE)   \* of a new entity, or in a snapshot:
                                            \* neither carries the flags
Deletion(e) == Packet("delete", e, FALSE)
Shield(e, on) == Packet("shield", e, on)    \* startInvincible, stopInvincible

-----------------------------------------------------------------------------
ID(m) == IF m = Host THEN 1 ELSE id[m]

(* Entity::isOwner.                                                        *)
IsOwner(m, e) == born[e].owner = ID(m)

(* Scenegraph::findEntitiesByType.                                         *)
OfType(m, type) == {e \in DOMAIN ents[m] : born[e].type = type}

Own(m, type) == {e \in OfType(m, type) : IsOwner(m, e)}

(* By increasing ID, as the container is iterated.                         *)
Nth(S, i) == CHOOSE e \in S : Cardinality({x \in S : x < e}) = i - 1

Each(S, Op(_)) == [i \in 1..Cardinality(S) |-> Op(Nth(S, i))]

(* _connected_clients.                                                     *)
connected == {c \in Conns : listed[c] = "yes"}

(* send_packet_to_all_if: queued for the ID of each client that is listed, *)
(* gone or not.                                                            *)
Send(S, q) == down' = [c \in Conns |-> IF c \in S \cap connected THEN down[c] \o q ELSE down[c]]

Create(f, S) == [e \in DOMAIN f \cup S |-> IF e \in S THEN Fresh ELSE f[e]]

Mark(f, e) == IF e \in DOMAIN f THEN [f EXCEPT ![e].remove = TRUE] ELSE f

Shielded(f, e, on) == IF e \in DOMAIN f THEN [f EXCEPT ![e].damaged = on] ELSE f

Swept(f) == [e \in {x \in DOMAIN f : ~f[x].remove} |-> f[e]]

-----------------------------------------------------------------------------
(* The host has pressed S: its own ship and the first asteroid exist (one  *)
(* instead of 20), nobody has joined.                                      *)
Init ==
  /\ link = [c \in Conns |-> "out"]
  /\ listed = [c \in Conns |-> "not"]
  /\ id = [c \in Conns |-> 0]
  /\ next_uid = 2
  /\ free_ids = <<>>
  /\ served = {}
  /\ up = [c \in Conns |-> <<>>]
  /\ down = [c \in Conns |-> <<>>]
  /\ updating = FALSE
  /\ due = [c \in Conns |-> 0]
  /\ \E sides \in Sides : born = <<Made("ship", 1, Host, 0), Made("asteroid", 1, Host, sides)>>
  /\ ents = [m \in Machines |-> IF m = Host THEN Create(<<>>, {1, 2}) ELSE <<>>]
  /\ acts = 0

(* What is queued for ID k, which nobody has.                              *)
Unsent(k) ==
  LET left == {d \in Conns : link[d] = "gone" /\ id[d] = k /\ down[d] # <<>>}
  IN IF left = {} THEN <<>> ELSE down[CHOOSE d \in left : TRUE]

(* The enetpp thread: a client connects, ServerHost::getNextUID, and the   *)
(* CONNECTED packet.  What is queued for the ID is now for this client.    *)
Join(c) ==
  LET k == IF free_ids = <<>> THEN next_uid ELSE Head(free_ids) IN
    /\ link[c] = "out"
    /\ link' = [link EXCEPT ![c] = "in"]
    /\ id' = [id EXCEPT ![c] = k]
    /\ IF free_ids = <<>>
       THEN next_uid' = next_uid + 1 /\ UNCHANGED free_ids
       ELSE free_ids' = Tail(free_ids) /\ UNCHANGED next_uid
    /\ down' = [d \in Conns |->
         IF d = c THEN Unsent(k)
         ELSE IF link[d] = "gone" /\ id[d] = k THEN <<>> ELSE down[d]]
    /\ up' = [up EXCEPT ![c] = <<Connected>>]
    /\ UNCHANGED <<listed, served, updating, due, ents, born, acts>>

(* The enetpp thread: a client is gone.  Packets that the host's network   *)
(* thread has not consumed may be lost, DISCONNECTED comes after the       *)
(* others, and what was not sent stays in the queue.                       *)
Leave(c) ==
  /\ c \in Leavers
  /\ link[c] = "in"
  /\ link' = [link EXCEPT ![c] = "gone"]
  /\ \E k \in due[c]..Len(up[c]) :
       /\ c \notin served => k > 0
       /\ up' = [up EXCEPT ![c] = Append(SubSeq(@, 1, k), Disconnected)]
  /\ \E k \in 1..Len(down[c]) + 1 : down' = [down EXCEPT ![c] = SubSeq(@, k, Len(@))]
  /\ ents' = [ents EXCEPT ![c] = <<>>]
  /\ UNCHANGED <<listed, id, next_uid, free_ids, served, updating, due, born, acts>>

(* The enetpp thread empties the queue: packets for an ID that nobody has  *)
(* are dropped.                                                            *)
Flush ==
  /\ down' = [c \in Conns |-> IF link[c] = "gone" THEN <<>> ELSE down[c]]
  /\ UNCHANGED <<connVars, free_ids, served, up, updating, due, ents, born, acts>>

(* The network thread consumes the event of a client that came, or went;   *)
(* the packet that it then pushes waits for the mutex.                     *)
List(c) ==
  /\ \/ link[c] # "out" /\ listed[c] = "not" /\ listed' = [listed EXCEPT ![c] = "yes"]
     \/ link[c] = "gone" /\ listed[c] = "yes" /\ listed' = [listed EXCEPT ![c] = "erased"]
  /\ UNCHANGED <<link, id, next_uid, free_ids, served, up, down, updating, due, ents, born, acts>>

-----------------------------------------------------------------------------
(* What the network thread has pushed of c's packets; CONNECTED and        *)
(* DISCONNECTED are pushed after c was listed and erased.                  *)
Pushed(c) ==
  {n \in 0..Len(up[c]) :
     /\ n > 0 => listed[c] # "not"
     /\ n = Len(up[c]) /\ link[c] = "gone" /\ n > 0 => listed[c] = "erased"}

(* The host's Server::update handles what had come when it took the mutex: *)
(* what a network thread wants to push meanwhile has to wait.              *)
StartUpdate ==
  LET Lengths == UNION {Pushed(c) : c \in Conns} IN
  /\ ~updating
  /\ updating' = TRUE
  /\ due' \in {d \in [Conns -> Lengths] : \A c \in Conns : d[c] \in Pushed(c)}
  /\ UNCHANGED <<connVars, free_ids, served, up, down, ents, born, acts>>

(* Faulty: loops as often as there were packets, and never counts.         *)
Uncounted(c, m) ==
  /\ due[c] > 0
  /\ up[c] # <<>>
  /\ Head(up[c]) = m
  /\ up' = [up EXCEPT ![c] = Tail(@)]
  /\ UNCHANGED due

(* Faulty: the packets that come during the update are handled by it too.  *)
Unlocked(c, m) ==
  /\ updating
  /\ up[c] # <<>>
  /\ Head(up[c]) = m
  /\ up' = [up EXCEPT ![c] = Tail(@)]
  /\ due' = [due EXCEPT ![c] = IF @ = 0 THEN 0 ELSE @ - 1]

Handling(c, m) ==
  /\ due[c] > 0
  /\ Head(up[c]) = m
  /\ up' = [up EXCEPT ![c] = Tail(@)]
  /\ due' = [due EXCEPT ![c] = @ - 1]

(* createNetworkedEntity on the server.                                    *)
New(made) ==
  LET e == Len(born) + 1 IN
    /\ born' = Append(born, made)
    /\ ents' = [ents EXCEPT ![Host] = Create(@, {e})]

(* The Scenegraph sends everything it holds, by decreasing ID, to the one  *)
(* client (send_packet_to: for its ID, listed or not); then Game creates   *)
(* the client's ship, for everybody.                                       *)
HandleConnected(c) ==
  LET ship == Len(born) + 1
      all == Reverse(Each(DOMAIN ents[Host], Creation))
  IN /\ Handling(c, Connected)
     /\ New(Made("ship", id[c], c, 0))
     /\ served' = served \cup {c}
     /\ down' = [d \in Conns |->
          down[d] \o (IF d = c THEN all ELSE <<>>)
                  \o (IF d \in connected THEN <<Creation(ship)>> ELSE <<>>)]
     /\ UNCHANGED <<connVars, free_ids, updating, acts>>

(* Faulty: looks for the name the host's own ship has.                     *)
NamedPlayer1(k) == {e \in OfType(Host, "ship") : born[e].owner = 1}

(* findEntityByName("Player <k>"): a ship's name comes from its owner.     *)
NamedPlayer(k) == {e \in OfType(Host, "ship") : born[e].owner = k}

FirstOf(S) == {e \in S : \A x \in S : e <= x}

(* The ID is free again; Game deletes the first entity that has the ship's *)
(* name.                                                                   *)
HandleDisconnected(c) ==
  LET ship == FirstOf(NamedPlayer(id[c])) IN
    /\ Handling(c, Disconnected)
    /\ free_ids' = Append(free_ids, id[c])
    /\ served' = served \ {c}
    /\ ents' = [ents EXCEPT ![Host] = [e \in DOMAIN @ |->
         IF e \in ship THEN [@[e] EXCEPT !.remove = TRUE] ELSE @[e]]]
    /\ Send(connected, Each(ship, Deletion))
    /\ UNCHANGED <<connVars, updating, born, acts>>

(* ENTITY_CREATION of a client: the owner is the sender.                   *)
HandleShot(c) ==
  /\ Handling(c, Shot)
  /\ New(Made("bullet", id[c], c, 0))
  /\ Send(connected, <<Creation(Len(born) + 1)>>)
  /\ UNCHANGED <<connVars, free_ids, served, updating, acts>>

(* ENTITY_DELETION and ENTITY_RPC of a client count only if the host has   *)
(* the entity and the sender is its owner.  A deletion goes to everybody.  *)
HandleDeletion(c) ==
  \E e \in 1..Len(born) :
    /\ Handling(c, Deletion(e))
    /\ IF e \in DOMAIN ents[Host] /\ born[e].owner = id[c]
       THEN /\ ents' = [ents EXCEPT ![Host] = Mark(@, e)]
            /\ Send(connected, <<Deletion(e)>>)
       ELSE UNCHANGED <<ents, down>>
    /\ UNCHANGED <<connVars, free_ids, served, updating, born, acts>>

(* RemoteAndLocal: to everybody but the sender.                            *)
HandleShield(c) ==
  \E e \in 1..Len(born), on \in BOOLEAN :
    /\ Handling(c, Shield(e, on))
    /\ IF e \in DOMAIN ents[Host] /\ born[e].owner = id[c]
       THEN /\ ents' = [ents EXCEPT ![Host] = Shielded(@, e, on)]
            /\ Send(connected \ {c}, <<Shield(e, on)>>)
       ELSE UNCHANGED <<ents, down>>
    /\ UNCHANGED <<connVars, free_ids, served, updating, born, acts>>

(* The host has handled what was due.                                      *)
Handled == updating /\ \A c \in Conns : due[c] = 0 /\ Len(down[c]) <= MaxLag

-----------------------------------------------------------------------------
(* A frame: Scenegraph::update on machine m.                               *)

(* The ships and bullets for which handleCollision does something.         *)
Exposed(m) == {e \in OfType(m, "ship") : ~ents[m][e].damaged}

Living(m) == {e \in Own(m, "bullet") : ~ents[m][e].dead}

(* What CollisionManager::update may bring about: m's own asteroids, living*)
(* bullets and undamaged ships that are hit.  A bullet or a ship is hit by *)
(* an asteroid, which is hit in turn; so it is by anyone else's bullet or  *)
(* undamaged ship, but only once in a frame by an own ship.                *)
Collisions(m) ==
  LET rocks == Own(m, "asteroid")
      ships == Exposed(m) \cap Own(m, "ship")
  IN {h \in [rocks : SUBSET rocks,
             bullets : SUBSET Living(m),
             ships : SUBSET ships] :
        /\ h.bullets \cup h.ships # {} => h.rocks \cup (OfType(m, "asteroid") \ rocks) # {}
        /\ \/ OfType(m, "bullet") \cup (Exposed(m) \ ships) # {}
           \/ Cardinality(h.rocks) <= Cardinality(h.ships)}

(* What the players and the clocks then add: bullets that have warped      *)
(* twice, ships that shoot, ships whose flashing is over.                  *)
Inputs(m) ==
  [warped : SUBSET Own(m, "bullet"), shooting : SUBSET Own(m, "ship"),
   calm : SUBSET (Own(m, "ship") \ Exposed(m))]

Act(n) ==
  /\ acts + n <= MaxActs
  /\ acts' = acts + n

(* Faulty: startInvincible and stopInvincible are Remote, not              *)
(* RemoteAndLocal.                                                         *)
PlayedRemoteOnly(m, h, i) ==
  [e \in DOMAIN ents[m] |->
     [ents[m][e] EXCEPT !.dead = @ \/ e \in h.rocks \cup h.bullets \cup i.warped]]

(* m's replicas after the frame's collisions and updates.                  *)
Played(m, h, i) ==
  [e \in DOMAIN ents[m] |->
     [ents[m][e] EXCEPT
        !.damaged = (@ \/ e \in h.ships) /\ e \notin i.calm,
        !.dead = @ \/ e \in h.rocks \cup h.bullets \cup i.warped]]

(* What m's updates ask to delete, in every frame until it is gone.        *)
Dead(m, f) == {e \in DOMAIN ents[m] : IsOwner(m, e) /\ f[e].dead}

StartShield(e) == Shield(e, TRUE)
StopShield(e) == Shield(e, FALSE)
NewShot(e) == Shot

(* A client's handlers.                                                    *)
Apply(f, m) ==
  CASE m.kind = "create" -> Create(f, {m.ent})
    [] m.kind = "delete" -> Mark(f, m.ent)
    [] m.kind = "shield" -> Shielded(f, m.ent, m.on)

ClientHandle(c) ==
  /\ link[c] = "in"
  /\ down[c] # <<>>
  /\ ents' = [ents EXCEPT ![c] = Apply(@, Head(down[c]))]
  /\ down' = [down EXCEPT ![c] = Tail(@)]
  /\ UNCHANGED <<connVars, free_ids, served, up, updating, due, born, acts>>

ClientFrame(c) ==
  /\ link[c] = "in"
  /\ Len(up[c]) <= MaxQueue
  /\ \E h \in Collisions(c), i \in Inputs(c) :
       LET played == Played(c, h, i)
           sent == Each(h.bullets, Deletion) \o Each(h.ships, StartShield)
                     \o Each(i.shooting, NewShot) \o Each(i.calm, StopShield)
                     \o Each(Dead(c, played), Deletion)
       IN /\ Act(Cardinality(h.ships) + Cardinality(i.shooting))
          /\ up' = [up EXCEPT ![c] = @ \o sent]
          /\ ents' = [ents EXCEPT ![c] = Swept(played)]
  /\ UNCHANGED <<connVars, free_ids, served, down, updating, due, born>>

(* The asteroids that the host no longer has.                              *)
Broken == {e \in 1..Len(born) : born[e].type = "asteroid" /\ e \notin DOMAIN ents[Host]}

(* Asteroid::canSplit.                                                     *)
CanSplit(sides) == sides - 2 >= 5

(* Asteroid::split: two smaller asteroids, then the deletion; the host's   *)
(* own replica is marked before the send returns, and erased at the end of *)
(* the frame.                                                              *)
HostFrame ==
  /\ Handled
  /\ updating' = FALSE
  /\ \E h \in Collisions(Host), i \in Inputs(Host) :
       LET played == Played(Host, h, i)
           dead == Dead(Host, played)
           broken == {e \in h.rocks : CanSplit(born[e].sides)}
           piece(e) == Made("asteroid", 1, Host, born[e].sides - 2)
           pieces(e) == <<piece(e), piece(e)>>
           shot(e) == Made("bullet", 1, Host, 0)
           made == FlattenSeq(Each(broken, pieces)) \o Each(i.shooting, shot)
           new == Len(born) + 1..Len(born) + Len(made)
           first(e) == Len(born) + 1 + 2 * Cardinality({x \in broken : x < e})
           split(e) == (IF e \in broken THEN <<Creation(first(e)), Creation(first(e) + 1)>> ELSE <<>>)
                         \o <<Deletion(e)>>
           shots == {e \in new : made[e - Len(born)].type = "bullet"}
       IN /\ Cardinality(Broken \cup h.rocks) <= MaxBreaks
          /\ Act(Cardinality(h.ships) + Cardinality(i.shooting))
          /\ born' = born \o made
          /\ ents' = [ents EXCEPT ![Host] =
               Create(Swept([e \in DOMAIN played |->
                               [played[e] EXCEPT !.remove = @ \/ e \in dead]]),
                      new)]
          /\ Send(connected,
                  FlattenSeq(Each(h.rocks, split)) \o Each(h.bullets, Deletion)
                    \o Each(h.ships, StartShield) \o Each(shots, Creation)
                    \o Each(i.calm, StopShield) \o Each(dead, Deletion))
  /\ UNCHANGED <<connVars, free_ids, served, up, due>>

(* Game::update creates an asteroid every second.                          *)
SpawnAsteroid ==
  /\ Handled /\ Act(1)
  /\ \E sides \in Sides : New(Made("asteroid", 1, Host, sides))
  /\ Send(connected, <<Creation(Len(born) + 1)>>)
  /\ UNCHANGED <<connVars, free_ids, served, up, updating, due>>

-----------------------------------------------------------------------------
HostHandle(c) ==
  HandleConnected(c) \/ HandleDisconnected(c) \/ HandleShot(c) \/ HandleDeletion(c) \/ HandleShield(c)

Next ==
  \/ StartUpdate \/ SpawnAsteroid \/ HostFrame \/ Flush
  \/ \E c \in Conns : Join(c) \/ Leave(c) \/ List(c) \/ HostHandle(c) \/ ClientHandle(c) \/ ClientFrame(c)

Spec == Init /\ [][Next]_vars

-----------------------------------------------------------------------------
(* Properties.                                                             *)

Packets(kinds) == [kind : kinds, ent : 0..Len(born), on : BOOLEAN]

(* The shape of the state; every entity that anyone holds or any packet is *)
(* about was created, every ID in use is one that ServerHost has given.    *)
TypeOK ==
  /\ link \in [Conns -> {"out", "in", "gone"}]
  /\ listed \in [Conns -> {"not", "yes", "erased"}]
  /\ id \in [Conns -> {0} \cup 2..next_uid - 1]
  /\ free_ids \in Seq(2..next_uid - 1)
  /\ served \subseteq {c \in Conns : link[c] # "out"}
  /\ up \in [Conns -> Seq(Packets({"connected", "disconnected", "shot", "delete", "shield"}))]
  /\ down \in [Conns -> Seq(Packets({"create", "delete", "shield"}))]
  /\ updating \in BOOLEAN
  /\ \A c \in Conns : due[c] \in 0..Len(up[c])
  /\ \A e \in 1..Len(born) : born[e] \in
       [type : {"ship", "asteroid", "bullet"}, owner : 1..next_uid - 1, for : Machines, sides : 0..12]
  /\ \A m \in Machines :
       /\ DOMAIN ents[m] \subseteq 1..Len(born)
       /\ \A e \in DOMAIN ents[m] : ents[m][e] \in [damaged : BOOLEAN, dead : BOOLEAN, remove : BOOLEAN]

Ships(k) == {e \in OfType(Host, "ship") : born[e].owner = k /\ ~ents[Host][e].remove}

(* The host has one ship for each client that is being served, and none    *)
(* for an ID that nobody holds: Game deletes by name what it had created   *)
(* for the connection, through every reuse of the ID.                      *)
OneShip ==
  \A k \in 2..next_uid - 1 :
    Cardinality(Ships(k)) = Cardinality({c \in served : id[c] = k})

(* While the host serves a client, the only ship it holds under the        *)
(* client's ID is the one it made for this client, marked ones included: a *)
(* ship is erased between the DISCONNECTED that frees the ID and any       *)
(* CONNECTED of its next holder.  So no snapshot hands a client the ship of*)
(* a player who left, and no call of the client is obeyed about one; a     *)
(* creation left in the queue may still make the client hold one.          *)
ShipsNotAdopted ==
  \A c \in served : \A e \in OfType(Host, "ship") : IsOwner(c, e) => born[e].for = c

Calls(c, e) == {i \in DOMAIN up[c] : up[c][i].kind = "shield" /\ up[c][i].ent = e}

(* was_damaged of ship e after what c has sent.                            *)
Settled(c, e) ==
  IF Calls(c, e) = {} THEN ents[Host][e].damaged ELSE up[c][Max(Calls(c, e))].on

(* The host, which decides what breaks an asteroid, takes a client's ship  *)
(* for invincible exactly when the client does, once it has handled what   *)
(* the client has sent.                                                    *)
ShieldsAgree ==
  \A c \in served \ {d \in Conns : link[d] = "gone"} : \A e \in Own(c, "ship") \cap DOMAIN ents[Host] :
    Settled(c, e) = ents[c][e].damaged

=============================================================================
