# EnkiNet in TLA+

A verification project for EnkiNet, a C++17 library for small networked games:
signals, packets, RPCs, and entities replicated between a server and its
clients over ENet (through the vendored wrapper `enetpp`). Paths below are
relative to the repository; `Scenegraph.cpp` and its neighbours are under
`src/EnkiNet/`, `server.h` and `client.h` are those of
`third_party/enetpp/include/enetpp/`.

## 1. Inventory

| Component | State | Operations | Interacts with |
|---|---|---|---|
| `Scenegraph` | `entities` (ID to entity), the counters `ID` and `localID`, builders, registered children, `total_network_ticks` | `createEntity`, `createNetworkedEntity`, `deleteEntity`, `update`, the handlers of `on_packet_received` (server and client), the tick, `sendAllNetworkedEntitiesToClient` | signals of `Server`, `Client`, `NetworkManager`; `RPCManager`; game code |
| `ServerHost` / `Server` | `packets` and its mutex, `next_uid`, `free_ids` | `update` (drain), `pushPacket`, `processPackets`, sends to one / all / some / all but one, `getNextUID` | enetpp server, `ClientHost` (synchronous emit), main and network thread |
| `ServerStandard` | as `ServerHost`, no local client | the same | the same |
| `ClientHost` | its ID, 1 | `sendPacket` (synchronous emit of the server's signal) | `ServerHost` |
| `ClientStandard` / `Client` | `packets` and its mutex, `id`, `connected_to_server` | `update`, `processPackets`, `sendPacket` | enetpp client, main and network thread |
| enetpp `server` | `_packet_queue`, `_event_queue`, its copy, `_thread_peer_map`, `_connected_clients`, the thread | `send_packet_to`, `send_packet_to_all_if`, `consume_events`, the thread's loop, `stop_listening` | ENet, network and main thread |
| enetpp `client` | two queues, the thread | `connect`, `disconnect`, `send_packet`, `consume_events` | ENet, network and main thread |
| `NetworkManager` | server and client pointers, the network thread, timers | `startHost/Server/Client`, `stop...`, `update`, `runThreadedNetwork` | all of the above |
| `RPCManager` | registered RPCs and their types | `add`, `call`, `receive`, `RPCInfo` | `Scenegraph`'s handlers route entity RPCs |
| `Packet` | bytes, read and write position (bytes and bits) | `writeBits`, `readBits`, typed and compressed reads and writes | everything |
| `Signal`, `Connection` | slots; weak reference and slot ID | `connect`, `disconnect`, `emit` | everything |
| demos | game state | create, mutate and delete entities on CONNECTED, DISCONNECTED, input, collisions | `Scenegraph` |

What makes it hard:

* **Threads.** A listen server runs a main thread (drain, tick, game code,
  `Scenegraph::update`), a network thread (`consume_events`, `pushPacket`) and
  enetpp's own thread (sends, captures). Three queues lie between a client's
  packet and its handler, and `_connected_clients` changes in the middle of
  that way, earlier than the main thread learns of it.
* **Joining and leaving.** Creations and deletions race with the snapshot that
  a new client receives. Client IDs are reused after a disconnect.
* **Order.** Children are created and sent before their parents; deletions of
  the server, of owners and of orphans cross each other; a deleted entity lives
  on, marked, until the end of the frame.
* **Boundaries.** The bit positions of `Packet`; unlocked reads of `size()` and
  `empty()`; stops while the network thread runs; checks and assertions with
  another thread between them.

`PROJECT.json` lists each hazard at its line with the properties that cover it.

Correctness, component by component. *Scenegraph:* replicas of an ID agree; no
client misses a creation or a deletion; state converges and the owner's state
is the authority; deletions complete and take the children along. *Server and
enetpp server:* IDs are unique and never lost; each connection's events are
handled in order and once; sends reach whom they were meant for.
*ClientStandard:* the game is shown CONNECTED, CLIENT_INITIALIZED and the data
in order, then DISCONNECTED; its ID is known when anything that was meant for
it can have been handled; checked sends are kept; a shutdown ends and leaves
nothing behind. *NetworkManager:* no call into a stopped server or client.
*RPCs:* each `RPCType` runs on the machines `RPC.hpp` says. *Packet:* what is
written is read back, and no byte outside the packet's memory is touched.
*Signals:* a disconnected slot is not called, a managed connection leaves no
slot behind. *Asteroids:* one ship for each player, through joins, leaves and
reused IDs.

## 2. Modules

How they fit together:

```
                     main thread            network thread        enetpp thread
server side   Scenegraph, EntityRPC, Asteroids                    EnetServer
              (game, handlers, snapshot)    (NetConsume, NetPush) (all three threads)
client side   Scenegraph, EntityRPC, Asteroids                    ClientSession
              (Remote... actions)                                 (all three threads)
data          Packet (what a packet is made of), Signals (who is called)
abstract      RPCContract, implemented by EntityRPC
```

`Scenegraph`, `EntityRPC` and `Asteroids` take the way of a packet between two
main threads as one or two queues. `EnetServer` and `ClientSession` look inside
these queues, and what is proved there is what makes the coarser view right:
in order, once, from one CONNECTED to one DISCONNECTED, under an ID that
means one client. The exception, packets queued for an earlier holder of an ID
(finding 3), is part of `EnetServer`, `ClientSession` and `Asteroids`;
`Scenegraph` and `EntityRPC` use each ID once.

### `Scenegraph.tla`, `MCScenegraph.tla`, `Scenegraph_proof.tla`, `SequenceInduction.tla`

Replication on a listen server and its remote clients.

| Model | Code |
|---|---|
| `ents[c]` | `Scenegraph::entities` of client `c`; `Host` is the listen server's own |
| `born` | what each ID was created with; `Len(born) + 1` is `Scenegraph::ID` |
| `up[r]`, `down[r]` | the reliable ordered channel of a remote client (channel 0, `ENET_PACKET_FLAG_RELIABLE`) together with the queues at its ends |
| `net`, `packets`, `phase` | the packet the network thread is about to push, `Server::packets`, and where the main thread is: idle, draining under the mutex, or before `Scenegraph::update` |
| `connected` | `_connected_clients` |
| `joined`, `ghosts`, `calls` | history and the bound |

`NetConsume` and `NetPush` are the network thread; `StartDrain`, `Handle...`,
`EndDrain` (with the tick) and `SceneUpdate` the main thread's loop. Each
handler is one action with all it does: the forwarding, the host's own replica
(ClientHost handles a packet before the send returns), the marks. `HostCreate`,
`HostDelete` and `Mutate(Host)` are game code, enabled at any point of the
loop, since the demos call from handlers and from `Entity::update`. `Remote...`
are a remote client's handlers, frame, tick and game code; `Leave` includes a
timeout: what the client sent last may be lost, from any point on.

Abstracted: names are part of the type; serialized state is a number; the
`network_tick_rate` is a nondeterministic tick; the requests of clients name no
parent (the handler would pass one on; no game code sets one). One level of
children (`ChildrenAssumption`), as Asteroids' Player has; Pong's Paddle has
more. An ID of a client is used once here; what becomes of entities when it is
used again is the subject of `Asteroids`.

### `EnetServer.tla`, `MCEnetServer.tla`, `EnetServer_proof.tla`

The threads around an `enetpp::server`, and client IDs. A connection
`c \in Conns` is one peer from CONNECT to DISCONNECT; `id[c]` may be a reused ID.
`SendQueued` and `EndCapture` alternate as in `run_in_thread`;
`HandleConnect/Receive/Disconnect` are the captures, with `GetNextUID`, which
`ServerStandard` and `ServerHost` have alike. `TakeBatch` swaps the event queue
out, `ConsumeEvent` updates `_connected_clients` and calls the callback, and
`PushPacket` waits for the mutex. `StartDrain`, `Handle...`, `EndDrain` are
`Server::update`; `HandleConnected` sends the snapshot to the sender's ID,
`HandleDisconnected` returns the ID. `Broadcast` is `send_packet_to_all_if` in
any order of the clients. Each queue operation under a lock is one step; so is
a broadcast, which in the code iterates a vector that the network thread may
change (a data race: a hazard, not modelled).

### `EntityRPC.tla`, `RPCContract.tla`, `MCEntityRPC.tla`, `SequenceFilter.tla`, `EntityRPC_proof.tla`, `SequenceInduction.tla`

RPCs on entities, from the call to its execution on other machines.

| Model | Code |
|---|---|
| `RPCs`, `Lacks` | what `add` registered, by type of entity and by machine |
| `HostCall`, `RemoteCall(r)` | `RPCManager::call` on an entity: by type and ownership it is executed, serialized or both |
| `HandleRPC` | the server's ENTITY_RPC handler: forward to the master, to all, to all but the sender, then the host's own replica |
| `RemoteCreate`, `RemoteSnapshot`, `RemoteDelete`, `RemoteRPC` | a client's handlers: creation, snapshot, deletion, `RPCManager::receive` |
| `served`, `link` | a client is among `_connected_clients`, and gets broadcasts, before the main thread handles its CONNECTED and sends the snapshot |
| `issued`, `executed` | history: calls are numbered |
| `ents[c][e].ran` | the calls the state of an entity reflects (Score's points are its length) |
| `Carried` | entities whose `serializeOnConnection` writes that state (Score; not HealthSpawner) |

`RPCContract` says what `RPC.hpp`'s comments on `RPCType` promise, and nothing
about networks: a call runs only on the machines of its audience, at most once,
and each machine runs a caller's calls in the caller's order. `KeepsContract`
is the refinement, with `issued` mapped to the call's caller, owner and type.

### `ClientSession.tla`, `MCClientSession.tla`, `ClientSession_proof.tla`

The mirror of `EnetServer` on a client, over the life of `ClientStandard`
objects: `startClient`, sends (checked by `isConnected` or not), `Client::update`,
`stopClient` and the destructor of `NetworkManager` on the main thread;
`runThreadedNetwork`, `processPackets` and `consume_events` on the network
thread; `run_in_thread` with its captures and its disconnect on enetpp's. One
step is what happens between two points where another thread can notice:
`send_packet`'s test and its emplace are two, so are the callback and
`pushPacket`, raising the exit flag, joining, and emptying the queues.

The server's packets are numbered as they arrive. Under an ID that somebody
else has had, packets queued for that client may come first: `Stale[s]` is how
many in session `s`, and packet number `Stale[s]` is CLIENT_INITIALIZED, which
`EnetServer` justifies (`OwnAfterInitialized`). The game handles the earlier
ones with ID 0; `IDKnown` is about CLIENT_INITIALIZED and what follows it.

`StopsFreely` says whether `stopClient` may be called while the network thread
is inside the client. The demos never call it (they end in the destructor,
which joins the network thread first), so it is FALSE in `ClientSession.cfg`
and a hypothesis of the proofs. With TRUE, TLC finds `CleanDestruction` violated
after 7 steps: `stopClient` (`NetworkManager.cpp` 91) destroys the client while
the network thread is inside it; a step more, and that thread has swapped a batch into
`_event_queue_copy`, which `disconnect` does not empty and the destructor asserts
to be empty (`client.h` 47). That is listed as a hazard.

Worth knowing: a host or a peer that cannot be created ends the thread without
an event (`EndSilently`), so the game never learns of it; an unchecked send may
meet a client without a thread, where `send_packet`'s assertion would fail. A
remote client makes its own CONNECTED when ENet reports the connection
(`ClientStandard.cpp` 36), so its game is told of it before CLIENT_INITIALIZED
has come, contrary to what `Packet.hpp` 23-24 says (a hazard).

### `Packet.tla`, `Packet_proof.tla`

A packet as its bits: `writeBits`, whole bytes (`operator<<`, vectors), `clear`,
`reset`, the way over the network, and the reads in the same
order. A value is the set of its one bits. Positions are pairs (byte, bit) as in
the code, which has two names for a full byte, `(k+1, 8)` and `(k+2, 0)`; they
are the same place for bits and different ones for bytes.

`beyond` is how far after its memory a packet was touched. The memory of the
packet that is written is what a constructor reserves, 1400 bytes, or the
vector if that is longer; a copy owns its elements only, and every reader has a
copy (slots take a `Packet` by value, the queues are pushed to). `clear` empties
the vector and copies the header to where the elements were, which is
after the vector and in the reserved memory.

Assumed: same widths on both sides (Asteroid's `std::size_t` breaks this: a
hazard), writes at the end and not into the middle (nobody seeks). A compressed
float whose range has 2^k steps has 2^k + 1 values in k bits, so that the
maximum is written as 0 and read back as the minimum (`Packet.cpp` 225 and 228,
though `Packet.hpp` 103 speaks of a loss "beyond specified resolution" only):
with `Steps = {4}` TLC finds `RoundTrip` violated in two steps. That is listed
as a hazard; the run has 5 steps, and `RoomForMaximum`, that no range has 2^k
steps, is what `ReadsWhatWasWritten` supposes. Of strings and vectors only
the sizes count: reading an empty vector throws (`Packet.hpp` 257) and
`operator>>` for `std::array` reads `size` bytes, not elements (232); no code
of the repository does either.

### `Signals.tla`, `SequenceFilter.tla`, `Signals_proof.tla`

Two signals and variables of type `Connection` and `ManagedConnection` that are
connected, copied, moved, assigned and destroyed in any order, and signals that
are destroyed before them. A copy of a `Connection` stays valid after another
copy was disconnected; `ManagedConnection` has no move constructor of its own,
and assigning an equal connection to one disconnects it. `emit` changes
nothing here.

### `Asteroids.tla`, `Asteroids_proof.tla`, `SequenceInduction.tla`

The demo on top of the library, with IDs that are used again: every machine's
frame, players, bullets, asteroids and their collisions as choices,
the CONNECTED and DISCONNECTED reactions of `Game.cpp`, `startInvincible` and
`stopInvincible`. `Join` gives out IDs as `GetNextUID` does. The host's frame
begins with `StartUpdate`, which takes the mutex of `Server::update`; then come
the handlers, each a step, and `HostFrame`, the rest of the frame up to the end of
`Scenegraph::update`. A client's frame is `ClientFrame`, one step.

Packets are addressed as in the code, by ID. `down[c]` is what has been queued
for the ID of `c`, or sent to it, that `c` has not handled. `Leave` keeps what
was not sent yet; it stays in the queue until `Flush`, enetpp's loop with
nobody under the ID, drops it, or `Join` gives the ID and with it the packets
to another client. `listed` is `_connected_clients`, which the network thread
changes later than enetpp's thread its map (`List`), so that a broadcast misses
a client that has come and is queued for one that has gone; the snapshot goes
to the ID in any case. A CONNECTED or DISCONNECTED is handled only after its
`List` (`Pushed`). Two simplifications add behaviours: a client has its ID from
`Join` on, though CLIENT_INITIALIZED comes after the packets of an earlier
holder, so it acts on those sooner than in the code; and `Flush` may come at
any time.

What the model shows and the code hardly says: the host serves no player with
the ship of the one before only because `Server::update` holds its mutex for
the whole drain and `Scenegraph::update` erases at the end of the same frame;
the bullets of a client that has gone are adopted; a client that joins late
does not get `was_damaged`; a ghost ship (finding 1) may stay with a third
client, so `OneShip` and `ShipsNotAdopted` speak of the host's own entities.
What a client holds is another matter: the creation of a ship that was queued
for a player who left may reach the next holder of the ID (finding 3), who
holds that ship, and takes it for its own, until the deletion comes, which was
queued behind it.

### Faulty variants

Definitions marked *Faulty* stand beside the ones they vary. No specification
uses them; they are the mistakes that show each property can fail.

## 3. Runs

| Run | Question | Bounds | Result (distinct states) |
|---|---|---|---|
| `SceneLifecycle.cfg` | does anyone miss a creation or a deletion around joins and leaves; do updates, ticks and snapshots converge; is an owner ever set back? | 2 clients, 3 calls (creates, deletes, mutations, ticks), both may leave, `MaxQueue` 3 | holds (331 505) |
| `SceneFamilies.cfg` | do deletions take children along everywhere, and end? | 1 client, a parent with a child, 2 calls, fairness | holds (52 000) |
| `SceneGhosts.cfg` | does a client keep what the host has deleted? | 1 client, 2 calls | **violated** |
| `SceneOrphans.cfg` | is an orphan's parent always deleted? | 1 client, 2 calls | **violated** |
| `EnetServer.cfg` | are IDs unique and accounted for, events in order, packets delivered after CLIENT_INITIALIZED the client's own? | 2 connections, 1 data packet, 1 broadcast | holds (526 000) |
| `EnetServerLive.cfg` | does an ID come back? | 2 connections, 1 data packet, fairness | holds (153 000) |
| `EnetServerStale.cfg` | can a packet reach another client than the one it was queued for? | 2 connections | **violated** |
| `EntityRPC.cfg` | do calls run where, once and in the order the contract says; does a late joiner count a call twice; do calls arrive? | 2 clients (one may leave), 1 entity, 2 calls or deletions, types Master, RemoteAndLocal, All, fairness | holds (118 094) |
| `ClientSession.cfg` | is the game shown a session in order; is its ID right; are checked sends kept; do stops end and leave nothing behind? | 2 sessions, the second with 1 packet for an earlier holder of its ID, 2 sends, 3 packets of the server, fairness | holds (130 618) |
| `Packet.cfg` | is what was written read back, at every offset? | 3 values; widths 3, 8, 13; sizes 1, 2; 5 steps; header of 2 bytes, 3 reserved | holds (336 894) |
| `Signals.cfg` | is a slot left behind, lost, or disconnected twice? | 2 signals, 1 connection, 2 managed ones, 2 connects | holds (200 822) |
| `Asteroids.cfg` | has every player one ship, its own, while an ID goes to another client? | 2 connections (one may leave), asteroids of 5 sides, 1 act, 1 break | holds (614 616) |

Why the bounds suffice. Around a join, a race needs a creation and a deletion
while another client is connected: two calls and two clients. A set-back needs
a create, a mutation and a tick, whose update meets the owner's own state:
three calls. ID reuse needs one connection to end and one to begin: two. An RPC
may overtake another of its caller: two calls; a snapshot may overlap with a
broadcast: one call and a late joiner, next to one who has been there. A second
session shows that nothing of the first is left. In a packet, a value that ends
in the middle of a byte, a whole byte after it and a third value after both
meet every case of the loops: 3 and 13 end inside a byte, 8 and the sizes at
its end; with 3 bytes reserved, a packet both fits and outgrows them. In
Asteroids, the next holder of an ID needs one connection to leave and another
to come. Its asteroids have 5 sides and do not split. With 7, where one splits
into two, TLC finds the same four properties to hold (1 207 829 states, twice
the time); and with a single client, 2 acts, 2 breaks and 5 or 7 sides, where
pieces break and a client may flash twice, `ShieldsAgree` (600 847 states). The
proofs cover 5 to 12 sides and any number of acts. A `Connection` and two
`ManagedConnection`s allow each copy, move and assignment between kinds; two
signals tell a reference to one from a reference to the other.

`MaxQueue` (and `MaxLag` in Asteroids) limit only what may be on its way when a
machine takes another turn; the bound is never below the length of a two-packet
request, and prevents no client from sending when the path is empty. `Symmetry`
is over clients (and connections), which no definition distinguishes; runs with
liveness have none.

Deadlock. Scenegraph, EnetServer and Asteroids have threads that go on for ever,
and deadlock is checked there. EntityRPC, ClientSession, Packet and Signals
have `CHECK_DEADLOCK FALSE`: they stop when the calls are made and everything
has arrived, when the program has ended, when the packet has been read, and
when no connect is left.

Fairness. Threads keep running, so each thread's steps are weakly fair.
`NetPush`/`PushPacket` and `NetConsume` are strongly fair: the mutex is held
for a fraction of a frame and the thread blocks on it, and events of all clients
are taken in order of arrival. `RemoteUpdate` is strongly fair because only the
bound `MaxQueue` disables it. In EntityRPC the handlers are weakly fair: ENet
delivers and both loops turn. In ClientSession `EndSilently` is weakly fair
because `run_in_thread` resets the peer when a second passes without an answer.
Game code, ticks, joins, sends, leaves, the server's answers and the decision to
stop are never forced. The loops of the main thread (`StartDrain`, `EndDrain`)
are weakly fair because `Game::run` turns for as long as the window is open.

### What the properties of the new modules say

* `CountedOnce`, `ScoresAgree`: a goal is counted once by everyone, although a
  late joiner gets calls in its snapshot, by broadcast, or both.
* `CallsArrive`: a call whose audience stays runs there in the end.
* `Bracketed`, `IDKnown`, `SendsKept`, `CleanDestruction`, `Stops`,
  `LearnsOfLoss`: a client's session as its game sees it, and its end.
* `RoundTrip`, `NearBuffer`, `NeverStuck`: what a reader gets, how
  far after the packet's memory the code reaches (`getBytesWritten` may be one
  past the end after an exact fill and `readBits` checks one byte too late: 1 is
  the bound; the header that `clear` copies stays in what is reserved), and that
  a reader can always go on.
* `NoOrphans`, `Accounted`: a slot that a managed connection was given is gone or
  held; of a living signal, every slot is connected or was disconnected once.
* `OneShip`, `ShipsNotAdopted`, `ShieldsAgree`: the host has one ship for each
  player it serves; under the ID of a client it serves it has only the ship
  made for that client; owner and host agree on who is invincible.

### Findings

1. **Ghost entities** (`NoGhosts`, `Scenegraph.cpp` 430-456). `deleteEntity`
   broadcasts at once and only marks the entity until the end of the frame. A
   client whose CONNECTED is handled in between gets the marked entity in its
   snapshot, after (or without) its deletion, and keeps it for good.
   `DeletionsReachClients` and `DeletionCompletes` hold with exactly these
   entities (`ghosts`) exempt.
2. **Orphans with a living parent** (`OrphanMeansParentDeleted`, 386-389
   against the comment at 294-295). A client's frame may fall between a child's
   creation and its parent's. A client that owns the child then asks the server
   to delete it.
3. **Packets for a previous holder of an ID** (`OnlyOwnPackets`, `server.h` 35
   and 234). `OwnAfterInitialized` shows what is left of the promise: such
   packets can only come before CLIENT_INITIALIZED. They reach the game with ID 0
   (`ClientSession`), and in Asteroids a former player's ship.

## 4. Proofs

`EnetServer_proof.tla` proves, for any set of connections and any number of
data packets and broadcasts, `UniqueIDs`, `IDsAccounted`, `PeerMapExact` and
`WellBracketed`, without an assumption on the constants. The invariant is
`IInv`, the conjunction of these with `ServerTypeOK`: giving a free ID to a new
client is safe only if nobody holds it, so the IDs have to be accounted for;
the main thread may return an ID only once, so no second DISCONNECTED of that
client may be on its way, which is what `WellBracketed` says of the whole stream
`packets \o pushing \o batch \o events`. Lemmas: what appending to and taking
from the stream do to the brackets (`BracketedAppended`, `BracketedTaken`), what
giving and returning do to the IDs (`IDGiven`, `IDsKept`, ...), then one lemma
for each action. `DisconnectFindsClient` needs one more invariant, `Registered`,
about what the main thread has still to consume, `batch \o events`: a client
that is connected, or whose DISCONNECTED is in there, is in `_connected_clients`
or has its CONNECTED in there too, in front. `TypeOK` (from
`BoundsAssumption`: the bounds are numbers) and `OwnAfterInitialized` are proved
on top of these. The second is about `Way(c)`, what `c` has been sent followed by
what is queued for its ID: `Informed` says that the first packet in it that was
queued for `c` is CLIENT_INITIALIZED and that all that follows was queued for `c`
too. A later packet for an earlier holder of the ID would break this, so the main
thread must not broadcast to a client that is gone without its DISCONNECTED
being on its way to it (`Listed`), and the ID is not given out again before that
is handled (`WellBracketed`).

`Signals_proof.tla` proves all three properties of the module, for any signals,
holders and number of calls of `connect`. `IInv` adds to them only `Handed` (no
ManagedConnection was given an ID that `connect` has not given out), which is
why connecting disturbs nobody. What every operation does to the vectors and
to the reports is one lemma (`DropStep`): it drops one reference at most. The
steps then differ in who holds what afterwards.

`Erase`, `SendQueued` and `FromOwner` keep the elements of a sequence that are
in a set (`Filter`). The standard library's `SelectSeq` does the same, by a
recursion that tlapm cannot look into; `Filter` is a recursive function, and
`SequenceInduction.tla` proves by induction on the length what its elements are
(`FilterType`), that it distributes over concatenation (`FilterConcat`) and
that it keeps an ascending sequence ascending (`FilterIncreasing`).

`Scenegraph_proof.tla` proves `TypeOK` and from it `ReplicasAgree`, for any
clients, types (with one level of children: `ChildrenAssumption`, and a host
that is not among the remotes: `HostAssumption`) and calls. `TypeOK` is
inductive as it stands, because it ties every EntityInfo in a replica or a
packet to `born`. The lemmas speak of a history `b` so that they apply on both
sides of a step; `ReplicaGrows` and `PacketsGrow` carry the old state over when
`createNetworkedEntity` extends the history.

It then proves `OwnerNeverSetBack` under the same two
assumptions. An update carries the whole state and replaces the whole state, so
the property is about which packets can reach the owner of an entity at all.
`Arrivals` is about the way to the host: CONNECTED is the first that comes of a
client and comes once, until then the client owns nothing there, and the
updates it sends are of its own entities. `Departures` is about the way back:
of the packets under way to a client, the only one that sets the state of an
entity it owns is the one that creates it, and then the replica does not have
it. The two queues a client's packet passes before the main thread handles
it are taken as one sequence, `Way`.

The last part of `Scenegraph_proof.tla` proves `CreationsReachClients`,
`DeletionsReachClients` and `StateReachesClients` under the same two
assumptions. They compare the host's replica with `Future(r)`, what a client's
replica becomes once all that is under way to it has arrived, which is a
recursive function of a sequence of any length. That `Deliver` takes a sequence
in two parts (`DeliverJoin`), its first packet first (`DeliverHead`), and
packets for different entities one by one (`DeliverDistinct`), is proved by
induction on its length, with the induction theorem of `SequenceInduction.tla`:
the set of the numbers for which the claim holds contains 0 and with n also n +
1, hence all (`Least`, from the well-foundedness of `<`). The invariant adds
two parts to those of `OwnerNeverSetBack`: `Synced(r)`, the three properties
with what they need of each other, and `Reached(r)`: a client for whom the
network thread has not yet counted a connection has nothing and nothing is
under way to it, so a step of the host that sends to the connected clients only
leaves out nobody who needs it. Each step of the host changes its replica and,
by the packets it sends, the future of every replica alike; handling a packet
leaves the future as it is.

`EntityRPC_proof.tla` proves `TypeOK`, the refinement `KeepsContract`,
`CountedOnce` and `ScoresAgree`, for any clients (`HostAssumption`), finitely
many entities (`EntityAssumption`) and any number of calls. For the contract, a
call must not overtake an earlier one of its caller anywhere: `UpInv` says that
a call that has not reached the host is unknown to everyone else, and so is
every later call of its caller; `DownInv` that a call under way to a client is
for it, somebody else's, and that the client has executed no later one. A
client's own calls never come back to it, which is why it may execute them at
once. Each step is then shown to map to `Invoke`, to `Execute` or to a stutter
of `RPCContract`. For `CountedOnce`, `OnceInv` adds the snapshots: a snapshot
replaces the replica's state, so a call counts twice only if the snapshot has
it and it is sent as well; calls under way to the host are in nobody's state
and in no snapshot, and what follows a snapshot in a queue is not in it.
`ScoresAgree` is about a client to which nothing is under way; its invariant
`Agreeing` is about any client and `Later(r, e)`, what its replica of `e` will
reflect of the owner's calls once all that is under way has arrived: if the
replica is there then, it reflects those that the host's reflects now. A call
of the owner for everyone goes to every other connected client in the step in
which the host executes it, so both sides gain it together; a snapshot makes
them equal; of the calls on its way to the host nobody else has heard
(`UpInv`). `Later` is a fold over a queue; that it takes a sequence in two
parts (`AccumulatedConcat`), its first packet first (`AccumulatedHead`) and
keeps a relation that every packet keeps (`AccumulatedRelated`) is proved once
in `SequenceInduction.tla`.

`ClientSession_proof.tla` proves every safety property of the module (`TypeOK`,
`Bracketed`, `IDKnown`, `SendsKept`, `CleanDestruction`), for any number of
sessions, sends, data packets and packets for earlier holders of the ID
(`StaleAssumption`), from `StopsFreely = FALSE`. `Control` ties the
places of the three threads to each other; `Ordered`, `Captured` and `Informed`
are about `Stream`, all that is on its way from enetpp's thread to the game as
one sequence, which the threads hand on, extend at the end or cut; `Keeping` is
about `Queue`, the sends taken and the sends queued: a checked send
presupposes that CONNECT was captured, so its packet is not thrown away before
the connection ends.

`Packet_proof.tla` proves every property of the module (`TypeOK`, `RoundTrip`,
`NearBuffer`, `NeverStuck`), for any widths up to those of an int
(`WidthsAssumption`, which `writeBits` checks), any ranges of compressed floats
(`StepsAssumption`), a header that fits what is reserved (`ReservedAssumption`)
and any number of values. `RoundTrip` alone supposes that no range has 2^k
steps (`RoomForMaximum`, the hypothesis of `ReadsWhatWasWritten`). Writer and
reader go through the same heads: there is a sequence of them, one between any
two values, in which each follows from the one before (`Layout`); the writer is
at the last, and a reader that has read k values at number k + 1 (`InStep`).
That there is such a sequence is part of the invariant, so no recursion over
the values is needed. The bits of a value lie between two heads and in the
buffer (`Kept`); the next one is written after them. What `writeBits` and
`readBits` compute is in `RunFacts`: a run of bits ends in the last byte it
needs.  That a float's number fits `BitsRequired` needs powers of 2 up to 2^31,
which the prover knows one by one only (`Doubles`); that they grow is by
induction.

`Asteroids_proof.tla` proves every property of the module (`TypeOK`, `OneShip`,
`ShipsNotAdopted`, `ShieldsAgree`), for any set of connections that does not
contain the host (`HostAssumption`), asteroids of 5 to 12 sides
(`SidesAssumption`, what `std::rand() % 8 + 5` gives), and any number of acts,
breaks and packets under way (`BoundAssumption`: the bounds are numbers). None of
the last three is inductive. `Inv` has these parts:

* `Unique`: an ID has one holder at a time, from `Join` until the host has
  handled its DISCONNECTED, and is in `free_ids` otherwise. (Packets for the
  holder before may still be queued.)
* `Queue(c)`: what comes of a client is CONNECTED first, DISCONNECTED last, so
  it is served for exactly what lies between, and it deletes no ship.
* `Origin`: each ship was made for one connection, with its ID, and a
  connection has one ship at most in the whole history.
* `HostShips`: each client that is served has a ship on the host, and a ship
  there is `Kept`, its client being served, or `Going`: marked in this frame,
  nobody served under its ID and of the next holder of the ID nothing due in this
  frame. This is where the mutex that `Server::update` holds for its whole drain
  enters: `due` is fixed when the frame begins, the CONNECTED of a later holder
  is not among it, and the frame's end erases what is marked.
  Hence the host's ship under the ID of a client it serves is that client's
  (lemma `ServedShip`), and a call of the client about another is not obeyed.
* `View(c)`: nobody sends `c` a call about its own ship, not even by way of what
  was queued for an earlier holder of its ID. Of the creations among these
  nothing is claimed.
* `Announced(c)`: the ship of `c` is created on `c` once, by the broadcast (it
  is made after the snapshot, and after whatever was left in the queue), and
  until then `c` has not called for it and the host has it undamaged (`Awaited`).
  A second creation would reset `was_damaged` behind the host's back. A creation
  that never comes, because the client is not listed any more, does no harm.
* `Agree(c)`: from there on the last call under way, or else the host, has the
  flag of the owner (`Told`).

`Told` for the ships in a client's replica alone is not inductive: the step
that creates the ship there needs `Announced`. TLC confirms `Inv` in all
reachable states of `Asteroids.cfg`, also with 7 sides. Every action has a lemma that it preserves
`Inv`. A frame sends what it does for each entity in the order of the
container; `NthFacts` says that `Each` enumerates a finite set, each element
once. That lemma and those on `FlattenSeq` let a frame of any size be one step.

Every invariant that a run with `expect: pass` checks is thereby stated by a
theorem, and so are the refinement `KeepsContract` and the action property
`OwnerNeverSetBack`. Only model-checked, because liveness and ENABLED are
beyond the prover: `DeletionCompletes`, `IDsComeBack`, `CallsArrive`, `Stops`
and `LearnsOfLoss`. The three violated properties are refuted by TLC and have no
theorem. What a
theorem says of the code rests on the model and on what is assumed of ENet, an
ordered reliable transport.

## 5. Not modelled

* RPCs on free functions and class members (`GLOBAL_RPC`, `CLASS_RPC`): their
  packets are handled by nobody in the library unless a game routes them, and no
  game does.
* The dedicated server's Scenegraph (`ServerStandard` without a local client
  never holds the entities it creates), local entities with state, deeper trees
  of children than one level, `sendPacketToSomeClients` (nobody calls it).
* `stop_listening` and stopping a server while it runs: the accesses race with
  the network thread without a lock (hazards); the models take each access as
  one step and cannot say more than that it is undefined.
* Strings, endianness and the values themselves in `Packet`.
* Pong's and Shooter's gameplay, `MapManager`, `InputManager`, windows,
  rendering, logging, timers, the tests: they contribute calls, which the
  game-code actions make in every order. Seen on the way and not pursued:
  Shooter's `players` is never erased; `HealthSpawner::pickedUp` throws if the
  player is gone; Pong creates "Paddle 2" only once; `Asteroid.cpp` 148 divides
  by an integer that may be 0.
* ENet itself: a reliable ordered transport that reports each connection's
  CONNECT before its data and its DISCONNECT last.

Data races on unsynchronised containers are listed as hazards.

## 6. Plan

Done: all of the above. What would come next:

1. `Scenegraph` with deeper children and the dedicated server.
2. A model of `stop_listening` and `stopServer` against the network thread, with
   the unlocked accesses as nondeterministic outcomes.
3. A composition of `EnetServer` with `ClientSession` through one lossy link.
