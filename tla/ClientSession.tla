---------------------------- MODULE ClientSession ---------------------------
(***************************************************************************)
(* The threads around a ClientStandard: the main thread (NetworkManager's  *)
(* start, stop, update and destructor, Client::update, sends of game code),*)
(* the network thread (runThreadedNetwork, processPackets, consume_events) *)
(* and the thread of enetpp::client (run_in_thread).                       *)
(*                                                                         *)
(* One session is one ClientStandard object, from startClient to its       *)
(* destruction.  The server sends CLIENT_INITIALIZED and then data; when   *)
(* the client's ID has had another holder, packets queued for that one may *)
(* come first (OnlyOwnPackets of EnetServer).  ENet delivers both ways in  *)
(* order until the connection ends.  Asserts are taken as compiled out:    *)
(* send_packet without a thread does nothing.                              *)
(***************************************************************************)
EXTENDS Naturals, Sequences, SequencesExt

CONSTANTS
  StopsFreely,  \* stopClient may be called while the network thread is inside the client
  MaxSessions,  \* bound: clients started
  MaxSends,     \* bound: sends of the game in one session
  Stale,        \* Stale[s]: the packets for an earlier holder of its ID that session s gets first
  MaxData       \* bound: packets of the server in one session, but for the first

ASSUME StopsAssumption == StopsFreely \in BOOLEAN
ASSUME StaleAssumption == \A s \in 1..MaxSessions : Stale[s] \in Nat
ASSUME BoundAssumption == MaxSessions \in Nat /\ MaxSends \in Nat /\ MaxData \in Nat

VARIABLES
  \* main thread
  app,          \* where it is
  call,         \* where it is inside sendPacket: "none", "send" or "queue"
  session,      \* clients started so far
  exit_thread,  \* NetworkManager::exit_thread
  \* network thread
  net,          \* where it is
  lost,         \* is_disconnected of consume_events
  \* enetpp::client
  thread,       \* _thread # nullptr
  should_exit,  \* _should_exit_thread
  enet,         \* the connection as its thread sees it
  packet_queue, event_queue, event_queue_copy,
  \* ClientStandard
  connected_to_server, id, packets,
  \* history of the session
  captured,     \* how many packets of the server were captured
  handled,      \* the packets the main thread has handled
  asked,        \* asked[n]: whether isConnected() was checked before send n
  accepted      \* the sends ENet took for a connected peer

main == <<app, call, session, exit_thread>>
network == <<net, lost>>
object == <<thread, should_exit, enet, packet_queue, event_queue, event_queue_copy,
            connected_to_server, id, packets>>
history == <<captured, handled, asked, accepted>>
vars == <<main, network, object, history>>

Connect == <<"CONNECT">>
Disconnect == <<"DISCONNECT">>
Receive(k) == <<"RECEIVE", k>>

Packet(event) ==
  CASE event = Connect -> <<"CONNECTED">>
    [] event = Disconnect -> <<"DISCONNECTED">>
    [] OTHER -> <<"FROM_SERVER", event[2]>>

OurID == session + 1

(* The packet that is CLIENT_INITIALIZED: those after it are the client's. *)
Initialized == Stale[session]

(* Faulty: the network thread serves only a client that is connected.      *)
HasConnectedClient == thread /\ connected_to_server

(* NetworkManager::client is not null.                                     *)
HasClient == enet # "none" /\ app \notin {"stopping", "clearing", "destroying"}

IsConnecting == thread

(* Faulty: connected as soon as there is a thread.                         *)
IsStarted == IsConnecting

IsConnected == IsConnecting /\ connected_to_server

-----------------------------------------------------------------------------
(* Faulty: the packets of the last session are still there.                *)
FreshButPackets ==
  /\ should_exit' = FALSE
  /\ packet_queue' = <<>> /\ event_queue' = <<>> /\ event_queue_copy' = <<>>
  /\ connected_to_server' = FALSE /\ id' = 0 /\ packets' = packets
  /\ captured' = 0 /\ handled' = <<>> /\ asked' = <<>> /\ accepted' = <<>>

(* A new object, or none.                                                  *)
Fresh ==
  /\ should_exit' = FALSE
  /\ packet_queue' = <<>> /\ event_queue' = <<>> /\ event_queue_copy' = <<>>
  /\ connected_to_server' = FALSE /\ id' = 0 /\ packets' = <<>>
  /\ captured' = 0 /\ handled' = <<>> /\ asked' = <<>> /\ accepted' = <<>>

Init ==
  /\ app = "menu" /\ call = "none" /\ session = 0 /\ exit_thread = FALSE
  /\ net = "idle" /\ lost = FALSE
  /\ thread = FALSE /\ should_exit = FALSE /\ enet = "none"
  /\ packet_queue = <<>> /\ event_queue = <<>> /\ event_queue_copy = <<>>
  /\ connected_to_server = FALSE /\ id = 0 /\ packets = <<>>
  /\ captured = 0 /\ handled = <<>> /\ asked = <<>> /\ accepted = <<>>

-----------------------------------------------------------------------------
(* The main thread.                                                        *)

(* ClientStandard's constructor connects, which starts the thread.         *)
StartClient ==
  /\ app = "menu"
  /\ session < MaxSessions
  /\ app' = "loop"
  /\ session' = session + 1
  /\ thread' = TRUE
  /\ enet' = "starting"
  /\ Fresh
  /\ UNCHANGED <<call, exit_thread, network>>

(* The game sends: after a check (the tick, RPCManager::call) or without   *)
(* one (deleteEntity, createNetworkedEntity).                              *)
GameSend(checked) ==
  /\ app \in {"loop", "drain"}
  /\ call = "none"
  /\ Len(asked) < MaxSends
  /\ checked => IsConnected
  /\ call' = "send"
  /\ asked' = Append(asked, checked)
  /\ UNCHANGED <<app, session, exit_thread, network, object, captured, handled, accepted>>

(* send_packet: the test of _thread, and the emplace under the lock.       *)
TestThread ==
  /\ call = "send"
  /\ call' = IF thread THEN "queue" ELSE "none"
  /\ UNCHANGED <<app, session, exit_thread, network, object, history>>

QueuePacket ==
  /\ call = "queue"
  /\ call' = "none"
  /\ packet_queue' = Append(packet_queue, Len(asked))
  /\ UNCHANGED <<app, session, exit_thread, network, thread, should_exit, enet, event_queue,
                 event_queue_copy, connected_to_server, id, packets, history>>

(* Client::update holds the mutex while it empties the queue.              *)
StartDrain ==
  /\ app = "loop" /\ call = "none"
  /\ packets # <<>>
  /\ app' = "drain"
  /\ UNCHANGED <<call, session, exit_thread, network, object, history>>

HandlePacket ==
  /\ app = "drain" /\ call = "none"
  /\ packets # <<>>
  /\ packets' = Tail(packets)
  /\ handled' = Append(handled, Head(packets))
  /\ UNCHANGED <<main, network, thread, should_exit, enet, packet_queue, event_queue,
                 event_queue_copy, connected_to_server, id, captured, asked, accepted>>

EndDrain ==
  /\ app = "drain" /\ call = "none"
  /\ packets = <<>>
  /\ app' = "loop"
  /\ UNCHANGED <<call, session, exit_thread, network, object, history>>

(* Faulty: the thread is joined without being told to end.                 *)
KeepRunning == UNCHANGED should_exit

(* disconnect(), up to the join.                                           *)
RaiseExit == should_exit' = (should_exit \/ thread)

(* stopClient: the pointer is null from here on; ~ClientStandard calls     *)
(* disconnect.                                                             *)
StopClient ==
  /\ app = "loop" /\ call = "none"
  /\ StopsFreely \/ net = "idle"
  /\ app' = "stopping"
  /\ RaiseExit
  /\ UNCHANGED <<call, session, exit_thread, network, thread, enet, packet_queue, event_queue,
                 event_queue_copy, connected_to_server, id, packets, history>>

(* ~NetworkManager: first the network thread is joined.                    *)
Quit ==
  /\ app \in {"menu", "loop"} /\ call = "none"
  /\ app' = "quitting"
  /\ exit_thread' = TRUE
  /\ UNCHANGED <<call, session, network, object, history>>

(* Faulty: exit_thread is set, and nobody waits.                           *)
NoJoin == app = "quitting"

NetworkJoined == app = "quitting" /\ net = "ended"

QuitStops ==
  /\ NetworkJoined
  /\ app' = IF enet = "none" THEN "over" ELSE "stopping"
  /\ RaiseExit
  /\ UNCHANGED <<call, session, exit_thread, network, thread, enet, packet_queue, event_queue,
                 event_queue_copy, connected_to_server, id, packets, history>>

(* disconnect() in ~ClientStandard: the join, if there is a thread.        *)
StopJoin ==
  /\ app = "stopping"
  /\ thread => enet = "ended"
  /\ app' = "clearing"
  /\ thread' = FALSE
  /\ UNCHANGED <<call, session, exit_thread, network, should_exit, enet, packet_queue,
                 event_queue, event_queue_copy, connected_to_server, id, packets, history>>

(* destroy_all_queued_packets and destroy_all_queued_events.               *)
DestroyQueues ==
  /\ packet_queue' = <<>>
  /\ event_queue' = <<>>

StopClear ==
  /\ app = "clearing"
  /\ app' = "destroying"
  /\ DestroyQueues
  /\ UNCHANGED <<call, session, exit_thread, network, thread, should_exit, enet,
                 event_queue_copy, connected_to_server, id, packets, history>>

Destroy ==
  /\ app = "destroying"
  /\ app' = IF exit_thread THEN "over" ELSE "menu"
  /\ enet' = "none"
  /\ Fresh
  /\ UNCHANGED <<call, session, exit_thread, network, thread>>

-----------------------------------------------------------------------------
(* The network thread.                                                     *)

(* `if (client)`, and into processPackets.                                 *)
EnterClient ==
  /\ net = "idle" /\ HasClient
  /\ ~exit_thread
  /\ event_queue # <<>>
  /\ net' = "inside"
  /\ UNCHANGED <<main, lost, object, history>>

(* Faulty: the batch is copied and the queue keeps it.                     *)
CopyBatch == event_queue_copy' = event_queue /\ UNCHANGED event_queue

SwapBatch == event_queue_copy' = event_queue /\ event_queue' = <<>>

TakeBatch ==
  /\ net = "inside"
  /\ net' = "events"
  /\ lost' = FALSE
  /\ SwapBatch
  /\ UNCHANGED <<main, thread, should_exit, enet, packet_queue, connected_to_server, id,
                 packets, history>>

(* Faulty: the first packet is taken for CLIENT_INITIALIZED.               *)
LearnAtFirst(event) == id' = IF event = Receive(0) THEN OurID + Initialized ELSE id

LearnID(event) == id' = IF event = Receive(Initialized) THEN OurID ELSE id

(* The callback up to pushPacket.                                          *)
Callback ==
  /\ net = "events"
  /\ event_queue_copy # <<>>
  /\ LET event == Head(event_queue_copy) IN
       /\ connected_to_server' =
            (event = Connect \/ (connected_to_server /\ event # Disconnect))
       /\ lost' = (lost \/ event = Disconnect)
       /\ LearnID(event)
  /\ net' = "pushing"
  /\ UNCHANGED <<main, thread, should_exit, enet, packet_queue, event_queue,
                 event_queue_copy, packets, history>>

PushPacket ==
  /\ net = "pushing"
  /\ app # "drain"
  /\ packets' = Append(packets, Packet(Head(event_queue_copy)))
  /\ event_queue_copy' = Tail(event_queue_copy)
  /\ net' = "events"
  /\ UNCHANGED <<main, lost, thread, should_exit, enet, packet_queue, event_queue,
                 connected_to_server, id, history>>

EndEvents ==
  /\ net = "events"
  /\ event_queue_copy = <<>>
  /\ net' = IF lost THEN "joining" ELSE "idle"
  /\ IF lost THEN RaiseExit ELSE UNCHANGED should_exit
  /\ UNCHANGED <<main, lost, thread, enet, packet_queue, event_queue, event_queue_copy,
                 connected_to_server, id, packets, history>>

(* disconnect() after a DISCONNECT event.                                  *)
NetJoin ==
  /\ net = "joining"
  /\ thread => enet = "ended"
  /\ thread' = FALSE
  /\ net' = "clearing"
  /\ UNCHANGED <<main, lost, should_exit, enet, packet_queue, event_queue, event_queue_copy,
                 connected_to_server, id, packets, history>>

NetClear ==
  /\ net = "clearing"
  /\ net' = "idle"
  /\ DestroyQueues
  /\ UNCHANGED <<main, lost, thread, should_exit, enet, event_queue_copy,
                 connected_to_server, id, packets, history>>

EndNetwork ==
  /\ net = "idle" /\ exit_thread
  /\ net' = "ended"
  /\ UNCHANGED <<main, lost, object, history>>

-----------------------------------------------------------------------------
(* The thread of enetpp::client.                                           *)

enetOther == <<main, network, thread, should_exit, event_queue_copy,
               connected_to_server, id, packets, handled, asked>>

StartDisconnect ==
  /\ should_exit
  /\ enet \in {"connecting", "connected"}
  /\ enet' = IF enet = "connected" THEN "disconnecting" ELSE "giving up"
  /\ UNCHANGED <<enetOther, packet_queue, event_queue, captured, accepted>>

(* The host or the peer cannot be created, or a second passes without an   *)
(* answer: the thread ends and leaves no event.                            *)
EndSilently ==
  /\ enet \in {"starting", "disconnecting", "giving up"}
  /\ enet' = "ended"
  /\ UNCHANGED <<enetOther, packet_queue, event_queue, captured, accepted>>

StartConnecting ==
  /\ enet = "starting"
  /\ enet' = "connecting"
  /\ UNCHANGED <<enetOther, packet_queue, event_queue, captured, accepted>>

(* ENet refuses packets for a peer that is not connected yet.              *)
SendQueued ==
  /\ enet \in {"connecting", "connected"}
  /\ packet_queue # <<>>
  /\ packet_queue' = <<>>
  /\ accepted' = IF enet = "connected" THEN accepted \o packet_queue ELSE accepted
  /\ UNCHANGED <<enetOther, enet, event_queue, captured>>

CaptureConnect ==
  /\ enet = "connecting"
  /\ enet' = "connected"
  /\ event_queue' = Append(event_queue, Connect)
  /\ UNCHANGED <<enetOther, packet_queue, captured, accepted>>

CaptureReceive ==
  /\ enet = "connected"
  /\ captured <= MaxData
  /\ captured' = captured + 1
  /\ event_queue' = Append(event_queue, Receive(captured))
  /\ UNCHANGED <<enetOther, enet, packet_queue, accepted>>

(* The server refused or left, timed out, or confirmed our leaving.        *)
CaptureDisconnect ==
  /\ enet \in {"connecting", "connected", "disconnecting"}
  /\ enet' = "ended"
  /\ event_queue' = Append(event_queue, Disconnect)
  /\ UNCHANGED <<enetOther, packet_queue, captured, accepted>>

-----------------------------------------------------------------------------
Draining == HandlePacket \/ EndDrain

Sending == TestThread \/ QueuePacket

Stopping == QuitStops \/ StopJoin \/ StopClear \/ Destroy

Main ==
  \/ StartClient \/ StopClient \/ Quit \/ StartDrain
  \/ GameSend(TRUE) \/ GameSend(FALSE)
  \/ Draining \/ Sending \/ Stopping

Network ==
  \/ EnterClient \/ TakeBatch \/ Callback \/ PushPacket \/ EndEvents
  \/ NetJoin \/ NetClear \/ EndNetwork

Enet ==
  \/ StartConnecting \/ StartDisconnect \/ EndSilently \/ SendQueued
  \/ CaptureConnect \/ CaptureReceive \/ CaptureDisconnect

Next == Main \/ Network \/ Enet

Spec == Init /\ [][Next]_vars

(* The threads run; the peer that disconnects is reset after a second; the *)
(* main thread holds the mutex for a fraction of a frame.  Nothing obliges *)
(* the server to answer, nor the game to send or to stop.                  *)
Fairness ==
  /\ WF_vars(StartDrain) /\ WF_vars(Draining) /\ WF_vars(Sending) /\ WF_vars(Stopping)
  /\ WF_vars(Network) /\ SF_vars(PushPacket)
  /\ WF_vars(StartConnecting) /\ WF_vars(StartDisconnect) /\ WF_vars(EndSilently)

FairSpec == Spec /\ Fairness

-----------------------------------------------------------------------------
(* Properties.                                                             *)

Events == {Connect, Disconnect} \cup {Receive(k) : k \in 0..MaxData}

Packets == {Packet(e) : e \in Events}

Sends == 1..Len(asked)

(* The shape of the state: the batch is only nonempty while the network    *)
(* thread works on it, and nothing of a client outlives it.                *)
TypeOK ==
  /\ app \in {"menu", "loop", "drain", "quitting", "stopping", "clearing", "destroying", "over"}
  /\ call \in {"none", "send", "queue"}
  /\ session \in 0..MaxSessions
  /\ exit_thread \in BOOLEAN /\ lost \in BOOLEAN /\ thread \in BOOLEAN
  /\ should_exit \in BOOLEAN /\ connected_to_server \in BOOLEAN
  /\ net \in {"idle", "inside", "events", "pushing", "joining", "clearing", "ended"}
  /\ enet \in {"none", "starting", "connecting", "connected", "disconnecting", "giving up", "ended"}
  /\ asked \in Seq(BOOLEAN) /\ Len(asked) <= MaxSends
  /\ packet_queue \in Seq(Sends) /\ accepted \in Seq(Sends)
  /\ event_queue \in Seq(Events) /\ event_queue_copy \in Seq(Events)
  /\ packets \in Seq(Packets) /\ handled \in Seq(Packets)
  /\ captured \in 0..(MaxData + 1)
  /\ id \in {0, OurID}
  /\ net = "pushing" => event_queue_copy # <<>>
  /\ enet = "none" => /\ thread = FALSE
                     /\ packet_queue = <<>> /\ event_queue = <<>> /\ packets = <<>>

(* What the game is shown of a session: CONNECTED, then all the packets of *)
(* the server in the order they were sent, then DISCONNECTED, which may    *)
(* also come alone (a refused connection); none twice, none skipped, for   *)
(* all the queues and threads on the way.                                  *)
Bracketed ==
  \A i \in 1..Len(handled) :
    \/ i = 1 /\ handled[i] = <<"CONNECTED">>
    \/ i > 1 /\ handled[i] = <<"FROM_SERVER", i - 2>>
    \/ i = Len(handled) /\ handled[i] = <<"DISCONNECTED">>

(* Client::id is written on the network thread and read by Entity::isOwner *)
(* on the main thread: it is right for whatever the game can have handled  *)
(* of its own, CLIENT_INITIALIZED and all that follows it.  What was meant *)
(* for an earlier holder of the ID may be handled before, without an ID.   *)
IDKnown ==
  \A i \in 1..Len(handled) :
    handled[i][1] = "FROM_SERVER" /\ handled[i][2] >= Initialized => id = OurID

Accepted(n) == \E i \in 1..Len(accepted) : accepted[i] = n

(* Sends go out in the order they were made, and one that was made while   *)
(* isConnected() held is not lost before the connection is, whatever       *)
(* unchecked sends came before it; the unchecked ones may vanish between.  *)
SendsKept ==
  /\ \A i, j \in 1..Len(accepted) : i < j => accepted[i] < accepted[j]
  /\ \A n, m \in Sends : n < m /\ asked[n] /\ Accepted(m) => Accepted(n)
  /\ enet = "connected" /\ packet_queue = <<>> /\ call = "none"
       => \A n \in Sends : asked[n] => Accepted(n)

(* The asserts of enetpp::client's destructor.                             *)
DestructorAsserts ==
  app = "destroying" =>
    /\ ~thread
    /\ packet_queue = <<>> /\ event_queue = <<>> /\ event_queue_copy = <<>>

(* They hold whichever thread saw the end of the session first and         *)
(* whatever was queued after it, and nobody is inside the client that goes.*)
CleanDestruction ==
  /\ DestructorAsserts
  /\ app = "destroying" => net \in {"idle", "ended"} /\ call = "none"

(* stopClient and ~NetworkManager come back: neither join waits for ever.  *)
Stops == (app \in {"quitting", "stopping"}) ~> (app \in {"menu", "over"})

(* The end of a connection reaches the game, unless it has stopped first.  *)
LearnsOfLoss ==
  (enet = "ended" /\ Contains(event_queue, Disconnect))
    ~> (Contains(handled, <<"DISCONNECTED">>) \/ app \notin {"loop", "drain"})

=============================================================================
