------------------------- MODULE ClientSession_proof ------------------------
(***************************************************************************)
(* Proofs about a ClientStandard and its three threads, for any number of  *)
(* sessions, sends and data packets.  StopsFreely = FALSE: stopClient is   *)
(* called while the network thread is not inside the client, as every demo *)
(* has it.  (With TRUE, CleanDestruction fails.)                           *)
(*                                                                         *)
(* The argument for what the game is shown.  Whatever is on its way from   *)
(* enetpp's thread to the main thread is one sequence, Stream, that the    *)
(* threads only hand on, append to at its end, or cut.  Ordered says what  *)
(* the sequence is, Captured how far it has come for each state of the     *)
(* connection, and Informed that the network thread has set the ID before  *)
(* it passes CLIENT_INITIALIZED on.                                        *)
(*                                                                         *)
(* The argument for sends.  What ENet took and what is queued is one       *)
(* sequence, Queue.  A send that is checked presupposes that CONNECT was   *)
(* captured (Checked), so the queue is not thrown away under it before the *)
(* connection ends.                                                        *)
(*                                                                         *)
(* Control ties the places of the threads to each other: nobody is inside  *)
(* a client that is stopped, and what is left of the queues is known.      *)
(***************************************************************************)
EXTENDS ClientSession, SequenceTheorems, TLAPS

(* What the game will have been shown when everything under way arrives:   *)
(* the packets handled, those queued for it, and the events before them.   *)
Seen(events) == [i \in 1..Len(events) |-> Packet(events[i])]

Whole(h, p, batch, q) == (h \o p) \o Seen(batch \o q)

Stream == Whole(handled, packets, event_queue_copy, event_queue)

(* What it has been shown and what the callback has seen.                  *)
Pushed == IF net = "pushing" THEN <<Packet(Head(event_queue_copy))>> ELSE <<>>

Told == (handled \o packets) \o Pushed

Ordered(s) ==
  \A i \in 1..Len(s) :
    \/ i = 1 /\ s[i] = <<"CONNECTED">>
    \/ i > 1 /\ s[i] = <<"FROM_SERVER", i - 2>>
    \/ i = Len(s) /\ s[i] = <<"DISCONNECTED">>

(* The types of TypeOK in parts: where the threads are, flags, counters,   *)
(* what is sent and what is shown.                                         *)
Places ==
  /\ app \in {"menu", "loop", "drain", "quitting", "stopping", "clearing", "destroying", "over"}
  /\ call \in {"none", "send", "queue"}
  /\ net \in {"idle", "inside", "events", "pushing", "joining", "clearing", "ended"}
  /\ enet \in {"none", "starting", "connecting", "connected", "disconnecting", "giving up", "ended"}

Flags ==
  /\ exit_thread \in BOOLEAN /\ lost \in BOOLEAN /\ thread \in BOOLEAN
  /\ should_exit \in BOOLEAN /\ connected_to_server \in BOOLEAN

Counts ==
  /\ session \in 0..MaxSessions
  /\ captured \in 0..(MaxData + 1)
  /\ id \in {0, OurID}

Sent ==
  /\ asked \in Seq(BOOLEAN) /\ Len(asked) <= MaxSends
  /\ packet_queue \in Seq(Sends) /\ accepted \in Seq(Sends)

Shown ==
  /\ event_queue \in Seq(Events) /\ event_queue_copy \in Seq(Events)
  /\ packets \in Seq(Packets) /\ handled \in Seq(Packets)

Types == Places /\ Flags /\ Counts /\ Sent /\ Shown

(* Where the threads are tells what is left of the connection.             *)
Control ==
  /\ net \notin {"events", "pushing"} => event_queue_copy = <<>>
  /\ net = "pushing" => event_queue_copy # <<>>
  /\ app \notin {"loop", "drain", "quitting"} => net \in {"idle", "ended"}
  /\ enet = "none" => net \in {"idle", "ended"}
  /\ call # "none" => app \in {"loop", "drain"} /\ Len(asked) > 0
  /\ app \in {"loop", "drain", "stopping", "clearing", "destroying"} => enet # "none"
  /\ app \in {"menu", "over"} => enet = "none"
  /\ thread => enet # "none"
  /\ ~thread => enet \in {"none", "ended"}
  /\ app \in {"clearing", "destroying"} \/ net = "clearing" => ~thread
  /\ app = "destroying" => packet_queue = <<>> /\ event_queue = <<>>
  /\ enet = "none" =>
       packet_queue = <<>> /\ event_queue = <<>> /\ packets = <<>> /\ handled = <<>>
  /\ session = 0 => enet = "none"

(* How far the stream is, by the state of the connection.                  *)
Captured ==
  /\ enet \in {"none", "starting", "connecting", "giving up"} => Stream = <<>> /\ captured = 0
  /\ enet \in {"connected", "disconnecting"} =>
       /\ Len(Stream) = captured + 1
       /\ \A i \in 1..Len(Stream) : Stream[i] # <<"DISCONNECTED">>

(* Whoever has been told CLIENT_INITIALIZED has an ID.                     *)
Informed ==
  (\E i \in 1..Len(Told) : Told[i] = <<"FROM_SERVER", Initialized>>) => id = OurID

(* The sends ENet took and those still queued are in order; a send that is *)
(* being made is later than all of them.                                   *)
Queue == accepted \o packet_queue

Increasing(q) == \A i, j \in 1..Len(q) : i < j => q[i] < q[j]

In(n, q) == \E i \in 1..Len(q) : q[i] = n

InOrder ==
  /\ Increasing(Queue)
  /\ call # "none" => \A i \in 1..Len(Queue) : Queue[i] < Len(asked)

(* Sends that were checked, and the check itself, know of a connection;    *)
(* while it lasts they are in the queue, or being made.                    *)
Linked == enet \in {"connected", "disconnecting", "ended"}

Checked ==
  /\ connected_to_server => Linked
  /\ \A n \in Sends : asked[n] => Linked
  /\ enet = "connected" =>
       \A n \in Sends : asked[n] => In(n, Queue) \/ (call # "none" /\ n = Len(asked))

(* What SendsKept says of the sends that were taken.                       *)
NoneSkipped == \A n, m \in Sends : n < m /\ asked[n] /\ In(m, accepted) => In(n, accepted)

Keeping == InOrder /\ Checked /\ NoneSkipped

IInv == Types /\ Control /\ Ordered(Stream) /\ Captured /\ Informed /\ Keeping

-----------------------------------------------------------------------------
(* Events and packets.                                                     *)

LEMMA EventsTyped ==
  /\ Connect \in Events /\ Disconnect \in Events
  /\ \A k \in 0..MaxData : Receive(k) \in Events
  BY DEF Events

LEMMA PacketTyped == \A e \in Events : Packet(e) \in Packets
  BY DEF Packets

LEMMA HeadTailTyped ==
  ASSUME NEW S
  PROVE  \A q \in Seq(S) : q # <<>> => Head(q) \in S /\ Tail(q) \in Seq(S)
  BY HeadTailProperties

LEMMA AppendTyped ==
  ASSUME NEW S
  PROVE  \A q \in Seq(S), e \in S : Append(q, e) \in Seq(S)
  BY AppendProperties

LEMMA ConcatTyped ==
  ASSUME NEW S
  PROVE  \A p, q \in Seq(S) : p \o q \in Seq(S)
  BY ConcatProperties

(* One more send: the earlier ones are still sends, and it is one.         *)
LEMMA AskGrows ==
  ASSUME NEW a \in Seq(BOOLEAN), NEW b \in BOOLEAN
  PROVE  /\ Append(a, b) \in Seq(BOOLEAN)
         /\ Len(Append(a, b)) = Len(a) + 1 /\ Len(a) \in Nat
         /\ \A q \in Seq(1..Len(a)) : q \in Seq(1..Len(Append(a, b)))
<1>1. Append(a, b) \in Seq(BOOLEAN) /\ Len(Append(a, b)) = Len(a) + 1 /\ Len(a) \in Nat
  BY AppendProperties, LenProperties
<1>2. 1..Len(a) \subseteq 1..Len(Append(a, b))
  BY <1>1
<1>3. \A q \in Seq(1..Len(a)) : q \in Seq(1..Len(Append(a, b)))
  BY <1>2, SeqMonotonic
<1> QED BY <1>1, <1>3

LEMMA LastSend ==
  ASSUME NEW a \in Seq(BOOLEAN), Len(a) > 0, NEW q \in Seq(1..Len(a))
  PROVE  Append(q, Len(a)) \in Seq(1..Len(a))
<1>1. Len(a) \in Nat
  BY LenProperties
<1>2. Len(a) \in 1..Len(a)
  BY <1>1
<1> QED BY <1>2, AppendProperties

-----------------------------------------------------------------------------
(* The stream of a session, and what taking, passing on and appending do.  *)

LEMMA PacketValues ==
  /\ Packet(Connect) = <<"CONNECTED">>
  /\ Packet(Disconnect) = <<"DISCONNECTED">>
  /\ \A k \in Nat : Packet(Receive(k)) = <<"FROM_SERVER", k>>
<1>1. Connect[1] = "CONNECT" /\ Disconnect[1] = "DISCONNECT"
  BY DEF Connect, Disconnect
<1>2. \A k \in Nat : Receive(k)[1] = "RECEIVE" /\ Receive(k)[2] = k
  BY DEF Receive
<1>3. Connect # Disconnect /\ \A k \in Nat : Receive(k) # Connect /\ Receive(k) # Disconnect
  BY <1>1, <1>2
<1> QED BY <1>2, <1>3 DEF Packet

LEMMA PacketsDiffer ==
  /\ <<"CONNECTED">> # <<"DISCONNECTED">>
  /\ \A k : <<"FROM_SERVER", k>> # <<"CONNECTED">> /\ <<"FROM_SERVER", k>> # <<"DISCONNECTED">>
  /\ \A k : <<"FROM_SERVER", k>>[1] = "FROM_SERVER" /\ <<"FROM_SERVER", k>>[2] = k
<1>1. <<"CONNECTED">>[1] = "CONNECTED" /\ <<"DISCONNECTED">>[1] = "DISCONNECTED"
  OBVIOUS
<1>2. \A k : <<"FROM_SERVER", k>>[1] = "FROM_SERVER" /\ <<"FROM_SERVER", k>>[2] = k
  OBVIOUS
<1> QED BY <1>1, <1>2

LEMMA SeenTyped ==
  ASSUME NEW q \in Seq(Events)
  PROVE  /\ Seen(q) \in Seq(Packets)
         /\ Len(Seen(q)) = Len(q)
         /\ \A i \in 1..Len(q) : Seen(q)[i] = Packet(q[i])
<1>1. Len(q) \in Nat /\ \A i \in 1..Len(q) : q[i] \in Events
  BY LenProperties, ElementOfSeq
<1>2. \A i \in 1..Len(q) : Packet(q[i]) \in Packets
  BY <1>1, PacketTyped
<1> QED BY <1>1, <1>2 DEF Seen

LEMMA SeenAppended ==
  ASSUME NEW q \in Seq(Events), NEW e \in Events
  PROVE  Seen(Append(q, e)) = Append(Seen(q), Packet(e))
<1> DEFINE a == Append(q, e)
<1>1. a \in Seq(Events) /\ Len(a) = Len(q) + 1 /\ Len(q) \in Nat
      /\ (\A i \in 1..Len(q) : a[i] = q[i]) /\ a[Len(q) + 1] = e
  BY AppendProperties, LenProperties
<1>2. Seen(a) \in Seq(Packets) /\ Len(Seen(a)) = Len(q) + 1
      /\ \A i \in 1..Len(q) + 1 : Seen(a)[i] = Packet(a[i])
  BY <1>1, SeenTyped
<1>3. Seen(q) \in Seq(Packets) /\ Len(Seen(q)) = Len(q)
      /\ \A i \in 1..Len(q) : Seen(q)[i] = Packet(q[i])
  BY SeenTyped
<1>4. Packet(e) \in Packets
  BY PacketTyped
<1> DEFINE b == Append(Seen(q), Packet(e))
<1>5. b \in Seq(Packets) /\ Len(b) = Len(q) + 1
      /\ (\A i \in 1..Len(q) : b[i] = Seen(q)[i]) /\ b[Len(q) + 1] = Packet(e)
  BY <1>3, <1>4, AppendProperties
<1>6. \A i \in 1..Len(q) + 1 : i \in 1..Len(q) \/ i = Len(q) + 1
  BY <1>1
<1> HIDE DEF a, b
<1>7. \A i \in 1..Len(q) + 1 : Seen(a)[i] = b[i]
  BY <1>1, <1>2, <1>3, <1>5, <1>6
<1>8. Seen(a) = b
  BY <1>2, <1>5, <1>7, SeqEqual
<1> QED BY <1>8 DEF a, b

LEMMA SeenHead ==
  ASSUME NEW q \in Seq(Events), q # <<>>
  PROVE  Seen(q) = <<Packet(Head(q))>> \o Seen(Tail(q))
<1>1. Tail(q) \in Seq(Events) /\ Len(Tail(q)) = Len(q) - 1 /\ Head(q) = q[1]
      /\ \A i \in 1..Len(Tail(q)) : Tail(q)[i] = q[i + 1]
  BY HeadTailProperties
<1>2. Len(q) \in Nat \ {0} /\ q[1] \in Events
  BY EmptySeq, ElementOfSeq
<1>3. <<Packet(Head(q))>> \in Seq(Packets)
  BY <1>1, <1>2, PacketTyped
<1>4. Len(<<Packet(Head(q))>>) = 1 /\ <<Packet(Head(q))>>[1] = Packet(q[1])
  BY <1>1
<1>5. Seen(q) \in Seq(Packets) /\ Len(Seen(q)) = Len(q)
      /\ \A i \in 1..Len(q) : Seen(q)[i] = Packet(q[i])
  BY SeenTyped
<1>6. Seen(Tail(q)) \in Seq(Packets) /\ Len(Seen(Tail(q))) = Len(q) - 1
      /\ \A i \in 1..Len(q) - 1 : Seen(Tail(q))[i] = Packet(q[i + 1])
  <2>1. Seen(Tail(q)) \in Seq(Packets) /\ Len(Seen(Tail(q))) = Len(Tail(q))
        /\ \A i \in 1..Len(Tail(q)) : Seen(Tail(q))[i] = Packet(Tail(q)[i])
    BY <1>1, SeenTyped
  <2> QED BY <2>1, <1>1
<1> DEFINE b == <<Packet(Head(q))>> \o Seen(Tail(q))
<1>7. b \in Seq(Packets) /\ Len(b) = Len(q)
      /\ \A i \in 1..Len(q) : b[i] = IF i <= 1 THEN <<Packet(Head(q))>>[i] ELSE Seen(Tail(q))[i - 1]
  BY <1>2, <1>3, <1>4, <1>6, ConcatProperties
<1> HIDE DEF b
<1>8. ASSUME NEW i \in 1..Len(q)
      PROVE  b[i] = Packet(q[i])
  <2>1. CASE i = 1
    BY <2>1, <1>4, <1>7
  <2>2. CASE i # 1
    <3>1. i - 1 \in 1..Len(q) - 1 /\ ~(i <= 1) /\ (i - 1) + 1 = i
      BY <2>2, <1>2
    <3> QED BY <3>1, <1>6, <1>7
  <2> QED BY <2>1, <2>2
<1>9. Seen(q) = b
  BY <1>5, <1>7, <1>8, SeqEqual
<1> QED BY <1>9 DEF b

LEMMA WholeTyped ==
  ASSUME NEW h \in Seq(Packets), NEW p \in Seq(Packets), NEW c \in Seq(Events),
         NEW q \in Seq(Events)
  PROVE  Whole(h, p, c, q) \in Seq(Packets)
<1>1. Seen(c \o q) \in Seq(Packets)
  BY ConcatProperties, SeenTyped
<1> QED BY <1>1, ConcatProperties DEF Whole

LEMMA Regrouped == \A s, t, u \in Seq(Packets) : (s \o t) \o u = s \o (t \o u)
  BY ConcatAssociative

(* The main thread handles a packet.                                       *)
LEMMA MovesOn ==
  ASSUME NEW h \in Seq(Packets), NEW p \in Seq(Packets), p # <<>>
  PROVE  Append(h, Head(p)) \o Tail(p) = h \o p
<1>1. Head(p) \in Packets /\ Tail(p) \in Seq(Packets)
  BY HeadTailProperties
<1>2. <<Head(p)>> \in Seq(Packets)
  BY <1>1
<1>3. p = <<Head(p)>> \o Tail(p)
  <2>1. Len(p) \in Nat \ {0}
    BY EmptySeq
  <2>2. p = <<p[1]>> \o SubSeq(p, 2, Len(p))
    BY <2>1, SubSeqFull, SubSeqRecursiveFirst
  <2> QED BY <2>2, TailIsSubSeq
<1>4. Append(h, Head(p)) = h \o <<Head(p)>>
  BY <1>1, AppendIsConcat
<1>5. (h \o <<Head(p)>>) \o Tail(p) = h \o (<<Head(p)>> \o Tail(p))
  BY <1>1, <1>2, ConcatAssociative
<1> QED BY <1>3, <1>4, <1>5

(* The network thread pushes a packet.                                     *)
LEMMA PushedOn ==
  ASSUME NEW h \in Seq(Packets), NEW p \in Seq(Packets), NEW x \in Packets
  PROVE  h \o Append(p, x) = (h \o p) \o <<x>>
<1>1. <<x>> \in Seq(Packets)
  OBVIOUS
<1>2. Append(p, x) = p \o <<x>>
  BY AppendIsConcat
<1> QED BY <1>1, <1>2, ConcatAssociative

LEMMA WholePushed ==
  ASSUME NEW h \in Seq(Packets), NEW p \in Seq(Packets), NEW c \in Seq(Events), c # <<>>,
         NEW q \in Seq(Events)
  PROVE  Whole(h, Append(p, Packet(Head(c))), Tail(c), q) = Whole(h, p, c, q)
<1> DEFINE x == Packet(Head(c))
<1>1. Head(c) \in Events /\ Tail(c) \in Seq(Events) /\ x \in Packets /\ <<x>> \in Seq(Packets)
  BY HeadTailProperties, PacketTyped
<1>2. c \o q \in Seq(Events) /\ c \o q # <<>> /\ Head(c \o q) = Head(c)
      /\ Tail(c \o q) = Tail(c) \o q /\ Tail(c) \o q \in Seq(Events)
  <2>1. c \o q \in Seq(Events) /\ Tail(c) \o q \in Seq(Events)
    BY <1>1, ConcatProperties
  <2>2. Len(c) \in Nat \ {0} /\ Len(q) \in Nat
    BY EmptySeq, LenProperties
  <2>3. Len(c \o q) = Len(c) + Len(q)
        /\ \A i \in 1..Len(c) + Len(q) : (c \o q)[i] = IF i <= Len(c) THEN c[i] ELSE q[i - Len(c)]
    BY ConcatProperties
  <2>4. c \o q # <<>> /\ Head(c \o q) = Head(c)
    BY <2>1, <2>2, <2>3
  <2>5. Tail(c \o q) \in Seq(Events) /\ Len(Tail(c \o q)) = Len(c) + Len(q) - 1
        /\ \A i \in 1..Len(c) + Len(q) - 1 : Tail(c \o q)[i] = (c \o q)[i + 1]
    BY <2>1, <2>3, <2>4, HeadTailProperties
  <2>6. Len(Tail(c)) = Len(c) - 1 /\ \A i \in 1..Len(c) - 1 : Tail(c)[i] = c[i + 1]
    BY HeadTailProperties
  <2>7. Len(Tail(c) \o q) = Len(c) + Len(q) - 1
        /\ \A i \in 1..Len(c) + Len(q) - 1 :
             (Tail(c) \o q)[i] = IF i <= Len(c) - 1 THEN Tail(c)[i] ELSE q[i - (Len(c) - 1)]
    <3>1. Len(Tail(c) \o q) = Len(Tail(c)) + Len(q)
          /\ \A i \in 1..Len(Tail(c)) + Len(q) :
               (Tail(c) \o q)[i] = IF i <= Len(Tail(c)) THEN Tail(c)[i] ELSE q[i - Len(Tail(c))]
      BY <1>1, ConcatProperties
    <3>2. (Len(c) - 1) + Len(q) = Len(c) + Len(q) - 1
      BY <2>2
    <3> QED BY <3>1, <3>2, <2>6
  <2>8. ASSUME NEW i \in 1..Len(c) + Len(q) - 1
        PROVE  Tail(c \o q)[i] = (Tail(c) \o q)[i]
    <3>1. i + 1 \in 1..Len(c) + Len(q)
      BY <2>2
    <3>2. CASE i <= Len(c) - 1
      <4>1. i \in 1..Len(c) - 1 /\ i + 1 <= Len(c)
        BY <3>2, <2>2
      <4> QED BY <3>1, <4>1, <2>3, <2>5, <2>6, <2>7
    <3>3. CASE ~(i <= Len(c) - 1)
      <4>1. ~(i + 1 <= Len(c)) /\ (i + 1) - Len(c) = i - (Len(c) - 1)
        BY <3>3, <2>2
      <4> QED BY <3>1, <3>3, <4>1, <2>3, <2>5, <2>7
    <3> QED BY <3>2, <3>3
  <2>9. Tail(c \o q) = Tail(c) \o q
    <3>1. Len(Tail(c \o q)) = Len(Tail(c) \o q)
      BY <2>5, <2>7
    <3>2. \A i \in 1..Len(Tail(c \o q)) : Tail(c \o q)[i] = (Tail(c) \o q)[i]
      BY <2>5, <2>8
    <3> QED BY <2>1, <2>5, <3>1, <3>2, SeqEqual
  <2> QED BY <2>1, <2>4, <2>9
<1>3. Seen(c \o q) = <<x>> \o Seen(Tail(c) \o q)
  BY <1>2, SeenHead
<1>4. Seen(Tail(c) \o q) \in Seq(Packets) /\ h \o p \in Seq(Packets)
  BY <1>2, SeenTyped, ConcatProperties
<1>5. h \o Append(p, x) = (h \o p) \o <<x>>
  BY <1>1, PushedOn
<1>6. ((h \o p) \o <<x>>) \o Seen(Tail(c) \o q) = (h \o p) \o (<<x>> \o Seen(Tail(c) \o q))
  <2>1. h \o p \in Seq(Packets) /\ <<x>> \in Seq(Packets) /\ Seen(Tail(c) \o q) \in Seq(Packets)
    BY <1>1, <1>4
  <2> HIDE DEF x
  <2> QED BY <2>1, Regrouped, SMTT(30)
<1> QED BY <1>3, <1>5, <1>6 DEF Whole

(* enetpp's thread appends an event.                                       *)
LEMMA WholeCaptured ==
  ASSUME NEW h \in Seq(Packets), NEW p \in Seq(Packets), NEW c \in Seq(Events),
         NEW q \in Seq(Events), NEW e \in Events
  PROVE  Whole(h, p, c, Append(q, e)) = Append(Whole(h, p, c, q), Packet(e))
<1>1. Packet(e) \in Packets /\ <<e>> \in Seq(Events) /\ <<Packet(e)>> \in Seq(Packets)
  BY PacketTyped
<1>2. c \o q \in Seq(Events) /\ h \o p \in Seq(Packets)
  BY ConcatProperties
<1>3. c \o Append(q, e) = Append(c \o q, e)
  <2>1. Append(q, e) = q \o <<e>> /\ Append(c \o q, e) = (c \o q) \o <<e>>
    BY <1>2, AppendIsConcat
  <2>2. (c \o q) \o <<e>> = c \o (q \o <<e>>)
    BY <1>1, ConcatAssociative
  <2> QED BY <2>1, <2>2
<1>4. Seen(c \o Append(q, e)) = Append(Seen(c \o q), Packet(e))
  BY <1>2, <1>3, SeenAppended
<1>5. Seen(c \o q) \in Seq(Packets)
  BY <1>2, SeenTyped
<1>6. (h \o p) \o Append(Seen(c \o q), Packet(e)) = ((h \o p) \o Seen(c \o q)) \o <<Packet(e)>>
  BY <1>1, <1>2, <1>5, PushedOn
<1>7. Append((h \o p) \o Seen(c \o q), Packet(e)) = ((h \o p) \o Seen(c \o q)) \o <<Packet(e)>>
  BY <1>1, <1>2, <1>5, ConcatProperties, AppendIsConcat
<1> QED BY <1>4, <1>6, <1>7 DEF Whole

(* The network thread takes the batch.                                     *)
LEMMA WholeSwapped ==
  ASSUME NEW h, NEW p, NEW q \in Seq(Events)
  PROVE  Whole(h, p, q, <<>>) = Whole(h, p, <<>>, q)
  BY ConcatEmptySeq DEF Whole

LEMMA WholeEmpty == Whole(<<>>, <<>>, <<>>, <<>>) = <<>>
<1>1. <<>> \in Seq(Events) /\ <<>> \in Seq(Packets)
  OBVIOUS
<1>2. Seen(<<>>) \in Seq(Packets) /\ Len(Seen(<<>>)) = 0
  BY <1>1, SeenTyped
<1>3. Seen(<<>>) = <<>>
  BY <1>2, EmptySeq
<1> QED BY <1>1, <1>3, ConcatEmptySeq DEF Whole

(* Queues that are destroyed leave a beginning of the stream.              *)
LEMMA PrefixOrdered ==
  ASSUME NEW s \in Seq(Packets), NEW t \in Seq(Packets), Ordered(s \o t)
  PROVE  Ordered(s)
<1>1. Len(s) \in Nat /\ Len(t) \in Nat /\ Len(s \o t) = Len(s) + Len(t)
  BY LenProperties, ConcatProperties
<1>2. \A i \in 1..Len(s) + Len(t) : (s \o t)[i] = IF i <= Len(s) THEN s[i] ELSE t[i - Len(s)]
  BY ConcatProperties
<1> SUFFICES ASSUME NEW i \in 1..Len(s)
             PROVE  \/ i = 1 /\ s[i] = <<"CONNECTED">>
                    \/ i > 1 /\ s[i] = <<"FROM_SERVER", i - 2>>
                    \/ i = Len(s) /\ s[i] = <<"DISCONNECTED">>
  BY DEF Ordered
<1>3. i \in 1..Len(s) + Len(t) /\ i <= Len(s)
  BY <1>1
<1>4. (s \o t)[i] = s[i]
  BY <1>2, <1>3
<1>5. i = Len(s) + Len(t) => i = Len(s)
  BY <1>1, <1>3
<1> QED BY <1>1, <1>3, <1>4, <1>5 DEF Ordered

LEMMA WholeCut ==
  ASSUME NEW h \in Seq(Packets), NEW p \in Seq(Packets), NEW q \in Seq(Events),
         Ordered(Whole(h, p, <<>>, q))
  PROVE  Ordered(Whole(h, p, <<>>, <<>>))
<1>1. <<>> \in Seq(Events) /\ <<>> \in Seq(Packets) /\ h \o p \in Seq(Packets)
  BY ConcatProperties
<1>2. <<>> \o q = q /\ Seen(q) \in Seq(Packets)
  BY SeenTyped, ConcatEmptySeq
<1>3. Ordered(h \o p)
  BY <1>1, <1>2, PrefixOrdered DEF Whole
<1>4. Seen(<<>>) \in Seq(Packets) /\ Len(Seen(<<>>)) = 0
  BY <1>1, SeenTyped
<1>5. Seen(<<>>) = <<>>
  BY <1>4, EmptySeq
<1>6. <<>> \o <<>> = <<>>
  BY ConcatEmptySeq, <1>1
<1>7. (h \o p) \o <<>> = h \o p
  BY <1>1, ConcatEmptySeq
<1> QED BY <1>3, <1>5, <1>6, <1>7 DEF Whole

-----------------------------------------------------------------------------
(* The shape of the state, step by step.                                   *)

LEMMA PlacesStep ==
  ASSUME Places, [Next]_vars
  PROVE  Places'
<1> USE BoundAssumption DEF main, network, object, history
<1>1. CASE StartClient
  BY <1>1 DEF Places, StartClient, Fresh
<1>2. CASE GameSend(TRUE)
  BY <1>2 DEF Places, GameSend, IsConnected, IsConnecting
<1>3. CASE GameSend(FALSE)
  BY <1>3 DEF Places, GameSend, IsConnected, IsConnecting
<1>4. CASE TestThread
  BY <1>4 DEF Places, TestThread
<1>5. CASE QueuePacket
  BY <1>5 DEF Places, QueuePacket
<1>6. CASE StartDrain
  BY <1>6 DEF Places, StartDrain
<1>7. CASE HandlePacket
  BY <1>7 DEF Places, HandlePacket
<1>8. CASE EndDrain
  BY <1>8 DEF Places, EndDrain
<1>9. CASE StopClient
  BY <1>9 DEF Places, StopClient, RaiseExit
<1>10. CASE Quit
  BY <1>10 DEF Places, Quit
<1>11. CASE QuitStops
  BY <1>11 DEF Places, QuitStops, NetworkJoined, RaiseExit
<1>12. CASE StopJoin
  BY <1>12 DEF Places, StopJoin
<1>13. CASE StopClear
  BY <1>13 DEF Places, StopClear, DestroyQueues
<1>14. CASE Destroy
  BY <1>14 DEF Places, Destroy, Fresh
<1>15. CASE EnterClient
  BY <1>15 DEF Places, EnterClient, HasClient
<1>16. CASE TakeBatch
  BY <1>16 DEF Places, TakeBatch, SwapBatch
<1>17. CASE Callback
  BY <1>17 DEF Places, Callback, LearnID
<1>18. CASE PushPacket
  BY <1>18 DEF Places, PushPacket
<1>19. CASE EndEvents
  BY <1>19 DEF Places, EndEvents, RaiseExit
<1>20. CASE NetJoin
  BY <1>20 DEF Places, NetJoin
<1>21. CASE NetClear
  BY <1>21 DEF Places, NetClear, DestroyQueues
<1>22. CASE EndNetwork
  BY <1>22 DEF Places, EndNetwork
<1>23. CASE StartDisconnect
  BY <1>23 DEF Places, StartDisconnect, enetOther
<1>24. CASE EndSilently
  BY <1>24 DEF Places, EndSilently, enetOther
<1>25. CASE StartConnecting
  BY <1>25 DEF Places, StartConnecting, enetOther
<1>26. CASE SendQueued
  BY <1>26 DEF Places, SendQueued, enetOther
<1>27. CASE CaptureConnect
  BY <1>27 DEF Places, CaptureConnect, enetOther
<1>28. CASE CaptureReceive
  BY <1>28 DEF Places, CaptureReceive, enetOther
<1>29. CASE CaptureDisconnect
  BY <1>29 DEF Places, CaptureDisconnect, enetOther
<1>30. CASE UNCHANGED vars
  BY <1>30 DEF Places, vars
<1> QED
  BY <1>1, <1>2, <1>3, <1>4, <1>5, <1>6, <1>7, <1>8, <1>9, <1>10, <1>11, <1>12, <1>13,
     <1>14, <1>15, <1>16, <1>17, <1>18, <1>19, <1>20, <1>21, <1>22, <1>23, <1>24, <1>25,
     <1>26, <1>27, <1>28, <1>29, <1>30 DEF Next, Main, Network, Enet, Draining, Sending,
     Stopping

LEMMA FlagsStep ==
  ASSUME Flags, [Next]_vars
  PROVE  Flags'
<1> USE BoundAssumption DEF main, network, object, history
<1>1. CASE StartClient
  BY <1>1 DEF Flags, StartClient, Fresh
<1>2. CASE GameSend(TRUE)
  BY <1>2 DEF Flags, GameSend, IsConnected, IsConnecting
<1>3. CASE GameSend(FALSE)
  BY <1>3 DEF Flags, GameSend, IsConnected, IsConnecting
<1>4. CASE TestThread
  BY <1>4 DEF Flags, TestThread
<1>5. CASE QueuePacket
  BY <1>5 DEF Flags, QueuePacket
<1>6. CASE StartDrain
  BY <1>6 DEF Flags, StartDrain
<1>7. CASE HandlePacket
  BY <1>7 DEF Flags, HandlePacket
<1>8. CASE EndDrain
  BY <1>8 DEF Flags, EndDrain
<1>9. CASE StopClient
  BY <1>9 DEF Flags, StopClient, RaiseExit
<1>10. CASE Quit
  BY <1>10 DEF Flags, Quit
<1>11. CASE QuitStops
  BY <1>11 DEF Flags, QuitStops, NetworkJoined, RaiseExit
<1>12. CASE StopJoin
  BY <1>12 DEF Flags, StopJoin
<1>13. CASE StopClear
  BY <1>13 DEF Flags, StopClear, DestroyQueues
<1>14. CASE Destroy
  BY <1>14 DEF Flags, Destroy, Fresh
<1>15. CASE EnterClient
  BY <1>15 DEF Flags, EnterClient, HasClient
<1>16. CASE TakeBatch
  BY <1>16 DEF Flags, TakeBatch, SwapBatch
<1>17. CASE Callback
  BY <1>17 DEF Flags, Callback, LearnID
<1>18. CASE PushPacket
  BY <1>18 DEF Flags, PushPacket
<1>19. CASE EndEvents
  BY <1>19 DEF Flags, EndEvents, RaiseExit
<1>20. CASE NetJoin
  BY <1>20 DEF Flags, NetJoin
<1>21. CASE NetClear
  BY <1>21 DEF Flags, NetClear, DestroyQueues
<1>22. CASE EndNetwork
  BY <1>22 DEF Flags, EndNetwork
<1>23. CASE StartDisconnect
  BY <1>23 DEF Flags, StartDisconnect, enetOther
<1>24. CASE EndSilently
  BY <1>24 DEF Flags, EndSilently, enetOther
<1>25. CASE StartConnecting
  BY <1>25 DEF Flags, StartConnecting, enetOther
<1>26. CASE SendQueued
  BY <1>26 DEF Flags, SendQueued, enetOther
<1>27. CASE CaptureConnect
  BY <1>27 DEF Flags, CaptureConnect, enetOther
<1>28. CASE CaptureReceive
  BY <1>28 DEF Flags, CaptureReceive, enetOther
<1>29. CASE CaptureDisconnect
  BY <1>29 DEF Flags, CaptureDisconnect, enetOther
<1>30. CASE UNCHANGED vars
  BY <1>30 DEF Flags, vars
<1> QED
  BY <1>1, <1>2, <1>3, <1>4, <1>5, <1>6, <1>7, <1>8, <1>9, <1>10, <1>11, <1>12, <1>13,
     <1>14, <1>15, <1>16, <1>17, <1>18, <1>19, <1>20, <1>21, <1>22, <1>23, <1>24, <1>25,
     <1>26, <1>27, <1>28, <1>29, <1>30 DEF Next, Main, Network, Enet, Draining, Sending,
     Stopping

LEMMA CountsStep ==
  ASSUME Counts, [Next]_vars
  PROVE  Counts'
<1> USE BoundAssumption DEF main, network, object, history
<1>1. CASE StartClient
  BY <1>1 DEF Counts, OurID, StartClient, Fresh
<1>2. CASE GameSend(TRUE)
  BY <1>2 DEF Counts, OurID, GameSend, IsConnected, IsConnecting
<1>3. CASE GameSend(FALSE)
  BY <1>3 DEF Counts, OurID, GameSend, IsConnected, IsConnecting
<1>4. CASE TestThread
  BY <1>4 DEF Counts, OurID, TestThread
<1>5. CASE QueuePacket
  BY <1>5 DEF Counts, OurID, QueuePacket
<1>6. CASE StartDrain
  BY <1>6 DEF Counts, OurID, StartDrain
<1>7. CASE HandlePacket
  BY <1>7 DEF Counts, OurID, HandlePacket
<1>8. CASE EndDrain
  BY <1>8 DEF Counts, OurID, EndDrain
<1>9. CASE StopClient
  BY <1>9 DEF Counts, OurID, StopClient, RaiseExit
<1>10. CASE Quit
  BY <1>10 DEF Counts, OurID, Quit
<1>11. CASE QuitStops
  BY <1>11 DEF Counts, OurID, QuitStops, NetworkJoined, RaiseExit
<1>12. CASE StopJoin
  BY <1>12 DEF Counts, OurID, StopJoin
<1>13. CASE StopClear
  BY <1>13 DEF Counts, OurID, StopClear, DestroyQueues
<1>14. CASE Destroy
  BY <1>14 DEF Counts, OurID, Destroy, Fresh
<1>15. CASE EnterClient
  BY <1>15 DEF Counts, OurID, EnterClient, HasClient
<1>16. CASE TakeBatch
  BY <1>16 DEF Counts, OurID, TakeBatch, SwapBatch
<1>17. CASE Callback
  BY <1>17 DEF Counts, OurID, Callback, LearnID
<1>18. CASE PushPacket
  BY <1>18 DEF Counts, OurID, PushPacket
<1>19. CASE EndEvents
  BY <1>19 DEF Counts, OurID, EndEvents, RaiseExit
<1>20. CASE NetJoin
  BY <1>20 DEF Counts, OurID, NetJoin
<1>21. CASE NetClear
  BY <1>21 DEF Counts, OurID, NetClear, DestroyQueues
<1>22. CASE EndNetwork
  BY <1>22 DEF Counts, OurID, EndNetwork
<1>23. CASE StartDisconnect
  BY <1>23 DEF Counts, OurID, StartDisconnect, enetOther
<1>24. CASE EndSilently
  BY <1>24 DEF Counts, OurID, EndSilently, enetOther
<1>25. CASE StartConnecting
  BY <1>25 DEF Counts, OurID, StartConnecting, enetOther
<1>26. CASE SendQueued
  BY <1>26 DEF Counts, OurID, SendQueued, enetOther
<1>27. CASE CaptureConnect
  BY <1>27 DEF Counts, OurID, CaptureConnect, enetOther
<1>28. CASE CaptureReceive
  BY <1>28 DEF Counts, OurID, CaptureReceive, enetOther
<1>29. CASE CaptureDisconnect
  BY <1>29 DEF Counts, OurID, CaptureDisconnect, enetOther
<1>30. CASE UNCHANGED vars
  BY <1>30 DEF Counts, OurID, vars
<1> QED
  BY <1>1, <1>2, <1>3, <1>4, <1>5, <1>6, <1>7, <1>8, <1>9, <1>10, <1>11, <1>12, <1>13,
     <1>14, <1>15, <1>16, <1>17, <1>18, <1>19, <1>20, <1>21, <1>22, <1>23, <1>24, <1>25,
     <1>26, <1>27, <1>28, <1>29, <1>30 DEF Next, Main, Network, Enet, Draining, Sending,
     Stopping

LEMMA SentStep ==
  ASSUME Sent, Control, [Next]_vars
  PROVE  Sent'
<1> USE BoundAssumption DEF main, network, object, history
<1>1. CASE StartClient
  BY <1>1 DEF Sent, Sends, StartClient, Fresh
<1>2. CASE GameSend(TRUE)
  <2>1. asked \in Seq(BOOLEAN) /\ asked' = Append(asked, TRUE)
    BY <1>2 DEF GameSend, Sent
  <2>2. /\ Append(asked, TRUE) \in Seq(BOOLEAN)
        /\ Len(Append(asked, TRUE)) = Len(asked) + 1 /\ Len(asked) \in Nat
        /\ \A q \in Seq(1..Len(asked)) : q \in Seq(1..Len(Append(asked, TRUE)))
    BY <2>1, AskGrows
  <2> QED BY <1>2, <2>1, <2>2 DEF Sent, Sends, GameSend
<1>3. CASE GameSend(FALSE)
  <2>1. asked \in Seq(BOOLEAN) /\ asked' = Append(asked, FALSE)
    BY <1>3 DEF GameSend, Sent
  <2>2. /\ Append(asked, FALSE) \in Seq(BOOLEAN)
        /\ Len(Append(asked, FALSE)) = Len(asked) + 1 /\ Len(asked) \in Nat
        /\ \A q \in Seq(1..Len(asked)) : q \in Seq(1..Len(Append(asked, FALSE)))
    BY <2>1, AskGrows
  <2> QED BY <1>3, <2>1, <2>2 DEF Sent, Sends, GameSend
<1>4. CASE TestThread
  BY <1>4 DEF Sent, Sends, TestThread
<1>5. CASE QueuePacket
  <2>1. Append(packet_queue, Len(asked)) \in Seq(1..Len(asked))
    BY <1>5, LastSend DEF Sent, Sends, Control, QueuePacket
  <2> QED BY <1>5, <2>1 DEF Sent, Sends, QueuePacket
<1>6. CASE StartDrain
  BY <1>6 DEF Sent, Sends, StartDrain
<1>7. CASE HandlePacket
  BY <1>7 DEF Sent, Sends, HandlePacket
<1>8. CASE EndDrain
  BY <1>8 DEF Sent, Sends, EndDrain
<1>9. CASE StopClient
  BY <1>9 DEF Sent, Sends, StopClient, RaiseExit
<1>10. CASE Quit
  BY <1>10 DEF Sent, Sends, Quit
<1>11. CASE QuitStops
  BY <1>11 DEF Sent, Sends, QuitStops, NetworkJoined, RaiseExit
<1>12. CASE StopJoin
  BY <1>12 DEF Sent, Sends, StopJoin
<1>13. CASE StopClear
  BY <1>13 DEF Sent, Sends, StopClear, DestroyQueues
<1>14. CASE Destroy
  BY <1>14 DEF Sent, Sends, Destroy, Fresh
<1>15. CASE EnterClient
  BY <1>15 DEF Sent, Sends, EnterClient, HasClient
<1>16. CASE TakeBatch
  BY <1>16 DEF Sent, Sends, TakeBatch, SwapBatch
<1>17. CASE Callback
  BY <1>17 DEF Sent, Sends, Callback, LearnID
<1>18. CASE PushPacket
  BY <1>18 DEF Sent, Sends, PushPacket
<1>19. CASE EndEvents
  BY <1>19 DEF Sent, Sends, EndEvents, RaiseExit
<1>20. CASE NetJoin
  BY <1>20 DEF Sent, Sends, NetJoin
<1>21. CASE NetClear
  BY <1>21 DEF Sent, Sends, NetClear, DestroyQueues
<1>22. CASE EndNetwork
  BY <1>22 DEF Sent, Sends, EndNetwork
<1>23. CASE StartDisconnect
  BY <1>23 DEF Sent, Sends, StartDisconnect, enetOther
<1>24. CASE EndSilently
  BY <1>24 DEF Sent, Sends, EndSilently, enetOther
<1>25. CASE StartConnecting
  BY <1>25 DEF Sent, Sends, StartConnecting, enetOther
<1>26. CASE SendQueued
  <2>1. accepted \o packet_queue \in Seq(Sends)
    BY ConcatProperties DEF Sent
  <2>2. <<>> \in Seq(Sends)
    OBVIOUS
  <2> QED BY <1>26, <2>1, <2>2 DEF Sent, Sends, SendQueued, enetOther
<1>27. CASE CaptureConnect
  BY <1>27 DEF Sent, Sends, CaptureConnect, enetOther
<1>28. CASE CaptureReceive
  BY <1>28 DEF Sent, Sends, CaptureReceive, enetOther
<1>29. CASE CaptureDisconnect
  BY <1>29 DEF Sent, Sends, CaptureDisconnect, enetOther
<1>30. CASE UNCHANGED vars
  BY <1>30 DEF Sent, Sends, vars
<1> QED
  BY <1>1, <1>2, <1>3, <1>4, <1>5, <1>6, <1>7, <1>8, <1>9, <1>10, <1>11, <1>12, <1>13,
     <1>14, <1>15, <1>16, <1>17, <1>18, <1>19, <1>20, <1>21, <1>22, <1>23, <1>24, <1>25,
     <1>26, <1>27, <1>28, <1>29, <1>30 DEF Next, Main, Network, Enet, Draining, Sending,
     Stopping

LEMMA ShownStep ==
  ASSUME Counts, Shown, Control, [Next]_vars
  PROVE  Shown'
<1> USE BoundAssumption DEF main, network, object, history
<1>1. CASE StartClient
  BY <1>1 DEF Shown, StartClient, Fresh
<1>2. CASE GameSend(TRUE)
  BY <1>2 DEF Shown, GameSend, IsConnected, IsConnecting
<1>3. CASE GameSend(FALSE)
  BY <1>3 DEF Shown, GameSend, IsConnected, IsConnecting
<1>4. CASE TestThread
  BY <1>4 DEF Shown, TestThread
<1>5. CASE QueuePacket
  BY <1>5 DEF Shown, QueuePacket
<1>6. CASE StartDrain
  BY <1>6 DEF Shown, StartDrain
<1>7. CASE HandlePacket
  BY <1>7 DEF Shown, HandlePacket
<1>8. CASE EndDrain
  BY <1>8 DEF Shown, EndDrain
<1>9. CASE StopClient
  BY <1>9 DEF Shown, StopClient, RaiseExit
<1>10. CASE Quit
  BY <1>10 DEF Shown, Quit
<1>11. CASE QuitStops
  BY <1>11 DEF Shown, QuitStops, NetworkJoined, RaiseExit
<1>12. CASE StopJoin
  BY <1>12 DEF Shown, StopJoin
<1>13. CASE StopClear
  BY <1>13 DEF Shown, StopClear, DestroyQueues
<1>14. CASE Destroy
  BY <1>14 DEF Shown, Destroy, Fresh
<1>15. CASE EnterClient
  BY <1>15 DEF Shown, EnterClient, HasClient
<1>16. CASE TakeBatch
  BY <1>16 DEF Shown, TakeBatch, SwapBatch
<1>17. CASE Callback
  BY <1>17 DEF Shown, Callback, LearnID
<1>18. CASE PushPacket
  <2>1. Head(event_queue_copy) \in Events /\ Tail(event_queue_copy) \in Seq(Events)
    BY <1>18, HeadTailProperties DEF Shown, Control, PushPacket
  <2>2. Append(packets, Packet(Head(event_queue_copy))) \in Seq(Packets)
    BY <2>1, PacketTyped, AppendProperties DEF Shown
  <2> QED BY <1>18, <2>1, <2>2 DEF Shown, PushPacket
<1>19. CASE EndEvents
  BY <1>19 DEF Shown, EndEvents, RaiseExit
<1>20. CASE NetJoin
  BY <1>20 DEF Shown, NetJoin
<1>21. CASE NetClear
  BY <1>21 DEF Shown, NetClear, DestroyQueues
<1>22. CASE EndNetwork
  BY <1>22 DEF Shown, EndNetwork
<1>23. CASE StartDisconnect
  BY <1>23 DEF Shown, StartDisconnect, enetOther
<1>24. CASE EndSilently
  BY <1>24 DEF Shown, EndSilently, enetOther
<1>25. CASE StartConnecting
  BY <1>25 DEF Shown, StartConnecting, enetOther
<1>26. CASE SendQueued
  BY <1>26 DEF Shown, SendQueued, enetOther
<1>27. CASE CaptureConnect
  BY <1>27, EventsTyped, AppendTyped DEF Shown, CaptureConnect, enetOther
<1>28. CASE CaptureReceive
  <2>1. Receive(captured) \in Events
    BY <1>28, EventsTyped DEF CaptureReceive, Counts
  <2>2. Append(event_queue, Receive(captured)) \in Seq(Events)
    BY <2>1, AppendProperties DEF Shown
  <2> QED BY <1>28, <2>2 DEF Shown, CaptureReceive, enetOther
<1>29. CASE CaptureDisconnect
  BY <1>29, EventsTyped, AppendTyped DEF Shown, CaptureDisconnect, enetOther
<1>30. CASE UNCHANGED vars
  BY <1>30 DEF Shown, vars
<1> QED
  BY <1>1, <1>2, <1>3, <1>4, <1>5, <1>6, <1>7, <1>8, <1>9, <1>10, <1>11, <1>12, <1>13,
     <1>14, <1>15, <1>16, <1>17, <1>18, <1>19, <1>20, <1>21, <1>22, <1>23, <1>24, <1>25,
     <1>26, <1>27, <1>28, <1>29, <1>30 DEF Next, Main, Network, Enet, Draining, Sending,
     Stopping

LEMMA ControlStep ==
  ASSUME Places, Counts, Control, Sent, [Next]_vars, StopsFreely = FALSE
  PROVE  Control'
<1> USE BoundAssumption DEF main, network, object, history
<1>1. CASE StartClient
  <2>1. session' # 0
    BY <1>1 DEF Counts, StartClient
  <2> QED BY <1>1, <2>1 DEF Places, Control, StartClient, Fresh
<1>2. CASE GameSend(TRUE)
  <2>1. asked \in Seq(BOOLEAN) /\ asked' = Append(asked, TRUE)
    BY <1>2 DEF GameSend, Sent
  <2>2. /\ Append(asked, TRUE) \in Seq(BOOLEAN)
        /\ Len(Append(asked, TRUE)) = Len(asked) + 1 /\ Len(asked) \in Nat
        /\ \A q \in Seq(1..Len(asked)) : q \in Seq(1..Len(Append(asked, TRUE)))
    BY <2>1, AskGrows
  <2>3. Len(asked') > 0
    BY <2>1, <2>2
  <2> QED BY <1>2, <2>3 DEF Places, Control, GameSend
<1>3. CASE GameSend(FALSE)
  <2>1. asked \in Seq(BOOLEAN) /\ asked' = Append(asked, FALSE)
    BY <1>3 DEF GameSend, Sent
  <2>2. /\ Append(asked, FALSE) \in Seq(BOOLEAN)
        /\ Len(Append(asked, FALSE)) = Len(asked) + 1 /\ Len(asked) \in Nat
        /\ \A q \in Seq(1..Len(asked)) : q \in Seq(1..Len(Append(asked, FALSE)))
    BY <2>1, AskGrows
  <2>3. Len(asked') > 0
    BY <2>1, <2>2
  <2> QED BY <1>3, <2>3 DEF Places, Control, GameSend
<1>4. CASE TestThread
  BY <1>4 DEF Places, Control, TestThread
<1>5. CASE QueuePacket
  BY <1>5 DEF Places, Control, QueuePacket
<1>6. CASE StartDrain
  BY <1>6 DEF Places, Control, StartDrain
<1>7. CASE HandlePacket
  BY <1>7 DEF Places, Control, HandlePacket
<1>8. CASE EndDrain
  BY <1>8 DEF Places, Control, EndDrain
<1>9. CASE StopClient
  BY <1>9 DEF Places, Control, StopClient, RaiseExit
<1>10. CASE Quit
  BY <1>10 DEF Places, Control, Quit
<1>11. CASE QuitStops
  BY <1>11 DEF Places, Control, QuitStops, NetworkJoined, RaiseExit
<1>12. CASE StopJoin
  BY <1>12 DEF Places, Control, StopJoin
<1>13. CASE StopClear
  BY <1>13 DEF Places, Control, StopClear, DestroyQueues
<1>14. CASE Destroy
  BY <1>14 DEF Places, Control, Destroy, Fresh
<1>15. CASE EnterClient
  BY <1>15 DEF Places, Control, EnterClient, HasClient
<1>16. CASE TakeBatch
  BY <1>16 DEF Places, Control, TakeBatch, SwapBatch
<1>17. CASE Callback
  BY <1>17 DEF Places, Control, Callback, LearnID
<1>18. CASE PushPacket
  BY <1>18 DEF Places, Control, PushPacket
<1>19. CASE EndEvents
  BY <1>19 DEF Places, Control, EndEvents, RaiseExit
<1>20. CASE NetJoin
  BY <1>20 DEF Places, Control, NetJoin
<1>21. CASE NetClear
  BY <1>21 DEF Places, Control, NetClear, DestroyQueues
<1>22. CASE EndNetwork
  BY <1>22 DEF Places, Control, EndNetwork
<1>23. CASE StartDisconnect
  BY <1>23 DEF Places, Control, StartDisconnect, enetOther
<1>24. CASE EndSilently
  BY <1>24 DEF Places, Control, EndSilently, enetOther
<1>25. CASE StartConnecting
  BY <1>25 DEF Places, Control, StartConnecting, enetOther
<1>26. CASE SendQueued
  BY <1>26 DEF Places, Control, SendQueued, enetOther
<1>27. CASE CaptureConnect
  BY <1>27 DEF Places, Control, CaptureConnect, enetOther
<1>28. CASE CaptureReceive
  BY <1>28 DEF Places, Control, CaptureReceive, enetOther
<1>29. CASE CaptureDisconnect
  BY <1>29 DEF Places, Control, CaptureDisconnect, enetOther
<1>30. CASE UNCHANGED vars
  BY <1>30 DEF Places, Control, vars
<1> QED
  BY <1>1, <1>2, <1>3, <1>4, <1>5, <1>6, <1>7, <1>8, <1>9, <1>10, <1>11, <1>12, <1>13,
     <1>14, <1>15, <1>16, <1>17, <1>18, <1>19, <1>20, <1>21, <1>22, <1>23, <1>24, <1>25,
     <1>26, <1>27, <1>28, <1>29, <1>30 DEF Next, Main, Network, Enet, Draining, Sending,
     Stopping

-----------------------------------------------------------------------------
(* What each step does to the stream.                                      *)

StreamStays == Stream' = Stream /\ captured' = captured

LEMMA OrderKept ==
  ASSUME Ordered(Stream), Captured, StreamStays,
         \/ enet' = enet
         \/ enet' = "ended"
         \/ enet \in {"none", "starting", "connecting", "giving up"}
              /\ enet' \in {"none", "starting", "connecting", "giving up"}
         \/ enet = "connected" /\ enet' = "disconnecting"
  PROVE  Ordered(Stream)' /\ Captured'
<1>1. Stream' = Stream /\ captured' = captured
  BY DEF StreamStays
<1>2. Ordered(Stream)'
  BY <1>1 DEF Ordered
<1> QED BY <1>1, <1>2 DEF Captured

LEMMA StreamTyped ==
  ASSUME Shown
  PROVE  Stream \in Seq(Packets)
  BY WholeTyped DEF Stream, Shown

LEMMA EmptyStream ==
  ASSUME Stream' = <<>>, captured' = 0, enet' \in {"none", "starting"}
  PROVE  Ordered(Stream)' /\ Captured'
<1>1. Ordered(Stream)'
  <2>1. \A i \in 1..Len(<<>>) : FALSE
    OBVIOUS
  <2> QED BY <2>1 DEF Ordered
<1> QED BY <1>1 DEF Captured

LEMMA FreshStream ==
  ASSUME Fresh
  PROVE  Stream' = <<>> /\ captured' = 0
<1>1. /\ handled' = <<>> /\ packets' = <<>> /\ captured' = 0
      /\ event_queue_copy' = <<>> /\ event_queue' = <<>>
  BY DEF Fresh
<1> QED BY <1>1, WholeEmpty DEF Stream

LEMMA OrderStep ==
  ASSUME Types, Control, Ordered(Stream), Captured, [Next]_vars
  PROVE  Ordered(Stream)' /\ Captured'
<1> USE BoundAssumption DEF main, network, object, history
<1>1. CASE StartClient
  <2>1. Fresh /\ enet' = "starting"
    BY <1>1 DEF StartClient
  <2> QED BY <2>1, FreshStream, EmptyStream
<1>2. CASE GameSend(TRUE)
  <2>1. StreamStays /\ enet' = enet
    BY <1>2 DEF GameSend, StreamStays, Stream
  <2> QED BY <2>1, OrderKept
<1>3. CASE GameSend(FALSE)
  <2>1. StreamStays /\ enet' = enet
    BY <1>3 DEF GameSend, StreamStays, Stream
  <2> QED BY <2>1, OrderKept
<1>4. CASE TestThread
  <2>1. StreamStays /\ enet' = enet
    BY <1>4 DEF TestThread, StreamStays, Stream
  <2> QED BY <2>1, OrderKept
<1>5. CASE QueuePacket
  <2>1. StreamStays /\ enet' = enet
    BY <1>5 DEF QueuePacket, StreamStays, Stream
  <2> QED BY <2>1, OrderKept
<1>6. CASE StartDrain
  <2>1. StreamStays /\ enet' = enet
    BY <1>6 DEF StartDrain, StreamStays, Stream
  <2> QED BY <2>1, OrderKept
<1>7. CASE HandlePacket
  <2>1. /\ packets # <<>> /\ packets' = Tail(packets) /\ handled' = Append(handled, Head(packets))
        /\ event_queue_copy' = event_queue_copy /\ event_queue' = event_queue
        /\ captured' = captured /\ enet' = enet
    BY <1>7 DEF HandlePacket
  <2>2. handled' \o packets' = handled \o packets
    BY <2>1, MovesOn DEF Types, Shown
  <2>3. StreamStays
    BY <2>1, <2>2 DEF StreamStays, Stream, Whole
  <2> QED BY <2>1, <2>3, OrderKept
<1>8. CASE EndDrain
  <2>1. StreamStays /\ enet' = enet
    BY <1>8 DEF EndDrain, StreamStays, Stream
  <2> QED BY <2>1, OrderKept
<1>9. CASE StopClient
  <2>1. StreamStays /\ enet' = enet
    BY <1>9 DEF StopClient, StreamStays, Stream
  <2> QED BY <2>1, OrderKept
<1>10. CASE Quit
  <2>1. StreamStays /\ enet' = enet
    BY <1>10 DEF Quit, StreamStays, Stream
  <2> QED BY <2>1, OrderKept
<1>11. CASE QuitStops
  <2>1. StreamStays /\ enet' = enet
    BY <1>11 DEF QuitStops, StreamStays, Stream
  <2> QED BY <2>1, OrderKept
<1>12. CASE StopJoin
  <2>1. StreamStays /\ enet' = enet
    BY <1>12 DEF StopJoin, StreamStays, Stream
  <2> QED BY <2>1, OrderKept
<1>13. CASE StopClear
  <2>1. /\ event_queue' = <<>> /\ handled' = handled /\ packets' = packets
        /\ event_queue_copy = <<>> /\ event_queue_copy' = <<>> /\ enet = "ended" /\ enet' = enet
    BY <1>13 DEF StopClear, DestroyQueues, Control
  <2>2. Ordered(Stream)'
    BY <2>1, WholeCut DEF Stream, Types, Shown
  <2> QED BY <2>1, <2>2 DEF Captured
<1>14. CASE Destroy
  <2>1. Fresh /\ enet' = "none"
    BY <1>14 DEF Destroy
  <2> QED BY <2>1, FreshStream, EmptyStream
<1>15. CASE EnterClient
  <2>1. StreamStays /\ enet' = enet
    BY <1>15 DEF EnterClient, StreamStays, Stream
  <2> QED BY <2>1, OrderKept
<1>16. CASE TakeBatch
  <2>1. /\ event_queue_copy' = event_queue /\ event_queue' = <<>> /\ event_queue_copy = <<>>
        /\ handled' = handled /\ packets' = packets /\ captured' = captured /\ enet' = enet
    BY <1>16 DEF TakeBatch, SwapBatch, Control
  <2>2. StreamStays
    BY <2>1, WholeSwapped DEF StreamStays, Stream, Types, Shown
  <2> QED BY <2>1, <2>2, OrderKept
<1>17. CASE Callback
  <2>1. StreamStays /\ enet' = enet
    BY <1>17 DEF Callback, LearnID, StreamStays, Stream
  <2> QED BY <2>1, OrderKept
<1>18. CASE PushPacket
  <2>1. /\ event_queue_copy # <<>> /\ event_queue_copy' = Tail(event_queue_copy)
        /\ packets' = Append(packets, Packet(Head(event_queue_copy)))
        /\ handled' = handled /\ event_queue' = event_queue /\ captured' = captured /\ enet' = enet
    BY <1>18 DEF PushPacket, Control
  <2>2. StreamStays
    BY <2>1, WholePushed DEF StreamStays, Stream, Types, Shown
  <2> QED BY <2>1, <2>2, OrderKept
<1>19. CASE EndEvents
  <2>1. StreamStays /\ enet' = enet
    BY <1>19 DEF EndEvents, StreamStays, Stream
  <2> QED BY <2>1, OrderKept
<1>20. CASE NetJoin
  <2>1. StreamStays /\ enet' = enet
    BY <1>20 DEF NetJoin, StreamStays, Stream
  <2> QED BY <2>1, OrderKept
<1>21. CASE NetClear
  <2>1. /\ event_queue' = <<>> /\ handled' = handled /\ packets' = packets
        /\ event_queue_copy = <<>> /\ event_queue_copy' = <<>> /\ enet = "ended" /\ enet' = enet
    BY <1>21 DEF NetClear, DestroyQueues, Control
  <2>2. Ordered(Stream)'
    BY <2>1, WholeCut DEF Stream, Types, Shown
  <2> QED BY <2>1, <2>2 DEF Captured
<1>22. CASE EndNetwork
  <2>1. StreamStays /\ enet' = enet
    BY <1>22 DEF EndNetwork, StreamStays, Stream
  <2> QED BY <2>1, OrderKept
<1>23. CASE StartDisconnect
  <2>1. StreamStays
    BY <1>23 DEF StartDisconnect, enetOther, StreamStays, Stream
  <2>2. \/ enet' = "ended"
        \/ enet \in {"none", "starting", "connecting", "giving up"}
             /\ enet' \in {"none", "starting", "connecting", "giving up"}
        \/ enet = "connected" /\ enet' = "disconnecting"
    BY <1>23 DEF StartDisconnect
  <2> QED BY <2>1, <2>2, OrderKept
<1>24. CASE EndSilently
  <2>1. StreamStays
    BY <1>24 DEF EndSilently, enetOther, StreamStays, Stream
  <2>2. \/ enet' = "ended"
        \/ enet \in {"none", "starting", "connecting", "giving up"}
             /\ enet' \in {"none", "starting", "connecting", "giving up"}
        \/ enet = "connected" /\ enet' = "disconnecting"
    BY <1>24 DEF EndSilently
  <2> QED BY <2>1, <2>2, OrderKept
<1>25. CASE StartConnecting
  <2>1. StreamStays
    BY <1>25 DEF StartConnecting, enetOther, StreamStays, Stream
  <2>2. \/ enet' = "ended"
        \/ enet \in {"none", "starting", "connecting", "giving up"}
             /\ enet' \in {"none", "starting", "connecting", "giving up"}
        \/ enet = "connected" /\ enet' = "disconnecting"
    BY <1>25 DEF StartConnecting
  <2> QED BY <2>1, <2>2, OrderKept
<1>26. CASE SendQueued
  <2>1. StreamStays /\ enet' = enet
    BY <1>26 DEF SendQueued, enetOther, StreamStays, Stream
  <2> QED BY <2>1, OrderKept
<1>27. CASE CaptureConnect
  <2>1. /\ event_queue' = Append(event_queue, Connect) /\ handled' = handled
        /\ packets' = packets /\ event_queue_copy' = event_queue_copy
    BY <1>27 DEF CaptureConnect, enetOther
  <2>2. Connect \in Events /\ Packet(Connect) = <<"CONNECTED">>
    BY <1>27, EventsTyped, PacketValues DEF CaptureConnect, Types, Counts
  <2>3. Stream' = Append(Stream, <<"CONNECTED">>)
    <3>1. Whole(handled, packets, event_queue_copy, Append(event_queue, Connect))
            = Append(Stream, Packet(Connect))
      BY <2>2, WholeCaptured DEF Stream, Types, Shown
    <3> QED BY <2>1, <2>2, <3>1 DEF Stream
  <2>4. Stream \in Seq(Packets) /\ <<"CONNECTED">> \in Packets
    BY <2>2, StreamTyped, PacketTyped DEF Types
  <2>5. /\ Len(Stream') = Len(Stream) + 1 /\ Stream'[Len(Stream) + 1] = <<"CONNECTED">>
        /\ \A i \in 1..Len(Stream) : Stream'[i] = Stream[i]
    BY <2>3, <2>4, AppendProperties
  <2>6. Len(Stream) \in Nat
        /\ \A i \in 1..Len(Stream) + 1 : i \in 1..Len(Stream) \/ i = Len(Stream) + 1
    BY <2>4, LenProperties
  <2>7. Stream = <<>> /\ captured = 0 /\ captured' = captured /\ enet' = "connected"
    BY <1>27 DEF CaptureConnect, Captured, enetOther
  <2>8. Len(Stream) = 0
    BY <2>7
  <2>9. Ordered(Stream)'
    BY <2>5, <2>6, <2>8 DEF Ordered
  <2> QED BY <2>5, <2>6, <2>7, <2>8, <2>9, PacketsDiffer DEF Captured
<1>28. CASE CaptureReceive
  <2>1. /\ event_queue' = Append(event_queue, Receive(captured)) /\ handled' = handled
        /\ packets' = packets /\ event_queue_copy' = event_queue_copy
    BY <1>28 DEF CaptureReceive, enetOther
  <2>2. Receive(captured) \in Events /\ Packet(Receive(captured)) = <<"FROM_SERVER", captured>>
    BY <1>28, EventsTyped, PacketValues DEF CaptureReceive, Types, Counts
  <2>3. Stream' = Append(Stream, <<"FROM_SERVER", captured>>)
    <3>1. Whole(handled, packets, event_queue_copy, Append(event_queue, Receive(captured)))
            = Append(Stream, Packet(Receive(captured)))
      BY <2>2, WholeCaptured DEF Stream, Types, Shown
    <3> QED BY <2>1, <2>2, <3>1 DEF Stream
  <2>4. Stream \in Seq(Packets) /\ <<"FROM_SERVER", captured>> \in Packets
    BY <2>2, StreamTyped, PacketTyped DEF Types
  <2>5. /\ Len(Stream') = Len(Stream) + 1 /\ Stream'[Len(Stream) + 1] = <<"FROM_SERVER", captured>>
        /\ \A i \in 1..Len(Stream) : Stream'[i] = Stream[i]
    BY <2>3, <2>4, AppendProperties
  <2>6. Len(Stream) \in Nat
        /\ \A i \in 1..Len(Stream) + 1 : i \in 1..Len(Stream) \/ i = Len(Stream) + 1
    BY <2>4, LenProperties
  <2>7. /\ Len(Stream) = captured + 1 /\ captured' = captured + 1 /\ enet' = enet
        /\ \A i \in 1..Len(Stream) : Stream[i] # <<"DISCONNECTED">>
    BY <1>28 DEF CaptureReceive, Captured, enetOther
  <2>8. captured \in Nat /\ (Len(Stream) + 1) - 2 = captured /\ Len(Stream) + 1 > 1
    BY <2>7 DEF Types, Counts
  <2>9. Ordered(Stream)'
    <3>1. ASSUME NEW i \in 1..Len(Stream)
          PROVE  \/ i = 1 /\ Stream'[i] = <<"CONNECTED">>
                 \/ i > 1 /\ Stream'[i] = <<"FROM_SERVER", i - 2>>
      BY <2>5, <2>7 DEF Ordered
    <3> QED BY <3>1, <2>5, <2>6, <2>8 DEF Ordered
  <2>10. \A i \in 1..Len(Stream') : Stream'[i] # <<"DISCONNECTED">>
    BY <2>5, <2>6, <2>7, PacketsDiffer
  <2>11. enet = "connected"
    BY <1>28 DEF CaptureReceive
  <2> QED BY <2>5, <2>7, <2>9, <2>10, <2>11 DEF Captured
<1>29. CASE CaptureDisconnect
  <2>1. /\ event_queue' = Append(event_queue, Disconnect) /\ handled' = handled
        /\ packets' = packets /\ event_queue_copy' = event_queue_copy
    BY <1>29 DEF CaptureDisconnect, enetOther
  <2>2. Disconnect \in Events /\ Packet(Disconnect) = <<"DISCONNECTED">>
    BY <1>29, EventsTyped, PacketValues DEF CaptureDisconnect, Types, Counts
  <2>3. Stream' = Append(Stream, <<"DISCONNECTED">>)
    <3>1. Whole(handled, packets, event_queue_copy, Append(event_queue, Disconnect))
            = Append(Stream, Packet(Disconnect))
      BY <2>2, WholeCaptured DEF Stream, Types, Shown
    <3> QED BY <2>1, <2>2, <3>1 DEF Stream
  <2>4. Stream \in Seq(Packets) /\ <<"DISCONNECTED">> \in Packets
    BY <2>2, StreamTyped, PacketTyped DEF Types
  <2>5. /\ Len(Stream') = Len(Stream) + 1 /\ Stream'[Len(Stream) + 1] = <<"DISCONNECTED">>
        /\ \A i \in 1..Len(Stream) : Stream'[i] = Stream[i]
    BY <2>3, <2>4, AppendProperties
  <2>6. Len(Stream) \in Nat
        /\ \A i \in 1..Len(Stream) + 1 : i \in 1..Len(Stream) \/ i = Len(Stream) + 1
    BY <2>4, LenProperties
  <2>7. enet' = "ended"
    BY <1>29 DEF CaptureDisconnect
  <2>8. \A i \in 1..Len(Stream) : Stream[i] # <<"DISCONNECTED">>
    <3>1. CASE enet = "connecting"
      BY <3>1 DEF Captured
    <3>2. CASE enet \in {"connected", "disconnecting"}
      BY <3>2 DEF Captured
    <3> QED BY <1>29, <3>1, <3>2 DEF CaptureDisconnect
  <2>9. Ordered(Stream)'
    <3>1. ASSUME NEW i \in 1..Len(Stream)
          PROVE  \/ i = 1 /\ Stream'[i] = <<"CONNECTED">>
                 \/ i > 1 /\ Stream'[i] = <<"FROM_SERVER", i - 2>>
      BY <2>5, <2>8 DEF Ordered
    <3> QED BY <3>1, <2>5, <2>6 DEF Ordered
  <2> QED BY <2>7, <2>9 DEF Captured
<1>30. CASE UNCHANGED vars
  <2>1. StreamStays /\ enet' = enet
    BY <1>30 DEF vars, StreamStays, Stream
  <2> QED BY <2>1, OrderKept
<1> QED
  BY <1>1, <1>2, <1>3, <1>4, <1>5, <1>6, <1>7, <1>8, <1>9, <1>10, <1>11, <1>12, <1>13,
     <1>14, <1>15, <1>16, <1>17, <1>18, <1>19, <1>20, <1>21, <1>22, <1>23, <1>24, <1>25,
     <1>26, <1>27, <1>28, <1>29, <1>30 DEF Next, Main, Network, Enet, Draining, Sending,
     Stopping

(* A packet of the server is that of one event only.                       *)
LEMMA OnlyInitialized ==
  ASSUME NEW n, NEW e \in Events, e # Receive(n)
  PROVE  Packet(e) # <<"FROM_SERVER", n>>
<1>1. CASE e = Connect
  BY <1>1, PacketValues, PacketsDiffer
<1>2. CASE e = Disconnect
  BY <1>2, PacketValues, PacketsDiffer
<1>3. CASE \E k \in 0..MaxData : e = Receive(k)
  <2>1. PICK k \in 0..MaxData : e = Receive(k)
    BY <1>3
  <2>2. k # n
    BY <2>1, BoundAssumption
  <2>3. Packet(e) = <<"FROM_SERVER", k>>
    BY <2>1, <2>2, PacketValues
  <2>4. <<"FROM_SERVER", k>>[2] = k /\ <<"FROM_SERVER", n>>[2] = n
    BY PacketsDiffer
  <2> QED BY <2>2, <2>3, <2>4
<1> QED BY <1>1, <1>2, <1>3 DEF Events

-----------------------------------------------------------------------------
(* What the game has been told and the ID.                                 *)

ToldStays == Told' = Told /\ id' = id /\ session' = session

LEMMA InformedKept ==
  ASSUME Informed, ToldStays
  PROVE  Informed'
<1>1. Told' = Told /\ id' = id /\ session' = session
  BY DEF ToldStays
<1> QED BY <1>1 DEF Informed, Initialized, OurID

LEMMA ToldStaysFrom ==
  ASSUME net # "pushing", net' # "pushing", handled' \o packets' = handled \o packets,
         id' = id, session' = session
  PROVE  ToldStays
  BY DEF ToldStays, Told, Pushed

LEMMA NothingTold ==
  ASSUME Fresh, net' # "pushing"
  PROVE  Informed'
<1>1. handled' = <<>> /\ packets' = <<>>
  BY DEF Fresh
<1>2. <<>> \in Seq(Packets) /\ <<>> \o <<>> = <<>>
  BY ConcatEmptySeq
<1>3. Told' = <<>>
  BY <1>1, <1>2 DEF Told, Pushed
<1>4. \A i \in 1..Len(<<>>) : FALSE
  OBVIOUS
<1> QED BY <1>3, <1>4 DEF Informed

LEMMA InformedStep ==
  ASSUME Types, Control, Informed, [Next]_vars
  PROVE  Informed'
<1> USE DEF main, network, object, history
<1>1. CASE StartClient
  <2>1. Fresh /\ net' # "pushing"
    BY <1>1 DEF StartClient, Control
  <2> QED BY <2>1, NothingTold
<1>2. CASE GameSend(TRUE)
  <2>1. ToldStays
    BY <1>2 DEF GameSend, ToldStays, Told, Pushed
  <2> QED BY <2>1, InformedKept
<1>3. CASE GameSend(FALSE)
  <2>1. ToldStays
    BY <1>3 DEF GameSend, ToldStays, Told, Pushed
  <2> QED BY <2>1, InformedKept
<1>4. CASE TestThread
  <2>1. ToldStays
    BY <1>4 DEF TestThread, ToldStays, Told, Pushed
  <2> QED BY <2>1, InformedKept
<1>5. CASE QueuePacket
  <2>1. ToldStays
    BY <1>5 DEF QueuePacket, ToldStays, Told, Pushed
  <2> QED BY <2>1, InformedKept
<1>6. CASE StartDrain
  <2>1. ToldStays
    BY <1>6 DEF StartDrain, ToldStays, Told, Pushed
  <2> QED BY <2>1, InformedKept
<1>7. CASE HandlePacket
  <2>1. /\ packets # <<>> /\ packets' = Tail(packets) /\ handled' = Append(handled, Head(packets))
        /\ event_queue_copy' = event_queue_copy /\ net' = net /\ id' = id /\ session' = session
    BY <1>7 DEF HandlePacket
  <2>2. handled' \o packets' = handled \o packets
    BY <2>1, MovesOn DEF Types, Shown
  <2>3. ToldStays
    BY <2>1, <2>2 DEF ToldStays, Told, Pushed
  <2> QED BY <2>3, InformedKept
<1>8. CASE EndDrain
  <2>1. ToldStays
    BY <1>8 DEF EndDrain, ToldStays, Told, Pushed
  <2> QED BY <2>1, InformedKept
<1>9. CASE StopClient
  <2>1. ToldStays
    BY <1>9 DEF StopClient, ToldStays, Told, Pushed
  <2> QED BY <2>1, InformedKept
<1>10. CASE Quit
  <2>1. ToldStays
    BY <1>10 DEF Quit, ToldStays, Told, Pushed
  <2> QED BY <2>1, InformedKept
<1>11. CASE QuitStops
  <2>1. ToldStays
    BY <1>11 DEF QuitStops, ToldStays, Told, Pushed
  <2> QED BY <2>1, InformedKept
<1>12. CASE StopJoin
  <2>1. ToldStays
    BY <1>12 DEF StopJoin, ToldStays, Told, Pushed
  <2> QED BY <2>1, InformedKept
<1>13. CASE StopClear
  <2>1. ToldStays
    BY <1>13 DEF StopClear, ToldStays, Told, Pushed
  <2> QED BY <2>1, InformedKept
<1>14. CASE Destroy
  <2>1. Fresh /\ net' # "pushing"
    BY <1>14 DEF Destroy, Control
  <2> QED BY <2>1, NothingTold
<1>15. CASE EnterClient
  <2>1. /\ net # "pushing" /\ net' # "pushing" /\ handled' = handled /\ packets' = packets
        /\ id' = id /\ session' = session
    BY <1>15 DEF EnterClient
  <2> QED BY <2>1, ToldStaysFrom, InformedKept
<1>16. CASE TakeBatch
  <2>1. /\ net # "pushing" /\ net' # "pushing" /\ handled' = handled /\ packets' = packets
        /\ id' = id /\ session' = session
    BY <1>16 DEF TakeBatch
  <2> QED BY <2>1, ToldStaysFrom, InformedKept
<1>17. CASE Callback
  <2> DEFINE e == Head(event_queue_copy)
             s == handled \o packets
  <2>1. /\ net = "events" /\ net' = "pushing" /\ event_queue_copy # <<>>
        /\ event_queue_copy' = event_queue_copy /\ handled' = handled /\ packets' = packets
        /\ session' = session /\ id' = IF e = Receive(Initialized) THEN OurID ELSE id
    BY <1>17 DEF Callback, LearnID
  <2>2. e \in Events /\ s \in Seq(Packets) /\ <<Packet(e)>> \in Seq(Packets) /\ Packet(e) \in Packets
    BY <2>1, HeadTailProperties, ConcatProperties, PacketTyped DEF Types, Shown
  <2>3. Told = s \o <<>> /\ Told' = s \o <<Packet(e)>>
    BY <2>1 DEF Told, Pushed
  <2>4. Told = s /\ Told' = Append(s, Packet(e))
    BY <2>2, <2>3, ConcatEmptySeq, AppendIsConcat
  <2>5. /\ Len(Told') = Len(s) + 1 /\ Told'[Len(s) + 1] = Packet(e)
        /\ \A i \in 1..Len(s) : Told'[i] = s[i]
    BY <2>2, <2>4, AppendProperties
  <2>6. Len(s) \in Nat /\ \A i \in 1..Len(s) + 1 : i \in 1..Len(s) \/ i = Len(s) + 1
    BY <2>2, LenProperties
  <2> HIDE DEF e, s
  <2>7. CASE e = Receive(Initialized)
    <3>1. id' = OurID'
      BY <2>1, <2>7 DEF OurID
    <3> QED BY <3>1 DEF Informed
  <2>8. CASE e # Receive(Initialized)
    <3>1. Packet(e) # <<"FROM_SERVER", Initialized>>
      BY <2>2, <2>8, OnlyInitialized
    <3>2. id' = id /\ OurID' = OurID /\ Initialized' = Initialized
      BY <2>1, <2>8 DEF OurID, Initialized
    <3>3. ASSUME NEW i \in 1..Len(Told'), Told'[i] = <<"FROM_SERVER", Initialized>>
          PROVE  i \in 1..Len(Told) /\ Told[i] = <<"FROM_SERVER", Initialized>>
      BY <3>1, <3>3, <2>4, <2>5, <2>6
    <3> QED BY <3>2, <3>3 DEF Informed
  <2> QED BY <2>7, <2>8
<1>18. CASE PushPacket
  <2> DEFINE x == Packet(Head(event_queue_copy))
  <2>1. /\ net = "pushing" /\ net' = "events" /\ event_queue_copy # <<>>
        /\ packets' = Append(packets, x) /\ handled' = handled /\ id' = id /\ session' = session
    BY <1>18 DEF PushPacket, Control
  <2>2. x \in Packets
    BY <2>1, HeadTailProperties, PacketTyped DEF Types, Shown
  <2>3. handled \o Append(packets, x) = (handled \o packets) \o <<x>>
    BY <2>2, PushedOn DEF Types, Shown
  <2>4. Append(packets, x) \in Seq(Packets)
    BY <2>2, AppendProperties DEF Types, Shown
  <2>5. (handled \o Append(packets, x)) \o <<>> = handled \o Append(packets, x)
    BY <2>4, ConcatProperties, ConcatEmptySeq DEF Types, Shown
  <2>6. Told = (handled \o packets) \o <<x>> /\ Told' = (handled' \o packets') \o <<>>
    BY <2>1 DEF Told, Pushed
  <2>7. ToldStays
    BY <2>1, <2>3, <2>5, <2>6 DEF ToldStays
  <2> QED BY <2>7, InformedKept
<1>19. CASE EndEvents
  <2>1. /\ net # "pushing" /\ net' # "pushing" /\ handled' = handled /\ packets' = packets
        /\ id' = id /\ session' = session
    BY <1>19 DEF EndEvents
  <2> QED BY <2>1, ToldStaysFrom, InformedKept
<1>20. CASE NetJoin
  <2>1. /\ net # "pushing" /\ net' # "pushing" /\ handled' = handled /\ packets' = packets
        /\ id' = id /\ session' = session
    BY <1>20 DEF NetJoin
  <2> QED BY <2>1, ToldStaysFrom, InformedKept
<1>21. CASE NetClear
  <2>1. /\ net # "pushing" /\ net' # "pushing" /\ handled' = handled /\ packets' = packets
        /\ id' = id /\ session' = session
    BY <1>21 DEF NetClear
  <2> QED BY <2>1, ToldStaysFrom, InformedKept
<1>22. CASE EndNetwork
  <2>1. /\ net # "pushing" /\ net' # "pushing" /\ handled' = handled /\ packets' = packets
        /\ id' = id /\ session' = session
    BY <1>22 DEF EndNetwork
  <2> QED BY <2>1, ToldStaysFrom, InformedKept
<1>23. CASE StartDisconnect
  <2>1. ToldStays
    BY <1>23 DEF StartDisconnect, enetOther, ToldStays, Told, Pushed
  <2> QED BY <2>1, InformedKept
<1>24. CASE EndSilently
  <2>1. ToldStays
    BY <1>24 DEF EndSilently, enetOther, ToldStays, Told, Pushed
  <2> QED BY <2>1, InformedKept
<1>25. CASE StartConnecting
  <2>1. ToldStays
    BY <1>25 DEF StartConnecting, enetOther, ToldStays, Told, Pushed
  <2> QED BY <2>1, InformedKept
<1>26. CASE SendQueued
  <2>1. ToldStays
    BY <1>26 DEF SendQueued, enetOther, ToldStays, Told, Pushed
  <2> QED BY <2>1, InformedKept
<1>27. CASE CaptureConnect
  <2>1. ToldStays
    BY <1>27 DEF CaptureConnect, enetOther, ToldStays, Told, Pushed
  <2> QED BY <2>1, InformedKept
<1>28. CASE CaptureReceive
  <2>1. ToldStays
    BY <1>28 DEF CaptureReceive, enetOther, ToldStays, Told, Pushed
  <2> QED BY <2>1, InformedKept
<1>29. CASE CaptureDisconnect
  <2>1. ToldStays
    BY <1>29 DEF CaptureDisconnect, enetOther, ToldStays, Told, Pushed
  <2> QED BY <2>1, InformedKept
<1>30. CASE UNCHANGED vars
  <2>1. ToldStays
    BY <1>30 DEF vars, ToldStays, Told, Pushed
  <2> QED BY <2>1, InformedKept
<1> QED
  BY <1>1, <1>2, <1>3, <1>4, <1>5, <1>6, <1>7, <1>8, <1>9, <1>10, <1>11, <1>12, <1>13,
     <1>14, <1>15, <1>16, <1>17, <1>18, <1>19, <1>20, <1>21, <1>22, <1>23, <1>24, <1>25,
     <1>26, <1>27, <1>28, <1>29, <1>30 DEF Next, Main, Network, Enet, Draining, Sending,
     Stopping

-----------------------------------------------------------------------------
(* What each step does to the sends.                                       *)

LEMMA QueueTyped ==
  ASSUME Sent
  PROVE  /\ Queue \in Seq(Sends) /\ Len(Queue) = Len(accepted) + Len(packet_queue)
         /\ Len(accepted) \in Nat /\ Len(packet_queue) \in Nat /\ Len(asked) \in Nat
         /\ \A i \in 1..Len(accepted) : Queue[i] = accepted[i]
         /\ \A i \in 1..Len(Queue) : Queue[i] \in 1..Len(asked)
         /\ \A i \in 1..Len(accepted) : accepted[i] \in 1..Len(asked)
<1>1. accepted \in Seq(Sends) /\ packet_queue \in Seq(Sends) /\ asked \in Seq(BOOLEAN)
  BY DEF Sent
<1>2. Len(accepted) \in Nat /\ Len(packet_queue) \in Nat /\ Len(asked) \in Nat
  BY <1>1, LenProperties
<1>3. /\ Queue \in Seq(Sends) /\ Len(Queue) = Len(accepted) + Len(packet_queue)
      /\ \A i \in 1..Len(accepted) + Len(packet_queue) :
           Queue[i] = IF i <= Len(accepted) THEN accepted[i] ELSE packet_queue[i - Len(accepted)]
  BY <1>1, ConcatProperties DEF Queue
<1>4. \A i \in 1..Len(accepted) : Queue[i] = accepted[i]
  BY <1>2, <1>3
<1>5. \A i \in 1..Len(Queue) : Queue[i] \in Sends
  BY <1>3, ElementOfSeq
<1>6. \A i \in 1..Len(accepted) : accepted[i] \in Sends
  BY <1>1, ElementOfSeq
<1> QED BY <1>2, <1>3, <1>4, <1>5, <1>6 DEF Sends

(* No send is made or moves.                                               *)
LEMMA KeepingKept ==
  ASSUME Keeping, asked' = asked, accepted' = accepted, packet_queue' = packet_queue, call' = call,
         Linked => Linked', connected_to_server' => Linked',
         enet' = "connected" => enet = "connected" \/ ~Linked
  PROVE  Keeping'
<1>1. Queue' = Queue /\ Sends' = Sends
  BY DEF Queue, Sends
<1>2. InOrder'
  BY <1>1 DEF Keeping, InOrder
<1>3. NoneSkipped'
  BY <1>1 DEF Keeping, NoneSkipped
<1>4. \A n \in Sends : asked[n] => Linked'
  BY DEF Keeping, Checked
<1>5. ASSUME enet' = "connected", NEW n \in Sends, asked[n]
      PROVE  In(n, Queue) \/ (call # "none" /\ n = Len(asked))
  <2>1. Linked
    BY <1>5 DEF Keeping, Checked
  <2>2. enet = "connected"
    BY <1>5, <2>1
  <2> QED BY <1>5, <2>2 DEF Keeping, Checked
<1>6. Checked'
  BY <1>1, <1>4, <1>5 DEF Checked
<1> QED BY <1>2, <1>3, <1>6 DEF Keeping

(* The queue is emptied and nothing is connected.                          *)
LEMMA KeepingCut ==
  ASSUME Sent, Keeping, asked' = asked, accepted' = accepted, packet_queue' = <<>>, call' = call,
         Linked => Linked', connected_to_server' = connected_to_server, enet' # "connected"
  PROVE  Keeping'
<1>1. Queue' = accepted
  <2>1. accepted \o <<>> = accepted
    BY ConcatEmptySeq DEF Sent
  <2> QED BY <2>1 DEF Queue
<1>2. Sends' = Sends
  BY DEF Sends
<1>3. InOrder'
  <2>1. \A i \in 1..Len(accepted) : i \in 1..Len(Queue) /\ Queue[i] = accepted[i]
    BY QueueTyped
  <2>2. Increasing(accepted)
    BY <2>1 DEF Keeping, InOrder, Increasing
  <2>3. call # "none" => \A i \in 1..Len(accepted) : accepted[i] < Len(asked)
    BY <2>1 DEF Keeping, InOrder
  <2> QED BY <1>1, <2>2, <2>3 DEF InOrder
<1>4. NoneSkipped'
  BY <1>2 DEF Keeping, NoneSkipped
<1>5. Checked'
  BY <1>2 DEF Keeping, Checked
<1> QED BY <1>3, <1>4, <1>5 DEF Keeping

LEMMA NothingSent ==
  ASSUME Fresh, call' = "none"
  PROVE  Keeping'
<1>1. /\ asked' = <<>> /\ accepted' = <<>> /\ packet_queue' = <<>> /\ connected_to_server' = FALSE
  BY DEF Fresh
<1>2. <<>> \in Seq(Nat) /\ <<>> \o <<>> = <<>> /\ 1..Len(<<>>) = {}
  BY ConcatEmptySeq
<1>3. Queue' = <<>> /\ Sends' = {}
  BY <1>1, <1>2 DEF Queue, Sends
<1>4. InOrder'
  BY <1>2, <1>3, call' = "none" DEF InOrder, Increasing
<1> QED BY <1>1, <1>3, <1>4 DEF Keeping, Checked, NoneSkipped

(* The game makes a send.                                                  *)
LEMMA GameSendKeeps ==
  ASSUME Sent, Keeping, NEW checked \in BOOLEAN, GameSend(checked)
  PROVE  Keeping'
<1>1. /\ call = "none" /\ call' = "send" /\ (checked => connected_to_server)
      /\ asked' = Append(asked, checked) /\ accepted' = accepted /\ packet_queue' = packet_queue
      /\ connected_to_server' = connected_to_server /\ enet' = enet
  BY DEF GameSend, IsConnected, object
<1> DEFINE k == Len(asked) + 1
<1>2. /\ asked' \in Seq(BOOLEAN) /\ Len(asked') = k /\ asked'[k] = checked /\ Len(asked) \in Nat
      /\ \A n \in 1..Len(asked) : asked'[n] = asked[n]
  BY <1>1, AppendProperties, LenProperties DEF Sent
<1>3. Sends' = 1..k /\ Queue' = Queue
  BY <1>1, <1>2 DEF Sends, Queue
<1>4. \A i \in 1..Len(Queue) : Queue[i] \in 1..Len(asked)
  BY QueueTyped
<1>5. InOrder'
  <2>1. \A i \in 1..Len(Queue) : Queue[i] < k
    BY <1>2, <1>4
  <2> QED BY <1>2, <1>3, <2>1 DEF Keeping, InOrder
<1>6. \A n \in 1..k : n \in Sends \/ n = k
  BY <1>2 DEF Sends
<1>7. Linked' <=> Linked
  BY <1>1 DEF Linked
<1>8. NoneSkipped'
  <2> SUFFICES ASSUME NEW n \in 1..k, NEW m \in 1..k, n < m, asked'[n], In(m, accepted)
               PROVE  In(n, accepted)
    BY <1>1, <1>3 DEF NoneSkipped
  <2>1. m \in 1..Len(asked)
    BY QueueTyped DEF In
  <2>2. n \in 1..Len(asked)
    BY <2>1, <1>2
  <2>3. n \in Sends /\ m \in Sends /\ asked[n]
    BY <2>1, <2>2, <1>2 DEF Sends
  <2> QED BY <2>3 DEF Keeping, NoneSkipped
<1>9. ASSUME NEW n \in 1..k, asked'[n]
      PROVE  /\ Linked'
             /\ enet' = "connected" => In(n, Queue') \/ (call' # "none" /\ n = Len(asked'))
  <2>1. CASE n \in Sends
    <3>1. asked[n]
      BY <1>9, <2>1, <1>2 DEF Sends
    <3>2. Linked
      BY <2>1, <3>1 DEF Keeping, Checked
    <3>3. enet = "connected" => In(n, Queue)
      BY <2>1, <3>1, <1>1 DEF Keeping, Checked
    <3> QED BY <3>2, <3>3, <1>1, <1>3, <1>7
  <2>2. CASE n = k
    <3>1. checked
      BY <1>9, <2>2, <1>2
    <3>2. connected_to_server
      BY <3>1, <1>1
    <3>3. Linked
      BY <3>2 DEF Keeping, Checked
    <3>4. call' # "none" /\ n = Len(asked')
      BY <2>2, <1>1, <1>2
    <3> QED BY <3>3, <3>4, <1>7
  <2> QED BY <2>1, <2>2, <1>6
<1>10. Checked'
  BY <1>1, <1>3, <1>7, <1>9 DEF Keeping, Checked
<1> QED BY <1>5, <1>8, <1>10 DEF Keeping

(* It ends up in the queue.                                                *)
LEMMA QueuePacketKeeps ==
  ASSUME Sent, Control, Keeping, QueuePacket
  PROVE  Keeping'
<1>1. /\ call = "queue" /\ call' = "none" /\ asked' = asked /\ accepted' = accepted
      /\ packet_queue' = Append(packet_queue, Len(asked)) /\ Len(asked) > 0
      /\ connected_to_server' = connected_to_server /\ enet' = enet
  BY DEF QueuePacket, history, Control
<1> DEFINE k == Len(asked)
<1>2. k \in Sends /\ k \in Nat
  BY <1>1, QueueTyped DEF Sends
<1>3. Queue \in Seq(Sends) /\ packet_queue \in Seq(Sends) /\ accepted \in Seq(Sends)
  BY QueueTyped DEF Sent
<1>4. Queue' = Append(Queue, k)
  <2>1. <<k>> \in Seq(Sends)
    BY <1>2
  <2>2. Append(packet_queue, k) = packet_queue \o <<k>> /\ Append(Queue, k) = Queue \o <<k>>
    BY <1>2, <1>3, AppendIsConcat
  <2>3. (accepted \o packet_queue) \o <<k>> = accepted \o (packet_queue \o <<k>>)
    BY <1>3, <2>1, ConcatAssociative
  <2> QED BY <1>1, <2>2, <2>3 DEF Queue
<1>5. /\ Len(Queue') = Len(Queue) + 1 /\ Queue'[Len(Queue) + 1] = k /\ Len(Queue) \in Nat
      /\ \A i \in 1..Len(Queue) : Queue'[i] = Queue[i]
  BY <1>2, <1>3, <1>4, AppendProperties, LenProperties
<1>6. \A i \in 1..Len(Queue) : Queue[i] < k
  BY <1>1 DEF Keeping, InOrder
<1>7. InOrder'
  <2>1. ASSUME NEW i \in 1..Len(Queue'), NEW j \in 1..Len(Queue'), i < j
        PROVE  Queue'[i] < Queue'[j]
    <3>1. i \in 1..Len(Queue)
      BY <2>1, <1>5
    <3>2. CASE j \in 1..Len(Queue)
      BY <2>1, <3>1, <3>2, <1>5 DEF Keeping, InOrder, Increasing
    <3>3. CASE j = Len(Queue) + 1
      BY <3>1, <3>3, <1>5, <1>6
    <3> QED BY <3>2, <3>3, <1>5
  <2> QED BY <2>1, <1>1 DEF InOrder, Increasing
<1>8. Sends' = Sends /\ (Linked' <=> Linked)
  BY <1>1 DEF Sends, Linked
<1>9. NoneSkipped'
  BY <1>1, <1>8 DEF Keeping, NoneSkipped
<1>10. \A n : In(n, Queue) => In(n, Queue')
  <2>1. \A i \in 1..Len(Queue) : i \in 1..Len(Queue')
    BY <1>5
  <2> QED BY <2>1, <1>5 DEF In
<1>11. In(k, Queue')
  <2>1. Len(Queue) + 1 \in 1..Len(Queue')
    BY <1>5
  <2> QED BY <2>1, <1>5 DEF In
<1>12. Checked'
  BY <1>1, <1>8, <1>10, <1>11 DEF Keeping, Checked
<1> QED BY <1>7, <1>9, <1>12 DEF Keeping

(* ENet takes the queue.                                                   *)
LEMMA SendQueuedKeeps ==
  ASSUME Sent, Keeping, SendQueued
  PROVE  Keeping'
<1>1. /\ packet_queue' = <<>> /\ asked' = asked /\ call' = call /\ enet' = enet
      /\ connected_to_server' = connected_to_server
      /\ accepted' = IF enet = "connected" THEN accepted \o packet_queue ELSE accepted
  BY DEF SendQueued, enetOther, main
<1>2. CASE enet # "connected"
  BY <1>1, <1>2, KeepingCut DEF Linked
<1>3. CASE enet = "connected"
  <2>1. accepted' = Queue
    BY <1>1, <1>3 DEF Queue
  <2>2. Queue \o <<>> = Queue
    BY QueueTyped, ConcatEmptySeq
  <2>3. Queue' = Queue
    BY <1>1, <2>1, <2>2 DEF Queue
  <2>4. Sends' = Sends /\ (Linked' <=> Linked)
    BY <1>1 DEF Sends, Linked
  <2>5. InOrder' /\ Checked'
    BY <1>1, <2>3, <2>4 DEF Keeping, InOrder, Checked
  <2>6. NoneSkipped'
    <3> SUFFICES ASSUME NEW n \in Sends, NEW m \in Sends, n < m, asked[n], In(m, Queue)
                 PROVE  In(n, Queue)
      BY <1>1, <2>1, <2>4 DEF NoneSkipped
    <3>1. m <= Len(asked) /\ Len(asked) \in Nat /\ n \in Nat /\ m \in Nat
      BY QueueTyped DEF Sends
    <3>2. n # Len(asked)
      BY <3>1
    <3> QED BY <3>2, <1>3 DEF Keeping, Checked
  <2> QED BY <2>5, <2>6 DEF Keeping
<1> QED BY <1>2, <1>3

(* An event under way shows that there is or was a connection.             *)
LEMMA BatchLinks ==
  ASSUME Types, Captured, event_queue_copy # <<>>
  PROVE  Linked
<1>1. handled \o packets \in Seq(Packets) /\ event_queue_copy \o event_queue \in Seq(Events)
      /\ event_queue_copy \in Seq(Events)
  BY ConcatProperties DEF Types, Shown
<1>2. Len(event_queue_copy \o event_queue) = Len(event_queue_copy) + Len(event_queue)
      /\ Len(event_queue) \in Nat
  BY ConcatProperties, LenProperties DEF Types, Shown
<1>3. Len(event_queue_copy) \in Nat \ {0}
  BY <1>1, EmptySeq
<1>4. /\ Len(Seen(event_queue_copy \o event_queue)) > 0
      /\ Seen(event_queue_copy \o event_queue) \in Seq(Packets)
  <2>1. Len(event_queue_copy \o event_queue) > 0
    BY <1>2, <1>3
  <2>2. /\ Seen(event_queue_copy \o event_queue) \in Seq(Packets)
        /\ Len(Seen(event_queue_copy \o event_queue)) = Len(event_queue_copy \o event_queue)
    BY <1>1, SeenTyped
  <2> QED BY <2>1, <2>2
<1>5. Len(Stream) = Len(handled \o packets) + Len(Seen(event_queue_copy \o event_queue))
      /\ Len(handled \o packets) \in Nat
  BY <1>1, <1>4, ConcatProperties, LenProperties DEF Stream, Whole
<1>6. Stream # <<>>
  <2>1. Len(Stream) > 0
    BY <1>4, <1>5, LenProperties
  <2>2. Len(<<>>) = 0
    OBVIOUS
  <2> QED BY <2>1, <2>2
<1> QED BY <1>6 DEF Captured, Types, Places, Linked

LEMMA KeepingStep ==
  ASSUME Types, Control, Captured, Keeping, [Next]_vars
  PROVE  Keeping'
<1> USE DEF main, network, object, history
<1>1. CASE StartClient
  <2>1. Fresh /\ call' = "none"
    BY <1>1 DEF StartClient, Control
  <2> QED BY <2>1, NothingSent
<1>2. CASE GameSend(TRUE)
  BY <1>2, GameSendKeeps DEF Types
<1>3. CASE GameSend(FALSE)
  BY <1>3, GameSendKeeps DEF Types
<1>4. CASE TestThread
  <2>1. /\ asked' = asked /\ accepted' = accepted /\ packet_queue' = packet_queue
        /\ connected_to_server' = connected_to_server /\ enet' = enet /\ call # "none"
    BY <1>4 DEF TestThread
  <2>2. /\ call' # "none" \/ enet # "connected"
    BY <1>4 DEF TestThread, Control
  <2>3. Queue' = Queue /\ Sends' = Sends /\ (Linked' <=> Linked)
    BY <2>1 DEF Queue, Sends, Linked
  <2> QED BY <2>1, <2>2, <2>3 DEF Keeping, InOrder, Checked, NoneSkipped
<1>5. CASE QueuePacket
  BY <1>5, QueuePacketKeeps DEF Types
<1>6. CASE StartDrain
  <2>1. /\ asked' = asked /\ accepted' = accepted /\ packet_queue' = packet_queue /\ call' = call
        /\ connected_to_server' = connected_to_server
    BY <1>6 DEF StartDrain
  <2>2. enet' = enet
    BY <1>6 DEF StartDrain
  <2>3. connected_to_server' => Linked'
    BY <2>1, <2>2 DEF Keeping, Checked, Linked
  <2> QED BY <2>1, <2>2, <2>3, KeepingKept DEF Linked
<1>7. CASE HandlePacket
  <2>1. /\ asked' = asked /\ accepted' = accepted /\ packet_queue' = packet_queue /\ call' = call
        /\ connected_to_server' = connected_to_server
    BY <1>7 DEF HandlePacket
  <2>2. enet' = enet
    BY <1>7 DEF HandlePacket
  <2>3. connected_to_server' => Linked'
    BY <2>1, <2>2 DEF Keeping, Checked, Linked
  <2> QED BY <2>1, <2>2, <2>3, KeepingKept DEF Linked
<1>8. CASE EndDrain
  <2>1. /\ asked' = asked /\ accepted' = accepted /\ packet_queue' = packet_queue /\ call' = call
        /\ connected_to_server' = connected_to_server
    BY <1>8 DEF EndDrain
  <2>2. enet' = enet
    BY <1>8 DEF EndDrain
  <2>3. connected_to_server' => Linked'
    BY <2>1, <2>2 DEF Keeping, Checked, Linked
  <2> QED BY <2>1, <2>2, <2>3, KeepingKept DEF Linked
<1>9. CASE StopClient
  <2>1. /\ asked' = asked /\ accepted' = accepted /\ packet_queue' = packet_queue /\ call' = call
        /\ connected_to_server' = connected_to_server
    BY <1>9 DEF StopClient
  <2>2. enet' = enet
    BY <1>9 DEF StopClient
  <2>3. connected_to_server' => Linked'
    BY <2>1, <2>2 DEF Keeping, Checked, Linked
  <2> QED BY <2>1, <2>2, <2>3, KeepingKept DEF Linked
<1>10. CASE Quit
  <2>1. /\ asked' = asked /\ accepted' = accepted /\ packet_queue' = packet_queue /\ call' = call
        /\ connected_to_server' = connected_to_server
    BY <1>10 DEF Quit
  <2>2. enet' = enet
    BY <1>10 DEF Quit
  <2>3. connected_to_server' => Linked'
    BY <2>1, <2>2 DEF Keeping, Checked, Linked
  <2> QED BY <2>1, <2>2, <2>3, KeepingKept DEF Linked
<1>11. CASE QuitStops
  <2>1. /\ asked' = asked /\ accepted' = accepted /\ packet_queue' = packet_queue /\ call' = call
        /\ connected_to_server' = connected_to_server
    BY <1>11 DEF QuitStops
  <2>2. enet' = enet
    BY <1>11 DEF QuitStops
  <2>3. connected_to_server' => Linked'
    BY <2>1, <2>2 DEF Keeping, Checked, Linked
  <2> QED BY <2>1, <2>2, <2>3, KeepingKept DEF Linked
<1>12. CASE StopJoin
  <2>1. /\ asked' = asked /\ accepted' = accepted /\ packet_queue' = packet_queue /\ call' = call
        /\ connected_to_server' = connected_to_server
    BY <1>12 DEF StopJoin
  <2>2. enet' = enet
    BY <1>12 DEF StopJoin
  <2>3. connected_to_server' => Linked'
    BY <2>1, <2>2 DEF Keeping, Checked, Linked
  <2> QED BY <2>1, <2>2, <2>3, KeepingKept DEF Linked
<1>13. CASE StopClear
  <2>1. /\ asked' = asked /\ accepted' = accepted /\ packet_queue' = <<>> /\ call' = call
        /\ connected_to_server' = connected_to_server
    BY <1>13 DEF StopClear, DestroyQueues
  <2>2. enet = "ended" /\ enet' = enet
    BY <1>13 DEF StopClear, Control
  <2> QED BY <2>1, <2>2, KeepingCut DEF Types, Linked
<1>14. CASE Destroy
  <2>1. Fresh /\ call' = "none"
    BY <1>14 DEF Destroy, Control
  <2> QED BY <2>1, NothingSent
<1>15. CASE EnterClient
  <2>1. /\ asked' = asked /\ accepted' = accepted /\ packet_queue' = packet_queue /\ call' = call
        /\ connected_to_server' = connected_to_server
    BY <1>15 DEF EnterClient
  <2>2. enet' = enet
    BY <1>15 DEF EnterClient
  <2>3. connected_to_server' => Linked'
    BY <2>1, <2>2 DEF Keeping, Checked, Linked
  <2> QED BY <2>1, <2>2, <2>3, KeepingKept DEF Linked
<1>16. CASE TakeBatch
  <2>1. /\ asked' = asked /\ accepted' = accepted /\ packet_queue' = packet_queue /\ call' = call
        /\ connected_to_server' = connected_to_server
    BY <1>16 DEF TakeBatch
  <2>2. enet' = enet
    BY <1>16 DEF TakeBatch
  <2>3. connected_to_server' => Linked'
    BY <2>1, <2>2 DEF Keeping, Checked, Linked
  <2> QED BY <2>1, <2>2, <2>3, KeepingKept DEF Linked
<1>17. CASE Callback
  <2>1. /\ asked' = asked /\ accepted' = accepted /\ packet_queue' = packet_queue /\ call' = call
        /\ enet' = enet /\ event_queue_copy # <<>>
    BY <1>17 DEF Callback
  <2>2. Linked /\ Linked'
    BY <2>1, BatchLinks DEF Linked
  <2> QED BY <2>1, <2>2, KeepingKept
<1>18. CASE PushPacket
  <2>1. /\ asked' = asked /\ accepted' = accepted /\ packet_queue' = packet_queue /\ call' = call
        /\ connected_to_server' = connected_to_server
    BY <1>18 DEF PushPacket
  <2>2. enet' = enet
    BY <1>18 DEF PushPacket
  <2>3. connected_to_server' => Linked'
    BY <2>1, <2>2 DEF Keeping, Checked, Linked
  <2> QED BY <2>1, <2>2, <2>3, KeepingKept DEF Linked
<1>19. CASE EndEvents
  <2>1. /\ asked' = asked /\ accepted' = accepted /\ packet_queue' = packet_queue /\ call' = call
        /\ connected_to_server' = connected_to_server
    BY <1>19 DEF EndEvents
  <2>2. enet' = enet
    BY <1>19 DEF EndEvents
  <2>3. connected_to_server' => Linked'
    BY <2>1, <2>2 DEF Keeping, Checked, Linked
  <2> QED BY <2>1, <2>2, <2>3, KeepingKept DEF Linked
<1>20. CASE NetJoin
  <2>1. /\ asked' = asked /\ accepted' = accepted /\ packet_queue' = packet_queue /\ call' = call
        /\ connected_to_server' = connected_to_server
    BY <1>20 DEF NetJoin
  <2>2. enet' = enet
    BY <1>20 DEF NetJoin
  <2>3. connected_to_server' => Linked'
    BY <2>1, <2>2 DEF Keeping, Checked, Linked
  <2> QED BY <2>1, <2>2, <2>3, KeepingKept DEF Linked
<1>21. CASE NetClear
  <2>1. /\ asked' = asked /\ accepted' = accepted /\ packet_queue' = <<>> /\ call' = call
        /\ connected_to_server' = connected_to_server
    BY <1>21 DEF NetClear, DestroyQueues
  <2>2. enet = "ended" /\ enet' = enet
    BY <1>21 DEF NetClear, Control
  <2> QED BY <2>1, <2>2, KeepingCut DEF Types, Linked
<1>22. CASE EndNetwork
  <2>1. /\ asked' = asked /\ accepted' = accepted /\ packet_queue' = packet_queue /\ call' = call
        /\ connected_to_server' = connected_to_server
    BY <1>22 DEF EndNetwork
  <2>2. enet' = enet
    BY <1>22 DEF EndNetwork
  <2>3. connected_to_server' => Linked'
    BY <2>1, <2>2 DEF Keeping, Checked, Linked
  <2> QED BY <2>1, <2>2, <2>3, KeepingKept DEF Linked
<1>23. CASE StartDisconnect
  <2>1. /\ asked' = asked /\ accepted' = accepted /\ packet_queue' = packet_queue /\ call' = call
        /\ connected_to_server' = connected_to_server
    BY <1>23 DEF StartDisconnect, enetOther
  <2>2. /\ Linked => Linked'
        /\ enet' = "connected" => enet = "connected" \/ ~Linked
    BY <1>23 DEF StartDisconnect, enetOther, Linked
  <2>3. connected_to_server' => Linked'
    BY <2>1, <2>2 DEF Keeping, Checked, Linked
  <2> QED BY <2>1, <2>2, <2>3, KeepingKept DEF Linked
<1>24. CASE EndSilently
  <2>1. /\ asked' = asked /\ accepted' = accepted /\ packet_queue' = packet_queue /\ call' = call
        /\ connected_to_server' = connected_to_server
    BY <1>24 DEF EndSilently, enetOther
  <2>2. /\ Linked => Linked'
        /\ enet' = "connected" => enet = "connected" \/ ~Linked
    BY <1>24 DEF EndSilently, enetOther, Linked
  <2>3. connected_to_server' => Linked'
    BY <2>1, <2>2 DEF Keeping, Checked, Linked
  <2> QED BY <2>1, <2>2, <2>3, KeepingKept DEF Linked
<1>25. CASE StartConnecting
  <2>1. /\ asked' = asked /\ accepted' = accepted /\ packet_queue' = packet_queue /\ call' = call
        /\ connected_to_server' = connected_to_server
    BY <1>25 DEF StartConnecting, enetOther
  <2>2. /\ Linked => Linked'
        /\ enet' = "connected" => enet = "connected" \/ ~Linked
    BY <1>25 DEF StartConnecting, enetOther, Linked
  <2>3. connected_to_server' => Linked'
    BY <2>1, <2>2 DEF Keeping, Checked, Linked
  <2> QED BY <2>1, <2>2, <2>3, KeepingKept DEF Linked
<1>26. CASE SendQueued
  BY <1>26, SendQueuedKeeps DEF Types
<1>27. CASE CaptureConnect
  <2>1. /\ asked' = asked /\ accepted' = accepted /\ packet_queue' = packet_queue /\ call' = call
        /\ connected_to_server' = connected_to_server
    BY <1>27 DEF CaptureConnect, enetOther
  <2>2. /\ Linked => Linked'
        /\ enet' = "connected" => enet = "connected" \/ ~Linked
    BY <1>27 DEF CaptureConnect, enetOther, Linked
  <2>3. connected_to_server' => Linked'
    BY <2>1, <2>2 DEF Keeping, Checked, Linked
  <2> QED BY <2>1, <2>2, <2>3, KeepingKept DEF Linked
<1>28. CASE CaptureReceive
  <2>1. /\ asked' = asked /\ accepted' = accepted /\ packet_queue' = packet_queue /\ call' = call
        /\ connected_to_server' = connected_to_server
    BY <1>28 DEF CaptureReceive, enetOther
  <2>2. /\ Linked => Linked'
        /\ enet' = "connected" => enet = "connected" \/ ~Linked
    BY <1>28 DEF CaptureReceive, enetOther, Linked
  <2>3. connected_to_server' => Linked'
    BY <2>1, <2>2 DEF Keeping, Checked, Linked
  <2> QED BY <2>1, <2>2, <2>3, KeepingKept DEF Linked
<1>29. CASE CaptureDisconnect
  <2>1. /\ asked' = asked /\ accepted' = accepted /\ packet_queue' = packet_queue /\ call' = call
        /\ connected_to_server' = connected_to_server
    BY <1>29 DEF CaptureDisconnect, enetOther
  <2>2. /\ Linked => Linked'
        /\ enet' = "connected" => enet = "connected" \/ ~Linked
    BY <1>29 DEF CaptureDisconnect, enetOther, Linked
  <2>3. connected_to_server' => Linked'
    BY <2>1, <2>2 DEF Keeping, Checked, Linked
  <2> QED BY <2>1, <2>2, <2>3, KeepingKept DEF Linked
<1>30. CASE UNCHANGED vars
  <2>1. /\ asked' = asked /\ accepted' = accepted /\ packet_queue' = packet_queue /\ call' = call
        /\ connected_to_server' = connected_to_server
    BY <1>30 DEF vars
  <2>2. enet' = enet
    BY <1>30 DEF vars
  <2>3. connected_to_server' => Linked'
    BY <2>1, <2>2 DEF Keeping, Checked, Linked
  <2> QED BY <2>1, <2>2, <2>3, KeepingKept DEF Linked
<1> QED
  BY <1>1, <1>2, <1>3, <1>4, <1>5, <1>6, <1>7, <1>8, <1>9, <1>10, <1>11, <1>12, <1>13,
     <1>14, <1>15, <1>16, <1>17, <1>18, <1>19, <1>20, <1>21, <1>22, <1>23, <1>24, <1>25,
     <1>26, <1>27, <1>28, <1>29, <1>30 DEF Next, Main, Network, Enet, Draining, Sending,
     Stopping

-----------------------------------------------------------------------------
(* The theorems.                                                           *)

LEMMA Initially == Init => IInv
<1> SUFFICES ASSUME Init
             PROVE  IInv
  OBVIOUS
<1> USE BoundAssumption
<1>1. Places /\ Flags /\ Counts
  <2>1. Places
    BY DEF Init, Places
  <2>2. Flags
    BY DEF Init, Flags
  <2>3. Counts
    BY DEF Init, Counts, OurID
  <2> QED BY <2>1, <2>2, <2>3
<1>2. \A S : <<>> \in Seq(S)
  OBVIOUS
<1>3. Len(<<>>) = 0 /\ \A i \in 1..Len(<<>>) : FALSE
  OBVIOUS
<1>4. Sent
  BY <1>2, <1>3 DEF Init, Sent
<1>5. Shown
  BY <1>2 DEF Init, Shown
<1>6. Control
  BY DEF Init, Control
<1>7. Stream = <<>> /\ captured = 0 /\ enet = "none"
  BY WholeEmpty DEF Init, Stream
<1>8. Ordered(Stream) /\ Captured
  BY <1>3, <1>7 DEF Ordered, Captured
<1>9. Told = <<>>
  <2>1. <<>> \in Seq(Packets) /\ <<>> \o <<>> = <<>>
    BY ConcatEmptySeq
  <2> QED BY <2>1 DEF Init, Told, Pushed
<1>10. Informed
  BY <1>3, <1>9 DEF Informed
<1>11. Queue = <<>> /\ Sends = {}
  <2>1. <<>> \in Seq(Sends) /\ <<>> \o <<>> = <<>>
    BY ConcatEmptySeq
  <2>2. asked = <<>> /\ 1..0 = {}
    BY DEF Init
  <2> QED BY <2>1, <2>2, <1>3 DEF Init, Queue, Sends
<1>12. call = "none" /\ connected_to_server = FALSE
  BY DEF Init
<1>13. Keeping
  BY <1>3, <1>11, <1>12 DEF Keeping, InOrder, Increasing, Checked, NoneSkipped
<1> QED BY <1>1, <1>4, <1>5, <1>6, <1>8, <1>10, <1>13 DEF IInv, Types

LEMMA Kept == ASSUME StopsFreely = FALSE PROVE IInv /\ [Next]_vars => IInv'
<1> SUFFICES ASSUME IInv, [Next]_vars
             PROVE  IInv'
  OBVIOUS
<1>1. /\ Types /\ Control /\ Ordered(Stream) /\ Captured /\ Informed /\ Keeping
      /\ Places /\ Flags /\ Counts /\ Sent /\ Shown
  BY DEF IInv, Types
<1>2. Types'
  BY <1>1, PlacesStep, FlagsStep, CountsStep, SentStep, ShownStep DEF Types
<1>3. Control'
  BY <1>1, ControlStep
<1>4. Ordered(Stream)' /\ Captured'
  BY <1>1, OrderStep
<1>5. Informed'
  BY <1>1, InformedStep
<1>6. Keeping'
  BY <1>1, KeepingStep
<1> QED BY <1>2, <1>3, <1>4, <1>5, <1>6 DEF IInv

LEMMA Invariance ==
  ASSUME StopsFreely = FALSE
  PROVE  Spec => []IInv
  BY Initially, Kept, PTL DEF Spec

(* The shape of the state: the batch is only nonempty while the network    *)
(* thread works on it, and nothing of a client outlives it, for any number *)
(* of sessions, sends and data packets.                                    *)
THEOREM TypeCorrect ==
  ASSUME StopsFreely = FALSE
  PROVE  Spec => []TypeOK
<1>1. IInv => TypeOK
  BY DEF IInv, Types, Control, Places, Flags, Counts, Sent, Shown, TypeOK
<1> QED BY <1>1, Invariance, PTL

(* The game is shown CONNECTED, then what the server sends in order, then  *)
(* DISCONNECTED, through both queues and all three threads                 *)
(* (consume_events, pushPacket, Client::update).                           *)
THEOREM BracketedTheorem ==
  ASSUME StopsFreely = FALSE
  PROVE  Spec => []Bracketed
<1>1. IInv => Bracketed
  <2> SUFFICES ASSUME IInv
               PROVE  Bracketed
    OBVIOUS
  <2>1. /\ handled \in Seq(Packets) /\ packets \in Seq(Packets)
        /\ Seen(event_queue_copy \o event_queue) \in Seq(Packets)
    BY ConcatProperties, SeenTyped DEF IInv, Types, Shown
  <2>2. packets \o Seen(event_queue_copy \o event_queue) \in Seq(Packets)
    BY <2>1, ConcatProperties
  <2>3. Stream = handled \o (packets \o Seen(event_queue_copy \o event_queue))
    BY <2>1, ConcatAssociative DEF Stream, Whole
  <2>4. Ordered(handled)
    BY <2>1, <2>2, <2>3, PrefixOrdered DEF IInv
  <2> QED BY <2>4 DEF Ordered, Bracketed
<1> QED BY <1>1, Invariance, PTL

(* Client::id, written by the network thread, is right whenever the main   *)
(* thread can have handled CLIENT_INITIALIZED or anything after it,        *)
(* however many packets for an earlier holder of the ID came before.       *)
THEOREM IDKnownTheorem ==
  ASSUME StopsFreely = FALSE
  PROVE  Spec => []IDKnown
<1>1. IInv => IDKnown
  <2> SUFFICES ASSUME IInv, NEW i \in 1..Len(handled),
                      handled[i][1] = "FROM_SERVER", handled[i][2] >= Initialized
               PROVE  id = OurID
    BY DEF IDKnown
  <2>1. handled \in Seq(Packets) /\ packets \in Seq(Packets) /\ Pushed \in Seq(Packets)
    <3>1. net = "pushing" => Packet(Head(event_queue_copy)) \in Packets
      BY HeadTailProperties, PacketTyped DEF IInv, Types, Shown, Control
    <3> QED BY <3>1 DEF IInv, Types, Shown, Pushed
  <2>2. /\ packets \o Seen(event_queue_copy \o event_queue) \in Seq(Packets)
        /\ Stream = handled \o (packets \o Seen(event_queue_copy \o event_queue))
    <3> DEFINE s == Seen(event_queue_copy \o event_queue)
    <3>1. s \in Seq(Packets)
      BY ConcatProperties, SeenTyped DEF IInv, Types, Shown
    <3>2. Stream = (handled \o packets) \o s
      BY DEF Stream, Whole
    <3> HIDE DEF s
    <3>3. packets \o s \in Seq(Packets)
      BY <2>1, <3>1, ConcatTyped
    <3>4. (handled \o packets) \o s = handled \o (packets \o s)
      BY <2>1, <3>1, Regrouped, SMTT(30)
    <3> QED BY <3>2, <3>3, <3>4 DEF s
  <2>3. Ordered(handled)
    BY <2>1, <2>2, PrefixOrdered DEF IInv
  <2>4. Len(handled) \in Nat
    BY <2>1, LenProperties
  <2>5. /\ <<"CONNECTED">>[1] = "CONNECTED" /\ <<"DISCONNECTED">>[1] = "DISCONNECTED"
    OBVIOUS
  <2>6. i > 1 /\ handled[i] = <<"FROM_SERVER", i - 2>>
    BY <2>3, <2>5 DEF Ordered
  <2>7. Initialized \in Nat
    <3>1. session \in 1..MaxSessions
      <4>1. handled # <<>>
        BY <2>4
      <4>2. session # 0
        BY <4>1 DEF IInv, Control
      <4> QED BY <4>2, BoundAssumption DEF IInv, Types, Counts
    <3> QED BY <3>1, StaleAssumption DEF Initialized
  <2> DEFINE m == Initialized + 2
  <2>8. m \in 1..i /\ m > 1 /\ m - 2 = Initialized
    <3>1. handled[i][2] = i - 2
      BY <2>6
    <3> QED BY <2>4, <2>6, <2>7, <3>1
  <2>9. handled[m] = <<"FROM_SERVER", Initialized>>
    <3>1. CASE i = m
      BY <3>1, <2>6, <2>8
    <3>2. CASE i # m
      <4>1. m # Len(handled) /\ m \in 1..Len(handled) /\ m # 1
        BY <3>2, <2>4, <2>7, <2>8
      <4>2. handled[m] = <<"FROM_SERVER", m - 2>>
        BY <4>1, <2>3 DEF Ordered
      <4> QED BY <4>2, <2>8
    <3> QED BY <3>1, <3>2
  <2>10. m \in 1..Len(Told) /\ Told[m] = handled[m]
    <3>1. /\ handled \o packets \in Seq(Packets) /\ Len(packets) \in Nat /\ Len(Pushed) \in Nat
          /\ Len(handled \o packets) = Len(handled) + Len(packets)
          /\ \A j \in 1..Len(handled) + Len(packets) :
               (handled \o packets)[j] = IF j <= Len(handled) THEN handled[j] ELSE packets[j - Len(handled)]
      BY <2>1, ConcatProperties, LenProperties
    <3>2. /\ Len(Told) = Len(handled \o packets) + Len(Pushed)
          /\ \A j \in 1..Len(handled \o packets) + Len(Pushed) :
               Told[j] = IF j <= Len(handled \o packets) THEN (handled \o packets)[j]
                         ELSE Pushed[j - Len(handled \o packets)]
      BY <2>1, <3>1, ConcatProperties DEF Told
    <3>3. m \in 1..Len(handled)
      BY <2>4, <2>7, <2>8
    <3> HIDE DEF m
    <3>4. (handled \o packets)[m] = handled[m] /\ m <= Len(handled \o packets)
      BY <3>1, <3>3, <2>4
    <3> QED BY <3>1, <3>2, <3>3, <3>4
  <2> QED BY <2>9, <2>10 DEF IInv, Informed
<1> QED BY <1>1, Invariance, PTL

(* Sends go out in the order they were made; one that followed a check of  *)
(* isConnected is lost only with the connection, never one between others. *)
THEOREM SendsKeptTheorem ==
  ASSUME StopsFreely = FALSE
  PROVE  Spec => []SendsKept
<1>1. IInv => SendsKept
  <2> SUFFICES ASSUME IInv
               PROVE  SendsKept
    OBVIOUS
  <2>1. \A n : Accepted(n) <=> In(n, accepted)
    BY DEF Accepted, In
  <2>2. \A i, j \in 1..Len(accepted) : i < j => accepted[i] < accepted[j]
    <3>1. \A i \in 1..Len(accepted) : i \in 1..Len(Queue) /\ Queue[i] = accepted[i]
      BY QueueTyped DEF IInv, Types
    <3> QED BY <3>1 DEF IInv, Keeping, InOrder, Increasing
  <2>3. ASSUME enet = "connected", packet_queue = <<>>, call = "none", NEW n \in Sends, asked[n]
        PROVE  In(n, accepted)
    <3>1. accepted \o <<>> = accepted
      BY ConcatEmptySeq DEF IInv, Types, Sent
    <3>2. Queue = accepted
      BY <2>3, <3>1 DEF Queue
    <3> QED BY <2>3, <3>2 DEF IInv, Keeping, Checked
  <2>4. NoneSkipped
    BY DEF IInv, Keeping
  <2> QED BY <2>1, <2>2, <2>3, <2>4 DEF SendsKept, NoneSkipped
<1> QED BY <1>1, Invariance, PTL

(* The asserts of enetpp::client's destructor, whichever thread saw the end*)
(* of the session first, and nobody is inside the client that goes.        *)
THEOREM CleanDestructionTheorem ==
  ASSUME StopsFreely = FALSE
  PROVE  Spec => []CleanDestruction
<1>1. IInv => CleanDestruction
  BY DEF IInv, Control, DestructorAsserts, CleanDestruction
<1> QED BY <1>1, Invariance, PTL

=============================================================================
