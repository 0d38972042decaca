-------------------------- MODULE EnetServer_proof --------------------------
(***************************************************************************)
(* For any number of connections, events and packets: a client ID means    *)
(* one client, no ID is lost, and the server's threads pass the events of  *)
(* a connection on in order.                                               *)
(*                                                                         *)
(* The argument.  HandleConnect may give a free ID away only if nobody     *)
(* holds it, so IDs held and IDs free have to be disjoint; they stay so if *)
(* HandleDisconnected returns an ID once, and of a client that is gone.    *)
(* That is a fact about the events under way: the four queues between the  *)
(* enetpp thread and the main thread are one stream (Stream), to which the *)
(* first appends, from which the last takes, and which the network thread  *)
(* leaves as it is.  What a client is sent is a second stream (Way): its   *)
(* inbox and the packets queued for its ID, which SendQueued moves from    *)
(* the one to the other; in it CLIENT_INITIALIZED is the first packet for  *)
(* that client (Informed).                                                 *)
(***************************************************************************)
EXTENDS EnetServer, SequenceInduction, FiniteSetTheorems, TLAPS

LEMMA Associative ==
  \A s, t, u \in Seq(Events) : (s \o t) \o u = s \o (t \o u)
  BY ConcatAssociative

LEMMA WayAssociative ==
  \A s, t, u \in Seq(QueuedPackets) : (s \o t) \o u = s \o (t \o u)
  BY ConcatAssociative

(* What each step does to the stream.                                      *)
LEMMA StreamType == ASSUME ServerTypeOK PROVE Stream \in Seq(Events)
  BY ConcatProperties DEF ServerTypeOK, Stream

LEMMA StreamKept ==
  ASSUME ServerTypeOK, TakeBatch \/ ConsumeEvent \/ PushPacket
  PROVE  Stream' = Stream
<1>1. CASE TakeBatch
  <2>1. Stream = packets \o <<>> \o <<>> \o events /\ Stream' = packets \o <<>> \o events \o <<>>
    BY <1>1 DEF TakeBatch, netVars, Stream
  <2>2. packets \o <<>> = packets /\ packets \o events \in Seq(Events)
    BY ConcatEmptySeq, ConcatProperties DEF ServerTypeOK
  <2>3. (packets \o events) \o <<>> = packets \o events
    BY <2>2, ConcatEmptySeq
  <2> QED BY <2>1, <2>2, <2>3
<1>2. CASE ConsumeEvent
  <2>1. batch = <<Head(batch)>> \o Tail(batch) /\ Head(batch) \in Events /\ Tail(batch) \in Seq(Events)
    BY <1>2 DEF ConsumeEvent, ServerTypeOK
  <2>2. <<Head(batch)>> \in Seq(Events) /\ pushing = <<>> /\ pushing' = <<Head(batch)>> /\ batch' = Tail(batch)
        /\ packets' = packets /\ events' = events
    BY <1>2, <2>1 DEF ConsumeEvent
  <2>3. packets \o <<>> = packets
    BY ConcatEmptySeq DEF ServerTypeOK
  <2>4. packets \o batch = (packets \o <<Head(batch)>>) \o Tail(batch)
    <3> DEFINE h == <<Head(batch)>>
               t == Tail(batch)
    <3>1. packets \in Seq(Events) /\ h \in Seq(Events) /\ t \in Seq(Events) /\ batch = h \o t
      BY <2>1, <2>2 DEF ServerTypeOK
    <3> HIDE DEF h, t
    <3>2. (packets \o h) \o t = packets \o (h \o t)
      BY <3>1, Associative
    <3>3. packets \o batch = (packets \o h) \o t
      BY <3>1, <3>2, Zenon
    <3> QED BY <3>3 DEF h, t
  <2> QED BY <2>2, <2>3, <2>4 DEF Stream
<1>3. CASE PushPacket
  <2>1. packets \o pushing \in Seq(Events)
    BY ConcatProperties DEF ServerTypeOK
  <2>2. (packets \o pushing) \o <<>> = packets \o pushing
    BY <2>1, ConcatEmptySeq
  <2> QED BY <1>3, <2>2 DEF PushPacket, Stream
<1> QED BY <1>1, <1>2, <1>3

LEMMA StreamAppended ==
  ASSUME ServerTypeOK, NEW e \in Events, events' = Append(events, e),
         packets' = packets, pushing' = pushing, batch' = batch
  PROVE  Stream' = Append(Stream, e)
<1> DEFINE s == packets \o pushing \o batch
<1>1. s \in Seq(Events) /\ <<e>> \in Seq(Events) /\ events \in Seq(Events)
  BY ConcatProperties DEF ServerTypeOK
<1>2. Append(events, e) = events \o <<e>>
  BY <1>1, AppendIsConcat
<1>3. s \o (events \o <<e>>) = (s \o events) \o <<e>>
  BY <1>1, Associative
<1>4. Append(s \o events, e) = (s \o events) \o <<e>>
  BY <1>1, ConcatProperties, AppendIsConcat
<1> QED BY <1>2, <1>3, <1>4 DEF Stream

LEMMA StreamTaken ==
  ASSUME ServerTypeOK, packets # <<>>, packets' = Tail(packets),
         pushing' = pushing, batch' = batch, events' = events
  PROVE  Stream # <<>> /\ Head(Stream) = Head(packets) /\ Stream' = Tail(Stream)
<1> DEFINE rest == pushing \o batch \o events
<1>1. rest \in Seq(Events) /\ pushing \o batch \in Seq(Events)
  BY ConcatProperties DEF ServerTypeOK
<1>2. ASSUME NEW p \in Seq(Events) PROVE p \o pushing \o batch \o events = p \o rest
  <2>1. (p \o pushing) \o batch = p \o (pushing \o batch)
    BY Associative DEF ServerTypeOK
  <2>2. (p \o (pushing \o batch)) \o events = p \o ((pushing \o batch) \o events)
    <3> DEFINE w == pushing \o batch
    <3>1. w \in Seq(Events) /\ events \in Seq(Events)
      BY <1>1 DEF ServerTypeOK
    <3> HIDE DEF w
    <3>2. (p \o w) \o events = p \o (w \o events)
      BY <3>1, Associative
    <3> QED BY <3>2 DEF w
  <2> QED BY <2>1, <2>2
<1>3. packets \in Seq(Events) /\ Tail(packets) \in Seq(Events)
  BY DEF ServerTypeOK
<1>4. Stream = packets \o rest /\ Stream' = Tail(packets) \o rest
  BY <1>2, <1>3 DEF Stream
<1>5. packets = <<Head(packets)>> \o Tail(packets) /\ Head(packets) \in Events
  BY <1>3
<1>6. packets \o rest = <<Head(packets)>> \o (Tail(packets) \o rest)
  <2> DEFINE h == <<Head(packets)>>
             t == Tail(packets)
  <2>1. rest \in Seq(Events) /\ h \in Seq(Events) /\ t \in Seq(Events) /\ packets = h \o t
    BY <1>1, <1>3, <1>5
  <2> HIDE DEF h, t, rest
  <2>2. (h \o t) \o rest = h \o (t \o rest)
    BY <2>1, Associative
  <2>3. packets \o rest = h \o (t \o rest)
    BY <2>1, <2>2, Zenon
  <2> QED BY <2>3 DEF h, t
<1> DEFINE t == Tail(packets) \o rest
<1>7. t \in Seq(Events)
  BY <1>1, <1>3, ConcatProperties
<1>8. <<Head(packets)>> \o t # <<>> /\ Head(<<Head(packets)>> \o t) = Head(packets) /\ Tail(<<Head(packets)>> \o t) = t
  <2> DEFINE x == Head(packets)
  <2>1. x \in Events
    BY <1>5
  <2> HIDE DEF x, t
  <2>2. <<x>> \o t # <<>> /\ Head(<<x>> \o t) = x
    BY <2>1, <1>7
  <2>3. Tail(<<x>> \o t) = t
    BY <2>1, <1>7
  <2> QED BY <2>2, <2>3 DEF x
<1> QED BY <1>4, <1>6, <1>8
-----------------------------------------------------------------------------
(* The order of the events.                                                *)

LEMMA BracketedAppended ==
  ASSUME ServerTypeOK, WellBracketed, NEW c \in Conns, NEW kind \in Kinds,
         Stream' = Append(Stream, Event(kind, c)), seen' = seen,
         \/ kind = "CONNECTED" /\ conn[c] = "out" /\ conn' = [conn EXCEPT ![c] = "in"]
         \/ kind = "DATA" /\ conn[c] = "in" /\ conn' = conn
         \/ kind = "DISCONNECTED" /\ conn[c] = "in" /\ conn' = [conn EXCEPT ![c] = "gone"]
  PROVE  WellBracketed'
<1> DEFINE s == Stream
           e == Event(kind, c)
<1>1. s \in Seq(Events) /\ e \in Events /\ e.c = c /\ e.kind = kind
  BY StreamType DEF Events, Event
<1>2. /\ DOMAIN Stream' = 1..(Len(s) + 1)
      /\ DOMAIN s = 1..Len(s)
      /\ Len(s) \in Nat
      /\ \A i \in DOMAIN s : Stream'[i] = s[i] /\ s[i] \in Events
      /\ Stream'[Len(s) + 1] = e
  BY <1>1
<1>3. \A i \in DOMAIN s : s[i].c \in Conns
  BY <1>2 DEF Events
<1>4. conn \in [Conns -> {"out", "in", "gone"}]
  BY DEF ServerTypeOK
<1> HIDE DEF s, e
<1>5. ASSUME NEW i \in DOMAIN Stream'
      PROVE  /\ conn'[Stream'[i].c] # "out" /\ seen'[Stream'[i].c] # "freed"
             /\ Stream'[i].kind = "CONNECTED" => seen'[Stream'[i].c] = "new"
             /\ Stream'[i].kind = "DISCONNECTED" => conn'[Stream'[i].c] = "gone"
  <2>1. CASE i \in DOMAIN s
    BY <2>1, <1>2, <1>3, <1>4 DEF WellBracketed, s
  <2>2. CASE i = Len(s) + 1
    BY <2>2, <1>1, <1>2, <1>4 DEF WellBracketed
  <2> QED BY <2>1, <2>2, <1>2
<1>6. ASSUME NEW i \in DOMAIN Stream', NEW j \in DOMAIN Stream', i < j, Stream'[i].c = Stream'[j].c
      PROVE  Stream'[i].kind # "DISCONNECTED" /\ Stream'[j].kind # "CONNECTED"
  <2>1. i \in DOMAIN s
    BY <1>2, <1>6
  <2>2. CASE j \in DOMAIN s
    BY <2>1, <2>2, <1>2, <1>6 DEF WellBracketed, s
  <2>3. CASE j = Len(s) + 1
    BY <2>1, <2>3, <1>1, <1>2, <1>6 DEF WellBracketed, s
  <2> QED BY <2>2, <2>3, <1>2
<1>7. Range(Stream') = Range(s) \cup {e}
  BY <1>2 DEF Range
<1>8. ASSUME NEW d \in Conns
      PROVE  /\ seen'[d] = "new" /\ conn'[d] # "out" => Event("CONNECTED", d) \in Range(Stream')
             /\ seen'[d] # "freed" /\ conn'[d] = "gone" => Event("DISCONNECTED", d) \in Range(Stream')
             /\ conn'[d] = "out" => seen'[d] = "new"
             /\ seen'[d] = "freed" => conn'[d] = "gone"
  <2>1. CASE d = c
    BY <2>1, <1>4, <1>7 DEF WellBracketed, s, e
  <2>2. CASE d # c
    BY <2>2, <1>4, <1>7 DEF WellBracketed, s
  <2> QED BY <2>1, <2>2
<1> QED BY <1>5, <1>6, <1>8 DEF WellBracketed

LEMMA BracketedTaken ==
  ASSUME ServerTypeOK, WellBracketed, NEW c \in Conns, NEW kind \in Kinds,
         Stream # <<>>, Head(Stream) = Event(kind, c), Stream' = Tail(Stream), conn' = conn,
         \/ kind = "CONNECTED" /\ seen' = [seen EXCEPT ![c] = "connected"]
         \/ kind = "DATA" /\ seen' = seen
         \/ kind = "DISCONNECTED" /\ seen' = [seen EXCEPT ![c] = "freed"]
  PROVE  WellBracketed'
<1> DEFINE s == Stream
           e == Event(kind, c)
<1>1. s \in Seq(Events) /\ s # <<>> /\ e.c = c /\ e.kind = kind
  BY StreamType DEF Event
<1>2. /\ DOMAIN Stream' = 1..(Len(s) - 1)
      /\ DOMAIN s = 1..Len(s)
      /\ Len(s) \in Nat \ {0}
      /\ \A i \in DOMAIN Stream' : Stream'[i] = s[i + 1] /\ i + 1 \in DOMAIN s
      /\ \A i \in DOMAIN s : s[i] \in Events
      /\ 1 \in DOMAIN s /\ s[1] = e
  BY <1>1
<1>3. \A i \in DOMAIN s : s[i].c \in Conns
  BY <1>2 DEF Events
<1>4. seen \in [Conns -> {"new", "connected", "freed"}] /\ conn \in [Conns -> {"out", "in", "gone"}]
  BY DEF ServerTypeOK
<1> HIDE DEF s, e
<1>5. ASSUME NEW i \in DOMAIN Stream'
      PROVE  /\ conn'[Stream'[i].c] # "out" /\ seen'[Stream'[i].c] # "freed"
             /\ Stream'[i].kind = "CONNECTED" => seen'[Stream'[i].c] = "new"
             /\ Stream'[i].kind = "DISCONNECTED" => conn'[Stream'[i].c] = "gone"
  <2> DEFINE j == i + 1
  <2>1. j \in DOMAIN s /\ Stream'[i] = s[j] /\ 1 < j /\ s[j].c \in Conns
    BY <1>2, <1>3
  <2> HIDE DEF j
  <2>2. s[j].c = c => kind # "DISCONNECTED" /\ s[j].kind # "CONNECTED"
    BY <2>1, <1>1, <1>2 DEF WellBracketed, s
  <2>3. /\ conn[s[j].c] # "out" /\ seen[s[j].c] # "freed"
        /\ s[j].kind = "CONNECTED" => seen[s[j].c] = "new"
        /\ s[j].kind = "DISCONNECTED" => conn[s[j].c] = "gone"
    BY <2>1 DEF WellBracketed, s
  <2> QED BY <2>1, <2>2, <2>3, <1>4
<1>6. ASSUME NEW i \in DOMAIN Stream', NEW j \in DOMAIN Stream', i < j, Stream'[i].c = Stream'[j].c
      PROVE  Stream'[i].kind # "DISCONNECTED" /\ Stream'[j].kind # "CONNECTED"
  <2>1. i + 1 \in DOMAIN s /\ j + 1 \in DOMAIN s /\ i + 1 < j + 1 /\ s[i + 1].c = s[j + 1].c
    BY <1>2, <1>6
  <2> QED BY <2>1, <1>2 DEF WellBracketed, s
<1>7. \A x \in Range(s) : x # e => x \in Range(Stream')
  <2> SUFFICES ASSUME NEW i \in DOMAIN s, s[i] # e PROVE s[i] \in Range(Stream')
    BY DEF Range
  <2>1. i - 1 \in DOMAIN Stream' /\ Stream'[i - 1] = s[i]
    BY <1>2
  <2> QED BY <2>1 DEF Range
<1>8. ASSUME NEW d \in Conns
      PROVE  /\ seen'[d] = "new" /\ conn'[d] # "out" => Event("CONNECTED", d) \in Range(Stream')
             /\ seen'[d] # "freed" /\ conn'[d] = "gone" => Event("DISCONNECTED", d) \in Range(Stream')
             /\ conn'[d] = "out" => seen'[d] = "new"
             /\ seen'[d] = "freed" => conn'[d] = "gone"
  <2>1. \A k \in Kinds : Event(k, d) = e <=> k = kind /\ d = c
    BY DEF Event, e
  <2>2. e.kind = "DISCONNECTED" => conn[c] = "gone"
    BY <1>1, <1>2 DEF WellBracketed, s
  <2>3. e.kind = "CONNECTED" => seen[c] = "new"
    BY <1>1, <1>2 DEF WellBracketed, s
  <2>4. conn[c] # "out"
    BY <1>1, <1>2 DEF WellBracketed, s
  <2>5. e.kind = "DATA" => seen[c] # "new"
    \* c's CONNECTED would be under way, and ahead of this event
    <3> SUFFICES ASSUME e.kind = "DATA", seen[c] = "new" PROVE FALSE
      OBVIOUS
    <3>1. PICK i \in DOMAIN s : s[i] = Event("CONNECTED", c)
      BY <2>4 DEF WellBracketed, Range, s
    <3>2. s[i].kind = "CONNECTED" /\ s[i].c = c
      BY <3>1 DEF Event
    <3>3. i # 1 /\ 1 < i
      BY <3>2, <1>1, <1>2
    <3> QED BY <3>2, <3>3, <1>1, <1>2 DEF WellBracketed, s
  <2>6. CASE d = c
    BY <2>1, <2>2, <2>3, <2>4, <2>6, <1>1, <1>4, <1>7 DEF WellBracketed, s, Kinds
  <2>7. CASE d # c
    BY <2>1, <2>7, <1>4, <1>7 DEF WellBracketed, s, Kinds
  <2> QED BY <2>6, <2>7
<1> QED BY <1>5, <1>6, <1>8 DEF WellBracketed
-----------------------------------------------------------------------------
(* The IDs.                                                                *)

Distinct(s) == \A i, j \in DOMAIN s : i # j => s[i] # s[j]

LEMMA TailOfDistinct ==
  ASSUME NEW s \in Seq(Nat), s # <<>>, Distinct(s)
  PROVE  Range(Tail(s)) = Range(s) \ {Head(s)} /\ Distinct(Tail(s)) /\ Head(s) \in Range(s)
<1> DEFINE t == Tail(s)
<1>1. /\ DOMAIN s = 1..Len(s) /\ Len(s) \in Nat \ {0} /\ Head(s) = s[1]
      /\ DOMAIN t = 1..(Len(s) - 1)
      /\ \A i \in DOMAIN t : t[i] = s[i + 1] /\ i + 1 \in DOMAIN s /\ i + 1 # 1
  OBVIOUS
<1> HIDE DEF t
<1>2. Distinct(t)
  BY <1>1 DEF Distinct
<1>3. \A x \in Range(t) : x \in Range(s) /\ x # s[1]
  BY <1>1 DEF Range, Distinct
<1>4. ASSUME NEW x \in Range(s), x # s[1] PROVE x \in Range(t)
  <2>1. PICK i \in DOMAIN s : s[i] = x
    BY DEF Range
  <2>2. i - 1 \in DOMAIN t /\ t[i - 1] = s[i]
    BY <2>1, <1>1, <1>4
  <2> QED BY <2>1, <2>2 DEF Range
<1>5. s[1] \in Range(s)
  BY <1>1 DEF Range
<1>6. Range(t) = Range(s) \ {s[1]}
  BY <1>3, <1>4, <1>5
<1> QED BY <1>1, <1>2, <1>5, <1>6 DEF t

LEMMA AppendToDistinct ==
  ASSUME NEW s \in Seq(Nat), Distinct(s), NEW k \in Nat, k \notin Range(s)
  PROVE  Range(Append(s, k)) = Range(s) \cup {k} /\ Distinct(Append(s, k))
<1>1. /\ DOMAIN s = 1..Len(s) /\ Len(s) \in Nat
      /\ DOMAIN Append(s, k) = 1..(Len(s) + 1)
      /\ Append(s, k)[Len(s) + 1] = k
      /\ \A i \in DOMAIN s : Append(s, k)[i] = s[i]
  OBVIOUS
<1> QED BY <1>1 DEF Range, Distinct

IDsOK == UniqueIDs /\ IDsAccounted

(* Nothing to prove for a step that changes no holder and no ID.           *)
LEMMA IDsKept ==
  ASSUME IDsOK, Holders' = Holders, id' = id, next_uid' = next_uid, free_ids' = free_ids
  PROVE  IDsOK'
  BY DEF IDsOK, UniqueIDs, IDsAccounted, Range

LEMMA IDGiven ==
  ASSUME ServerTypeOK, WellBracketed, IDsOK, NEW c \in Conns, HandleConnect(c)
  PROVE  /\ IDsOK'
         /\ id'[c] \in Nat /\ \A d \in Holders : id[d] # id'[c] /\ id'[d] = id[d]
         /\ free_ids' \in Seq(Nat)
         /\ next_uid' \in Nat /\ next_uid' >= FirstID
<1>1. c \notin Holders /\ Holders' = Holders \cup {c}
  BY DEF ServerTypeOK, WellBracketed, Holders, HandleConnect, GetNextUID, mainVars
<1>2. id \in [Conns -> Nat] /\ Holders \subseteq Conns /\ free_ids \in Seq(Nat)
  BY DEF ServerTypeOK, Holders
<1>3. \A d \in Holders : id'[d] = id[d]
  BY <1>1, <1>2 DEF HandleConnect, GetNextUID
<1>4. Distinct(free_ids)
  BY DEF IDsOK, IDsAccounted, Distinct
<1>5. CASE free_ids = <<>> /\ id' = [id EXCEPT ![c] = next_uid] /\ next_uid' = next_uid + 1 /\ free_ids' = free_ids
  <2>1. id'[c] = next_uid /\ next_uid \in Nat /\ next_uid >= FirstID
    BY <1>2, <1>5 DEF ServerTypeOK
  <2>2. \A d \in Holders : id[d] \in FirstID..(next_uid - 1)
    BY DEF IDsOK, IDsAccounted
  <2>3. {id'[d] : d \in Holders'} = {id[d] : d \in Holders} \cup {next_uid}
    BY <2>1, <1>1, <1>3
  <2>4. Range(free_ids) = {}
    BY <1>5 DEF Range
  <2>5. FirstID..(next_uid' - 1) = FirstID..(next_uid - 1) \cup {next_uid}
    BY <2>1, <1>5 DEF FirstID
  <2>6. IDsAccounted'
    <3>1. Range(free_ids') = {} /\ DOMAIN free_ids' = {}
      BY <2>4, <1>5
    <3>2. {id[d] : d \in Holders} = FirstID..(next_uid - 1)
      BY <2>4 DEF IDsOK, IDsAccounted
    <3>3. {id'[d] : d \in Holders'} = FirstID..(next_uid' - 1)
      BY <2>3, <2>5, <3>2
    <3> QED BY <3>1, <3>3 DEF IDsAccounted
  <2>7. \A d \in Holders : id[d] # next_uid
    BY <2>1, <2>2 DEF FirstID
  <2>8. UniqueIDs'
    BY <2>1, <2>7, <1>1, <1>3 DEF IDsOK, UniqueIDs
  <2> QED BY <2>1, <2>6, <2>7, <2>8, <1>2, <1>3, <1>5 DEF IDsOK, FirstID
<1>6. CASE free_ids # <<>> /\ id' = [id EXCEPT ![c] = Head(free_ids)] /\ free_ids' = Tail(free_ids) /\ next_uid' = next_uid
  <2>1. /\ id'[c] = Head(free_ids) /\ Head(free_ids) \in Nat /\ free_ids' \in Seq(Nat)
        /\ next_uid \in Nat /\ next_uid >= FirstID
    BY <1>2, <1>6 DEF ServerTypeOK
  <2>2. Range(free_ids') = Range(free_ids) \ {Head(free_ids)} /\ Distinct(free_ids')
        /\ Head(free_ids) \in Range(free_ids)
    BY <1>2, <1>4, <1>6, TailOfDistinct
  <2>3. {id'[d] : d \in Holders'} = {id[d] : d \in Holders} \cup {Head(free_ids)}
    BY <2>1, <1>1, <1>3
  <2>4. \A d \in Holders : id[d] # Head(free_ids)
    BY <2>2 DEF IDsOK, IDsAccounted
  <2>5. \A i, j \in DOMAIN free_ids' : i # j => free_ids'[i] # free_ids'[j]
    BY <2>2 DEF Distinct
  <2>6. IDsAccounted'
    <3>1. Range(free_ids) \cup {id[d] : d \in Holders} = FirstID..(next_uid - 1)
          /\ Range(free_ids) \cap {id[d] : d \in Holders} = {}
      BY DEF IDsOK, IDsAccounted
    <3>2. Range(free_ids') \cup {id'[d] : d \in Holders'} = FirstID..(next_uid' - 1)
          /\ Range(free_ids') \cap {id'[d] : d \in Holders'} = {}
      BY <3>1, <2>2, <2>3, <1>6
    <3> QED BY <3>2, <2>5 DEF IDsAccounted
  <2>7. UniqueIDs'
    BY <2>1, <2>4, <1>1, <1>3 DEF IDsOK, UniqueIDs
  <2> QED BY <2>1, <2>4, <2>6, <2>7, <1>3, <1>6 DEF IDsOK
<1> QED BY <1>5, <1>6 DEF HandleConnect, GetNextUID

LEMMA IDReturned ==
  ASSUME ServerTypeOK, WellBracketed, IDsOK, NEW c \in Holders, HandleDisconnected(c)
  PROVE  IDsOK' /\ free_ids' \in Seq(Nat)
<1>1. Holders' = Holders \ {c} /\ id' = id /\ next_uid' = next_uid /\ free_ids' = Append(free_ids, id[c])
  BY DEF ServerTypeOK, Holders, HandleDisconnected, Handling, enetVars
<1>2. id[c] \in Nat /\ free_ids \in Seq(Nat) /\ Distinct(free_ids) /\ id[c] \notin Range(free_ids)
  BY DEF ServerTypeOK, IDsOK, IDsAccounted, Holders, Distinct
<1>3. Range(free_ids') = Range(free_ids) \cup {id[c]} /\ Distinct(Append(free_ids, id[c]))
  BY <1>1, <1>2, AppendToDistinct
<1>4. {id[d] : d \in Holders'} = {id[d] : d \in Holders} \ {id[c]}
  BY <1>1 DEF IDsOK, UniqueIDs
<1>5. IDsAccounted'
  <2>1. Range(free_ids) \cup {id[d] : d \in Holders} = FirstID..(next_uid - 1)
        /\ Range(free_ids) \cap {id[d] : d \in Holders} = {} /\ id[c] \in {id[d] : d \in Holders}
    BY DEF IDsOK, IDsAccounted
  <2>2. {id'[d] : d \in Holders'} = {id[d] : d \in Holders} \ {id[c]}
    BY <1>1, <1>4
  <2>3. Range(free_ids') \cup {id'[d] : d \in Holders'} = FirstID..(next_uid' - 1)
        /\ Range(free_ids') \cap {id'[d] : d \in Holders'} = {}
    BY <2>1, <2>2, <1>1, <1>3
  <2>4. \A i, j \in DOMAIN free_ids' : i # j => free_ids'[i] # free_ids'[j]
    BY <1>1, <1>3 DEF Distinct
  <2> QED BY <2>3, <2>4 DEF IDsAccounted
<1>6. UniqueIDs'
  BY <1>1 DEF IDsOK, UniqueIDs
<1> QED BY <1>1, <1>2, <1>5, <1>6 DEF IDsOK
-----------------------------------------------------------------------------
(* The invariant.                                                          *)

LEMMA InitInvariant == Init => IInv
<1> SUFFICES ASSUME Init PROVE IInv
  OBVIOUS
<1>1. ServerTypeOK
  BY DEF Init, ServerTypeOK, FirstID
<1>2. Stream = <<>> /\ DOMAIN Stream = {} /\ Holders = {} /\ Range(free_ids) = {}
  <2>1. <<>> \o <<>> = <<>>
    OBVIOUS
  <2>2. Stream = <<>>
    BY <2>1 DEF Init, Stream
  <2> QED BY <2>2 DEF Init, Holders, Range
<1>3. WellBracketed
  BY <1>2 DEF Init, WellBracketed
<1>4. UniqueIDs /\ IDsAccounted
  BY <1>2 DEF Init, UniqueIDs, IDsAccounted, FirstID
<1>5. PeerMapExact
  BY DEF Init, PeerMapExact
<1> QED BY <1>1, <1>3, <1>4, <1>5 DEF IInv

(* A step that leaves the connections, their IDs and the stream alone.     *)
LEMMA QuietStep ==
  ASSUME IInv, ServerTypeOK', Stream' = Stream,
         UNCHANGED <<conn, id, next_uid, free_ids, peer_map, seen>>
  PROVE  IInv'
<1>1. Holders' = Holders
  BY DEF Holders
<1>2. IDsOK'
  BY <1>1, IDsKept DEF IInv, IDsOK
<1>3. WellBracketed'
  BY DEF IInv, WellBracketed, Range
<1>4. PeerMapExact'
  BY DEF IInv, PeerMapExact
<1> QED BY <1>2, <1>3, <1>4 DEF IInv, IDsOK

LEMMA EventsTyped ==
  ASSUME NEW c \in Conns, NEW kind \in Kinds
  PROVE  Event(kind, c) \in Events
  BY DEF Event, Events

LEMMA ConnectStep ==
  ASSUME IInv, NEW c \in Conns, HandleConnect(c)
  PROVE  IInv'
<1>1. ServerTypeOK /\ WellBracketed /\ IDsOK /\ PeerMapExact
  BY DEF IInv, IDsOK
<1>2. /\ conn[c] = "out" /\ conn' = [conn EXCEPT ![c] = "in"]
      /\ events' = Append(events, Event("CONNECTED", c))
      /\ packets' = packets /\ pushing' = pushing /\ batch' = batch /\ connected' = connected /\ seen' = seen
      /\ peer_map' = [k \in DOMAIN peer_map \cup {id'[c]} |-> IF k = id'[c] THEN c ELSE peer_map[k]]
  BY DEF HandleConnect, netVars, mainVars
<1>3. /\ IDsOK' /\ id'[c] \in Nat /\ \A d \in Holders : id[d] # id'[c] /\ id'[d] = id[d]
      /\ free_ids' \in Seq(Nat) /\ next_uid' \in Nat /\ next_uid' >= FirstID
  BY <1>1, IDGiven
<1>4. Event("CONNECTED", c) \in Events
  BY EventsTyped DEF Kinds
<1>5. id' \in [Conns -> Nat]
  BY <1>1, <1>3 DEF ServerTypeOK, HandleConnect, GetNextUID
<1>6. ServerTypeOK'
  <2>1. peer_map' \in [DOMAIN peer_map' -> Conns] /\ conn' \in [Conns -> {"out", "in", "gone"}]
    BY <1>1, <1>2 DEF ServerTypeOK
  <2>2. events' \in Seq(Events)
    BY <1>1, <1>2, <1>4 DEF ServerTypeOK
  <2>3. /\ batch' \in Seq(Events) /\ pushing' \in Seq(Events) /\ packets' \in Seq(Events)
        /\ connected' \subseteq Conns /\ seen' \in [Conns -> {"new", "connected", "freed"}]
    BY <1>1, <1>2 DEF ServerTypeOK
  <2> QED BY <2>1, <2>2, <2>3, <1>3, <1>5 DEF ServerTypeOK
<1>7. WellBracketed'
  <2>1. Stream' = Append(Stream, Event("CONNECTED", c))
    BY <1>1, <1>2, <1>4, StreamAppended
  <2> QED BY <2>1, <1>1, <1>2, BracketedAppended DEF Kinds
<1>8. PeerMapExact'
  <2>1. \A d \in Conns : conn[d] = "in" => d \in Holders
    BY <1>1 DEF WellBracketed, Holders
  <2>2. \A d \in Conns : conn'[d] = "in" <=> conn[d] = "in" \/ d = c
    BY <1>1, <1>2 DEF ServerTypeOK
  <2>3. \A k \in DOMAIN peer_map : peer_map[k] \in Conns
    BY <1>1 DEF ServerTypeOK
  <2>4. /\ DOMAIN peer_map' = DOMAIN peer_map \cup {id'[c]} /\ peer_map'[id'[c]] = c
        /\ \A k \in DOMAIN peer_map : k # id'[c] => peer_map'[k] = peer_map[k]
    BY <1>2
  <2>5. /\ \A d \in Conns : conn[d] = "in" => id[d] \in DOMAIN peer_map /\ peer_map[id[d]] = d
        /\ \A k \in DOMAIN peer_map : conn[peer_map[k]] = "in" /\ id[peer_map[k]] = k
    BY <1>1 DEF PeerMapExact
  <2>6. ASSUME NEW d \in Conns, conn'[d] = "in"
        PROVE  id'[d] \in DOMAIN peer_map' /\ peer_map'[id'[d]] = d
    BY <2>1, <2>2, <2>4, <2>5, <2>6, <1>3
  <2>7. ASSUME NEW k \in DOMAIN peer_map'
        PROVE  conn'[peer_map'[k]] = "in" /\ id'[peer_map'[k]] = k
    <3>1. CASE k = id'[c]
      BY <3>1, <2>2, <2>4
    <3>2. CASE k # id'[c]
      <4>1. k \in DOMAIN peer_map /\ peer_map'[k] = peer_map[k] /\ peer_map[k] \in Conns
        BY <3>2, <2>3, <2>4
      <4>2. peer_map[k] \in Holders /\ id'[peer_map[k]] = k
        BY <4>1, <2>1, <2>5, <1>3
      <4> QED BY <4>1, <4>2, <2>2, <2>5
    <3> QED BY <3>1, <3>2
  <2> QED BY <2>6, <2>7 DEF PeerMapExact
<1> QED BY <1>3, <1>6, <1>7, <1>8 DEF IInv, IDsOK

LEMMA ReceiveStep ==
  ASSUME IInv, NEW c \in Conns, HandleReceive(c)
  PROVE  IInv'
<1>1. ServerTypeOK /\ WellBracketed /\ IDsOK /\ PeerMapExact
  BY DEF IInv, IDsOK
<1>2. /\ conn[c] = "in" /\ events' = Append(events, Event("DATA", c))
      /\ UNCHANGED <<packets, pushing, batch, connected, seen, conn, id, next_uid, free_ids, peer_map>>
  BY DEF HandleReceive, netVars, mainVars, enetVars
<1>3. Event("DATA", c) \in Events
  BY EventsTyped DEF Kinds
<1>4. ServerTypeOK'
  BY <1>1, <1>2, <1>3 DEF ServerTypeOK
<1>5. WellBracketed'
  <2>1. Stream' = Append(Stream, Event("DATA", c))
    BY <1>1, <1>2, <1>3, StreamAppended
  <2> QED BY <2>1, <1>1, <1>2, BracketedAppended DEF Kinds
<1>6. IDsOK'
  BY <1>1, <1>2, IDsKept DEF Holders
<1>7. PeerMapExact'
  BY <1>1, <1>2 DEF PeerMapExact
<1> QED BY <1>4, <1>5, <1>6, <1>7 DEF IInv, IDsOK

LEMMA DisconnectStep ==
  ASSUME IInv, NEW c \in Conns, HandleDisconnect(c)
  PROVE  IInv'
<1>1. ServerTypeOK /\ WellBracketed /\ IDsOK /\ PeerMapExact
  BY DEF IInv, IDsOK
<1>2. /\ conn[c] = "in" /\ conn' = [conn EXCEPT ![c] = "gone"]
      /\ events' = Append(events, Event("DISCONNECTED", c))
      /\ peer_map' = [k \in DOMAIN peer_map \ {id[c]} |-> peer_map[k]]
      /\ UNCHANGED <<packets, pushing, batch, connected, seen, id, next_uid, free_ids>>
  BY DEF HandleDisconnect, MapWithout, netVars, mainVars
<1>3. Event("DISCONNECTED", c) \in Events
  BY EventsTyped DEF Kinds
<1>4. ServerTypeOK'
  <2>1. peer_map' \in [DOMAIN peer_map' -> Conns] /\ conn' \in [Conns -> {"out", "in", "gone"}]
    BY <1>1, <1>2 DEF ServerTypeOK
  <2> QED BY <2>1, <1>1, <1>2, <1>3 DEF ServerTypeOK
<1>5. WellBracketed'
  <2>1. Stream' = Append(Stream, Event("DISCONNECTED", c))
    BY <1>1, <1>2, <1>3, StreamAppended
  <2> QED BY <2>1, <1>1, <1>2, BracketedAppended DEF Kinds
<1>6. Holders' = Holders
  BY <1>1, <1>2 DEF ServerTypeOK, Holders
<1>7. IDsOK'
  BY <1>1, <1>2, <1>6, IDsKept
<1>8. PeerMapExact'
  <2>1. \A d \in Conns : conn[d] = "in" => d \in Holders
    BY <1>1 DEF WellBracketed, Holders
  <2>2. \A d \in Conns : conn'[d] = "in" <=> conn[d] = "in" /\ d # c
    BY <1>1, <1>2 DEF ServerTypeOK
  <2>3. \A k \in DOMAIN peer_map : peer_map[k] \in Conns
    BY <1>1 DEF ServerTypeOK
  <2>4. \A d \in Conns : conn[d] = "in" /\ d # c => id[d] # id[c]
    BY <2>1, <1>1, <1>2 DEF IDsOK, UniqueIDs
  <2> QED BY <2>2, <2>3, <2>4, <1>1, <1>2 DEF PeerMapExact
<1> QED BY <1>4, <1>5, <1>7, <1>8 DEF IInv, IDsOK

(* The main thread takes a packet off the queue.                           *)
LEMMA HandlingStep ==
  ASSUME IInv, NEW c \in Conns, NEW kind \in Kinds, Handling(kind, c)
  PROVE  /\ Stream # <<>> /\ Head(Stream) = Event(kind, c) /\ Stream' = Tail(Stream)
         /\ conn[c] # "out" /\ seen[c] # "freed"
         /\ kind = "DISCONNECTED" => conn[c] = "gone"
         /\ packets' \in Seq(Events)
<1>1. /\ packets # <<>> /\ packets' = Tail(packets) /\ Head(packets) = Event(kind, c)
      /\ pushing' = pushing /\ batch' = batch /\ events' = events
  BY DEF Handling, netVars
<1>2. Stream # <<>> /\ Head(Stream) = Event(kind, c) /\ Stream' = Tail(Stream)
  BY <1>1, StreamTaken DEF IInv
<1>3. Stream \in Seq(Events)
  BY StreamType DEF IInv
<1>4. 1 \in DOMAIN Stream /\ Stream[1].c = c /\ Stream[1].kind = kind
  BY <1>2, <1>3 DEF Event
<1>5. packets' \in Seq(Events)
  BY <1>1 DEF IInv, ServerTypeOK
<1> QED BY <1>2, <1>4, <1>5 DEF IInv, WellBracketed

LEMMA HandleStep ==
  ASSUME IInv, NEW c \in Conns,
         HandleConnected(c) \/ HandleData(c) \/ HandleDisconnected(c)
  PROVE  IInv'
<1>1. ServerTypeOK /\ WellBracketed /\ IDsOK /\ PeerMapExact
  BY DEF IInv, IDsOK
<1>2. ASSUME NEW kind \in Kinds, Handling(kind, c), free_ids' \in Seq(Nat),
             seen' \in [Conns -> {"new", "connected", "freed"}]
      PROVE  ServerTypeOK' /\ PeerMapExact' /\ UNCHANGED <<conn, id, next_uid>>
  <2>1. /\ UNCHANGED <<conn, id, next_uid, peer_map, events, batch, pushing, connected>>
        /\ packets' \in Seq(Events)
    BY <1>2, HandlingStep DEF Handling, enetVars, netVars
  <2>2. ServerTypeOK'
    BY <2>1, <1>1, <1>2 DEF ServerTypeOK
  <2> QED BY <2>1, <2>2, <1>1 DEF PeerMapExact
<1>3. ServerTypeOK => seen \in [Conns -> {"new", "connected", "freed"}] /\ free_ids \in Seq(Nat)
  BY DEF ServerTypeOK
<1>4. CASE HandleConnected(c)
  <2>1. Handling("CONNECTED", c) /\ seen' = [seen EXCEPT ![c] = "connected"] /\ free_ids' = free_ids /\ "CONNECTED" \in Kinds
    BY <1>4 DEF HandleConnected, Kinds
  <2>2. ServerTypeOK' /\ PeerMapExact' /\ UNCHANGED <<conn, id, next_uid>>
    BY <2>1, <1>1, <1>2, <1>3
  <2>3. /\ Stream # <<>> /\ Head(Stream) = Event("CONNECTED", c) /\ Stream' = Tail(Stream)
        /\ seen[c] # "freed"
    BY <2>1, HandlingStep
  <2>4. WellBracketed'
    BY <2>1, <2>2, <2>3, <1>1, BracketedTaken
  <2>5. Holders' = Holders
    BY <2>1, <2>2, <2>3, <1>1, <1>3 DEF Holders
  <2>6. IDsOK'
    BY <2>1, <2>2, <2>5, <1>1, IDsKept
  <2> QED BY <2>2, <2>4, <2>6 DEF IInv, IDsOK
<1>5. CASE HandleData(c)
  <2>1. Handling("DATA", c) /\ seen' = seen /\ free_ids' = free_ids /\ "DATA" \in Kinds
    BY <1>5 DEF HandleData, Kinds
  <2>2. ServerTypeOK' /\ PeerMapExact' /\ UNCHANGED <<conn, id, next_uid>>
    BY <2>1, <1>1, <1>2, <1>3
  <2>3. Stream # <<>> /\ Head(Stream) = Event("DATA", c) /\ Stream' = Tail(Stream)
    BY <2>1, HandlingStep
  <2>4. WellBracketed'
    BY <2>1, <2>2, <2>3, <1>1, BracketedTaken
  <2>5. Holders' = Holders
    BY <2>1, <2>2 DEF Holders
  <2>6. IDsOK'
    BY <2>1, <2>2, <2>5, <1>1, IDsKept
  <2> QED BY <2>2, <2>4, <2>6 DEF IInv, IDsOK
<1>6. CASE HandleDisconnected(c)
  <2>1. Handling("DISCONNECTED", c) /\ seen' = [seen EXCEPT ![c] = "freed"] /\ "DISCONNECTED" \in Kinds
    BY <1>6 DEF HandleDisconnected, Kinds
  <2>2. /\ Stream # <<>> /\ Head(Stream) = Event("DISCONNECTED", c) /\ Stream' = Tail(Stream)
        /\ c \in Holders
    BY <2>1, HandlingStep DEF Holders
  <2>3. IDsOK' /\ free_ids' \in Seq(Nat)
    BY <2>2, <1>1, <1>6, IDReturned
  <2>4. ServerTypeOK' /\ PeerMapExact' /\ UNCHANGED <<conn, id, next_uid>>
    BY <2>1, <2>3, <1>1, <1>2, <1>3
  <2>5. WellBracketed'
    BY <2>1, <2>2, <2>4, <1>1, BracketedTaken
  <2> QED BY <2>3, <2>4, <2>5 DEF IInv, IDsOK
<1> QED BY <1>4, <1>5, <1>6

LEMMA NextInvariant == IInv /\ [Next]_vars => IInv'
<1> SUFFICES ASSUME IInv, [Next]_vars PROVE IInv'
  OBVIOUS
<1>1. ServerTypeOK
  BY DEF IInv
<1>2. ASSUME UNCHANGED <<conn, id, next_uid, free_ids, peer_map, seen, events, batch, pushing, packets, connected>>
      PROVE  IInv'
  BY <1>1, <1>2, QuietStep DEF ServerTypeOK, Stream
<1>3. CASE SendQueued \/ EndCapture
  BY <1>2, <1>3 DEF SendQueued, EndCapture, enetVars, netVars, mainVars
<1>4. ASSUME NEW c \in Conns, HandleConnect(c) \/ HandleReceive(c) \/ HandleDisconnect(c) PROVE IInv'
  BY <1>4, ConnectStep, ReceiveStep, DisconnectStep
<1>5. CASE TakeBatch \/ ConsumeEvent \/ PushPacket
  <2>1. Stream' = Stream
    BY <1>1, <1>5, StreamKept
  <2>2. ServerTypeOK'
    <3>1. CASE TakeBatch
      BY <3>1, <1>1 DEF TakeBatch, ServerTypeOK, enetVars, mainVars
    <3>2. CASE ConsumeEvent
      <4>1. /\ Head(batch) \in Events /\ Tail(batch) \in Seq(Events)
            /\ batch' = Tail(batch) /\ pushing' = <<Head(batch)>>
        BY <3>2, <1>1 DEF ConsumeEvent, ServerTypeOK
      <4>2. Head(batch).c \in Conns
        BY <4>1 DEF Events
      <4>3. connected' \subseteq Conns
        BY <4>2, <3>2, <1>1 DEF ConsumeEvent, ServerTypeOK
      <4>4. <<Head(batch)>> \in Seq(Events)
        BY <4>1
      <4> QED BY <4>1, <4>3, <4>4, <3>2, <1>1 DEF ConsumeEvent, ServerTypeOK, enetVars, mainVars
    <3>3. CASE PushPacket
      BY <3>3, <1>1, ConcatProperties DEF PushPacket, ServerTypeOK, enetVars, mainVars
    <3> QED BY <1>5, <3>1, <3>2, <3>3
  <2> QED BY <2>1, <2>2, <1>5, QuietStep DEF TakeBatch, ConsumeEvent, PushPacket, enetVars, mainVars
<1>6. CASE StartDrain \/ EndDrain \/ Broadcast
  BY <1>2, <1>6 DEF StartDrain, EndDrain, Broadcast, enetVars, netVars
<1>7. CASE MainHandle
  BY <1>7, HandleStep DEF MainHandle
<1>8. CASE UNCHANGED vars
  BY <1>2, <1>8 DEF vars
<1> QED BY <1>3, <1>4, <1>5, <1>6, <1>7, <1>8 DEF Next, EnetThread, NetworkThread, MainThread

(* The invariant holds in every state of every instance.                   *)
THEOREM Invariant == Spec => []IInv
  BY InitInvariant, NextInvariant, PTL DEF Spec

(* No two clients that the server still has to do with share an ID         *)
(* (getNextUID, ServerHost.cpp 26-34, 182-197).                            *)
THEOREM UniqueIDsTheorem == Spec => []UniqueIDs
<1>1. IInv => UniqueIDs
  BY DEF IInv
<1> QED BY <1>1, Invariant, PTL

(* Every ID ever given is held by one client or free once.                 *)
THEOREM IDsAccountedTheorem == Spec => []IDsAccounted
<1>1. IInv => IDsAccounted
  BY DEF IInv
<1> QED BY <1>1, Invariant, PTL

(* _thread_peer_map holds the connected peers under their own IDs: the     *)
(* assertions of server.h 312-313 never fail.                              *)
THEOREM PeerMapExactTheorem == Spec => []PeerMapExact
<1>1. IInv => PeerMapExact
  BY DEF IInv
<1> QED BY <1>1, Invariant, PTL

(* The three threads pass the events of a connection on in order, each     *)
(* once, and none after its ID has been returned.                          *)
THEOREM WellBracketedTheorem == Spec => []WellBracketed
<1>1. IInv => WellBracketed
  BY DEF IInv
<1> QED BY <1>1, Invariant, PTL
-----------------------------------------------------------------------------
(* The network thread's vector of clients.  What consume_events finds in   *)
(* _connected_clients depends on what it has still to consume, Unconsumed. *)

Unconsumed == batch \o events

InOrder(s) ==
  \A i, j \in DOMAIN s :
    i < j /\ s[i].c = s[j].c => s[i].kind # "DISCONNECTED" /\ s[j].kind # "CONNECTED"

Registered ==
  /\ InOrder(Unconsumed)
  /\ \A i \in DOMAIN Unconsumed :
       /\ conn[Unconsumed[i].c] # "out"
       /\ Unconsumed[i].kind = "DISCONNECTED" => conn[Unconsumed[i].c] = "gone"
       /\ Unconsumed[i].kind = "CONNECTED" => Unconsumed[i].c \notin connected
  /\ \A c \in Conns :
       /\ conn[c] = "out" => c \notin connected
       /\ conn[c] = "in" \/ Event("DISCONNECTED", c) \in Range(Unconsumed) =>
            c \in connected \/ Event("CONNECTED", c) \in Range(Unconsumed)

LEMMA UnconsumedType == ASSUME ServerTypeOK PROVE Unconsumed \in Seq(Events)
  BY ConcatProperties DEF ServerTypeOK, Unconsumed

LEMMA RegisteredKept ==
  ASSUME Registered, Unconsumed' = Unconsumed, conn' = conn, connected' = connected
  PROVE  Registered'
  BY DEF Registered, InOrder, Range

(* The enetpp thread queues an event.                                      *)
LEMMA RegisteredQueued ==
  ASSUME ServerTypeOK, Registered, NEW c \in Conns, NEW kind \in Kinds,
         events' = Append(events, Event(kind, c)), batch' = batch, connected' = connected,
         \/ kind = "CONNECTED" /\ conn[c] = "out" /\ conn' = [conn EXCEPT ![c] = "in"]
         \/ kind = "DATA" /\ conn[c] = "in" /\ conn' = conn
         \/ kind = "DISCONNECTED" /\ conn[c] = "in" /\ conn' = [conn EXCEPT ![c] = "gone"]
  PROVE  Registered'
<1> DEFINE s == Unconsumed
           t == Unconsumed'
           e == Event(kind, c)
<1>1. s \in Seq(Events) /\ e \in Events /\ e.c = c /\ e.kind = kind
  BY UnconsumedType, EventsTyped DEF Event
<1>2. t = Append(s, e)
  <2>1. batch \in Seq(Events) /\ events \in Seq(Events) /\ <<e>> \in Seq(Events)
    BY <1>1 DEF ServerTypeOK
  <2>2. Append(events, e) = events \o <<e>> /\ Append(s, e) = s \o <<e>>
    BY <1>1, <2>1, AppendIsConcat
  <2>3. batch \o (events \o <<e>>) = (batch \o events) \o <<e>>
    BY <2>1, Associative
  <2> QED BY <2>2, <2>3 DEF Unconsumed
<1>3. /\ DOMAIN s = 1..Len(s) /\ Len(s) \in Nat /\ DOMAIN t = 1..(Len(s) + 1)
      /\ \A i \in DOMAIN s : t[i] = s[i] /\ s[i] \in Events
      /\ t[Len(s) + 1] = e
  BY <1>1, <1>2
<1>4. \A i \in DOMAIN s : s[i].c \in Conns
  BY <1>3 DEF Events
<1>5. conn \in [Conns -> {"out", "in", "gone"}]
  BY DEF ServerTypeOK
<1>6. /\ InOrder(s)
      /\ \A i \in DOMAIN s :
           /\ conn[s[i].c] # "out"
           /\ s[i].kind = "DISCONNECTED" => conn[s[i].c] = "gone"
           /\ s[i].kind = "CONNECTED" => s[i].c \notin connected
      /\ \A d \in Conns :
           /\ conn[d] = "out" => d \notin connected
           /\ conn[d] = "in" \/ Event("DISCONNECTED", d) \in Range(s) =>
                d \in connected \/ Event("CONNECTED", d) \in Range(s)
  BY DEF Registered
<1>7. Range(t) = Range(s) \cup {e}
  BY <1>3 DEF Range
<1>8. \A k \in Kinds, d \in Conns : Event(k, d) = e <=> k = kind /\ d = c
  BY DEF Event
<1> HIDE DEF s, t, e
<1>9. InOrder(t)
  <2> SUFFICES ASSUME NEW i \in DOMAIN t, NEW j \in DOMAIN t, i < j, t[i].c = t[j].c
               PROVE  t[i].kind # "DISCONNECTED" /\ t[j].kind # "CONNECTED"
    BY DEF InOrder
  <2>1. i \in DOMAIN s
    BY <1>3
  <2>2. CASE j \in DOMAIN s
    BY <2>1, <2>2, <1>3, <1>6 DEF InOrder
  <2>3. CASE j = Len(s) + 1
    BY <2>1, <2>3, <1>1, <1>3, <1>6
  <2> QED BY <2>2, <2>3, <1>3
<1>10. ASSUME NEW i \in DOMAIN t
       PROVE  /\ conn'[t[i].c] # "out"
              /\ t[i].kind = "DISCONNECTED" => conn'[t[i].c] = "gone"
              /\ t[i].kind = "CONNECTED" => t[i].c \notin connected'
  <2>1. CASE i \in DOMAIN s
    BY <2>1, <1>3, <1>4, <1>5, <1>6
  <2>2. CASE i = Len(s) + 1
    BY <2>2, <1>1, <1>3, <1>5, <1>6
  <2> QED BY <2>1, <2>2, <1>3
<1>11. ASSUME NEW d \in Conns
       PROVE  /\ conn'[d] = "out" => d \notin connected'
              /\ conn'[d] = "in" \/ Event("DISCONNECTED", d) \in Range(t) =>
                   d \in connected' \/ Event("CONNECTED", d) \in Range(t)
  <2>1. CASE d = c
    BY <2>1, <1>5, <1>6, <1>7, <1>8 DEF Kinds
  <2>2. CASE d # c
    BY <2>2, <1>5, <1>6, <1>7, <1>8 DEF Kinds
  <2> QED BY <2>1, <2>2
<1> QED BY <1>9, <1>10, <1>11 DEF Registered, t

(* The network thread takes one and updates the vector.                    *)
LEMMA RegisteredConsumed ==
  ASSUME ServerTypeOK, Registered, ConsumeEvent
  PROVE  Registered'
<1> DEFINE s == Unconsumed
           t == Unconsumed'
           e == Head(batch)
<1>1. batch # <<>> /\ batch' = Tail(batch) /\ events' = events /\ conn' = conn
      /\ connected' = CASE e.kind = "CONNECTED" -> connected \cup {e.c}
                        [] e.kind = "DISCONNECTED" -> connected \ {e.c}
                        [] OTHER -> connected
  BY DEF ConsumeEvent, enetVars
<1>2. s \in Seq(Events) /\ batch \in Seq(Events) /\ events \in Seq(Events) /\ e \in Events
  BY <1>1, UnconsumedType DEF ServerTypeOK
<1>3. /\ DOMAIN s = 1..Len(s) /\ Len(s) \in Nat \ {0} /\ DOMAIN t = 1..(Len(s) - 1)
      /\ \A i \in DOMAIN t : t[i] = s[i + 1] /\ i + 1 \in DOMAIN s
      /\ \A i \in DOMAIN s : s[i] \in Events
      /\ 1 \in DOMAIN s /\ s[1] = e
  BY <1>1, <1>2 DEF Unconsumed
<1>4. \A i \in DOMAIN s : s[i].c \in Conns /\ s[i].kind \in Kinds
  BY <1>3 DEF Events
<1>5. /\ InOrder(s)
      /\ \A i \in DOMAIN s :
           /\ conn[s[i].c] # "out"
           /\ s[i].kind = "DISCONNECTED" => conn[s[i].c] = "gone"
           /\ s[i].kind = "CONNECTED" => s[i].c \notin connected
      /\ \A d \in Conns :
           /\ conn[d] = "out" => d \notin connected
           /\ conn[d] = "in" \/ Event("DISCONNECTED", d) \in Range(s) =>
                d \in connected \/ Event("CONNECTED", d) \in Range(s)
  BY DEF Registered
<1>6. \A k \in Kinds, d \in Conns : Event(k, d) \in Events /\ Event(k, d).kind = k /\ Event(k, d).c = d
  BY DEF Event, Events
<1> HIDE DEF s, t, e
\* nothing of e's connection precedes its CONNECTED or follows its DISCONNECTED
<1>7. \A i \in DOMAIN t :
        t[i].c = e.c => e.kind # "DISCONNECTED" /\ t[i].kind # "CONNECTED"
  <2> SUFFICES ASSUME NEW i \in DOMAIN t, t[i].c = e.c
               PROVE  e.kind # "DISCONNECTED" /\ t[i].kind # "CONNECTED"
    OBVIOUS
  <2>1. t[i] = s[i + 1] /\ i + 1 \in DOMAIN s /\ 1 < i + 1
    BY <1>3
  <2> QED BY <2>1, <1>3, <1>5 DEF InOrder
<1>8. InOrder(t)
  <2> SUFFICES ASSUME NEW i \in DOMAIN t, NEW j \in DOMAIN t, i < j, t[i].c = t[j].c
               PROVE  t[i].kind # "DISCONNECTED" /\ t[j].kind # "CONNECTED"
    BY DEF InOrder
  <2>1. i + 1 \in DOMAIN s /\ j + 1 \in DOMAIN s /\ i + 1 < j + 1 /\ t[i] = s[i + 1] /\ t[j] = s[j + 1]
    BY <1>3
  <2> QED BY <2>1, <1>5 DEF InOrder
<1>9. ASSUME NEW i \in DOMAIN t
      PROVE  /\ conn'[t[i].c] # "out"
             /\ t[i].kind = "DISCONNECTED" => conn'[t[i].c] = "gone"
             /\ t[i].kind = "CONNECTED" => t[i].c \notin connected'
  <2>1. /\ conn[t[i].c] # "out"
        /\ t[i].kind = "DISCONNECTED" => conn[t[i].c] = "gone"
        /\ t[i].kind = "CONNECTED" => t[i].c \notin connected
    BY <1>3, <1>5
  <2>2. connected' \subseteq connected \cup {e.c}
    BY <1>1
  <2> QED BY <2>1, <2>2, <1>1, <1>7
<1>10. \A x \in Range(s) : x # e => x \in Range(t)
  <2> SUFFICES ASSUME NEW i \in DOMAIN s, s[i] # e PROVE s[i] \in Range(t)
    BY DEF Range
  <2>1. i - 1 \in DOMAIN t /\ t[i - 1] = s[i]
    BY <1>3
  <2> QED BY <2>1 DEF Range
<1>11. \A x \in Range(t) : x \in Range(s) /\ (x.c = e.c => e.kind # "DISCONNECTED")
  BY <1>3, <1>7 DEF Range
<1>12. ASSUME NEW d \in Conns
       PROVE  /\ conn'[d] = "out" => d \notin connected'
              /\ conn'[d] = "in" \/ Event("DISCONNECTED", d) \in Range(t) =>
                   d \in connected' \/ Event("CONNECTED", d) \in Range(t)
  <2>1. conn[e.c] # "out" /\ (e.kind = "DISCONNECTED" => conn[e.c] = "gone")
    BY <1>3, <1>5
  <2>2. conn'[d] = "out" => d \notin connected'
    BY <2>1, <1>1, <1>5
  <2>3. ASSUME conn'[d] = "in" \/ Event("DISCONNECTED", d) \in Range(t)
        PROVE  d \in connected' \/ Event("CONNECTED", d) \in Range(t)
    <3>1. d \in connected \/ Event("CONNECTED", d) \in Range(s)
      BY <2>3, <1>1, <1>5, <1>11
    <3>2. d = e.c => e.kind # "DISCONNECTED"
      BY <2>1, <2>3, <1>1, <1>6, <1>11 DEF Kinds
    <3>3. Event("CONNECTED", d) = e => d \in connected'
      BY <1>1, <1>6 DEF Kinds
    <3>4. d \in connected => d \in connected'
      BY <3>2, <1>1
    <3> QED BY <3>1, <3>3, <3>4, <1>10
  <2> QED BY <2>2, <2>3
<1> QED BY <1>8, <1>9, <1>12 DEF Registered, t

LEMMA RegisteredNext == IInv /\ Registered /\ [Next]_vars => Registered'
<1> SUFFICES ASSUME IInv, Registered, [Next]_vars PROVE Registered'
  OBVIOUS
<1>1. ServerTypeOK
  BY DEF IInv
<1>2. ASSUME UNCHANGED <<conn, events, batch, connected>> PROVE Registered'
  BY <1>2, RegisteredKept DEF Unconsumed
<1>3. ASSUME NEW c \in Conns, HandleConnect(c) PROVE Registered'
  BY <1>1, <1>3, RegisteredQueued DEF HandleConnect, netVars, Kinds
<1>4. ASSUME NEW c \in Conns, HandleReceive(c) PROVE Registered'
  BY <1>1, <1>4, RegisteredQueued DEF HandleReceive, enetVars, netVars, Kinds
<1>5. ASSUME NEW c \in Conns, HandleDisconnect(c) PROVE Registered'
  BY <1>1, <1>5, RegisteredQueued DEF HandleDisconnect, netVars, Kinds
<1>6. CASE TakeBatch
  <2>1. Unconsumed = <<>> \o events /\ Unconsumed' = events \o <<>>
    BY <1>6 DEF TakeBatch, Unconsumed
  <2>2. <<>> \o events = events /\ events \o <<>> = events
    BY <1>1, ConcatEmptySeq DEF ServerTypeOK
  <2> QED BY <2>1, <2>2, <1>6, RegisteredKept DEF TakeBatch, enetVars
<1>7. CASE ConsumeEvent
  BY <1>1, <1>7, RegisteredConsumed
<1>8. CASE SendQueued \/ EndCapture \/ PushPacket \/ StartDrain \/ EndDrain \/ Broadcast
  BY <1>2, <1>8 DEF SendQueued, EndCapture, PushPacket, StartDrain, EndDrain, Broadcast, enetVars, netVars
<1>9. CASE MainHandle
  BY <1>2, <1>9 DEF MainHandle, HandleConnected, HandleData, HandleDisconnected, Handling, enetVars, netVars
<1>10. CASE UNCHANGED vars
  BY <1>2, <1>10 DEF vars
<1> QED BY <1>3, <1>4, <1>5, <1>6, <1>7, <1>8, <1>9, <1>10 DEF Next, EnetThread, NetworkThread, MainThread

LEMMA RegisteredInit == Init => Registered
<1> SUFFICES ASSUME Init PROVE Registered
  OBVIOUS
<1>1. <<>> \o <<>> = <<>>
  OBVIOUS
<1>2. Unconsumed = <<>> /\ DOMAIN Unconsumed = {} /\ Range(Unconsumed) = {}
  BY <1>1 DEF Init, Unconsumed, Range
<1> QED BY <1>2 DEF Init, Registered, InOrder

(* The DISCONNECT that consume_events takes finds its client in            *)
(* _connected_clients, and a CONNECT does not: the assertion of server.h   *)
(* 155 never fails.                                                        *)
THEOREM DisconnectFindsClientTheorem == Spec => []DisconnectFindsClient
<1>1. Init => Registered
  BY RegisteredInit
<1>2. ServerTypeOK /\ Registered => DisconnectFindsClient
  <2> SUFFICES ASSUME ServerTypeOK, Registered, batch # <<>>
               PROVE  /\ Head(batch).kind = "DISCONNECTED" => Head(batch).c \in connected
                      /\ Head(batch).kind = "CONNECTED" => Head(batch).c \notin connected
    BY DEF DisconnectFindsClient
  <2> DEFINE s == Unconsumed
             e == Head(batch)
  <2>1. batch \in Seq(Events) /\ events \in Seq(Events) /\ s \in Seq(Events)
    BY UnconsumedType DEF ServerTypeOK
  <2>2. DOMAIN s = 1..Len(s) /\ 1 \in DOMAIN s /\ s[1] = e /\ e \in Events
    BY <2>1 DEF Unconsumed
  <2>3. e.c \in Conns /\ e = Event(e.kind, e.c)
    BY <2>2 DEF Events, Event
  <2>4. ASSUME e.kind = "DISCONNECTED" PROVE e.c \in connected
    <3>1. Event("DISCONNECTED", e.c) \in Range(s)
      BY <2>2, <2>3, <2>4 DEF Range
    <3>2. SUFFICES ASSUME Event("CONNECTED", e.c) \in Range(s) PROVE FALSE
      BY <3>1, <2>3 DEF Registered
    <3>3. PICK i \in DOMAIN s : s[i] = Event("CONNECTED", e.c)
      BY <3>2 DEF Range
    <3>4. s[i].c = e.c /\ s[i].kind = "CONNECTED"
      BY <3>3 DEF Event
    <3>5. 1 < i
      BY <3>4, <2>2, <2>4
    <3> QED BY <3>4, <3>5, <2>2 DEF Registered, InOrder
  <2>5. e.kind = "CONNECTED" => e.c \notin connected
    BY <2>2 DEF Registered
  <2> QED BY <2>4, <2>5
<1>3. IInv => ServerTypeOK
  BY DEF IInv
<1> QED BY <1>1, <1>2, <1>3, RegisteredNext, Invariant, PTL DEF Spec
-----------------------------------------------------------------------------
(* The shape of the whole state.                                           *)

Typed == TypeOK /\ IsFiniteSet(connected)

(* What a broadcast queues: for each client in the vector, its ID.         *)
LEMMA BroadcastQueued ==
  ASSUME Typed, Broadcast
  PROVE  \E q \in Seq(QueuedPackets) :
           /\ queue' = queue \o q
           /\ \A i \in DOMAIN q : q[i].for \in connected /\ q[i].to = id[q[i].for]
<1>1. PICK order \in [1..Cardinality(connected) -> connected] :
        queue' = queue \o [i \in DOMAIN order |-> Queued(id[order[i]], "BROADCAST", order[i])]
  BY DEF Broadcast
<1> DEFINE n == Cardinality(connected)
           q == [i \in DOMAIN order |-> Queued(id[order[i]], "BROADCAST", order[i])]
<1>2. n \in Nat
  BY FS_CardinalityType DEF Typed
<1> HIDE DEF n
<1>3. DOMAIN order = 1..n /\ \A i \in 1..n : order[i] \in connected
  BY <1>1 DEF n
<1>4. \A d \in connected : d \in Conns /\ id[d] \in Nat
  BY DEF Typed, TypeOK, ServerTypeOK
<1>5. \A i \in 1..n : q[i] \in QueuedPackets /\ q[i].for = order[i] /\ q[i].to = id[order[i]]
  BY <1>3, <1>4 DEF Queued, QueuedPackets
<1>6. q \in Seq(QueuedPackets)
  BY <1>2, <1>3, <1>5
<1>7. DOMAIN q = 1..n
  BY <1>3
<1>8. queue' = queue \o q
  BY <1>1
<1>9. \A i \in DOMAIN q : q[i].for \in connected /\ q[i].to = id[q[i].for]
  BY <1>3, <1>5, <1>7
<1> HIDE DEF q
<1> QED BY <1>6, <1>8, <1>9

LEMMA InitTyped == Init => Typed
<1> SUFFICES ASSUME Init PROVE Typed
  OBVIOUS
<1>1. ServerTypeOK
  BY InitInvariant DEF IInv
<1>2. IsFiniteSet(connected)
  BY FS_EmptySet DEF Init
<1>3. queue \in Seq(QueuedPackets) /\ inbox \in [Conns -> Seq(QueuedPackets)]
  BY DEF Init
<1>4. sending \in BOOLEAN /\ draining \in BOOLEAN
  BY DEF Init
<1>5. data \in 0..MaxData /\ sends \in 0..MaxSends
  BY BoundsAssumption DEF Init
<1> QED BY <1>1, <1>2, <1>3, <1>4, <1>5 DEF Typed, TypeOK

LEMMA NextTyped == Typed /\ ServerTypeOK' /\ [Next]_vars => Typed'
<1> SUFFICES ASSUME Typed, ServerTypeOK', [Next]_vars PROVE Typed'
  OBVIOUS
<1>1. /\ queue \in Seq(QueuedPackets) /\ inbox \in [Conns -> Seq(QueuedPackets)]
      /\ sending \in BOOLEAN /\ draining \in BOOLEAN
      /\ data \in 0..MaxData /\ sends \in 0..MaxSends
      /\ IsFiniteSet(connected) /\ id \in [Conns -> Nat] /\ id' \in [Conns -> Nat]
  BY DEF Typed, TypeOK, ServerTypeOK
<1>2. SUFFICES /\ queue' \in Seq(QueuedPackets) /\ inbox' \in [Conns -> Seq(QueuedPackets)]
               /\ sending' \in BOOLEAN /\ draining' \in BOOLEAN
               /\ data' \in 0..MaxData /\ sends' \in 0..MaxSends
               /\ IsFiniteSet(connected')
  BY DEF Typed, TypeOK
<1>3. CASE SendQueued
  <2>1. \A c \in Conns : Filter(queue, Addressed(c)) \in Seq(QueuedPackets)
    BY <1>1, FilterType
  <2>2. \A c \in Conns : inbox[c] \o Filter(queue, Addressed(c)) \in Seq(QueuedPackets)
    BY <1>1, <2>1, ConcatProperties
  <2>3. inbox' \in [Conns -> Seq(QueuedPackets)]
    BY <1>3, <2>2 DEF SendQueued
  <2>4. queue' = <<>> /\ sending' = FALSE
    BY <1>3 DEF SendQueued
  <2>5. queue' \in Seq(QueuedPackets)
    BY <2>4
  <2>6. sending' \in BOOLEAN
    BY <2>4
  <2> QED BY <1>1, <1>3, <2>3, <2>5, <2>6 DEF SendQueued, netVars, mainVars
<1>4. CASE EndCapture
  BY <1>1, <1>4 DEF EndCapture, enetVars, netVars, mainVars
<1>5. ASSUME NEW c \in Conns, HandleConnect(c) \/ HandleReceive(c) \/ HandleDisconnect(c)
      PROVE  /\ queue' \in Seq(QueuedPackets) /\ inbox' \in [Conns -> Seq(QueuedPackets)]
             /\ sending' \in BOOLEAN /\ draining' \in BOOLEAN
             /\ data' \in 0..MaxData /\ sends' \in 0..MaxSends
             /\ IsFiniteSet(connected')
  <2>1. CASE HandleConnect(c)
    <3>1. Queued(id'[c], "CLIENT_INITIALIZED", c) \in QueuedPackets
      BY <1>1 DEF Queued, QueuedPackets
    <3>2. queue' \in Seq(QueuedPackets)
      BY <3>1, <2>1, <1>1 DEF HandleConnect
    <3> QED BY <3>2, <2>1, <1>1 DEF HandleConnect, netVars, mainVars
  <2>2. CASE HandleReceive(c)
    <3>1. data' \in 0..MaxData
      BY <2>2, <1>1, BoundsAssumption DEF HandleReceive
    <3> QED BY <3>1, <2>2, <1>1 DEF HandleReceive, enetVars, netVars, mainVars
  <2>3. CASE HandleDisconnect(c)
    BY <2>3, <1>1 DEF HandleDisconnect, netVars, mainVars
  <2> QED BY <1>5, <2>1, <2>2, <2>3
<1>6. CASE TakeBatch \/ PushPacket
  BY <1>1, <1>6 DEF TakeBatch, PushPacket, enetVars, mainVars
<1>7. CASE ConsumeEvent
  <2> DEFINE e == Head(batch)
  <2>1. connected' \in {connected, connected \cup {e.c}, connected \ {e.c}}
    BY <1>7 DEF ConsumeEvent
  <2> HIDE DEF e
  <2>2. IsFiniteSet(connected \cup {e.c}) /\ IsFiniteSet(connected \ {e.c})
    BY <1>1, FS_AddElement, FS_RemoveElement
  <2>3. IsFiniteSet(connected')
    BY <1>1, <2>1, <2>2
  <2> QED BY <1>1, <1>7, <2>3 DEF ConsumeEvent, enetVars, mainVars
<1>8. CASE StartDrain \/ EndDrain
  BY <1>1, <1>8 DEF StartDrain, EndDrain, enetVars, netVars
<1>9. ASSUME NEW c \in Conns, HandleConnected(c) \/ HandleData(c) \/ HandleDisconnected(c)
      PROVE  /\ queue' \in Seq(QueuedPackets) /\ inbox' \in [Conns -> Seq(QueuedPackets)]
             /\ sending' \in BOOLEAN /\ draining' \in BOOLEAN
             /\ data' \in 0..MaxData /\ sends' \in 0..MaxSends
             /\ IsFiniteSet(connected')
  <2>1. Queued(id[c], "SNAPSHOT", c) \in QueuedPackets
    BY <1>1 DEF Queued, QueuedPackets
  <2>2. queue' = queue \/ queue' = Append(queue, Queued(id[c], "SNAPSHOT", c))
    BY <1>9 DEF HandleConnected, HandleData, HandleDisconnected
  <2>3. queue' \in Seq(QueuedPackets)
    <3> DEFINE x == Queued(id[c], "SNAPSHOT", c)
    <3>1. x \in QueuedPackets /\ (queue' = queue \/ queue' = Append(queue, x))
      BY <2>1, <2>2
    <3>2. queue \in Seq(QueuedPackets)
      BY <1>1
    <3> HIDE DEF x
    <3> QED BY <3>1, <3>2
  <2> QED BY <2>3, <1>1, <1>9
          DEF HandleConnected, HandleData, HandleDisconnected, Handling, enetVars, netVars
<1>10. CASE Broadcast
  <2>1. PICK q \in Seq(QueuedPackets) : queue' = queue \o q
    BY <1>10, BroadcastQueued
  <2>2. queue' \in Seq(QueuedPackets)
    BY <1>1, <2>1, ConcatProperties
  <2>3. sends' \in 0..MaxSends
    BY <1>1, <1>10, BoundsAssumption DEF Broadcast
  <2> QED BY <1>1, <1>10, <2>2, <2>3 DEF Broadcast, enetVars, netVars
<1>11. CASE UNCHANGED vars
  BY <1>1, <1>11 DEF vars
<1> QED BY <1>3, <1>4, <1>5, <1>6, <1>7, <1>8, <1>9, <1>10, <1>11
        DEF Next, EnetThread, NetworkThread, MainThread, MainHandle

LEMMA TypedTheorem == Spec => []Typed
<1>1. IInv => ServerTypeOK
  BY DEF IInv
<1> QED BY <1>1, InitTyped, NextTyped, Invariant, PTL DEF Spec

(* The threads' state keeps its shape: among it, that every packet in      *)
(* _packet_queue and every packet delivered is for a client (server.h      *)
(* 43-46, 232-262).                                                        *)
THEOREM TypeCorrect == Spec => []TypeOK
<1>1. Typed => TypeOK
  BY DEF Typed
<1> QED BY <1>1, TypedTheorem, PTL
-----------------------------------------------------------------------------
(* What a client is sent.                                                  *)

(* A client that has left the vector unnoticed so far will be noticed.     *)
Listed ==
  \A c \in Conns :
    conn[c] = "gone" /\ (c \in connected \/ Event("CONNECTED", c) \in Range(Unconsumed)) =>
      Event("DISCONNECTED", c) \in Range(Unconsumed)

LEMMA UnconsumedAppended ==
  ASSUME ServerTypeOK, NEW e \in Events, events' = Append(events, e), batch' = batch
  PROVE  Range(Unconsumed') = Range(Unconsumed) \cup {e}
<1>1. batch \in Seq(Events) /\ events \in Seq(Events)
  BY DEF ServerTypeOK
<1>2. batch \o Append(events, e) = Append(batch \o events, e)
  BY <1>1, ConcatAppend
<1>3. Range(Append(Unconsumed, e)) = Range(Unconsumed) \cup {e}
  BY UnconsumedType, RangeAppend
<1> QED BY <1>2, <1>3 DEF Unconsumed

LEMMA UnconsumedInStream ==
  ASSUME ServerTypeOK
  PROVE  Range(Unconsumed) \subseteq Range(Stream)
<1> DEFINE p == packets \o pushing
<1>1. p \in Seq(Events) /\ batch \in Seq(Events) /\ events \in Seq(Events)
  BY ConcatProperties DEF ServerTypeOK
<1> HIDE DEF p
<1>2. (p \o batch) \o events = p \o (batch \o events)
  BY <1>1, Associative
<1>3. batch \o events \in Seq(Events)
  BY <1>1, ConcatProperties
<1> DEFINE u == batch \o events
<1>4. u \in Seq(Events)
  BY <1>3
<1> HIDE DEF u
<1>5. Range(p \o u) = Range(p) \cup Range(u)
  BY <1>1, <1>4, RangeConcat
<1> QED BY <1>2, <1>5 DEF Unconsumed, Stream, p, u

LEMMA ListedConsumed ==
  ASSUME ServerTypeOK, Registered, Listed, ConsumeEvent
  PROVE  Listed'
<1> DEFINE s == Unconsumed
           t == Unconsumed'
           e == Head(batch)
<1>1. batch # <<>> /\ batch' = Tail(batch) /\ events' = events /\ conn' = conn
      /\ connected' = CASE e.kind = "CONNECTED" -> connected \cup {e.c}
                        [] e.kind = "DISCONNECTED" -> connected \ {e.c}
                        [] OTHER -> connected
  BY DEF ConsumeEvent, enetVars
<1>2. s \in Seq(Events) /\ batch \in Seq(Events) /\ events \in Seq(Events)
  BY UnconsumedType DEF ServerTypeOK
<1>3. /\ DOMAIN s = 1..Len(s) /\ Len(s) \in Nat \ {0} /\ DOMAIN t = 1..(Len(s) - 1)
      /\ \A i \in DOMAIN t : t[i] = s[i + 1] /\ i + 1 \in DOMAIN s
      /\ \A i \in DOMAIN s : s[i] \in Events
      /\ 1 \in DOMAIN s /\ s[1] = e
  BY <1>1, <1>2 DEF Unconsumed
<1>4. \A k \in Kinds, d \in Conns : Event(k, d).kind = k /\ Event(k, d).c = d
  BY DEF Event
<1>5. e = Event(e.kind, e.c) /\ e.c \in Conns
  BY <1>3 DEF Event, Events
<1>6. InOrder(s)
  BY DEF Registered
<1> HIDE DEF s, t, e
<1>7. \A x \in Range(s) : x # e => x \in Range(t)
  <2> SUFFICES ASSUME NEW i \in DOMAIN s, s[i] # e PROVE s[i] \in Range(t)
    BY DEF Range
  <2>1. i - 1 \in DOMAIN t /\ t[i - 1] = s[i]
    BY <1>3
  <2> QED BY <2>1 DEF Range
<1>8. \A x \in Range(t) : x \in Range(s) /\ (x.c = e.c => e.kind # "DISCONNECTED")
  <2> SUFFICES ASSUME NEW i \in DOMAIN t PROVE t[i] \in Range(s) /\ (t[i].c = e.c => e.kind # "DISCONNECTED")
    BY DEF Range
  <2>1. t[i] = s[i + 1] /\ i + 1 \in DOMAIN s /\ 1 < i + 1
    BY <1>3
  <2> QED BY <2>1, <1>3, <1>6 DEF InOrder, Range
<1>9. ASSUME NEW d \in Conns, conn'[d] = "gone", d \in connected' \/ Event("CONNECTED", d) \in Range(t)
      PROVE  Event("DISCONNECTED", d) \in Range(t)
  <2>1. d \in connected' => d \in connected \/ (e.kind = "CONNECTED" /\ d = e.c)
    BY <1>1
  <2>2. d \in connected \/ Event("CONNECTED", d) \in Range(s)
    <3>1. e.kind = "CONNECTED" => e \in Range(s)
      BY <1>3 DEF Range
    <3> QED BY <2>1, <3>1, <1>5, <1>8, <1>9
  <2>3. Event("DISCONNECTED", d) \in Range(s)
    BY <2>2, <1>1, <1>9 DEF Listed, s
  <2>4. Event("DISCONNECTED", d) # e
    <3> SUFFICES ASSUME Event("DISCONNECTED", d) = e PROVE FALSE
      OBVIOUS
    <3>1. e.kind = "DISCONNECTED" /\ e.c = d
      BY <1>4 DEF Kinds
    <3>2. d \notin connected'
      BY <3>1, <1>1
    <3>3. Event("CONNECTED", d).c = d
      BY DEF Event
    <3> QED BY <3>1, <3>2, <3>3, <1>8, <1>9
  <2> QED BY <2>3, <2>4, <1>7
<1> QED BY <1>9 DEF Listed, t

LEMMA ListedNext == IInv /\ Registered /\ Listed /\ [Next]_vars => Listed'
<1> SUFFICES ASSUME IInv, Registered, Listed, [Next]_vars PROVE Listed'
  OBVIOUS
<1>1. ServerTypeOK
  BY DEF IInv
<1>2. ASSUME UNCHANGED <<conn, connected>>, Unconsumed' = Unconsumed PROVE Listed'
  BY <1>2 DEF Listed, Range
<1>3. ASSUME NEW c \in Conns, HandleConnect(c) \/ HandleReceive(c) \/ HandleDisconnect(c) PROVE Listed'
  <2>1. PICK k \in Kinds :
          /\ events' = Append(events, Event(k, c)) /\ batch' = batch /\ connected' = connected
          /\ \/ k = "CONNECTED" /\ conn' = [conn EXCEPT ![c] = "in"]
             \/ k = "DATA" /\ conn' = conn
             \/ k = "DISCONNECTED" /\ conn' = [conn EXCEPT ![c] = "gone"]
    BY <1>3 DEF HandleConnect, HandleReceive, HandleDisconnect, netVars, enetVars, Kinds
  <2>2. Range(Unconsumed') = Range(Unconsumed) \cup {Event(k, c)}
    BY <2>1, <1>1, EventsTyped, UnconsumedAppended
  <2>3. \A d \in Conns : Event("CONNECTED", d) = Event(k, c) => k = "CONNECTED" /\ d = c
    BY DEF Event
  <2>4. conn \in [Conns -> {"out", "in", "gone"}]
    BY <1>1 DEF ServerTypeOK
  <2> QED BY <2>1, <2>2, <2>3, <2>4 DEF Listed
<1>4. CASE TakeBatch
  <2>1. Unconsumed = <<>> \o events /\ Unconsumed' = events \o <<>>
    BY <1>4 DEF TakeBatch, Unconsumed
  <2>2. <<>> \o events = events /\ events \o <<>> = events
    BY <1>1, ConcatEmptySeq DEF ServerTypeOK
  <2> QED BY <2>1, <2>2, <1>2, <1>4 DEF TakeBatch, enetVars
<1>5. CASE ConsumeEvent
  BY <1>1, <1>5, ListedConsumed
<1>6. CASE SendQueued \/ EndCapture \/ PushPacket \/ StartDrain \/ EndDrain \/ Broadcast
  BY <1>2, <1>6 DEF SendQueued, EndCapture, PushPacket, StartDrain, EndDrain, Broadcast, enetVars, netVars, Unconsumed
<1>7. CASE MainHandle
  BY <1>2, <1>7 DEF MainHandle, HandleConnected, HandleData, HandleDisconnected, Handling, enetVars, netVars, Unconsumed
<1>8. CASE UNCHANGED vars
  BY <1>2, <1>8 DEF vars, Unconsumed
<1> QED BY <1>3, <1>4, <1>5, <1>6, <1>7, <1>8 DEF Next, EnetThread, NetworkThread, MainThread

(* Whoever is in the vector holds its ID.                                  *)
LEMMA ConnectedHold ==
  ASSUME IInv, Registered, Listed
  PROVE  connected \subseteq Holders
<1> SUFFICES ASSUME NEW c \in connected PROVE c \in Holders
  OBVIOUS
<1>1. ServerTypeOK /\ WellBracketed /\ c \in Conns
  BY DEF IInv, ServerTypeOK
<1>2. conn[c] # "out"
  BY <1>1 DEF Registered
<1>3. CASE conn[c] = "in"
  BY <1>1, <1>3 DEF WellBracketed, Holders
<1>4. CASE conn[c] = "gone"
  <2>1. Event("DISCONNECTED", c) \in Range(Stream)
    BY <1>1, <1>4, UnconsumedInStream DEF Listed
  <2>2. PICK i \in DOMAIN Stream : Stream[i] = Event("DISCONNECTED", c)
    BY <2>1 DEF Range
  <2>3. seen[Stream[i].c] # "freed" /\ Stream[i].c = c
    BY <2>2, <1>1 DEF WellBracketed, Event
  <2> QED BY <2>3, <1>1, <1>4 DEF Holders
<1> QED BY <1>1, <1>2, <1>3, <1>4 DEF ServerTypeOK

(* In s, the packets for p's client are those from p on.                   *)
From(p, s) == \A i \in DOMAIN s : (s[i].for = p.for) <=> (\E j \in 1..i : s[j] = p)

LEMMA FromConcat ==
  ASSUME NEW p, NEW s \in Seq(QueuedPackets), NEW t \in Seq(QueuedPackets),
         From(p, s), p \in Range(s), \A i \in DOMAIN t : t[i].for = p.for
  PROVE  From(p, s \o t)
<1> DEFINE u == s \o t
<1>1. /\ DOMAIN s = 1..Len(s) /\ Len(s) \in Nat
      /\ DOMAIN t = 1..Len(t) /\ Len(t) \in Nat
      /\ DOMAIN u = 1..(Len(s) + Len(t))
      /\ \A i \in DOMAIN s : u[i] = s[i]
      /\ \A i \in DOMAIN t : u[Len(s) + i] = t[i]
  OBVIOUS
<1> HIDE DEF u
<1>2. ASSUME NEW i \in DOMAIN s PROVE (u[i].for = p.for) <=> (\E j \in 1..i : u[j] = p)
  <2>1. \A j \in 1..i : j \in DOMAIN s /\ u[j] = s[j]
    BY <1>1
  <2>2. (s[i].for = p.for) <=> (\E j \in 1..i : s[j] = p)
    BY DEF From
  <2> QED BY <2>1, <2>2, <1>1
<1>3. ASSUME NEW i \in DOMAIN u, i \notin DOMAIN s PROVE u[i].for = p.for /\ \E j \in 1..i : u[j] = p
  <2>1. i - Len(s) \in DOMAIN t /\ Len(s) + (i - Len(s)) = i
    BY <1>1, <1>3
  <2>2. u[i].for = p.for
    BY <2>1, <1>1
  <2>3. PICK j \in DOMAIN s : s[j] = p
    BY DEF Range
  <2>4. j \in 1..i /\ u[j] = p
    BY <2>3, <1>1, <1>3
  <2> QED BY <2>2, <2>4
<1>4. From(p, u)
  BY <1>2, <1>3 DEF From
<1> QED BY <1>4 DEF u

LEMMA FromPrefix ==
  ASSUME NEW p, NEW s \in Seq(QueuedPackets), NEW t \in Seq(QueuedPackets), From(p, s \o t)
  PROVE  From(p, s)
<1> DEFINE u == s \o t
<1>1. /\ DOMAIN s = 1..Len(s) /\ Len(s) \in Nat /\ DOMAIN s \subseteq DOMAIN u
      /\ \A i \in DOMAIN s : u[i] = s[i]
  OBVIOUS
<1>2. From(p, u)
  OBVIOUS
<1> HIDE DEF u
<1> SUFFICES ASSUME NEW i \in DOMAIN s PROVE (s[i].for = p.for) <=> (\E j \in 1..i : s[j] = p)
  BY DEF From
<1>3. \A j \in 1..i : j \in DOMAIN s /\ u[j] = s[j]
  BY <1>1
<1>4. (u[i].for = p.for) <=> (\E j \in 1..i : u[j] = p)
  BY <1>1, <1>2 DEF From
<1> QED BY <1>1, <1>3, <1>4

LEMMA FromStart ==
  ASSUME NEW p \in QueuedPackets, NEW s \in Seq(QueuedPackets), \A i \in DOMAIN s : s[i].for # p.for
  PROVE  From(p, Append(s, p)) /\ p \in Range(Append(s, p))
<1> DEFINE t == Append(s, p)
<1>1. /\ DOMAIN s = 1..Len(s) /\ Len(s) \in Nat
      /\ DOMAIN t = 1..(Len(s) + 1) /\ t[Len(s) + 1] = p
      /\ \A i \in DOMAIN s : t[i] = s[i]
  OBVIOUS
<1> HIDE DEF t
<1>2. ASSUME NEW i \in DOMAIN t PROVE (t[i].for = p.for) <=> (\E j \in 1..i : t[j] = p)
  <2>1. CASE i = Len(s) + 1
    BY <2>1, <1>1
  <2>2. CASE i # Len(s) + 1
    <3>1. \A j \in 1..i : j \in DOMAIN s /\ t[j] = s[j] /\ s[j] # p
      BY <2>2, <1>1
    <3>2. i \in 1..i
      BY <1>1
    <3> QED BY <3>1, <3>2
  <2> QED BY <2>1, <2>2
<1>3. p \in Range(t)
  BY <1>1 DEF Range
<1>4. From(p, t)
  BY <1>2 DEF From
<1> QED BY <1>3, <1>4 DEF t

To(k) == {q \in QueuedPackets : q.to = k}

(* What c has been sent, and will be if nothing changes.                   *)
Way(c) == inbox[c] \o Filter(queue, To(id[c]))

Informed ==
  \A c \in Conns :
    /\ conn[c] = "out" => inbox[c] = <<>> /\ \A i \in DOMAIN queue : queue[i].for # c
    /\ conn[c] = "in" => From(Initialized(c), Way(c)) /\ Initialized(c) \in Range(Way(c))
    /\ conn[c] = "gone" => From(Initialized(c), inbox[c])

LEMMA InitializedFor == \A c : Initialized(c).for = c
  BY DEF Initialized, Queued

LEMMA WayType ==
  ASSUME TypeOK, NEW c \in Conns
  PROVE  /\ inbox[c] \in Seq(QueuedPackets) /\ Filter(queue, To(id[c])) \in Seq(QueuedPackets)
         /\ Way(c) \in Seq(QueuedPackets)
<1>1. inbox[c] \in Seq(QueuedPackets) /\ queue \in Seq(QueuedPackets)
  BY DEF TypeOK
<1>2. Filter(queue, To(id[c])) \in Seq(QueuedPackets)
  BY <1>1, FilterType
<1> QED BY <1>1, <1>2, ConcatProperties DEF Way

(* The main thread queues packets, each for the holder of the ID on it.    *)
LEMMA InformedQueued ==
  ASSUME IInv, TypeOK, Informed, NEW q \in Seq(QueuedPackets), queue' = queue \o q,
         \A i \in DOMAIN q : q[i].for \in Holders /\ q[i].to = id[q[i].for],
         UNCHANGED <<conn, id, inbox>>
  PROVE  Informed'
<1>1. queue \in Seq(QueuedPackets)
  BY DEF TypeOK
<1>2. ASSUME NEW c \in Conns, conn[c] = "out", NEW i \in DOMAIN queue' PROVE queue'[i].for # c
  <2>1. /\ DOMAIN queue = 1..Len(queue) /\ Len(queue) \in Nat
        /\ DOMAIN q = 1..Len(q) /\ Len(q) \in Nat
        /\ DOMAIN queue' = 1..(Len(queue) + Len(q))
        /\ \A k \in DOMAIN queue : queue'[k] = queue[k]
        /\ \A k \in DOMAIN q : queue'[Len(queue) + k] = q[k]
    BY <1>1
  <2>2. CASE i \in DOMAIN queue
    BY <2>1, <2>2, <1>2 DEF Informed
  <2>3. CASE i \notin DOMAIN queue
    <3>1. i - Len(queue) \in DOMAIN q /\ Len(queue) + (i - Len(queue)) = i
      BY <2>1, <2>3
    <3>2. queue'[i].for \in Holders
      BY <2>1, <3>1
    <3> QED BY <3>2, <1>2 DEF Holders
  <2> QED BY <2>2, <2>3
<1>3. ASSUME NEW c \in Conns, conn[c] = "in"
      PROVE  From(Initialized(c), Way(c)') /\ Initialized(c) \in Range(Way(c)')
  <2> DEFINE f == Filter(queue, To(id[c]))
             g == Filter(q, To(id[c]))
             w == Way(c)
  <2>1. inbox[c] \in Seq(QueuedPackets) /\ f \in Seq(QueuedPackets) /\ w \in Seq(QueuedPackets)
    BY WayType
  <2>2. g \in Seq(QueuedPackets) /\ Range(g) = Range(q) \cap To(id[c])
    BY FilterType
  <2>3. Filter(queue \o q, To(id[c])) = f \o g
    BY <1>1, FilterConcat
  <2>4. Way(c)' = inbox[c] \o (f \o g) /\ w = inbox[c] \o f
    BY <2>3 DEF Way
  <2>5. c \in Holders
    BY <1>3 DEF IInv, WellBracketed, Holders
  <2>6. \A i \in DOMAIN g : g[i].for = c
    <3> SUFFICES ASSUME NEW i \in DOMAIN g PROVE g[i].for = c
      OBVIOUS
    <3>1. g[i] \in Range(q) /\ g[i].to = id[c]
      BY <2>2 DEF Range, To
    <3>2. g[i].for \in Holders /\ g[i].to = id[g[i].for]
      BY <3>1 DEF Range
    <3> QED BY <3>1, <3>2, <2>5 DEF IInv, UniqueIDs
  <2>7. From(Initialized(c), w) /\ Initialized(c) \in Range(w)
    BY <1>3 DEF Informed
  <2> HIDE DEF f, g, w
  <2>8. (inbox[c] \o f) \o g = inbox[c] \o (f \o g)
    BY <2>1, <2>2, WayAssociative
  <2>9. Way(c)' = w \o g
    BY <2>4, <2>8
  <2>10. From(Initialized(c), w \o g)
    BY <2>1, <2>2, <2>6, <2>7, InitializedFor, FromConcat
  <2>11. Initialized(c) \in Range(w \o g)
    BY <2>1, <2>2, <2>7, RangeConcat
  <2> QED BY <2>9, <2>10, <2>11
<1>4. \A c \in Conns : Initialized(c)' = Initialized(c)
  BY DEF Initialized, Queued
<1> QED BY <1>2, <1>3, <1>4 DEF Informed

(* A new client: the first packet for it is the one that tells it its ID.  *)
LEMMA InformedConnect ==
  ASSUME IInv, TypeOK, TypeOK', Informed, NEW c \in Conns, HandleConnect(c)
  PROVE  Informed'
<1>1. /\ conn[c] = "out" /\ conn' = [conn EXCEPT ![c] = "in"] /\ inbox' = inbox
      /\ queue' = Append(queue, Initialized(c)')
      /\ \A d \in Conns : d # c => id'[d] = id[d]
  <2>1. id \in [Conns -> Nat]
    BY DEF TypeOK, ServerTypeOK
  <2>2. \A d \in Conns : d # c => id'[d] = id[d]
    BY <2>1 DEF HandleConnect, GetNextUID
  <2> QED BY <2>2 DEF HandleConnect, Initialized
<1>2. \A d \in Holders : id'[c] # id[d]
  BY IDGiven DEF IInv, IDsOK
<1>3. queue \in Seq(QueuedPackets) /\ conn \in [Conns -> {"out", "in", "gone"}]
  BY DEF TypeOK, ServerTypeOK
<1> DEFINE x == Initialized(c)'
<1>4. x \in QueuedPackets /\ x.for = c /\ x.to = id'[c]
  BY DEF TypeOK, ServerTypeOK, Initialized, Queued, QueuedPackets
<1>5. queue' = Append(queue, x)
  BY <1>1
<1> HIDE DEF x
<1>6. ASSUME NEW d \in Conns
      PROVE  Filter(queue', To(id'[d])) =
               IF id'[d] = id'[c] THEN Append(Filter(queue, To(id'[d])), x) ELSE Filter(queue, To(id'[d]))
  <2> DEFINE k == id'[d]
  <2>1. x \in To(k) <=> k = id'[c]
    BY <1>4 DEF To
  <2> HIDE DEF k
  <2>2. Filter(Append(queue, x), To(k)) = IF x \in To(k) THEN Append(Filter(queue, To(k)), x) ELSE Filter(queue, To(k))
    BY <1>3, <1>4, FilterAppend
  <2>3. Filter(queue', To(k)) = IF k = id'[c] THEN Append(Filter(queue, To(k)), x) ELSE Filter(queue, To(k))
    BY <2>1, <2>2, <1>5
  <2> QED BY <2>3 DEF k
<1>7. From(x, Way(c)') /\ x \in Range(Way(c)')
  <2> DEFINE f == Filter(queue, To(id'[c]))
  <2>1. f \in Seq(QueuedPackets) /\ Range(f) \subseteq Range(queue)
    BY <1>3, FilterType
  <2>2. inbox'[c] = <<>>
    BY <1>1 DEF Informed
  <2>3. \A i \in DOMAIN f : f[i].for # x.for
    <3> SUFFICES ASSUME NEW i \in DOMAIN f PROVE f[i].for # c
      BY <1>4
    <3>1. f[i] \in Range(queue)
      BY <2>1 DEF Range
    <3> QED BY <3>1, <1>1 DEF Informed, Range
  <2>4. Way(c)' = <<>> \o Append(f, x)
    BY <1>6, <2>2 DEF Way
  <2> HIDE DEF f
  <2>5. Append(f, x) \in Seq(QueuedPackets)
    BY <2>1, <1>4
  <2>6. Way(c)' = Append(f, x)
    BY <2>4, <2>5, ConcatEmptySeq
  <2>7. From(x, Append(f, x)) /\ x \in Range(Append(f, x))
    BY <2>1, <2>3, <1>4, FromStart
  <2> QED BY <2>6, <2>7
<1>8. ASSUME NEW d \in Conns, d # c
      PROVE  /\ conn'[d] = conn[d] /\ inbox'[d] = inbox[d] /\ Initialized(d)' = Initialized(d)
             /\ conn[d] = "in" => Way(d)' = Way(d)
  <2>1. conn'[d] = conn[d] /\ inbox'[d] = inbox[d] /\ id'[d] = id[d]
    BY <1>1, <1>3, <1>8
  <2>2. ASSUME conn[d] = "in" PROVE Way(d)' = Way(d)
    <3>1. d \in Holders
      BY <2>2 DEF IInv, WellBracketed, Holders
    <3>2. id'[d] # id'[c]
      BY <3>1, <2>1, <1>2
    <3> QED BY <3>2, <2>1, <1>6 DEF Way
  <2> QED BY <2>1, <2>2 DEF Initialized
<1>9. ASSUME NEW d \in Conns, d # c, conn[d] = "out", NEW i \in DOMAIN queue' PROVE queue'[i].for # d
  <2>1. i \in DOMAIN queue \/ queue'[i] = x
    BY <1>3, <1>4, <1>5
  <2>2. i \in DOMAIN queue => queue'[i] = queue[i]
    BY <1>3, <1>4, <1>5
  <2> QED BY <2>1, <2>2, <1>4, <1>9 DEF Informed
<1>10. conn'[c] = "in"
  BY <1>1, <1>3
<1>11. ASSUME NEW d \in Conns
       PROVE  /\ conn'[d] = "out" => inbox'[d] = <<>> /\ \A i \in DOMAIN queue' : queue'[i].for # d
              /\ conn'[d] = "in" => From(Initialized(d)', Way(d)') /\ Initialized(d)' \in Range(Way(d)')
              /\ conn'[d] = "gone" => From(Initialized(d)', inbox'[d])
  <2>1. CASE d = c
    BY <2>1, <1>7, <1>10 DEF x
  <2>2. CASE d # c
    BY <2>2, <1>8, <1>9 DEF Informed
  <2> QED BY <2>1, <2>2
<1> QED BY <1>11 DEF Informed

(* The enetpp thread hands the queue to enet.                              *)
LEMMA InformedSent ==
  ASSUME IInv, TypeOK, Informed, SendQueued
  PROVE  Informed'
<1>1. /\ queue' = <<>> /\ UNCHANGED <<conn, id>>
      /\ inbox' = [c \in Conns |-> inbox[c] \o Filter(queue, Addressed(c))]
  BY DEF SendQueued
<1>2. queue \in Seq(QueuedPackets) /\ inbox \in [Conns -> Seq(QueuedPackets)]
  BY DEF TypeOK
<1>3. ASSUME NEW c \in Conns, conn[c] = "in"
      PROVE  Way(c)' = Way(c)
  <2>1. \A i \in 1..Len(queue) : queue[i] \in Addressed(c) <=> queue[i] \in To(id[c])
    <3> SUFFICES ASSUME NEW i \in 1..Len(queue) PROVE queue[i] \in Addressed(c) <=> queue[i] \in To(id[c])
      OBVIOUS
    <3>1. queue[i] \in QueuedPackets /\ queue[i] \in Range(queue)
      BY <1>2 DEF Range
    <3> QED BY <3>1, <1>3 DEF Addressed, To, IInv, PeerMapExact
  <2>2. Filter(queue, Addressed(c)) = Filter(queue, To(id[c]))
    BY <2>1, <1>2, FilterSame
  <2>3. inbox'[c] = Way(c)
    BY <1>1, <2>2 DEF Way
  <2>4. Way(c)' = Way(c) \o Filter(<<>>, To(id[c]))
    BY <1>1, <2>3 DEF Way
  <2>5. Way(c) \in Seq(QueuedPackets)
    BY WayType
  <2> QED BY <2>4, <2>5, FilterNil, ConcatEmptySeq
<1>4. ASSUME NEW c \in Conns, conn[c] # "in"
      PROVE  inbox'[c] = inbox[c]
  <2>1. Addressed(c) = {}
    BY <1>4 DEF Addressed
  <2>2. Filter(queue, {}) \in Seq(QueuedPackets) /\ Range(Filter(queue, {})) = {}
    BY <1>2, FilterType
  <2>3. Filter(queue, {}) = <<>>
    BY <2>2, RangeEmpty
  <2>4. inbox'[c] = inbox[c] \o <<>> /\ inbox[c] \in Seq(QueuedPackets)
    BY <2>1, <2>3, <1>1, <1>2
  <2> QED BY <2>4, ConcatEmptySeq
<1>5. \A c \in Conns : Initialized(c)' = Initialized(c)
  BY <1>1 DEF Initialized
<1>6. \A i \in DOMAIN queue' : FALSE
  BY <1>1
<1> QED BY <1>1, <1>3, <1>4, <1>5, <1>6 DEF Informed

LEMMA InformedNext ==
  IInv /\ Registered /\ Listed /\ Typed /\ TypeOK' /\ Informed /\ [Next]_vars => Informed'
<1> SUFFICES ASSUME IInv, Registered, Listed, Typed, TypeOK', Informed, [Next]_vars PROVE Informed'
  OBVIOUS
<1>1. TypeOK /\ connected \subseteq Holders
  BY ConnectedHold DEF Typed
<1>2. ASSUME UNCHANGED <<conn, id, inbox, queue>> PROVE Informed'
  BY <1>2 DEF Informed, Initialized, Way
<1>3. CASE SendQueued
  BY <1>1, <1>3, InformedSent
<1>4. ASSUME NEW c \in Conns, HandleConnect(c) PROVE Informed'
  BY <1>1, <1>4, InformedConnect
<1>5. ASSUME NEW c \in Conns, HandleDisconnect(c) PROVE Informed'
  <2>1. conn[c] = "in" /\ conn' = [conn EXCEPT ![c] = "gone"] /\ UNCHANGED <<id, inbox, queue>>
    BY <1>5 DEF HandleDisconnect
  <2>2. conn \in [Conns -> {"out", "in", "gone"}]
    BY <1>1 DEF TypeOK, ServerTypeOK
  <2>3. \A d \in Conns : Initialized(d)' = Initialized(d) /\ Way(d)' = Way(d)
    BY <2>1 DEF Initialized, Way
  <2>4. From(Initialized(c), inbox[c])
    <3> DEFINE f == Filter(queue, To(id[c]))
    <3>1. From(Initialized(c), inbox[c] \o f)
      BY <2>1 DEF Informed, Way
    <3>2. inbox[c] \in Seq(QueuedPackets) /\ f \in Seq(QueuedPackets)
      BY <1>1, WayType
    <3> HIDE DEF f
    <3> QED BY <3>1, <3>2, FromPrefix
  <2>5. ASSUME NEW d \in Conns
        PROVE  /\ conn'[d] = "out" => inbox'[d] = <<>> /\ \A i \in DOMAIN queue' : queue'[i].for # d
               /\ conn'[d] = "in" => From(Initialized(d)', Way(d)') /\ Initialized(d)' \in Range(Way(d)')
               /\ conn'[d] = "gone" => From(Initialized(d)', inbox'[d])
    <3>1. CASE d = c
      BY <3>1, <2>1, <2>2, <2>3, <2>4
    <3>2. CASE d # c
      BY <3>2, <2>1, <2>2, <2>3 DEF Informed
    <3> QED BY <3>1, <3>2
  <2> QED BY <2>5 DEF Informed
<1>6. ASSUME NEW c \in Conns, HandleConnected(c) PROVE Informed'
  <2> DEFINE x == Queued(id[c], "SNAPSHOT", c)
  <2>1. Handling("CONNECTED", c) /\ "CONNECTED" \in Kinds /\ queue' = Append(queue, x)
    BY <1>6 DEF HandleConnected, Kinds
  <2>2. c \in Holders
    BY <2>1, HandlingStep DEF Holders
  <2>3. x \in QueuedPackets /\ x.for = c /\ x.to = id[c]
    BY <1>1 DEF TypeOK, ServerTypeOK, Queued, QueuedPackets
  <2> HIDE DEF x
  <2>4. queue \in Seq(QueuedPackets)
    BY <1>1 DEF TypeOK
  <2>5. queue' = queue \o <<x>> /\ <<x>> \in Seq(QueuedPackets)
    BY <2>1, <2>3, <2>4, AppendIsConcat
  <2> DEFINE q == <<x>>
  <2>6. q \in Seq(QueuedPackets) /\ queue' = queue \o q
    BY <2>5
  <2>7. \A i \in DOMAIN q : q[i].for \in Holders /\ q[i].to = id[q[i].for]
    BY <2>2, <2>3
  <2>8. UNCHANGED <<conn, id, inbox>>
    BY <2>1 DEF Handling, enetVars
  <2> HIDE DEF q
  <2> QED BY <1>1, <2>6, <2>7, <2>8, InformedQueued
<1>7. CASE Broadcast
  <2>1. PICK q \in Seq(QueuedPackets) :
          /\ queue' = queue \o q
          /\ \A i \in DOMAIN q : q[i].for \in connected /\ q[i].to = id[q[i].for]
    BY <1>7, BroadcastQueued
  <2>2. \A i \in DOMAIN q : q[i].for \in Holders /\ q[i].to = id[q[i].for]
    BY <2>1, <1>1
  <2>3. UNCHANGED <<conn, id, inbox>>
    BY <1>7 DEF Broadcast, enetVars
  <2> QED BY <1>1, <2>1, <2>2, <2>3, InformedQueued
<1>8. CASE EndCapture \/ TakeBatch \/ ConsumeEvent \/ PushPacket \/ StartDrain \/ EndDrain
  BY <1>2, <1>8 DEF EndCapture, TakeBatch, ConsumeEvent, PushPacket, StartDrain, EndDrain, enetVars
<1>9. ASSUME NEW c \in Conns, HandleReceive(c) \/ HandleData(c) \/ HandleDisconnected(c) PROVE Informed'
  BY <1>2, <1>9 DEF HandleReceive, HandleData, HandleDisconnected, Handling, enetVars
<1>10. CASE UNCHANGED vars
  BY <1>2, <1>10 DEF vars
<1> QED BY <1>3, <1>4, <1>5, <1>6, <1>7, <1>8, <1>9, <1>10
        DEF Next, EnetThread, NetworkThread, MainThread, MainHandle

LEMMA InformedOwn ==
  ASSUME TypeOK, Informed
  PROVE  OwnAfterInitialized
<1> SUFFICES ASSUME NEW c \in Conns, NEW i \in DOMAIN inbox[c]
             PROVE  /\ inbox[c][i] = Initialized(c) => \A j \in i..Len(inbox[c]) : inbox[c][j].for = c
                    /\ inbox[c][i].for = c => \E j \in 1..i : inbox[c][j] = Initialized(c)
  BY DEF OwnAfterInitialized
<1> DEFINE s == inbox[c]
           f == Filter(queue, To(id[c]))
<1>1. s \in Seq(QueuedPackets) /\ f \in Seq(QueuedPackets)
  BY WayType
<1>2. conn[c] \in {"out", "in", "gone"}
  BY DEF TypeOK, ServerTypeOK
<1>3. From(Initialized(c), s)
  <2>1. CASE conn[c] = "out"
    BY <2>1 DEF Informed
  <2>2. CASE conn[c] = "in"
    <3>1. From(Initialized(c), s \o f)
      BY <2>2 DEF Informed, Way
    <3> HIDE DEF s, f
    <3> QED BY <3>1, <1>1, FromPrefix
  <2>3. CASE conn[c] = "gone"
    BY <2>3 DEF Informed
  <2> QED BY <1>2, <2>1, <2>2, <2>3
<1>4. DOMAIN s = 1..Len(s) /\ Len(s) \in Nat
  BY <1>1
<1>5. \A k \in DOMAIN s : (s[k].for = c) <=> (\E j \in 1..k : s[j] = Initialized(c))
  BY <1>3, InitializedFor DEF From
<1> HIDE DEF s
<1>6. ASSUME s[i] = Initialized(c), NEW j \in i..Len(s) PROVE s[j].for = c
  <2>1. j \in DOMAIN s /\ i \in 1..j
    BY <1>4 DEF s
  <2> QED BY <2>1, <1>5, <1>6
<1>7. s[i].for = c => \E j \in 1..i : s[j] = Initialized(c)
  BY <1>5 DEF s
<1> QED BY <1>6, <1>7 DEF s

(* What a client is sent after the packet with its ID is for it, and that  *)
(* packet comes before everything else for it, though IDs are used again   *)
(* and the queue names receivers by ID (server.h 232-262, 300-330;         *)
(* ServerHost.cpp 26-34, 182-197).                                         *)
THEOREM OwnAfterInitializedTheorem == Spec => []OwnAfterInitialized
<1>1. Init => Registered /\ Listed /\ Informed
  <2> SUFFICES ASSUME Init PROVE Registered /\ Listed /\ Informed
    OBVIOUS
  <2>1. Registered
    BY RegisteredInit
  <2>2. Listed
    BY DEF Init, Listed
  <2>3. Informed
    BY DEF Init, Informed
  <2> QED BY <2>1, <2>2, <2>3
<1>2. Typed => TypeOK
  BY DEF Typed
<1>3. TypeOK /\ Informed => OwnAfterInitialized
  BY InformedOwn
<1> QED BY <1>1, <1>2, <1>3, RegisteredNext, ListedNext, InformedNext, Invariant, TypedTheorem, PTL DEF Spec

=============================================================================
