-------------------------- MODULE Scenegraph_proof --------------------------
(***************************************************************************)
(* The proof that replicas agree, then that nothing sets an owner's replica*)
(* back, and at last that creations, deletions and state reach every       *)
(* client, for any number of clients and any types.                        *)
(*                                                                         *)
(* The argument for agreement.  An EntityInfo is fixed when the server     *)
(* assigns the ID (it becomes born[ID]) and every packet and replica takes *)
(* it from there or from one another, never from a request.  TypeOK says   *)
(* so and is inductive as it stands: born only grows, so what held of the  *)
(* packets and replicas before goes on to hold, and what an action adds is *)
(* made of what it found.  The lemmas below speak of a history b instead   *)
(* of the variable born, so that they apply before and after a step.       *)
(***************************************************************************)
EXTENDS Scenegraph, SequenceInduction, FiniteSetTheorems, TLAPS

Replica(e, b) ==
  /\ e \in [DOMAIN e -> Entity]
  /\ \A i \in DOMAIN e : i \in 1..Len(b) /\ e[i].info = b[i]

Ups(b) == {Connected, Disconnected}
  \cup {CreateRequest(t) : t \in Types}
  \cup {m \in [kind : {"update"}, id : 1..Len(b), info : Info, val : Nat] : m.info = b[m.id]}
  \cup [kind : {"delete"}, id : 1..Len(b)]

Downs(b) ==
  {m \in [kind : {"create"}, id : 1..Len(b), info : Info] : m.info = b[m.id]}
  \cup {m \in [kind : {"snapshot", "update"}, id : 1..Len(b), info : Info, val : Nat] : m.info = b[m.id]}
  \cup [kind : {"delete"}, id : 1..Len(b)]

Forwarded(b) == [from : Remotes, msg : Ups(b)]

Extends(b1, b) ==
  /\ b1 \in Seq(Info)
  /\ Len(b) <= Len(b1)
  /\ \A i \in 1..Len(b) : b1[i] = b[i]

(* TypeOK in terms of these.                                               *)
Shape(b) ==
  /\ DOMAIN ents = Clients
  /\ \A c \in Clients : Replica(ents[c], b)
  /\ up \in [Remotes -> Seq(Ups(b))]
  /\ down \in [Remotes -> Seq(Downs(b))]
  /\ net \in Seq(Forwarded(b))
  /\ packets \in Seq(Forwarded(b))
  /\ ghosts \subseteq Remotes \X (1..Len(b))

Frame ==
  /\ born \in Seq(Info)
  /\ link \in [Remotes -> {"out", "in", "gone"}]
  /\ connected \subseteq Remotes
  /\ phase \in {"idle", "drain", "update"}
  /\ joined \subseteq Remotes
  /\ calls \in Nat

Inv == Frame /\ Shape(born)

LEMMA TypeOKIsInv == TypeOK <=> Inv
<1>1. UpPackets = Ups(born) /\ DownPackets = Downs(born)
  BY DEF UpPackets, Ups, DownPackets, Downs, IDs
<1>2. ServerPackets = Forwarded(born)
  BY <1>1 DEF ServerPackets, Forwarded
<1>3. \A e : IsReplica(e) <=> Replica(e, born)
  BY DEF IsReplica, Replica, IDs
<1> QED BY <1>1, <1>2, <1>3 DEF TypeOK, Inv, Frame, Shape, IDs

-----------------------------------------------------------------------------
(* Replicas.                                                               *)

LEMMA EmptyReplica == ASSUME NEW b \in Seq(Info) PROVE Replica(<<>>, b)
  BY DEF Replica

LEMMA EntityFields ==
  ASSUME NEW x \in Entity
  PROVE  x.info \in Info /\ x.val \in Nat /\ x.remove \in BOOLEAN
  BY DEF Entity

LEMMA FreshTyped ==
  ASSUME NEW info \in Info, NEW v \in Nat
  PROVE  Fresh(info, v) \in Entity /\ Fresh(info, v).info = info
  BY DEF Fresh, Entity

LEMMA PutReplica ==
  ASSUME NEW b \in Seq(Info), NEW e, Replica(e, b),
         NEW i \in 1..Len(b), NEW x \in Entity, x.info = b[i]
  PROVE  Replica(Put(e, i, x), b)
  BY DEF Replica, Put

LEMMA MarkReplica ==
  ASSUME NEW b \in Seq(Info), NEW e, Replica(e, b), NEW S
  PROVE  Replica(MarkIn(e, S), b)
<1> DEFINE n == MarkIn(e, S)
<1>1. DOMAIN n = DOMAIN e
  BY DEF MarkIn
<1>2. ASSUME NEW i \in DOMAIN e PROVE n[i] \in Entity /\ n[i].info = e[i].info
  <2>1. e[i] \in Entity
    BY DEF Replica
  <2> QED BY <2>1 DEF MarkIn, Entity
<1>3. n = [i \in DOMAIN n |-> n[i]]
  BY DEF MarkIn
<1> HIDE DEF n
<1> QED BY <1>1, <1>2, <1>3 DEF Replica, n

LEMMA EraseReplica ==
  ASSUME NEW b \in Seq(Info), NEW e, Replica(e, b), NEW S
  PROVE  Replica(Erase(e, S), b)
  BY DEF Replica, Erase

LEMMA ValueReplica ==
  ASSUME NEW b \in Seq(Info), NEW e, Replica(e, b), NEW i \in DOMAIN e, NEW v \in Nat
  PROVE  Replica([e EXCEPT ![i].val = v], b)
<1> DEFINE n == [e EXCEPT ![i].val = v]
<1>1. DOMAIN n = DOMAIN e /\ n = [j \in DOMAIN n |-> n[j]]
  BY DEF Replica
<1>2. ASSUME NEW j \in DOMAIN e PROVE n[j] \in Entity /\ n[j].info = e[j].info
  <2>1. e[j] \in Entity
    BY DEF Replica
  <2> QED BY <2>1 DEF Replica, Entity
<1> HIDE DEF n
<1> QED BY <1>1, <1>2 DEF Replica, n

LEMMA DownKinds ==
  ASSUME NEW b \in Seq(Info), NEW m \in Downs(b)
  PROVE  /\ m.kind \in {"create", "snapshot", "update", "delete"}
         /\ m.id \in 1..Len(b)
         /\ m.kind # "delete" => m.info \in Info /\ m.info = b[m.id]
         /\ m.kind \in {"snapshot", "update"} => m.val \in Nat
  BY DEF Downs

LEMMA ApplyReplica ==
  ASSUME NEW b \in Seq(Info), NEW e, Replica(e, b), NEW m \in Downs(b)
  PROVE  Replica(Apply(e, m), b)
<1>1. CASE m.kind = "create"
  <2>1. Apply(e, m) = Put(e, m.id, Fresh(m.info, 0))
    BY <1>1 DEF Apply
  <2>2. m.id \in 1..Len(b) /\ m.info \in Info /\ m.info = b[m.id]
    BY <1>1, DownKinds
  <2>3. Fresh(m.info, 0) \in Entity /\ Fresh(m.info, 0).info = b[m.id]
    BY <2>2, FreshTyped
  <2> QED BY <2>1, <2>2, <2>3, PutReplica
<1>2. CASE m.kind = "snapshot"
  <2>1. Apply(e, m) = Put(e, m.id, Fresh(m.info, m.val))
    BY <1>2 DEF Apply
  <2>2. m.id \in 1..Len(b) /\ m.info \in Info /\ m.info = b[m.id] /\ m.val \in Nat
    BY <1>2, DownKinds
  <2>3. Fresh(m.info, m.val) \in Entity /\ Fresh(m.info, m.val).info = b[m.id]
    BY <2>2, FreshTyped
  <2> QED BY <2>1, <2>2, <2>3, PutReplica
<1>3. CASE m.kind = "update" /\ m.id \in DOMAIN e /\ e[m.id].info = m.info
  <2>1. Apply(e, m) = [e EXCEPT ![m.id].val = m.val]
    BY <1>3 DEF Apply
  <2>2. m.val \in Nat
    BY <1>3, DownKinds
  <2>3. m.id \in DOMAIN e
    BY <1>3
  <2>4. Replica([e EXCEPT ![m.id].val = m.val], b)
    BY <2>2, <2>3, ValueReplica, Zenon
  <2> QED BY <2>1, <2>4
<1>4. CASE m.kind = "update" /\ ~(m.id \in DOMAIN e /\ e[m.id].info = m.info)
  BY <1>4 DEF Apply
<1>5. CASE m.kind = "delete"
  <2>1. Apply(e, m) = MarkIn(e, {m.id})
    BY <1>5 DEF Apply
  <2> QED BY <2>1, MarkReplica
<1>6. m.kind \in {"create", "snapshot", "update", "delete"}
  BY DownKinds
<1> QED BY <1>1, <1>2, <1>3, <1>4, <1>5, <1>6

-----------------------------------------------------------------------------
(* Packets.                                                                *)

LEMMA PacketsTyped ==
  ASSUME NEW b \in Seq(Info), NEW i \in 1..Len(b), NEW x \in Entity, x.info = b[i]
  PROVE  /\ Creation(i, b[i]) \in Downs(b)
         /\ Snapshot(i, x) \in Downs(b)
         /\ Update(i, x) \in Downs(b)
         /\ Update(i, x) \in Ups(b)
<1>1. b[i] \in Info /\ x.val \in Nat /\ x.info \in Info
  BY EntityFields
<1>2. Creation(i, b[i]) \in Downs(b)
  BY <1>1 DEF Creation, Downs
<1>3. Snapshot(i, x) \in Downs(b)
  BY <1>1 DEF Snapshot, Downs
<1>4. Update(i, x) \in Downs(b) /\ Update(i, x) \in Ups(b)
  BY <1>1 DEF Update, Downs, Ups
<1> QED BY <1>2, <1>3, <1>4

LEMMA DeletionTyped ==
  ASSUME NEW b \in Seq(Info), NEW i \in 1..Len(b)
  PROVE  Deletion(i) \in Downs(b) /\ Deletion(i) \in Ups(b)
  BY DEF Deletion, Downs, Ups

LEMMA UpdatesGoDown ==
  ASSUME NEW b \in Seq(Info), NEW m \in Ups(b), m.kind = "update"
  PROVE  m \in Downs(b)
<1>1. m \in [kind : {"update"}, id : 1..Len(b), info : Info, val : Nat] /\ m.info = b[m.id]
  BY DEF Ups, Connected, Disconnected, CreateRequest
<1> QED BY <1>1 DEF Downs

LEMMA ReplicaGrows ==
  ASSUME NEW b \in Seq(Info), NEW b1, Extends(b1, b), NEW e, Replica(e, b)
  PROVE  Replica(e, b1)
  BY DEF Extends, Replica

LEMMA PacketsGrow ==
  ASSUME NEW b \in Seq(Info), NEW b1, Extends(b1, b)
  PROVE  Ups(b) \subseteq Ups(b1) /\ Downs(b) \subseteq Downs(b1) /\ Forwarded(b) \subseteq Forwarded(b1)
<1>1. 1..Len(b) \subseteq 1..Len(b1) /\ \A i \in 1..Len(b) : b1[i] = b[i]
  BY DEF Extends
<1>2. Ups(b) \subseteq Ups(b1)
  BY <1>1 DEF Ups
<1>3. Downs(b) \subseteq Downs(b1)
  BY <1>1 DEF Downs
<1> QED BY <1>2, <1>3 DEF Forwarded

LEMMA SendTyped ==
  ASSUME NEW b, NEW q \in Seq(Downs(b)), NEW S, down \in [Remotes -> Seq(Downs(b))], Send(S, q)
  PROVE  down' \in [Remotes -> Seq(Downs(b))]
  BY DEF Send

LEMMA SeqGrows ==
  ASSUME NEW S, NEW T, S \subseteq T, NEW q \in Seq(S)
  PROVE  q \in Seq(T)
  OBVIOUS

LEMMA OneElement == ASSUME NEW S, NEW x \in S PROVE <<x>> \in Seq(S)
  OBVIOUS

LEMMA ShapeGrows ==
  ASSUME NEW b \in Seq(Info), NEW b1, Extends(b1, b), Shape(b)
  PROVE  Shape(b1)
<1>1. \A c \in Clients : Replica(ents[c], b1)
  BY ReplicaGrows DEF Shape
<1>2. Ups(b) \subseteq Ups(b1) /\ Downs(b) \subseteq Downs(b1) /\ Forwarded(b) \subseteq Forwarded(b1)
  BY PacketsGrow
<1>3. up \in [Remotes -> Seq(Ups(b1))]
  BY <1>2, SeqGrows DEF Shape
<1>4. down \in [Remotes -> Seq(Downs(b1))]
  BY <1>2, SeqGrows DEF Shape
<1>5. net \in Seq(Forwarded(b1)) /\ packets \in Seq(Forwarded(b1))
  BY <1>2, SeqGrows DEF Shape
<1>6. ghosts \subseteq Remotes \X (1..Len(b1))
  BY DEF Shape, Extends
<1> QED BY <1>1, <1>3, <1>4, <1>5, <1>6 DEF Shape

-----------------------------------------------------------------------------
(* The steps.  Children of one level: createNetworkedEntity's new IDs.     *)

LEMMA CreateStep ==
  ASSUME Frame, Shape(born), NEW t \in Types, NEW owner \in Clients, CreateNetworked(t, owner)
  PROVE  /\ Extends(born', born)
         /\ DOMAIN ents' = Clients
         /\ \A c \in Clients : Replica(ents'[c], born')
         /\ down' \in [Remotes -> Seq(Downs(born'))]
<1> DEFINE base == Len(born) + 1
           kids == Children[t]
           kid(i) == [type |-> kids[i], owner |-> owner, parent |-> base]
           top == [type |-> t, owner |-> owner, parent |-> 0]
           kin == [i \in 1..Len(kids) |-> kid(i)]
           b == born \o <<top>> \o kin
           creations == [i \in 1..Len(kids) |-> Creation(base + i, b[base + i])] \o <<Creation(base, b[base])>>
           e == ents[Host]
           n == [i \in DOMAIN e \cup base..Len(b) |-> IF i \in base..Len(b) THEN Fresh(b[i], 0) ELSE e[i]]
<1>1. born' = b /\ ents' = [ents EXCEPT ![Host] = n] /\ Send(connected, creations)
  BY DEF CreateNetworked
<1>2. born \in Seq(Info) /\ Len(born) \in Nat /\ base \in Nat
  BY DEF Frame
<1>3. kids \in Seq(Types) /\ Len(kids) \in Nat
  BY ChildrenAssumption
<1>4. top \in Info
  BY DEF Info
<1>5. kin \in Seq(Info) /\ Len(kin) = Len(kids)
  <2>1. \A i \in 1..Len(kids) : kid(i) \in Info
    BY <1>2, <1>3 DEF Info
  <2> QED BY <2>1, <1>3
<1> HIDE DEF kids, kid, top, kin
<1>6. b \in Seq(Info) /\ Len(b) = base + Len(kids) /\ \A i \in 1..Len(born) : b[i] = born[i]
  BY <1>2, <1>3, <1>4, <1>5
<1> HIDE DEF b
<1>7. Extends(b, born)
  BY <1>2, <1>3, <1>6 DEF Extends
<1>8. base..Len(b) \subseteq 1..Len(b) /\ base \in 1..Len(b)
  BY <1>2, <1>3, <1>6
<1>9. \A i \in 1..Len(b) : b[i] \in Info
  BY <1>6
<1>10. Host \in Clients /\ DOMAIN ents = Clients
  BY DEF Clients, Shape
<1>11. Shape(b)
  BY <1>2, <1>7, ShapeGrows
<1>12. Replica(n, b)
  <2>1. Replica(e, b)
    BY <1>10, <1>11 DEF Shape
  <2>2. \A i \in base..Len(b) : Fresh(b[i], 0) \in Entity /\ Fresh(b[i], 0).info = b[i]
    BY <1>8, <1>9, FreshTyped
  <2> QED BY <2>1, <2>2, <1>8 DEF Replica
<1>13. creations \in Seq(Downs(b))
  <2>1. \A i \in 1..Len(b) : Creation(i, b[i]) \in Downs(b)
    BY <1>9 DEF Creation, Downs
  <2>2. \A i \in 1..Len(kids) : base + i \in 1..Len(b)
    BY <1>2, <1>3, <1>6
  <2>3. [i \in 1..Len(kids) |-> Creation(base + i, b[base + i])] \in Seq(Downs(b))
    BY <2>1, <2>2, <1>3
  <2>4. <<Creation(base, b[base])>> \in Seq(Downs(b))
    BY <2>1, <1>8
  <2> QED BY <2>3, <2>4
<1> HIDE DEF creations, n
<1>14. down' \in [Remotes -> Seq(Downs(b))]
  BY <1>1, <1>11, <1>13, SendTyped DEF Shape
<1>15. \A c \in Clients : Replica(ents'[c], b)
  BY <1>1, <1>10, <1>11, <1>12 DEF Shape
<1> QED BY <1>1, <1>7, <1>10, <1>14, <1>15

LEMMA OrderedTyped ==
  ASSUME NEW b \in Seq(Info), NEW S, S \subseteq 1..Len(b),
         NEW ids \in Ascending(S) \cup Descending(S)
  PROVE  ids \in Seq(S)
<1>1. Cardinality(S) \in Nat
  <2>1. Len(b) \in Nat
    OBVIOUS
  <2>2. IsFiniteSet(1..Len(b))
    BY <2>1, FS_Interval
  <2>3. IsFiniteSet(S)
    BY <2>2, FS_Subset
  <2> QED BY <2>3, FS_CardinalityType
<1>2. ids \in [1..Cardinality(S) -> S]
  BY DEF Ascending, Descending
<1> QED BY <1>1, <1>2

(* What is read out of a replica, entity by entity, is well typed.         *)
LEMMA ReadOutTyped ==
  ASSUME NEW b \in Seq(Info), NEW e, Replica(e, b), NEW S, S \subseteq DOMAIN e, NEW ids \in Seq(S)
  PROVE  /\ [i \in 1..Len(ids) |-> Snapshot(ids[i], e[ids[i]])] \in Seq(Downs(b))
         /\ [i \in 1..Len(ids) |-> Update(ids[i], e[ids[i]])] \in Seq(Downs(b))
         /\ [i \in 1..Len(ids) |-> Update(ids[i], e[ids[i]])] \in Seq(Ups(b))
         /\ [i \in 1..Len(ids) |-> Deletion(ids[i])] \in Seq(Downs(b))
         /\ [i \in 1..Len(ids) |-> Deletion(ids[i])] \in Seq(Ups(b))
<1>1. \A j \in DOMAIN e : j \in 1..Len(b) /\ e[j] \in Entity /\ e[j].info = b[j]
  BY DEF Replica
<1>2. \A j \in DOMAIN e : /\ Snapshot(j, e[j]) \in Downs(b)
                          /\ Update(j, e[j]) \in Downs(b)
                          /\ Update(j, e[j]) \in Ups(b)
                          /\ Deletion(j) \in Downs(b)
                          /\ Deletion(j) \in Ups(b)
  BY <1>1, PacketsTyped, DeletionTyped
<1>3. Len(ids) \in Nat /\ \A i \in 1..Len(ids) : ids[i] \in DOMAIN e
  OBVIOUS
<1> QED BY <1>2, <1>3

LEMMA HandlingTyped ==
  ASSUME Inv, NEW r \in Remotes, NEW m, Handling(r, m)
  PROVE  /\ m \in Ups(born)
         /\ packets' \in Seq(Forwarded(born))
         /\ UNCHANGED <<link, up, net, connected, phase, calls>>
<1>1. packets \in Seq(Forwarded(born)) /\ packets # <<>>
  BY DEF Inv, Shape, Handling
<1>2. Head(packets) \in Forwarded(born) /\ Tail(packets) \in Seq(Forwarded(born))
  BY <1>1
<1> QED BY <1>2 DEF Handling, Forwarded

(* The parts of the invariant that most of the steps leave alone.          *)
LEMMA KeptParts ==
  ASSUME Inv, born' = born
  PROVE  /\ up' = up => up' \in [Remotes -> Seq(Ups(born'))]
         /\ down' = down => down' \in [Remotes -> Seq(Downs(born'))]
         /\ net' = net => net' \in Seq(Forwarded(born'))
         /\ packets' = packets => packets' \in Seq(Forwarded(born'))
         /\ ghosts' = ghosts => ghosts' \subseteq Remotes \X (1..Len(born'))
         /\ ents' = ents => DOMAIN ents' = Clients /\ \A c \in Clients : Replica(ents'[c], born')
         /\ UNCHANGED <<link, connected, phase, joined, calls>> => Frame'
  BY DEF Inv, Shape, Frame

LEMMA OneReplica ==
  ASSUME Inv, NEW c \in Clients, NEW n, Replica(n, born), ents' = [ents EXCEPT ![c] = n]
  PROVE  DOMAIN ents' = Clients /\ \A d \in Clients : Replica(ents'[d], born)
  BY DEF Inv, Shape

-----------------------------------------------------------------------------
(* One lemma for each action or group of similar ones.                     *)

LEMMA HostReplica == ASSUME Inv PROVE /\ Host \in Clients /\ Remotes \subseteq Clients
                                     /\ \A c \in Clients : Replica(ents[c], born)
                                     /\ born \in Seq(Info)
  BY DEF Inv, Shape, Frame, Clients

LEMMA JoinStep ==
  ASSUME Inv, NEW r \in Remotes, Join(r)
  PROVE  Inv'
<1>1. <<Connected>> \in Seq(Ups(born))
  BY DEF Ups
<1>2. up' \in [Remotes -> Seq(Ups(born'))]
  BY <1>1 DEF Inv, Shape, Join
<1>3. Frame'
  BY DEF Inv, Frame, Join
<1> QED BY <1>2, <1>3, KeptParts DEF Inv, Shape, Join

LEMMA LeaveStep ==
  ASSUME Inv, NEW r \in Remotes, Leave(r)
  PROVE  Inv'
<1>1. PICK k \in 0..Len(up[r]) : up' = [up EXCEPT ![r] = Append(SubSeq(@, 1, k), Disconnected)]
  BY DEF Leave
<1>2. up[r] \in Seq(Ups(born)) /\ Disconnected \in Ups(born)
  BY DEF Inv, Shape, Ups
<1>3. Append(SubSeq(up[r], 1, k), Disconnected) \in Seq(Ups(born))
  BY <1>2
<1>4. up' \in [Remotes -> Seq(Ups(born'))]
  BY <1>1, <1>3 DEF Inv, Shape, Leave
<1>5. down' \in [Remotes -> Seq(Downs(born'))]
  BY DEF Inv, Shape, Leave
<1>6. DOMAIN ents' = Clients /\ \A c \in Clients : Replica(ents'[c], born')
  BY HostReplica, EmptyReplica, OneReplica DEF Leave
<1>7. Frame'
  BY DEF Inv, Frame, Leave
<1> QED BY <1>4, <1>5, <1>6, <1>7, KeptParts DEF Inv, Shape, Leave

LEMMA NetStep ==
  ASSUME Inv, NetPush \/ \E r \in Remotes : NetConsume(r)
  PROVE  Inv'
<1>1. CASE NetPush
  <2>1. packets' \in Seq(Forwarded(born)) /\ net' \in Seq(Forwarded(born)) /\ born' = born
    BY <1>1 DEF Inv, Shape, NetPush
  <2> QED BY <2>1, <1>1, KeptParts DEF Inv, Shape, NetPush
<1>2. ASSUME NEW r \in Remotes, NetConsume(r) PROVE Inv'
  <2>1. up[r] \in Seq(Ups(born)) /\ up[r] # <<>>
    BY <1>2 DEF Inv, Shape, NetConsume
  <2>2. Head(up[r]) \in Ups(born) /\ Tail(up[r]) \in Seq(Ups(born))
    BY <2>1
  <2>3. net' \in Seq(Forwarded(born)) /\ up' \in [Remotes -> Seq(Ups(born))] /\ born' = born
    BY <2>2, <1>2 DEF Inv, Shape, Forwarded, NetConsume
  <2>4. connected' \subseteq Remotes
    BY <1>2 DEF Inv, Frame, NetConsume
  <2>5. Frame'
    BY <2>4, <1>2 DEF Inv, Frame, NetConsume
  <2> QED BY <2>3, <2>5, <1>2, KeptParts DEF Inv, Shape, NetConsume
<1> QED BY <1>1, <1>2

LEMMA HandleConnectedStep ==
  ASSUME Inv, NEW r \in Remotes, HandleConnected(r)
  PROVE  Inv'
<1> DEFINE e == ents[Host]
           b == born
<1>1. Replica(e, b) /\ b \in Seq(Info) /\ DOMAIN e \subseteq 1..Len(b)
  BY HostReplica DEF Replica
<1>2. packets' \in Seq(Forwarded(b)) /\ UNCHANGED <<link, up, net, connected, phase, calls>>
  BY HandlingTyped DEF HandleConnected
<1>3. PICK q \in Snapshots : Send({r}, q)
  BY DEF HandleConnected
<1>4. PICK ids \in Descending(DOMAIN e) : q = [i \in 1..Len(ids) |-> Snapshot(ids[i], e[ids[i]])]
  BY DEF Snapshots, SnapshotsOf
<1>5. ids \in Seq(DOMAIN e)
  BY <1>1, OrderedTyped
<1>6. q \in Seq(Downs(b))
  BY <1>1, <1>4, <1>5, ReadOutTyped
<1>7. down' \in [Remotes -> Seq(Downs(b))]
  BY <1>3, <1>6, SendTyped DEF Inv, Shape
<1>8. ghosts' \subseteq Remotes \X (1..Len(b))
  BY <1>1 DEF HandleConnected, Marked, Inv, Shape
<1>9. born' = b /\ ents' = ents /\ joined' \subseteq Remotes
  BY DEF HandleConnected, Inv, Frame
<1> HIDE DEF b
<1>10. Frame'
  BY <1>2, <1>9 DEF Inv, Frame, b
<1> QED BY <1>2, <1>7, <1>8, <1>9, <1>10, KeptParts DEF Inv, Shape, b

LEMMA HandleDisconnectedStep ==
  ASSUME Inv, NEW r \in Remotes, HandleDisconnected(r)
  PROVE  Inv'
<1>1. packets' \in Seq(Forwarded(born)) /\ UNCHANGED <<link, up, net, connected, phase, calls>>
  BY HandlingTyped DEF HandleDisconnected
<1>2. UNCHANGED <<ents, born, down, ghosts>> /\ joined' \subseteq Remotes
  BY DEF HandleDisconnected, Inv, Frame
<1>3. Frame'
  BY <1>1, <1>2 DEF Inv, Frame
<1> QED BY <1>1, <1>2, <1>3, KeptParts DEF Inv, Shape

LEMMA HandleRequestStep ==
  ASSUME Inv, NEW r \in Remotes, HandleRequest(r)
  PROVE  Inv'
<1>1. PICK t \in Types : /\ Handling(r, CreateRequest(t)) /\ CreateNetworked(t, r)
                         /\ UNCHANGED <<joined, ghosts>>
  BY DEF HandleRequest
<1>2. packets' \in Seq(Forwarded(born)) /\ UNCHANGED <<link, up, net, connected, phase, calls>>
  BY <1>1, HandlingTyped
<1>3. /\ Extends(born', born)
      /\ DOMAIN ents' = Clients
      /\ \A c \in Clients : Replica(ents'[c], born')
      /\ down' \in [Remotes -> Seq(Downs(born'))]
  BY <1>1, HostReplica, CreateStep DEF Inv
<1>4. born \in Seq(Info) /\ Shape(born')
  BY <1>3, ShapeGrows DEF Inv, Frame
<1>5. packets' \in Seq(Forwarded(born'))
  BY <1>2, <1>3, <1>4, PacketsGrow, SeqGrows
<1>6. Frame'
  BY <1>1, <1>2, <1>3 DEF Inv, Frame, Extends
<1> QED BY <1>1, <1>2, <1>3, <1>4, <1>5, <1>6 DEF Inv, Shape

LEMMA HandleUpdateStep ==
  ASSUME Inv, NEW r \in Remotes, HandleUpdate(r)
  PROVE  Inv'
<1> DEFINE m == Head(packets).msg
<1>1. /\ m.kind = "update" /\ Handling(r, m) /\ Send(OtherClients(r), <<m>>)
      /\ ents' = [ents EXCEPT ![Host] = Apply(@, m)]
      /\ UNCHANGED <<born, joined, ghosts>>
  BY DEF HandleUpdate
<1> HIDE DEF m
<1>2. /\ m \in Ups(born) /\ packets' \in Seq(Forwarded(born))
      /\ UNCHANGED <<link, up, net, connected, phase, calls>>
  BY <1>1, HandlingTyped
<1>3. m \in Downs(born)
  BY <1>1, <1>2, HostReplica, UpdatesGoDown
<1>4. <<m>> \in Seq(Downs(born))
  BY <1>3
<1>5. down' \in [Remotes -> Seq(Downs(born))]
  BY <1>1, <1>4, SendTyped DEF Inv, Shape
<1>6. Replica(Apply(ents[Host], m), born)
  BY <1>3, HostReplica, ApplyReplica
<1>7. DOMAIN ents' = Clients /\ \A c \in Clients : Replica(ents'[c], born)
  BY <1>1, <1>6, HostReplica, OneReplica
<1>8. Frame'
  BY <1>1, <1>2 DEF Inv, Frame
<1> QED BY <1>1, <1>2, <1>5, <1>7, <1>8, KeptParts DEF Inv, Shape

(* Deletions of some of the host's entities are sent.                      *)
LEMMA BroadcastTyped ==
  ASSUME Inv, NEW ids \in Seq(DOMAIN ents[Host]), BroadcastDeletions(ids)
  PROVE  down' \in [Remotes -> Seq(Downs(born))]
<1>1. [i \in 1..Len(ids) |-> Deletion(ids[i])] \in Seq(Downs(born))
  BY HostReplica, ReadOutTyped
<1> QED BY <1>1, SendTyped DEF BroadcastDeletions, Inv, Shape

LEMMA HandleDeletionStep ==
  ASSUME Inv, NEW r \in Remotes, HandleDeletion(r)
  PROVE  Inv'
<1>1. PICK i \in IDs :
        /\ Handling(r, Deletion(i))
        /\ IF i \in DOMAIN ents[Host] /\ ents[Host][i].info.owner = r
           THEN /\ BroadcastDeletions(<<i>>)
                /\ ents' = [ents EXCEPT ![Host] = MarkIn(@, {i})]
           ELSE UNCHANGED <<ents, down>>
        /\ UNCHANGED <<born, joined, ghosts>>
  BY DEF HandleDeletion
<1>2. packets' \in Seq(Forwarded(born)) /\ UNCHANGED <<link, up, net, connected, phase, calls>>
  BY <1>1, HandlingTyped
<1>3. Frame'
  BY <1>1, <1>2 DEF Inv, Frame
<1>4. CASE i \in DOMAIN ents[Host] /\ ents[Host][i].info.owner = r
  <2>1. <<i>> \in Seq(DOMAIN ents[Host])
    BY <1>4, OneElement
  <2>2. down' \in [Remotes -> Seq(Downs(born))]
    BY <1>1, <1>4, <2>1, BroadcastTyped
  <2>3. Replica(MarkIn(ents[Host], {i}), born)
    BY HostReplica, MarkReplica
  <2>4. DOMAIN ents' = Clients /\ \A c \in Clients : Replica(ents'[c], born)
    BY <1>1, <1>4, <2>3, HostReplica, OneReplica
  <2> QED BY <1>1, <1>2, <1>3, <2>2, <2>4, KeptParts DEF Inv, Shape
<1>5. CASE ~(i \in DOMAIN ents[Host] /\ ents[Host][i].info.owner = r)
  BY <1>1, <1>2, <1>3, <1>5, KeptParts DEF Inv, Shape
<1> QED BY <1>4, <1>5

LEMMA StartDrainStep ==
  ASSUME Inv, StartDrain
  PROVE  Inv'
<1>1. Frame'
  BY DEF Inv, Frame, StartDrain
<1> QED BY <1>1, KeptParts DEF Inv, Shape, StartDrain

LEMMA EndDrainStep ==
  ASSUME Inv, EndDrain
  PROVE  Inv'
<1> DEFINE own == {i \in DOMAIN ents[Host] : ents[Host][i].info.owner = Host}
<1>1. Frame'
  BY DEF Inv, Frame, EndDrain, Call
<1>2. CASE UNCHANGED down
  BY <1>1, <1>2, KeptParts DEF Inv, Shape, EndDrain
<1>3. CASE \E ids \in Ascending(own) :
             Send(connected, [i \in 1..Len(ids) |-> Update(ids[i], ents[Host][ids[i]])])
  <2>1. PICK ids \in Ascending(own) :
          Send(connected, [i \in 1..Len(ids) |-> Update(ids[i], ents[Host][ids[i]])])
    BY <1>3
  <2>2. own \subseteq DOMAIN ents[Host] /\ own \subseteq 1..Len(born)
    BY HostReplica DEF Replica
  <2> HIDE DEF own
  <2>3. ids \in Seq(own)
    BY <2>2, HostReplica, OrderedTyped
  <2>4. [i \in 1..Len(ids) |-> Update(ids[i], ents[Host][ids[i]])] \in Seq(Downs(born))
    BY <2>2, <2>3, HostReplica, ReadOutTyped
  <2>5. down' \in [Remotes -> Seq(Downs(born))]
    BY <2>1, <2>4, SendTyped DEF Inv, Shape
  <2> QED BY <1>1, <2>5, KeptParts DEF Inv, Shape, EndDrain
<1> QED BY <1>2, <1>3 DEF EndDrain

LEMMA SceneUpdateStep ==
  ASSUME Inv, SceneUpdate
  PROVE  Inv'
<1> DEFINE e == ents[Host]
           lost == Orphans(e)
<1>1. PICK ids \in Ascending(lost) : BroadcastDeletions(ids)
  BY DEF SceneUpdate
<1>2. lost \subseteq DOMAIN e /\ lost \subseteq 1..Len(born)
  BY HostReplica DEF Replica, Orphans
<1> HIDE DEF lost
<1>3. ids \in Seq(lost)
  BY <1>2, HostReplica, OrderedTyped
<1>4. down' \in [Remotes -> Seq(Downs(born))]
  BY <1>1, <1>2, <1>3, SeqGrows, BroadcastTyped
<1>5. Replica(Erase(e, Marked(e) \cup lost), born)
  BY HostReplica, EraseReplica
<1>6. DOMAIN ents' = Clients /\ \A c \in Clients : Replica(ents'[c], born)
  BY <1>5, HostReplica, OneReplica DEF SceneUpdate, lost
<1>7. Frame'
  BY DEF Inv, Frame, SceneUpdate
<1> QED BY <1>4, <1>6, <1>7, KeptParts DEF Inv, Shape, SceneUpdate

LEMMA HostCreateStep ==
  ASSUME Inv, HostCreate
  PROVE  Inv'
<1>1. PICK t \in Types, owner \in {Host} \cup joined : CreateNetworked(t, owner)
  BY DEF HostCreate
<1>2. owner \in Clients
  BY HostReplica DEF Inv, Frame
<1>3. /\ Extends(born', born)
      /\ DOMAIN ents' = Clients
      /\ \A c \in Clients : Replica(ents'[c], born')
      /\ down' \in [Remotes -> Seq(Downs(born'))]
  BY <1>1, <1>2, CreateStep DEF Inv
<1>4. Shape(born')
  BY <1>3, ShapeGrows DEF Inv, Frame
<1>5. Frame'
  BY <1>3 DEF Inv, Frame, Extends, HostCreate, Call
<1> QED BY <1>3, <1>4, <1>5 DEF Inv, Shape, HostCreate

LEMMA HostDeleteStep ==
  ASSUME Inv, HostDelete
  PROVE  Inv'
<1>1. PICK i \in DOMAIN ents[Host] : /\ BroadcastDeletions(<<i>>)
                                     /\ ents' = [ents EXCEPT ![Host] = MarkIn(@, {i})]
  BY DEF HostDelete
<1>2. <<i>> \in Seq(DOMAIN ents[Host])
  BY OneElement
<1>3. down' \in [Remotes -> Seq(Downs(born))]
  BY <1>1, <1>2, BroadcastTyped
<1>4. Replica(MarkIn(ents[Host], {i}), born)
  BY HostReplica, MarkReplica
<1>5. DOMAIN ents' = Clients /\ \A c \in Clients : Replica(ents'[c], born)
  BY <1>1, <1>4, HostReplica, OneReplica
<1>6. Frame'
  BY DEF Inv, Frame, HostDelete, Call
<1> QED BY <1>3, <1>5, <1>6, KeptParts DEF Inv, Shape, HostDelete

LEMMA MutateStep ==
  ASSUME Inv, NEW c \in Clients, Mutate(c)
  PROVE  Inv'
<1>1. PICK i \in DOMAIN ents[c] : ents' = [ents EXCEPT ![c][i].val = @ + 1]
  BY DEF Mutate
<1> DEFINE n == [ents[c] EXCEPT ![i].val = ents[c][i].val + 1]
<1>2. Replica(ents[c], born) /\ ents[c][i] \in Entity
  BY HostReplica DEF Replica
<1>3. ents[c][i].val + 1 \in Nat
  BY <1>2, EntityFields
<1>4. Replica(n, born)
  BY <1>2, <1>3, HostReplica, ValueReplica, Zenon
<1>5. ents' = [ents EXCEPT ![c] = n]
  BY <1>1
<1> HIDE DEF n
<1>6. DOMAIN ents' = Clients /\ \A d \in Clients : Replica(ents'[d], born)
  BY <1>4, <1>5, OneReplica
<1>7. Frame'
  BY DEF Inv, Frame, Mutate, Call
<1> QED BY <1>6, <1>7, KeptParts DEF Inv, Shape, Mutate

LEMMA RemoteHandleStep ==
  ASSUME Inv, NEW r \in Remotes, RemoteHandle(r)
  PROVE  Inv'
<1>1. down[r] \in Seq(Downs(born)) /\ down[r] # <<>>
  BY DEF Inv, Shape, RemoteHandle
<1>2. Head(down[r]) \in Downs(born) /\ Tail(down[r]) \in Seq(Downs(born))
  BY <1>1
<1>3. down' \in [Remotes -> Seq(Downs(born))]
  BY <1>2 DEF Inv, Shape, RemoteHandle
<1>4. Replica(Apply(ents[r], Head(down[r])), born)
  BY <1>2, HostReplica, ApplyReplica
<1>5. DOMAIN ents' = Clients /\ \A c \in Clients : Replica(ents'[c], born)
  BY <1>4, HostReplica, OneReplica DEF RemoteHandle
<1>6. Frame'
  BY DEF Inv, Frame, RemoteHandle
<1> QED BY <1>3, <1>5, <1>6, KeptParts DEF Inv, Shape, RemoteHandle

LEMMA RemoteSendTyped ==
  ASSUME Inv, NEW r \in Remotes, NEW q \in Seq(Ups(born)), RemoteSend(r, q)
  PROVE  /\ up' \in [Remotes -> Seq(Ups(born))]
         /\ UNCHANGED <<born, link, down, net, connected, packets, phase, joined, ghosts>>
  BY DEF Inv, Shape, RemoteSend

(* A remote client's step that sends q.                                    *)
LEMMA RemoteStep ==
  ASSUME Inv, NEW r \in Remotes, NEW q \in Seq(Ups(born)), RemoteSend(r, q), calls' \in Nat,
         DOMAIN ents' = Clients, \A c \in Clients : Replica(ents'[c], born)
  PROVE  Inv'
<1>1. /\ up' \in [Remotes -> Seq(Ups(born))]
      /\ UNCHANGED <<born, link, down, net, connected, packets, phase, joined, ghosts>>
  BY RemoteSendTyped
<1>2. Frame'
  BY <1>1 DEF Inv, Frame
<1> QED BY <1>1, <1>2, KeptParts DEF Inv, Shape

LEMMA CallCounted == ASSUME Inv, NEW op, Call(op) PROVE calls' \in Nat
  BY DEF Inv, Frame, Call

LEMMA RemoteUpdateStep ==
  ASSUME Inv, NEW r \in Remotes, RemoteUpdate(r)
  PROVE  Inv'
<1> DEFINE e == ents[r]
           lost == Orphans(e)
<1>1. PICK ids \in Ascending(lost) : RemoteSend(r, [i \in 1..Len(ids) |-> Deletion(ids[i])])
  BY DEF RemoteUpdate
<1>2. Replica(e, born) /\ born \in Seq(Info)
  BY HostReplica
<1>3. lost \subseteq DOMAIN e /\ lost \subseteq 1..Len(born)
  BY <1>2 DEF Replica, Orphans
<1> HIDE DEF lost, e
<1>4. ids \in Seq(lost)
  BY <1>2, <1>3, OrderedTyped
<1>5. [i \in 1..Len(ids) |-> Deletion(ids[i])] \in Seq(Ups(born))
  BY <1>2, <1>3, <1>4, ReadOutTyped
<1>6. Replica(Erase(e, Marked(e)), born)
  BY <1>2, EraseReplica
<1>7. DOMAIN ents' = Clients /\ \A c \in Clients : Replica(ents'[c], born)
  BY <1>6, HostReplica, OneReplica DEF RemoteUpdate, e
<1>8. calls' \in Nat
  BY DEF RemoteUpdate, Inv, Frame
<1> QED BY <1>1, <1>5, <1>7, <1>8, RemoteStep

LEMMA RemoteTickStep ==
  ASSUME Inv, NEW r \in Remotes, RemoteTick(r)
  PROVE  Inv'
<1> DEFINE own == {i \in DOMAIN ents[r] : ents[r][i].info.owner = r}
<1>1. PICK ids \in Ascending(own) : RemoteSend(r, [i \in 1..Len(ids) |-> Update(ids[i], ents[r][ids[i]])])
  BY DEF RemoteTick
<1>2. Replica(ents[r], born) /\ born \in Seq(Info)
  BY HostReplica
<1>3. own \subseteq DOMAIN ents[r] /\ own \subseteq 1..Len(born)
  BY <1>2 DEF Replica
<1> HIDE DEF own
<1>4. ids \in Seq(own)
  BY <1>2, <1>3, OrderedTyped
<1>5. [i \in 1..Len(ids) |-> Update(ids[i], ents[r][ids[i]])] \in Seq(Ups(born))
  BY <1>2, <1>3, <1>4, ReadOutTyped
<1>6. ents' = ents /\ calls' \in Nat
  BY CallCounted DEF RemoteTick
<1> QED BY <1>1, <1>5, <1>6, RemoteStep DEF Inv, Shape

LEMMA RemoteCreateStep ==
  ASSUME Inv, NEW r \in Remotes, RemoteCreate(r)
  PROVE  Inv'
<1>1. PICK t \in Types :
        RemoteSend(r, Append([i \in 1..Len(Children[t]) |-> CreateRequest(Children[t][i])], CreateRequest(t)))
  BY DEF RemoteCreate
<1>2. Children[t] \in Seq(Types)
  BY ChildrenAssumption
<1> DEFINE q == [i \in 1..Len(Children[t]) |-> CreateRequest(Children[t][i])]
<1>3. \A u \in Types : CreateRequest(u) \in Ups(born)
  BY DEF Ups
<1>4. q \in Seq(Ups(born))
  BY <1>2, <1>3
<1> HIDE DEF q
<1>5. Append(q, CreateRequest(t)) \in Seq(Ups(born))
  BY <1>3, <1>4
<1>6. ents' = ents /\ calls' \in Nat
  BY CallCounted DEF RemoteCreate
<1> QED BY <1>1, <1>5, <1>6, RemoteStep DEF Inv, Shape, q

LEMMA RemoteDeleteStep ==
  ASSUME Inv, NEW r \in Remotes, RemoteDelete(r)
  PROVE  Inv'
<1>1. PICK i \in DOMAIN ents[r] : RemoteSend(r, <<Deletion(i)>>)
  BY DEF RemoteDelete
<1>2. Deletion(i) \in Ups(born)
  BY HostReplica, DeletionTyped DEF Replica
<1>3. <<Deletion(i)>> \in Seq(Ups(born))
  BY <1>2, OneElement
<1>4. ents' = ents /\ calls' \in Nat
  BY CallCounted DEF RemoteDelete
<1> QED BY <1>1, <1>3, <1>4, RemoteStep DEF Inv, Shape

-----------------------------------------------------------------------------
LEMMA InitInv == Init => Inv
<1> SUFFICES ASSUME Init PROVE Inv
  OBVIOUS
<1>1. Frame
  BY DEF Init, Frame
<1>2. ASSUME NEW c \in Clients PROVE Replica(ents[c], born)
  <2>1. ents[c] = <<>> /\ born \in Seq(Info)
    BY DEF Init
  <2> QED BY <2>1, EmptyReplica
<1> QED BY <1>1, <1>2 DEF Init, Inv, Shape

LEMMA StutterStep == ASSUME Inv, UNCHANGED vars PROVE Inv'
<1>1. Frame'
  BY DEF vars, Inv, Frame
<1> QED BY <1>1, KeptParts DEF vars, Inv, Shape

LEMMA NextInv == Inv /\ [Next]_vars => Inv'
<1> SUFFICES ASSUME Inv, [Next]_vars PROVE Inv'
  OBVIOUS
<1>1. CASE NetPush \/ \E r \in Remotes : NetConsume(r)
  BY <1>1, NetStep
<1>2. CASE StartDrain
  BY <1>2, StartDrainStep
<1>3. CASE HostHandle
  BY <1>3, HandleConnectedStep, HandleDisconnectedStep, HandleRequestStep, HandleUpdateStep,
     HandleDeletionStep DEF HostHandle
<1>4. CASE EndDrain
  BY <1>4, EndDrainStep
<1>5. CASE SceneUpdate
  BY <1>5, SceneUpdateStep
<1>6. CASE HostCreate
  BY <1>6, HostCreateStep
<1>7. CASE HostDelete
  BY <1>7, HostDeleteStep
<1>8. ASSUME NEW c \in Clients, Mutate(c) PROVE Inv'
  BY <1>8, MutateStep
<1>9. ASSUME NEW r \in Remotes,
             Join(r) \/ Leave(r) \/ RemoteHandle(r) \/ RemoteUpdate(r) \/ RemoteTick(r)
               \/ RemoteCreate(r) \/ RemoteDelete(r)
      PROVE  Inv'
  BY <1>9, JoinStep, LeaveStep, RemoteHandleStep, RemoteUpdateStep, RemoteTickStep,
     RemoteCreateStep, RemoteDeleteStep
<1>10. CASE UNCHANGED vars
  BY <1>10, StutterStep
<1> QED BY <1>1, <1>2, <1>3, <1>4, <1>5, <1>6, <1>7, <1>8, <1>9, <1>10, HostReplica DEF Next

(* Every ID and every EntityInfo that a replica or a packet mentions is    *)
(* one that the server has assigned, whatever the handlers, snapshots,     *)
(* forwards and client requests (Scenegraph.cpp 50-278, 365-456).          *)
THEOREM TypeCorrect == Spec => []TypeOK
<1>1. Spec => []Inv
  BY InitInv, NextInv, PTL DEF Spec
<1> QED BY <1>1, TypeOKIsInv, PTL

LEMMA AgreeInBorn == TypeOK => ReplicasAgree
  BY DEF TypeOK, IsReplica, ReplicasAgree

(* Two replicas that hold the same ID hold the same entity, so that the    *)
(* comparisons of EntityInfo (Scenegraph.cpp 83, 192, 220) never silence   *)
(* one of them: for any number of clients, calls and leavers.              *)
THEOREM ReplicasAgreeTheorem == Spec => []ReplicasAgree
  BY TypeCorrect, AgreeInBorn, PTL

-----------------------------------------------------------------------------
(***************************************************************************)
(* The proof that nothing the network brings sets back the state of an     *)
(* entity in its owner's replica, for any number of clients and any types. *)
(*                                                                         *)
(* The argument.  What could set it back is a snapshot, an update or a     *)
(* second creation.  No snapshot does: it is taken when the client's       *)
(* CONNECTED is handled, which comes before everything else of that client *)
(* (Arrivals), so the client owns nothing yet.  No update does: a client   *)
(* sends updates of its own entities only, and they are not sent back to   *)
(* it.  And each ID is created once (Departures).                          *)
(***************************************************************************)

(* What the clients have sent and the main thread has not handled, as far  *)
(* as it has left their own channels, oldest first.                        *)
Way == packets \o net

(* r's CONNECTED is still to come or to be handled.                        *)
Waiting(r) ==
  \/ link[r] = "out"
  \/ \E k \in DOMAIN up[r] : up[r][k].kind = "connected"
  \/ \E k \in DOMAIN Way : Way[k].from = r /\ Way[k].msg.kind = "connected"

(* CONNECTED is the first thing that comes of a client, and once.          *)
ConnectedFirst(r) ==
  /\ link[r] = "out" => up[r] = <<>> /\ \A j \in DOMAIN Way : Way[j].from # r
  /\ \A k \in DOMAIN up[r] : up[r][k].kind = "connected" =>
       k = 1 /\ \A j \in DOMAIN Way : Way[j].from # r
  /\ \A j, k \in DOMAIN Way :
       Way[j].from = r /\ Way[k].from = r /\ Way[k].msg.kind = "connected" => k <= j

(* Until it has been handled, the client can own nothing.                  *)
OwnsNothingBefore(r) ==
  Waiting(r) => r \notin joined /\ \A i \in 1..Len(born) : born[i].owner # r

(* A client sends updates of its own entities only.                        *)
SendsOwnUpdates(r) ==
  /\ \A k \in DOMAIN up[r] : up[r][k].kind = "update" => up[r][k].info.owner = r
  /\ \A k \in DOMAIN Way :
       Way[k].from = r /\ Way[k].msg.kind = "update" => Way[k].msg.info.owner = r

Arrivals == \A r \in Remotes : ConnectedFirst(r) /\ OwnsNothingBefore(r) /\ SendsOwnUpdates(r)

SetsState(m) == m.kind \in {"create", "snapshot", "update"}

(* Of the packets under way to r, d, that set the state of what r owns,    *)
(* there is only the one creation, which finds nothing in the replica e.   *)
OwnOnce(e, d, r) ==
  \A k \in DOMAIN d : SetsState(d[k]) /\ d[k].info.owner = r =>
    /\ d[k].kind = "create" /\ d[k].id \notin DOMAIN e
    /\ \A j \in DOMAIN d : d[j].kind = "create" /\ d[j].id = d[k].id => j = k

Departures == \A r \in Remotes : OwnOnce(ents[r], down[r], r)

Keeps(c) ==
  \A i \in DOMAIN ents[c] \cap DOMAIN ents'[c] :
    ents[c][i].info.owner = c => ents'[c][i].val >= ents[c][i].val

(* What is to be shown of every step.                                      *)
Kept == Arrivals' /\ Departures' /\ \A c \in Clients : Keeps(c)

-----------------------------------------------------------------------------
(* The packets on their way to the main thread.                            *)

LEMMA WayTyped ==
  ASSUME Inv
  PROVE  /\ Way \in Seq(Forwarded(born))
         /\ packets \in Seq(Forwarded(born)) /\ net \in Seq(Forwarded(born))
         /\ \A r \in Remotes : up[r] \in Seq(Ups(born)) /\ down[r] \in Seq(Downs(born))
         /\ born \in Seq(Info) /\ connected \subseteq Remotes /\ joined \subseteq Remotes
         /\ link \in [Remotes -> {"out", "in", "gone"}]
         /\ up \in [Remotes -> Seq(Ups(born))]
  BY DEF Inv, Shape, Frame, Way

LEMMA OneTaken ==
  ASSUME Inv, packets # <<>>, packets' = Tail(packets), net' = net
  PROVE  /\ DOMAIN Way = 1..Len(Way) /\ Len(Way) \in Nat \ {0}
         /\ Way[1] = packets[1] /\ 1 \in DOMAIN Way
         /\ \A k \in DOMAIN Way' :
              k \in Nat /\ k >= 1 /\ k + 1 \in DOMAIN Way /\ Way'[k] = Way[k + 1]
<1> DEFINE P == Forwarded(born)
           t == Tail(packets)
<1>1. packets \in Seq(P) /\ net \in Seq(P)
  BY WayTyped
<1> HIDE DEF P
<1>2. /\ t \in Seq(P) /\ Len(t) = Len(packets) - 1
      /\ \A k \in 1..(Len(packets) - 1) : t[k] = packets[k + 1]
      /\ Len(packets) \in Nat \ {0} /\ Len(net) \in Nat
  BY <1>1
<1>3. Way = packets \o net /\ Way' = t \o net
  BY DEF Way
<1> HIDE DEF t
<1>4. /\ Way \in Seq(P) /\ Len(Way) = Len(packets) + Len(net)
      /\ DOMAIN Way = 1..(Len(packets) + Len(net))
      /\ \A k \in DOMAIN Way :
           Way[k] = IF k <= Len(packets) THEN packets[k] ELSE net[k - Len(packets)]
  BY <1>1, <1>3
<1>5. /\ DOMAIN Way' = 1..(Len(t) + Len(net))
      /\ \A k \in DOMAIN Way' :
           Way'[k] = IF k <= Len(t) THEN t[k] ELSE net[k - Len(t)]
  <2> DEFINE w == Way'
  <2>1. t \in Seq(P) /\ net \in Seq(P) /\ w = t \o net
    BY <1>1, <1>2, <1>3
  <2> HIDE DEF w
  <2>2. /\ DOMAIN w = 1..(Len(t) + Len(net))
        /\ \A k \in DOMAIN w : w[k] = IF k <= Len(t) THEN t[k] ELSE net[k - Len(t)]
    BY <2>1
  <2> QED BY <2>2 DEF w
<1>6. ASSUME NEW k \in DOMAIN Way'
      PROVE  k \in Nat /\ k >= 1 /\ k + 1 \in DOMAIN Way /\ Way'[k] = Way[k + 1]
  <2>1. k \in Nat /\ k >= 1 /\ k + 1 \in DOMAIN Way
    <3>1. k \in 1..(Len(t) + Len(net))
      BY <1>5
    <3>2. Len(t) + Len(net) + 1 = Len(packets) + Len(net)
      BY <1>2
    <3> QED BY <3>1, <3>2, <1>2, <1>4
  <2>2. CASE k <= Len(t)
    <3>1. k + 1 <= Len(packets) /\ k \in 1..(Len(packets) - 1)
      BY <2>1, <2>2, <1>2
    <3>2. Way'[k] = t[k]
      BY <2>2, <1>5
    <3>3. t[k] = packets[k + 1]
      BY <3>1, <1>2
    <3>4. Way[k + 1] = packets[k + 1]
      BY <2>1, <3>1, <1>4
    <3> QED BY <2>1, <3>2, <3>3, <3>4
  <2>3. CASE ~(k <= Len(t))
    <3>1. k - Len(t) = (k + 1) - Len(packets) /\ ~(k + 1 <= Len(packets))
      BY <2>1, <2>3, <1>2
    <3>2. Way'[k] = net[k - Len(t)]
      BY <2>3, <1>5
    <3>3. Way[k + 1] = net[(k + 1) - Len(packets)]
      BY <2>1, <3>1, <1>4
    <3>4. Way'[k] = Way[k + 1]
      BY <3>1, <3>2, <3>3
    <3> QED BY <2>1, <3>4
  <2> QED BY <2>1, <2>2, <2>3
<1>7. \A k \in DOMAIN Way' :
        k \in Nat /\ k >= 1 /\ k + 1 \in DOMAIN Way /\ Way'[k] = Way[k + 1]
  BY ONLY <1>6, Zenon
<1>8. DOMAIN Way = 1..Len(Way) /\ Len(Way) \in Nat \ {0} /\ Way[1] = packets[1] /\ 1 \in DOMAIN Way
  BY <1>2, <1>4
<1> QED BY <1>7, <1>8, Zenon

LEMMA ArrivalsKept ==
  ASSUME Arrivals, UNCHANGED <<link, up, born>>, Way' = Way, joined' \subseteq joined
  PROVE  Arrivals'
  BY DEF Arrivals, ConnectedFirst, OwnsNothingBefore, SendsOwnUpdates, Waiting

(* r's channel grows, by something else than CONNECTED.                    *)
LEMMA ArrivalsSent ==
  ASSUME Inv, Arrivals, NEW r \in Remotes, NEW q \in Seq(Ups(born)), RemoteSend(r, q),
         \A k \in DOMAIN q : /\ q[k].kind # "connected"
                             /\ q[k].kind = "update" => q[k].info.owner = r
  PROVE  Arrivals'
<1>1. /\ link[r] = "in" /\ up' = [up EXCEPT ![r] = up[r] \o q]
      /\ UNCHANGED <<link, born, joined>> /\ Way' = Way
  BY DEF RemoteSend, Way
<1>2. \A s \in Remotes : s # r => up'[s] = up[s]
  BY <1>1, WayTyped
<1>3. /\ up[r] \in Seq(Ups(born)) /\ up'[r] = up[r] \o q
  BY <1>1, WayTyped
<1>4. /\ DOMAIN up'[r] = 1..(Len(up[r]) + Len(q)) /\ DOMAIN up[r] = 1..Len(up[r]) /\ DOMAIN q = 1..Len(q)
      /\ Len(up[r]) \in Nat /\ Len(q) \in Nat
      /\ \A k \in 1..Len(up[r]) : up'[r][k] = up[r][k]
      /\ \A k \in 1..(Len(up[r]) + Len(q)) :
           k > Len(up[r]) => k - Len(up[r]) \in DOMAIN q /\ up'[r][k] = q[k - Len(up[r])]
  BY <1>3
<1>5. ASSUME NEW k \in DOMAIN up'[r]
      PROVE  /\ up'[r][k].kind = "connected" => k \in DOMAIN up[r] /\ up[r][k].kind = "connected"
             /\ up'[r][k].kind = "update" => up'[r][k].info.owner = r
  <2>1. CASE k \in DOMAIN up[r]
    <3>1. up'[r][k] = up[r][k]
      BY <2>1, <1>4
    <3>2. up[r][k].kind = "update" => up[r][k].info.owner = r
      BY <2>1 DEF Arrivals, SendsOwnUpdates
    <3> QED BY <2>1, <3>1, <3>2
  <2>2. CASE k \notin DOMAIN up[r]
    <3>1. k - Len(up[r]) \in DOMAIN q /\ up'[r][k] = q[k - Len(up[r])]
      BY <2>2, <1>4
    <3> QED BY <3>1
  <2> QED BY <2>1, <2>2
<1>6. ASSUME NEW s \in Remotes, s # r
      PROVE  ConnectedFirst(s)' /\ OwnsNothingBefore(s)' /\ SendsOwnUpdates(s)'
  BY <1>1, <1>2, <1>6 DEF Arrivals, ConnectedFirst, OwnsNothingBefore, SendsOwnUpdates, Waiting
<1>7. ConnectedFirst(r)'
  BY <1>1, <1>5 DEF Arrivals, ConnectedFirst
<1>8. OwnsNothingBefore(r)'
  BY <1>1, <1>5 DEF Arrivals, OwnsNothingBefore, Waiting
<1>9. SendsOwnUpdates(r)'
  BY <1>1, <1>5 DEF Arrivals, SendsOwnUpdates
<1> QED BY <1>6, <1>7, <1>8, <1>9 DEF Arrivals

LEMMA ArrivalsJoin ==
  ASSUME Inv, Arrivals, NEW r \in Remotes, Join(r)
  PROVE  Arrivals'
<1>1. /\ link[r] = "out" /\ link' = [link EXCEPT ![r] = "in"] /\ up' = [up EXCEPT ![r] = <<Connected>>]
      /\ UNCHANGED <<born, joined>> /\ Way' = Way
  BY DEF Join, Way
<1>2. \A s \in Remotes : s # r => up'[s] = up[s] /\ link'[s] = link[s]
  BY <1>1, WayTyped
<1>3. up'[r] = <<Connected>> /\ DOMAIN up'[r] = {1} /\ up'[r][1].kind = "connected" /\ link'[r] = "in"
  BY <1>1, WayTyped DEF Connected
<1>4. ASSUME NEW s \in Remotes, s # r
      PROVE  ConnectedFirst(s)' /\ OwnsNothingBefore(s)' /\ SendsOwnUpdates(s)'
  BY <1>1, <1>2, <1>4 DEF Arrivals, ConnectedFirst, OwnsNothingBefore, SendsOwnUpdates, Waiting
<1>5. ConnectedFirst(r) /\ OwnsNothingBefore(r) /\ Waiting(r)
  BY <1>1 DEF Arrivals, Waiting
<1>6. ConnectedFirst(r)' /\ OwnsNothingBefore(r)' /\ SendsOwnUpdates(r)'
  BY <1>1, <1>3, <1>5 DEF ConnectedFirst, OwnsNothingBefore, SendsOwnUpdates
<1> QED BY <1>4, <1>6 DEF Arrivals

LEMMA ArrivalsLeave ==
  ASSUME Inv, Arrivals, NEW r \in Remotes, Leave(r)
  PROVE  Arrivals'
<1>1. PICK n \in 0..Len(up[r]) : up' = [up EXCEPT ![r] = Append(SubSeq(up[r], 1, n), Disconnected)]
  BY DEF Leave
<1>2. /\ link[r] = "in" /\ link' = [link EXCEPT ![r] = "gone"]
      /\ UNCHANGED <<born, joined>> /\ Way' = Way
  BY DEF Leave, Way
<1>3. \A s \in Remotes : s # r => up'[s] = up[s] /\ link'[s] = link[s]
  BY <1>1, <1>2, WayTyped
<1>4. up[r] \in Seq(Ups(born)) /\ up'[r] = Append(SubSeq(up[r], 1, n), Disconnected) /\ link'[r] = "gone"
  BY <1>1, <1>2, WayTyped
<1>5. /\ DOMAIN up'[r] = 1..(n + 1) /\ DOMAIN up[r] = 1..Len(up[r]) /\ n \in Nat /\ n <= Len(up[r])
      /\ \A k \in 1..n : up'[r][k] = up[r][k]
      /\ up'[r][n + 1] = Disconnected /\ Disconnected.kind = "disconnected"
  BY <1>4 DEF Disconnected
<1>6. \A k \in DOMAIN up'[r] : up'[r][k].kind # "disconnected" => k \in DOMAIN up[r] /\ up'[r][k] = up[r][k]
  BY <1>5
<1>7. ASSUME NEW s \in Remotes, s # r
      PROVE  ConnectedFirst(s)' /\ OwnsNothingBefore(s)' /\ SendsOwnUpdates(s)'
  BY <1>2, <1>3, <1>7 DEF Arrivals, ConnectedFirst, OwnsNothingBefore, SendsOwnUpdates, Waiting
<1>8. ConnectedFirst(r)'
  BY <1>2, <1>4, <1>6 DEF Arrivals, ConnectedFirst
<1>9. OwnsNothingBefore(r)'
  BY <1>2, <1>4, <1>6 DEF Arrivals, OwnsNothingBefore, Waiting
<1>10. SendsOwnUpdates(r)'
  BY <1>2, <1>6 DEF Arrivals, SendsOwnUpdates
<1> QED BY <1>7, <1>8, <1>9, <1>10 DEF Arrivals

LEMMA ArrivalsConsumed ==
  ASSUME Inv, Arrivals, NEW r \in Remotes, NetConsume(r)
  PROVE  Arrivals'
<1> DEFINE m == Head(up[r])
           x == [from |-> r, msg |-> m]
           n == Len(Way)
<1>1. /\ net = <<>> /\ net' = <<x>> /\ up[r] # <<>> /\ up' = [up EXCEPT ![r] = Tail(up[r])]
      /\ UNCHANGED <<link, born, joined, packets>>
  BY DEF NetConsume
<1>2. /\ up[r] \in Seq(Ups(born)) /\ up'[r] = Tail(up[r])
      /\ \A s \in Remotes : s # r => up'[s] = up[s]
      /\ m = up[r][1] /\ 1 \in DOMAIN up[r]
  BY <1>1, WayTyped
<1>3. /\ DOMAIN up[r] = 1..Len(up[r]) /\ Len(up[r]) \in Nat
      /\ \A k \in DOMAIN up'[r] : k + 1 \in DOMAIN up[r] /\ up'[r][k] = up[r][k + 1] /\ k + 1 # 1
  BY <1>2
<1>4. Way = packets /\ Way' = Append(Way, x) /\ Way \in Seq(Forwarded(born))
  <2>1. packets \o <<>> = packets
    BY WayTyped
  <2>2. packets \o <<x>> = Append(packets, x)
    BY WayTyped
  <2> QED BY <2>1, <2>2, <1>1, WayTyped DEF Way
<1>5. /\ DOMAIN Way = 1..n /\ n \in Nat /\ DOMAIN Way' = 1..(n + 1)
      /\ \A k \in 1..n : Way'[k] = Way[k]
      /\ Way'[n + 1] = x /\ x.from = r /\ x.msg = m
  BY <1>4
<1> HIDE DEF x, m, n
<1>6. ASSUME NEW s \in Remotes, s # r
      PROVE  ConnectedFirst(s)' /\ OwnsNothingBefore(s)' /\ SendsOwnUpdates(s)'
  <2>1. \A k \in DOMAIN Way' : Way'[k].from = s => k \in DOMAIN Way /\ Way'[k] = Way[k]
    BY <1>5, <1>6
  <2>2. ConnectedFirst(s) /\ OwnsNothingBefore(s) /\ SendsOwnUpdates(s) /\ up'[s] = up[s] /\ link' = link
    BY <1>1, <1>2, <1>6 DEF Arrivals
  <2>3. ConnectedFirst(s)'
    BY <2>1, <2>2 DEF ConnectedFirst
  <2>4. OwnsNothingBefore(s)'
    BY <2>1, <2>2, <1>1 DEF OwnsNothingBefore, Waiting
  <2>5. SendsOwnUpdates(s)'
    BY <2>1, <2>2 DEF SendsOwnUpdates
  <2> QED BY <2>3, <2>4, <2>5
<1>7. ConnectedFirst(r) /\ OwnsNothingBefore(r) /\ SendsOwnUpdates(r)
  BY DEF Arrivals
<1>8. m.kind = "connected" => \A j \in DOMAIN Way : Way[j].from # r
  BY <1>2, <1>7 DEF ConnectedFirst
<1>9. \A k \in DOMAIN up'[r] : up'[r][k].kind # "connected"
  BY <1>3, <1>7 DEF ConnectedFirst
<1>10. link'[r] # "out"
  BY <1>1, <1>7 DEF ConnectedFirst
<1>11. ConnectedFirst(r)'
  <2> SUFFICES ASSUME NEW j \in DOMAIN Way', NEW k \in DOMAIN Way',
                      Way'[j].from = r, Way'[k].from = r, Way'[k].msg.kind = "connected"
               PROVE  k <= j
    BY <1>9, <1>10 DEF ConnectedFirst
  <2>1. CASE j = n + 1
    BY <2>1, <1>5
  <2>2. CASE j \in DOMAIN Way /\ k \in DOMAIN Way
    BY <2>2, <1>5, <1>7 DEF ConnectedFirst
  <2>3. CASE j \in DOMAIN Way /\ k = n + 1
    BY <2>3, <1>5, <1>8
  <2> QED BY <2>1, <2>2, <2>3, <1>5
<1>12. OwnsNothingBefore(r)'
  <2>1. Waiting(r)' => Waiting(r)
    <3> SUFFICES ASSUME NEW k \in DOMAIN Way', Way'[k].from = r, Way'[k].msg.kind = "connected"
                 PROVE  Waiting(r)
      BY <1>9, <1>10 DEF Waiting
    <3>1. CASE k \in DOMAIN Way
      BY <3>1, <1>5 DEF Waiting
    <3>2. CASE k = n + 1
      BY <3>2, <1>2, <1>5 DEF Waiting
    <3> QED BY <3>1, <3>2, <1>5
  <2> QED BY <2>1, <1>1, <1>7 DEF OwnsNothingBefore
<1>13. SendsOwnUpdates(r)'
  <2>1. \A k \in DOMAIN up'[r] : up'[r][k].kind = "update" => up'[r][k].info.owner = r
    BY <1>3, <1>7 DEF SendsOwnUpdates
  <2>2. ASSUME NEW k \in DOMAIN Way', Way'[k].from = r, Way'[k].msg.kind = "update"
        PROVE  Way'[k].msg.info.owner = r
    <3>1. CASE k \in DOMAIN Way
      BY <3>1, <2>2, <1>5, <1>7 DEF SendsOwnUpdates
    <3>2. CASE k = n + 1
      BY <3>2, <2>2, <1>2, <1>5, <1>7 DEF SendsOwnUpdates
    <3> QED BY <3>1, <3>2, <1>5
  <2> QED BY <2>1, <2>2 DEF SendsOwnUpdates
<1> QED BY <1>6, <1>11, <1>12, <1>13 DEF Arrivals

(* The main thread handles a packet of r.  Afterwards r is not Waiting:    *)
(* what it may own from now on does no harm.                               *)
LEMMA ArrivalsHandled ==
  ASSUME Inv, Arrivals, NEW r \in Remotes, NEW m, Handling(r, m), born' \in Seq(Info),
         joined' \subseteq joined \cup {r},
         \A i \in 1..Len(born') : \/ i \in 1..Len(born) /\ born'[i] = born[i]
                                  \/ born'[i].owner = r
  PROVE  Arrivals'
<1>1. /\ packets # <<>> /\ packets' = Tail(packets) /\ net' = net /\ UNCHANGED <<link, up>>
      /\ Head(packets).from = r /\ Head(packets) = packets[1]
  BY WayTyped DEF Handling
<1>2. /\ DOMAIN Way = 1..Len(Way) /\ Len(Way) \in Nat \ {0} /\ Way[1] = packets[1] /\ 1 \in DOMAIN Way
      /\ \A k \in DOMAIN Way' : k \in Nat /\ k >= 1 /\ k + 1 \in DOMAIN Way /\ Way'[k] = Way[k + 1]
  BY <1>1, OneTaken
<1>3. ASSUME NEW s \in Remotes PROVE ConnectedFirst(s)' /\ SendsOwnUpdates(s)'
  <2>1. ConnectedFirst(s) /\ SendsOwnUpdates(s)
    BY DEF Arrivals
  <2>2. \A j, k \in DOMAIN Way' :
          Way'[j].from = s /\ Way'[k].from = s /\ Way'[k].msg.kind = "connected" => k <= j
    <3> SUFFICES ASSUME NEW j \in DOMAIN Way', NEW k \in DOMAIN Way',
                        Way'[j].from = s, Way'[k].from = s, Way'[k].msg.kind = "connected"
                 PROVE  k <= j
      OBVIOUS
    <3>1. k + 1 <= j + 1
      BY <1>2, <2>1 DEF ConnectedFirst
    <3> QED BY <3>1, <1>2
  <2>3. (\A j \in DOMAIN Way : Way[j].from # s) => (\A j \in DOMAIN Way' : Way'[j].from # s)
    BY <1>2
  <2>4. ConnectedFirst(s)'
    BY <1>1, <2>1, <2>2, <2>3 DEF ConnectedFirst
  <2>5. SendsOwnUpdates(s)'
    BY <1>1, <1>2, <2>1 DEF SendsOwnUpdates
  <2> QED BY <2>4, <2>5
<1>4. ~Waiting(r)'
  <2>1. ConnectedFirst(r) /\ Way[1].from = r
    BY <1>1, <1>2 DEF Arrivals
  <2>2. link[r] # "out" /\ \A k \in DOMAIN up[r] : up[r][k].kind # "connected"
    BY <1>2, <2>1 DEF ConnectedFirst
  <2>3. \A k \in DOMAIN Way' : ~(Way'[k].from = r /\ Way'[k].msg.kind = "connected")
    <3> SUFFICES ASSUME NEW k \in DOMAIN Way', Way'[k].from = r, Way'[k].msg.kind = "connected"
                 PROVE  FALSE
      OBVIOUS
    <3>1. k + 1 <= 1
      BY <1>2, <2>1 DEF ConnectedFirst
    <3> QED BY <3>1, <1>2
  <2> QED BY <1>1, <2>2, <2>3 DEF Waiting
<1>5. ASSUME NEW s \in Remotes, s # r PROVE OwnsNothingBefore(s)'
  <2>1. Waiting(s)' => Waiting(s)
    BY <1>1, <1>2 DEF Waiting
  <2>2. OwnsNothingBefore(s)
    BY DEF Arrivals
  <2> QED BY <2>1, <2>2, <1>5 DEF OwnsNothingBefore
<1>6. OwnsNothingBefore(r)'
  BY <1>4 DEF OwnsNothingBefore
<1> QED BY <1>3, <1>5, <1>6 DEF Arrivals

-----------------------------------------------------------------------------
(* The packets on their way to a client.                                   *)

LEMMA DeparturesKept ==
  ASSUME Departures, down' = down,
         \A r \in Remotes : DOMAIN ents'[r] \subseteq DOMAIN ents[r]
  PROVE  Departures'
  BY DEF Departures, OwnOnce

(* The server sends something that is no creation, and nothing that sets   *)
(* the state of what the receiver owns.                                    *)
LEMMA DeparturesSent ==
  ASSUME Inv, Departures, NEW S, NEW q \in Seq(Downs(born)), Send(S, q), UNCHANGED <<link>>,
         \A k \in DOMAIN q : /\ q[k].kind # "create"
                             /\ SetsState(q[k]) => q[k].info.owner \notin S \cap Remotes,
         \A r \in Remotes : DOMAIN ents'[r] \subseteq DOMAIN ents[r]
  PROVE  Departures'
<1> SUFFICES ASSUME NEW r \in Remotes PROVE OwnOnce(ents'[r], down'[r], r)
  BY DEF Departures
<1>1. OwnOnce(ents[r], down[r], r)
  BY DEF Departures
<1>2. CASE down'[r] = down[r]
  BY <1>1, <1>2 DEF OwnOnce
<1>3. CASE r \in S /\ down'[r] = down[r] \o q
  <2>1. down[r] \in Seq(Downs(born))
    BY WayTyped
  <2>2. /\ DOMAIN down[r] = 1..Len(down[r]) /\ Len(down[r]) \in Nat
        /\ \A k \in DOMAIN down'[r] :
             \/ k \in DOMAIN down[r] /\ down'[r][k] = down[r][k]
             \/ k - Len(down[r]) \in DOMAIN q /\ down'[r][k] = q[k - Len(down[r])]
    BY <1>3, <2>1
  <2>3. ASSUME NEW k \in DOMAIN down'[r],
               \/ SetsState(down'[r][k]) /\ down'[r][k].info.owner = r
               \/ down'[r][k].kind = "create"
        PROVE  k \in DOMAIN down[r] /\ down'[r][k] = down[r][k]
    BY <1>3, <2>2, <2>3
  <2> QED BY <1>1, <2>3 DEF OwnOnce
<1> QED BY <1>2, <1>3 DEF Send

LEMMA Glued ==
  ASSUME NEW s \in Seq(Info), NEW x \in Info, NEW u \in Seq(Info), NEW b, b = s \o <<x>> \o u
  PROVE  /\ b \in Seq(Info) /\ Len(b) = Len(s) + 1 + Len(u)
         /\ \A i \in 1..Len(s) : b[i] = s[i]
         /\ b[Len(s) + 1] = x
         /\ \A i \in 1..Len(u) : b[Len(s) + 1 + i] = u[i]
<1> DEFINE v == s \o <<x>>
<1>1. /\ v \in Seq(Info) /\ Len(v) = Len(s) + 1 /\ v[Len(s) + 1] = x
      /\ \A i \in 1..Len(s) : v[i] = s[i]
  OBVIOUS
<1>2. b = v \o u
  OBVIOUS
<1> HIDE DEF v
<1>3. b \in Seq(Info) /\ Len(b) = Len(v) + Len(u)
  BY <1>1, <1>2
<1>4. \A i \in 1..Len(v) : b[i] = v[i]
  BY <1>1, <1>2
<1>5. \A i \in 1..Len(u) : b[Len(v) + i] = u[i]
  BY <1>1, <1>2
<1>6. Len(s) \in Nat /\ Len(u) \in Nat
  OBVIOUS
<1>7. \A i \in 1..Len(s) : i \in 1..Len(v)
  BY <1>1, <1>6
<1>8. Len(s) + 1 \in 1..Len(v)
  BY <1>1, <1>6
<1> QED BY <1>1, <1>3, <1>4, <1>5, <1>6, <1>7, <1>8

(* What createNetworkedEntity does: new IDs, each sent once.               *)
LEMMA Created ==
  ASSUME Inv, NEW t \in Types, NEW owner \in Clients, CreateNetworked(t, owner)
  PROVE  /\ born' \in Seq(Info)
         /\ \A i \in 1..Len(born') : \/ i \in 1..Len(born) /\ born'[i] = born[i]
                                     \/ i > Len(born) /\ born'[i].owner = owner
         /\ \A c \in Remotes : ents'[c] = ents[c]
         /\ \A i \in DOMAIN ents[Host] : ents'[Host][i] = ents[Host][i]
         /\ DOMAIN ents'[Host] = DOMAIN ents[Host] \cup (Len(born) + 1)..Len(born')
         /\ \A i \in (Len(born) + 1)..Len(born') : ents'[Host][i] = Fresh(born'[i], 0)
         /\ \E q \in Seq(Downs(born')) :
              /\ Send(connected, q)
              /\ \A k \in DOMAIN q :
                   /\ q[k].kind = "create" /\ q[k].id > Len(born)
                   /\ \A j \in DOMAIN q : q[j].id = q[k].id => j = k
              /\ \A i \in (Len(born) + 1)..Len(born') : \E k \in DOMAIN q : q[k].id = i
<1> DEFINE base == Len(born) + 1
           kids == Children[t]
           kid(i) == [type |-> kids[i], owner |-> owner, parent |-> base]
           top == [type |-> t, owner |-> owner, parent |-> 0]
           kin == [i \in 1..Len(kids) |-> kid(i)]
           b == born \o <<top>> \o kin
           first == [i \in 1..Len(kids) |-> Creation(base + i, b[base + i])]
           q == first \o <<Creation(base, b[base])>>
           e == ents[Host]
           n == [i \in DOMAIN e \cup base..Len(b) |-> IF i \in base..Len(b) THEN Fresh(b[i], 0) ELSE e[i]]
<1>1. born' = b /\ ents' = [ents EXCEPT ![Host] = n] /\ Send(connected, q)
  BY DEF CreateNetworked
<1>2. born \in Seq(Info) /\ Len(born) \in Nat /\ base \in Nat
  BY DEF Inv, Frame
<1>3. kids \in Seq(Types) /\ Len(kids) \in Nat
  BY ChildrenAssumption
<1>4. top \in Info /\ top.owner = owner
  BY DEF Info
<1>5. kin \in Seq(Info) /\ Len(kin) = Len(kids) /\ \A i \in 1..Len(kids) : kin[i].owner = owner
  <2>1. \A i \in 1..Len(kids) : kid(i) \in Info
    BY <1>2, <1>3 DEF Info
  <2> QED BY <2>1, <1>3
<1> HIDE DEF kids, kid, top, kin
<1>6. /\ b \in Seq(Info) /\ Len(b) = base + Len(kids)
      /\ \A i \in 1..Len(born) : b[i] = born[i]
      /\ b[base] = top
      /\ \A i \in 1..Len(kids) : b[base + i] = kin[i]
  <2>1. b = born \o <<top>> \o kin
    BY DEF b
  <2> HIDE DEF b, base
  <2>2. /\ b \in Seq(Info) /\ Len(b) = Len(born) + 1 + Len(kin)
        /\ \A i \in 1..Len(born) : b[i] = born[i]
        /\ b[Len(born) + 1] = top
        /\ \A i \in 1..Len(kin) : b[Len(born) + 1 + i] = kin[i]
    <3>1. top \in Info /\ kin \in Seq(Info) /\ born \in Seq(Info)
      BY <1>2, <1>4, <1>5
    <3> QED BY <3>1, <2>1, Glued
  <2>3. base = Len(born) + 1 /\ Len(kin) = Len(kids)
    BY <1>5 DEF base
  <2> QED BY <2>2, <2>3
<1> HIDE DEF b
<1>7. \A i \in 1..Len(b) : \/ i \in 1..Len(born) /\ b[i] = born[i]
                           \/ i > Len(born) /\ b[i].owner = owner
  <2> SUFFICES ASSUME NEW i \in 1..Len(b)
               PROVE  \/ i \in 1..Len(born) /\ b[i] = born[i]
                      \/ i > Len(born) /\ b[i].owner = owner
    OBVIOUS
  <2>1. CASE i \in 1..Len(born)
    BY <2>1, <1>6
  <2>2. CASE i = base
    BY <2>2, <1>2, <1>4, <1>6
  <2>3. CASE i - base \in 1..Len(kids)
    <3> DEFINE j == i - base
    <3>1. j \in 1..Len(kids) /\ i = base + j /\ i > Len(born)
      BY <2>3, <1>2, <1>3, <1>6
    <3> HIDE DEF j
    <3> QED BY <3>1, <1>5, <1>6
  <2>4. i \in 1..(base + Len(kids))
    BY <1>6
  <2>5. i \in 1..Len(born) \/ i = base \/ i - base \in 1..Len(kids)
    BY <2>4, <1>2, <1>3
  <2> QED BY <2>1, <2>2, <2>3, <2>5
<1>8. \A i \in DOMAIN e : i \in 1..Len(born)
  BY HostReplica DEF Replica
<1>9. \A c \in Remotes : ents'[c] = ents[c]
  BY <1>1, HostAssumption DEF Inv, Shape, Clients
<1>10. \A i \in DOMAIN e : n[i] = e[i]
  BY <1>2, <1>3, <1>6, <1>8
<1>11. ents'[Host] = n
  BY <1>1 DEF Inv, Shape, Clients
<1>12. \A i \in 1..Len(b) : Creation(i, b[i]) \in Downs(b)
  BY <1>6 DEF Creation, Downs
<1>13. first \in Seq(Downs(b)) /\ Len(first) = Len(kids)
       /\ \A i \in 1..Len(kids) : first[i] = Creation(base + i, b[base + i])
  <2>1. \A i \in 1..Len(kids) : base + i \in 1..Len(b)
    BY <1>2, <1>3, <1>6
  <2> QED BY <2>1, <1>3, <1>12
<1> HIDE DEF first
<1>14. <<Creation(base, b[base])>> \in Seq(Downs(b))
  BY <1>2, <1>3, <1>6, <1>12
<1>15. /\ q \in Seq(Downs(b)) /\ DOMAIN q = 1..(Len(kids) + 1)
       /\ \A i \in 1..Len(kids) : q[i] = Creation(base + i, b[base + i])
       /\ q[Len(kids) + 1] = Creation(base, b[base])
  BY <1>3, <1>13, <1>14
<1> HIDE DEF q
<1>16. \A k \in DOMAIN q : q[k].kind = "create" /\ q[k].id = (IF k = Len(kids) + 1 THEN base ELSE base + k)
  <2>1. \A i, x : Creation(i, x).kind = "create" /\ Creation(i, x).id = i
    BY DEF Creation
  <2>2. ASSUME NEW k \in 1..Len(kids) PROVE q[k].kind = "create" /\ q[k].id = base + k /\ k # Len(kids) + 1
    BY <2>1, <1>3, <1>15
  <2>3. q[Len(kids) + 1].kind = "create" /\ q[Len(kids) + 1].id = base
    BY <2>1, <1>15
  <2>4. \A k \in DOMAIN q : k \in 1..Len(kids) \/ k = Len(kids) + 1
    BY <1>3, <1>15
  <2> QED BY <2>2, <2>3, <2>4
<1>17. \A k \in DOMAIN q : k \in 1..(Len(kids) + 1)
  BY <1>15
<1>18. \A k \in DOMAIN q : /\ q[k].kind = "create" /\ q[k].id > Len(born)
                           /\ \A j \in DOMAIN q : q[j].id = q[k].id => j = k
  BY <1>2, <1>3, <1>16, <1>17
<1>19. \A i \in base..Len(b) : \E k \in DOMAIN q : q[k].id = i
  <2> SUFFICES ASSUME NEW i \in base..Len(b) PROVE \E k \in DOMAIN q : q[k].id = i
    OBVIOUS
  <2>1. CASE i = base
    <3>1. Len(kids) + 1 \in DOMAIN q
      BY <1>3, <1>15
    <3> QED BY <2>1, <3>1, <1>16
  <2>2. CASE i # base
    <3> DEFINE k == i - base
    <3>1. k \in 1..Len(kids) /\ k \in 1..(Len(kids) + 1) /\ k # Len(kids) + 1 /\ base + k = i
      BY <2>2, <1>2, <1>3, <1>6
    <3> HIDE DEF k
    <3>2. k \in DOMAIN q
      BY <3>1, <1>15
    <3> QED BY <3>1, <3>2, <1>16
  <2> QED BY <2>1, <2>2
<1>20. DOMAIN n = DOMAIN e \cup base..Len(b) /\ \A i \in base..Len(b) : n[i] = Fresh(b[i], 0)
  OBVIOUS
<1>21. \E p \in Seq(Downs(born')) :
         /\ Send(connected, p)
         /\ \A k \in DOMAIN p :
              /\ p[k].kind = "create" /\ p[k].id > Len(born)
              /\ \A j \in DOMAIN p : p[j].id = p[k].id => j = k
         /\ \A i \in base..Len(b) : \E k \in DOMAIN p : p[k].id = i
  BY <1>1, <1>15, <1>18, <1>19, Zenon
<1> HIDE DEF n
<1> QED BY <1>1, <1>6, <1>7, <1>9, <1>10, <1>11, <1>20, <1>21

LEMMA DeparturesCreated ==
  ASSUME Inv, Departures, NEW t \in Types, NEW owner \in Clients, CreateNetworked(t, owner), link' = link
  PROVE  Departures'
<1>1. PICK q \in Seq(Downs(born')) :
        /\ Send(connected, q)
        /\ \A k \in DOMAIN q :
             /\ q[k].kind = "create" /\ q[k].id > Len(born)
             /\ \A j \in DOMAIN q : q[j].id = q[k].id => j = k
  BY Created
<1> SUFFICES ASSUME NEW r \in Remotes PROVE OwnOnce(ents'[r], down'[r], r)
  BY DEF Departures
<1>2. OwnOnce(ents[r], down[r], r) /\ ents'[r] = ents[r]
  BY Created DEF Departures
<1>3. CASE down'[r] = down[r]
  BY <1>2, <1>3
<1>4. CASE down'[r] = down[r] \o q
  <2>1. down[r] \in Seq(Downs(born)) /\ Len(born) \in Nat
    BY WayTyped
  <2>2. \A i \in DOMAIN ents[r] : i \in 1..Len(born)
    BY HostReplica DEF Replica
  <2>3. \A k \in DOMAIN down[r] : down[r][k].id \in 1..Len(born)
    BY <2>1, DownKinds, WayTyped
  <2>4. /\ DOMAIN down[r] = 1..Len(down[r]) /\ Len(down[r]) \in Nat
        /\ \A k \in DOMAIN down'[r] :
             \/ k \in DOMAIN down[r] /\ down'[r][k] = down[r][k]
             \/ k > Len(down[r]) /\ k - Len(down[r]) \in DOMAIN q /\ down'[r][k] = q[k - Len(down[r])]
    BY <1>4, <2>1
  <2> SUFFICES ASSUME NEW k \in DOMAIN down'[r], SetsState(down'[r][k]), down'[r][k].info.owner = r
               PROVE  /\ down'[r][k].kind = "create" /\ down'[r][k].id \notin DOMAIN ents[r]
                      /\ \A j \in DOMAIN down'[r] :
                           down'[r][j].kind = "create" /\ down'[r][j].id = down'[r][k].id => j = k
    BY <1>2 DEF OwnOnce
  <2>5. CASE k \in DOMAIN down[r] /\ down'[r][k] = down[r][k]
    <3>1. /\ down[r][k].kind = "create" /\ down[r][k].id \notin DOMAIN ents[r]
          /\ \A j \in DOMAIN down[r] : down[r][j].kind = "create" /\ down[r][j].id = down[r][k].id => j = k
      BY <2>5, <1>2 DEF OwnOnce
    <3>2. ASSUME NEW j \in DOMAIN down'[r], down'[r][j].kind = "create", down'[r][j].id = down'[r][k].id
          PROVE  j = k
      <4>1. CASE j \in DOMAIN down[r] /\ down'[r][j] = down[r][j]
        BY <4>1, <3>1, <3>2, <2>5
      <4>2. CASE j - Len(down[r]) \in DOMAIN q /\ down'[r][j] = q[j - Len(down[r])]
        <5>1. down'[r][j].id > Len(born) /\ down[r][k].id \in 1..Len(born)
          BY <4>2, <2>3, <2>5, <1>1
        <5> QED BY <5>1, <3>2, <2>1, <2>5
      <4> QED BY <4>1, <4>2, <2>4
    <3> QED BY <3>1, <3>2, <2>5
  <2>6. CASE k > Len(down[r]) /\ k - Len(down[r]) \in DOMAIN q /\ down'[r][k] = q[k - Len(down[r])]
    <3>1. down'[r][k].kind = "create" /\ down'[r][k].id > Len(born)
      BY <2>6, <1>1
    <3>2. down'[r][k].id \notin DOMAIN ents[r]
      BY <3>1, <2>1, <2>2
    <3>3. ASSUME NEW j \in DOMAIN down'[r], down'[r][j].kind = "create", down'[r][j].id = down'[r][k].id
          PROVE  j = k
      <4>1. CASE j \in DOMAIN down[r] /\ down'[r][j] = down[r][j]
        BY <4>1, <3>1, <3>3, <2>1, <2>3
      <4>2. CASE j > Len(down[r]) /\ j - Len(down[r]) \in DOMAIN q /\ down'[r][j] = q[j - Len(down[r])]
        <5>1. j - Len(down[r]) = k - Len(down[r])
          BY <4>2, <3>3, <2>6, <1>1
        <5>2. j \in Int /\ k \in Int
          BY <1>4, <2>1
        <5> QED BY <5>1, <5>2, <2>4
      <4> QED BY <4>1, <4>2, <2>4
    <3> QED BY <3>1, <3>2, <3>3
  <2> QED BY <2>4, <2>5, <2>6
<1> QED BY <1>1, <1>3, <1>4 DEF Send

-----------------------------------------------------------------------------
(* What a step does to an owner's replica.                                 *)

LEMMA ValuesKept ==
  ASSUME Inv, NEW c \in Clients,
         \A i \in DOMAIN ents[c] \cap DOMAIN ents'[c] : ents'[c][i].val = ents[c][i].val
  PROVE  Keeps(c)
<1>1. \A i \in DOMAIN ents[c] : ents[c][i].val \in Nat
  BY HostReplica, EntityFields DEF Replica
<1> QED BY <1>1 DEF Keeps

LEMMA EntsKept ==
  ASSUME Inv, ents' = ents
  PROVE  /\ \A c \in Clients : Keeps(c)
         /\ \A r \in Remotes : DOMAIN ents'[r] \subseteq DOMAIN ents[r]
  BY ValuesKept

(* One replica changes, but not its values.                                *)
LEMMA EntsThinned ==
  ASSUME Inv, NEW c \in Clients, \A d \in Clients : d # c => ents'[d] = ents[d],
         DOMAIN ents'[c] \subseteq DOMAIN ents[c],
         \A i \in DOMAIN ents'[c] : ents'[c][i].val = ents[c][i].val
  PROVE  /\ \A d \in Clients : Keeps(d)
         /\ \A r \in Remotes : DOMAIN ents'[r] \subseteq DOMAIN ents[r]
<1>1. ASSUME NEW d \in Clients PROVE Keeps(d)
  <2>1. \A i \in DOMAIN ents[d] \cap DOMAIN ents'[d] : ents'[d][i].val = ents[d][i].val
    OBVIOUS
  <2> QED BY <2>1, ValuesKept
<1> QED BY <1>1 DEF Clients

LEMMA EntsReplaced ==
  ASSUME Inv, NEW c \in Clients, NEW e, ents' = [ents EXCEPT ![c] = e]
  PROVE  ents'[c] = e /\ \A d \in Clients : d # c => ents'[d] = ents[d]
  BY DEF Inv, Shape

LEMMA EntsMarked ==
  ASSUME Inv, NEW c \in Clients, NEW S, ents' = [ents EXCEPT ![c] = MarkIn(ents[c], S)]
  PROVE  /\ \A d \in Clients : Keeps(d)
         /\ \A r \in Remotes : DOMAIN ents'[r] \subseteq DOMAIN ents[r]
<1>1. ents'[c] = MarkIn(ents[c], S) /\ \A d \in Clients : d # c => ents'[d] = ents[d]
  BY EntsReplaced
<1>2. \A i \in DOMAIN ents[c] : ents[c][i] \in Entity
  BY HostReplica DEF Replica
<1>3. DOMAIN ents'[c] = DOMAIN ents[c] /\ \A i \in DOMAIN ents'[c] : ents'[c][i].val = ents[c][i].val
  BY <1>1, <1>2 DEF MarkIn, Entity
<1> QED BY <1>1, <1>3, EntsThinned

LEMMA EntsErased ==
  ASSUME Inv, NEW c \in Clients, NEW S, ents' = [ents EXCEPT ![c] = Erase(ents[c], S)]
  PROVE  /\ \A d \in Clients : Keeps(d)
         /\ \A r \in Remotes : DOMAIN ents'[r] \subseteq DOMAIN ents[r]
<1>1. ents'[c] = Erase(ents[c], S) /\ \A d \in Clients : d # c => ents'[d] = ents[d]
  BY EntsReplaced
<1>2. DOMAIN ents'[c] \subseteq DOMAIN ents[c] /\ \A i \in DOMAIN ents'[c] : ents'[c][i].val = ents[c][i].val
  BY <1>1 DEF Erase
<1> QED BY <1>1, <1>2, EntsThinned

-----------------------------------------------------------------------------
(* The steps.  Packets that are no creations:                              *)

LEMMA UpdateKind == \A i, x : Update(i, x).kind = "update" /\ Update(i, x).info = x.info
  BY DEF Update
LEMMA SnapshotKind == \A i, x : Snapshot(i, x).kind = "snapshot" /\ Snapshot(i, x).info = x.info
  BY DEF Snapshot
LEMMA DeletionKind == \A i : Deletion(i).kind = "delete"
  BY DEF Deletion

(* Deletions of some of the host's entities are sent.                      *)
LEMMA DeletionsSent ==
  ASSUME Inv, Departures, NEW ids \in Seq(DOMAIN ents[Host]), BroadcastDeletions(ids), link' = link,
         \A r \in Remotes : DOMAIN ents'[r] \subseteq DOMAIN ents[r]
  PROVE  Departures'
<1> DEFINE q == [i \in 1..Len(ids) |-> Deletion(ids[i])]
<1>1. q \in Seq(Downs(born))
  BY HostReplica, ReadOutTyped
<1>2. \A k \in DOMAIN q : q[k].kind = "delete"
  BY DeletionKind
<1>3. Send(connected, q)
  BY DEF BroadcastDeletions
<1> HIDE DEF q
<1> QED BY <1>1, <1>2, <1>3, DeparturesSent DEF SetsState

LEMMA KeptQuietly ==
  ASSUME Inv, Arrivals, Departures, UNCHANGED <<ents, born, link, up, down, joined>>, Way' = Way
  PROVE  Kept
<1>1. Arrivals'
  BY ArrivalsKept
<1>2. Departures' /\ \A c \in Clients : Keeps(c)
  BY EntsKept, DeparturesKept
<1> QED BY <1>1, <1>2 DEF Kept

LEMMA KeptByNet ==
  ASSUME Inv, Arrivals, Departures, NetPush \/ \E r \in Remotes : NetConsume(r)
  PROVE  Kept
<1>1. CASE NetPush
  <2>1. packets \o net \in Seq(Forwarded(born))
    BY WayTyped
  <2>2. (packets \o net) \o <<>> = packets \o net
    BY <2>1
  <2>3. Way' = Way
    BY <2>2, <1>1 DEF NetPush, Way
  <2> QED BY <2>3, <1>1, KeptQuietly DEF NetPush
<1>2. ASSUME NEW r \in Remotes, NetConsume(r) PROVE Kept
  <2>1. Arrivals'
    BY <1>2, ArrivalsConsumed
  <2>2. ents' = ents /\ down' = down
    BY <1>2 DEF NetConsume
  <2>3. Departures' /\ \A c \in Clients : Keeps(c)
    BY <2>2, EntsKept, DeparturesKept
  <2> QED BY <2>1, <2>3 DEF Kept
<1> QED BY <1>1, <1>2

LEMMA KeptByJoin ==
  ASSUME Inv, Arrivals, Departures, NEW r \in Remotes, Join(r)
  PROVE  Kept
<1>1. Arrivals' /\ ents' = ents /\ down' = down
  BY ArrivalsJoin DEF Join
<1>2. Departures' /\ \A c \in Clients : Keeps(c)
  BY <1>1, EntsKept, DeparturesKept
<1> QED BY <1>1, <1>2 DEF Kept

LEMMA KeptByLeave ==
  ASSUME Inv, Arrivals, Departures, NEW r \in Remotes, Leave(r)
  PROVE  Kept
<1>1. ents' = [ents EXCEPT ![r] = <<>>] /\ down' = [down EXCEPT ![r] = <<>>]
  BY DEF Leave
<1>2. /\ \A c \in Clients : Keeps(c)
      /\ \A s \in Remotes : DOMAIN ents'[s] \subseteq DOMAIN ents[s]
  <2>1. ents'[r] = <<>> /\ \A d \in Clients : d # r => ents'[d] = ents[d]
    BY <1>1, HostReplica, EntsReplaced
  <2> QED BY <2>1, HostReplica, EntsThinned
<1>3. Departures'
  <2> SUFFICES ASSUME NEW s \in Remotes PROVE OwnOnce(ents'[s], down'[s], s)
    BY DEF Departures
  <2>1. CASE s = r
    BY <2>1, <1>1 DEF OwnOnce, Inv, Shape
  <2>2. CASE s # r
    BY <2>2, <1>1, <1>2 DEF OwnOnce, Departures, Inv, Shape
  <2> QED BY <2>1, <2>2
<1> QED BY <1>2, <1>3, ArrivalsLeave DEF Kept

LEMMA KeptByConnected ==
  ASSUME Inv, Arrivals, Departures, NEW r \in Remotes, HandleConnected(r)
  PROVE  Kept
<1> DEFINE e == ents[Host]
<1>1. /\ Handling(r, Connected) /\ joined' = joined \cup {r} /\ UNCHANGED <<ents, born, link>>
  BY DEF HandleConnected, Handling
<1>2. Arrivals'
  BY <1>1, WayTyped, ArrivalsHandled
<1>3. PICK q \in Snapshots : Send({r}, q)
  BY DEF HandleConnected
<1>4. PICK ids \in Descending(DOMAIN e) : q = [i \in 1..Len(ids) |-> Snapshot(ids[i], e[ids[i]])]
  BY <1>3 DEF Snapshots, SnapshotsOf
<1>5. Replica(e, born) /\ born \in Seq(Info) /\ DOMAIN e \subseteq 1..Len(born)
  BY HostReplica DEF Replica
<1>6. ids \in Seq(DOMAIN e)
  BY <1>5, OrderedTyped
<1>7. q \in Seq(Downs(born))
  BY <1>4, <1>5, <1>6, ReadOutTyped
<1>8. \A i \in 1..Len(born) : born[i].owner # r
  <2>1. /\ packets # <<>> /\ Head(packets) = [from |-> r, msg |-> Connected]
        /\ packets \in Seq(Forwarded(born)) /\ net \in Seq(Forwarded(born))
    BY <1>1, WayTyped DEF Handling
  <2>2. 1 \in DOMAIN Way /\ Way[1] = [from |-> r, msg |-> Connected]
    BY <2>1 DEF Way
  <2>3. Waiting(r)
    BY <2>2 DEF Waiting, Connected
  <2> QED BY <2>3 DEF Arrivals, OwnsNothingBefore
<1>9. \A k \in DOMAIN q : q[k].kind = "snapshot" /\ q[k].info.owner # r
  <2> SUFFICES ASSUME NEW k \in 1..Len(ids) PROVE q[k].kind = "snapshot" /\ q[k].info.owner # r
    BY <1>4
  <2>1. ids[k] \in DOMAIN e
    BY <1>6
  <2>2. e[ids[k]].info = born[ids[k]] /\ ids[k] \in 1..Len(born)
    BY <2>1, <1>5 DEF Replica
  <2>3. q[k] = Snapshot(ids[k], e[ids[k]])
    BY <1>4
  <2> QED BY <2>2, <2>3, <1>8, SnapshotKind
<1>10. Departures'
  BY <1>1, <1>3, <1>7, <1>9, EntsKept, DeparturesSent DEF SetsState
<1> QED BY <1>1, <1>2, <1>10, EntsKept DEF Kept

LEMMA KeptByDisconnected ==
  ASSUME Inv, Arrivals, Departures, NEW r \in Remotes, HandleDisconnected(r)
  PROVE  Kept
<1>1. /\ Handling(r, Disconnected) /\ joined' = joined \ {r} /\ UNCHANGED <<ents, born, down>>
  BY DEF HandleDisconnected
<1>2. Arrivals'
  BY <1>1, WayTyped, ArrivalsHandled
<1> QED BY <1>1, <1>2, EntsKept, DeparturesKept DEF Kept

(* createNetworkedEntity puts new entities into the host's replica.        *)
LEMMA KeepsCreated ==
  ASSUME Inv, NEW t \in Types, NEW owner \in Clients, CreateNetworked(t, owner)
  PROVE  \A c \in Clients : Keeps(c)
<1> SUFFICES ASSUME NEW c \in Clients PROVE Keeps(c)
  OBVIOUS
<1>1. \A i \in DOMAIN ents[c] \cap DOMAIN ents'[c] : ents'[c][i].val = ents[c][i].val
  BY Created DEF Clients
<1> QED BY <1>1, ValuesKept

LEMMA KeptByRequest ==
  ASSUME Inv, Arrivals, Departures, NEW r \in Remotes, HandleRequest(r)
  PROVE  Kept
<1>1. PICK t \in Types : /\ Handling(r, CreateRequest(t)) /\ CreateNetworked(t, r)
                         /\ UNCHANGED <<joined, ghosts>>
  BY DEF HandleRequest
<1>2. r \in Clients /\ link' = link
  BY <1>1, HostReplica DEF Handling
<1>3. born' \in Seq(Info) /\ \A i \in 1..Len(born') : \/ i \in 1..Len(born) /\ born'[i] = born[i]
                                                      \/ born'[i].owner = r
  BY <1>1, <1>2, Created
<1>4. Arrivals'
  BY <1>1, <1>3, ArrivalsHandled
<1> QED BY <1>1, <1>2, <1>4, DeparturesCreated, KeepsCreated DEF Kept

(* The owner of the updated entity is the sender, so neither a receiver    *)
(* nor the host.                                                           *)
LEMMA KeptByUpdate ==
  ASSUME Inv, Arrivals, Departures, NEW r \in Remotes, HandleUpdate(r)
  PROVE  Kept
<1> DEFINE m == Head(packets).msg
<1>1. /\ m.kind = "update" /\ Handling(r, m) /\ Send(OtherClients(r), <<m>>)
      /\ ents' = [ents EXCEPT ![Host] = Apply(@, m)]
      /\ UNCHANGED <<born, joined, ghosts>>
  BY DEF HandleUpdate
<1>2. m.info.owner = r
  <2>1. /\ packets # <<>> /\ Head(packets) = [from |-> r, msg |-> m]
        /\ packets \in Seq(Forwarded(born)) /\ net \in Seq(Forwarded(born))
    BY <1>1, WayTyped DEF Handling
  <2>2. 1 \in DOMAIN Way /\ Way[1] = Head(packets) /\ Way[1].from = r
    BY <2>1 DEF Way
  <2> QED BY <2>2, <1>1 DEF Arrivals, SendsOwnUpdates
<1> HIDE DEF m
<1>3. m \in Ups(born) /\ link' = link
  BY <1>1, HandlingTyped
<1>4. m \in Downs(born) /\ <<m>> \in Seq(Downs(born))
  BY <1>1, <1>3, HostReplica, UpdatesGoDown
<1>5. Arrivals'
  BY <1>1, WayTyped, ArrivalsHandled
<1>6. /\ ents'[Host] = Apply(ents[Host], m)
      /\ \A s \in Remotes : ents'[s] = ents[s]
  BY <1>1, HostAssumption DEF Inv, Shape, Clients
<1>7. Departures'
  <2>1. \A k \in DOMAIN <<m>> : <<m>>[k] = m
    OBVIOUS
  <2>2. r \notin OtherClients(r)
    BY DEF OtherClients
  <2> QED BY <2>1, <2>2, <1>1, <1>2, <1>3, <1>4, <1>6, DeparturesSent
<1>8. Keeps(Host)
  <2> SUFFICES ASSUME NEW i \in DOMAIN ents[Host] \cap DOMAIN ents'[Host], ents[Host][i].info.owner = Host
               PROVE  ents'[Host][i].val >= ents[Host][i].val
    BY DEF Keeps
  <2>1. ents[Host][i].val \in Nat
    BY HostReplica, EntityFields DEF Replica
  <2>2. CASE m.id \in DOMAIN ents[Host] /\ ents[Host][m.id].info = m.info
    <3>1. Apply(ents[Host], m) = [ents[Host] EXCEPT ![m.id].val = m.val]
      BY <2>2, <1>1 DEF Apply
    <3>2. i # m.id
      BY <2>2, <1>2, HostAssumption
    <3>3. ents'[Host][i] = ents[Host][i]
      BY <3>1, <3>2, <1>6
    <3> QED BY <3>3, <2>1
  <2>3. CASE ~(m.id \in DOMAIN ents[Host] /\ ents[Host][m.id].info = m.info)
    <3>1. Apply(ents[Host], m) = ents[Host]
      BY <2>3, <1>1 DEF Apply
    <3> QED BY <3>1, <2>1, <1>6
  <2> QED BY <2>2, <2>3
<1>9. ASSUME NEW c \in Clients PROVE Keeps(c)
  <2>1. CASE c \in Remotes
    BY <2>1, <1>6, ValuesKept, HostReplica
  <2> QED BY <2>1, <1>8 DEF Clients
<1> QED BY <1>5, <1>7, <1>9 DEF Kept

LEMMA KeptByDeletion ==
  ASSUME Inv, Arrivals, Departures, NEW r \in Remotes, HandleDeletion(r)
  PROVE  Kept
<1>1. PICK i \in IDs :
        /\ Handling(r, Deletion(i))
        /\ IF i \in DOMAIN ents[Host] /\ ents[Host][i].info.owner = r
           THEN /\ BroadcastDeletions(<<i>>)
                /\ ents' = [ents EXCEPT ![Host] = MarkIn(@, {i})]
           ELSE UNCHANGED <<ents, down>>
        /\ UNCHANGED <<born, joined, ghosts>>
  BY DEF HandleDeletion
<1>2. Arrivals' /\ link' = link
  <2>1. link' = link
    BY <1>1 DEF Handling
  <2> QED BY <2>1, <1>1, WayTyped, ArrivalsHandled
<1>3. CASE i \in DOMAIN ents[Host] /\ ents[Host][i].info.owner = r
  <2>1. <<i>> \in Seq(DOMAIN ents[Host])
    BY <1>3, OneElement
  <2>2. /\ \A c \in Clients : Keeps(c)
        /\ \A s \in Remotes : DOMAIN ents'[s] \subseteq DOMAIN ents[s]
    BY <1>1, <1>3, HostReplica, EntsMarked
  <2> QED BY <2>1, <2>2, <1>1, <1>2, <1>3, DeletionsSent DEF Kept
<1>4. CASE ~(i \in DOMAIN ents[Host] /\ ents[Host][i].info.owner = r)
  BY <1>1, <1>2, <1>4, EntsKept, DeparturesKept DEF Kept
<1> QED BY <1>3, <1>4

LEMMA KeptByTick ==
  ASSUME Inv, Arrivals, Departures, EndDrain
  PROVE  Kept
<1> DEFINE own == {i \in DOMAIN ents[Host] : ents[Host][i].info.owner = Host}
<1>1. UNCHANGED <<ents, born, link, up, net, packets, joined>> /\ Way' = Way
  BY DEF EndDrain, Way
<1>2. CASE UNCHANGED down
  BY <1>1, <1>2, KeptQuietly
<1>3. CASE \E ids \in Ascending(own) :
             Send(connected, [i \in 1..Len(ids) |-> Update(ids[i], ents[Host][ids[i]])])
  <2>1. PICK ids \in Ascending(own) :
          Send(connected, [i \in 1..Len(ids) |-> Update(ids[i], ents[Host][ids[i]])])
    BY <1>3
  <2> DEFINE q == [i \in 1..Len(ids) |-> Update(ids[i], ents[Host][ids[i]])]
  <2>2. own \subseteq DOMAIN ents[Host] /\ own \subseteq 1..Len(born)
    BY HostReplica DEF Replica
  <2>3. ids \in Seq(own)
    BY <2>2, HostReplica, OrderedTyped
  <2>4. q \in Seq(Downs(born))
    BY <2>2, <2>3, HostReplica, ReadOutTyped
  <2>5. \A k \in DOMAIN q : q[k].kind = "update" /\ q[k].info.owner = Host
    <3> SUFFICES ASSUME NEW k \in 1..Len(ids) PROVE q[k].kind = "update" /\ q[k].info.owner = Host
      OBVIOUS
    <3>1. ids[k] \in own
      BY <2>3
    <3> QED BY <3>1, UpdateKind
  <2> HIDE DEF q
  <2>6. Departures'
    BY <2>1, <2>4, <2>5, <1>1, EntsKept, HostAssumption, DeparturesSent DEF q
  <2> QED BY <2>6, <1>1, ArrivalsKept, EntsKept DEF Kept
<1> QED BY <1>2, <1>3 DEF EndDrain

LEMMA KeptBySceneUpdate ==
  ASSUME Inv, Arrivals, Departures, SceneUpdate
  PROVE  Kept
<1> DEFINE e == ents[Host]
           lost == Orphans(e)
<1>1. PICK ids \in Ascending(lost) : BroadcastDeletions(ids)
  BY DEF SceneUpdate
<1>2. lost \subseteq DOMAIN e /\ lost \subseteq 1..Len(born)
  BY HostReplica DEF Replica, Orphans
<1>3. ents' = [ents EXCEPT ![Host] = Erase(e, Marked(e) \cup lost)]
      /\ UNCHANGED <<born, link, up, joined>> /\ Way' = Way
  BY DEF SceneUpdate, Way
<1> HIDE DEF lost
<1>4. ids \in Seq(lost) /\ ids \in Seq(DOMAIN e)
  BY <1>2, HostReplica, OrderedTyped, SeqGrows
<1>5. /\ \A c \in Clients : Keeps(c)
      /\ \A s \in Remotes : DOMAIN ents'[s] \subseteq DOMAIN ents[s]
  BY <1>3, HostReplica, EntsErased
<1> QED BY <1>1, <1>3, <1>4, <1>5, DeletionsSent, ArrivalsKept DEF Kept

LEMMA KeptByHostCreate ==
  ASSUME Inv, Arrivals, Departures, HostCreate
  PROVE  Kept
<1>1. PICK t \in Types, owner \in {Host} \cup joined : CreateNetworked(t, owner)
  BY DEF HostCreate
<1>2. owner \in Clients /\ UNCHANGED <<link, up, joined>> /\ Way' = Way
  BY HostReplica DEF HostCreate, Way, Inv, Frame
<1>3. \A i \in 1..Len(born') : \/ i \in 1..Len(born) /\ born'[i] = born[i]
                               \/ born'[i].owner = owner
  BY <1>1, <1>2, Created
<1>4. ASSUME NEW r \in Remotes PROVE (ConnectedFirst(r) /\ OwnsNothingBefore(r) /\ SendsOwnUpdates(r))'
  <2>1. ConnectedFirst(r) /\ OwnsNothingBefore(r) /\ SendsOwnUpdates(r)
    BY DEF Arrivals
  <2>2. ConnectedFirst(r)' /\ SendsOwnUpdates(r)' /\ (Waiting(r)' <=> Waiting(r))
    BY <2>1, <1>2 DEF ConnectedFirst, SendsOwnUpdates, Waiting
  <2>3. Waiting(r) => owner # r
    BY <2>1, <1>1, HostAssumption DEF OwnsNothingBefore
  <2>4. OwnsNothingBefore(r)'
    BY <2>1, <2>2, <2>3, <1>2, <1>3 DEF OwnsNothingBefore
  <2> QED BY <2>2, <2>4
<1>5. Arrivals'
  BY <1>4 DEF Arrivals
<1> QED BY <1>1, <1>2, <1>5, DeparturesCreated, KeepsCreated DEF Kept

LEMMA KeptByHostDelete ==
  ASSUME Inv, Arrivals, Departures, HostDelete
  PROVE  Kept
<1>1. PICK i \in DOMAIN ents[Host] : /\ BroadcastDeletions(<<i>>)
                                     /\ ents' = [ents EXCEPT ![Host] = MarkIn(@, {i})]
  BY DEF HostDelete
<1>2. UNCHANGED <<born, link, up, joined>> /\ Way' = Way
  BY DEF HostDelete, Way
<1>3. /\ \A c \in Clients : Keeps(c)
      /\ \A s \in Remotes : DOMAIN ents'[s] \subseteq DOMAIN ents[s]
  BY <1>1, HostReplica, EntsMarked
<1>4. <<i>> \in Seq(DOMAIN ents[Host])
  BY OneElement
<1> QED BY <1>1, <1>2, <1>3, <1>4, DeletionsSent, ArrivalsKept DEF Kept

LEMMA KeptByMutate ==
  ASSUME Inv, Arrivals, Departures, NEW c \in Clients, Mutate(c)
  PROVE  Kept
<1>1. PICK i \in DOMAIN ents[c] : ents' = [ents EXCEPT ![c][i].val = @ + 1]
  BY DEF Mutate
<1>2. UNCHANGED <<born, link, up, down, joined>> /\ Way' = Way
  BY DEF Mutate, Way
<1>3. \A d \in Clients : \A j \in DOMAIN ents[d] : ents[d][j] \in Entity /\ ents[d][j].val \in Nat
  BY HostReplica, EntityFields DEF Replica
<1>4. \A d \in Clients : DOMAIN ents'[d] = DOMAIN ents[d]
  BY <1>1 DEF Inv, Shape
<1>5. \A d \in Clients : \A j \in DOMAIN ents[d] :
        ents'[d][j].val = IF d = c /\ j = i THEN ents[d][j].val + 1 ELSE ents[d][j].val
  BY <1>1, <1>3 DEF Inv, Shape, Entity
<1>6. \A d \in Clients : Keeps(d)
  BY <1>3, <1>5 DEF Keeps
<1>7. Departures'
  BY <1>2, <1>4, HostReplica, DeparturesKept
<1> QED BY <1>2, <1>6, <1>7, ArrivalsKept DEF Kept

LEMMA KeptByRemoteHandle ==
  ASSUME Inv, Arrivals, Departures, NEW r \in Remotes, RemoteHandle(r)
  PROVE  Kept
<1> DEFINE e == ents[r]
           d == down[r]
           m == Head(down[r])
           n == Apply(e, m)
<1>1. /\ d # <<>> /\ ents' = [ents EXCEPT ![r] = n] /\ down' = [down EXCEPT ![r] = Tail(d)]
      /\ UNCHANGED <<born, link, up, joined>> /\ Way' = Way
  BY DEF RemoteHandle, Way
<1>2. d \in Seq(Downs(born)) /\ m \in Downs(born) /\ m = d[1] /\ 1 \in DOMAIN d
  BY <1>1, WayTyped
<1>3. /\ ents'[r] = n /\ \A c \in Clients : c # r => ents'[c] = ents[c]
      /\ down'[r] = Tail(d) /\ \A s \in Remotes : s # r => down'[s] = down[s]
  BY <1>1, HostReplica DEF Inv, Shape
<1>4. /\ DOMAIN d = 1..Len(d) /\ Len(d) \in Nat
      /\ \A k \in DOMAIN down'[r] : k >= 1 /\ k \in Nat /\ k + 1 \in DOMAIN d /\ down'[r][k] = d[k + 1]
  BY <1>2, <1>3
<1>5. /\ m.kind \in {"create", "snapshot", "update", "delete"} /\ m.id \in 1..Len(born)
      /\ SetsState(m) => m.info = born[m.id]
  BY <1>2, WayTyped, DownKinds DEF SetsState
<1>6. ASSUME NEW k \in DOMAIN d, SetsState(d[k])
      PROVE  d[k].info = born[d[k].id]
  <2>1. d[k] \in Downs(born)
    BY <1>2
  <2>2. d[k].kind # "delete"
    BY <1>6 DEF SetsState
  <2> QED BY <2>1, <2>2, WayTyped, DownKinds
<1>7. Replica(e, born)
  BY HostReplica
<1>8. \A i \in DOMAIN e : e[i].info = born[i] /\ e[i].val \in Nat /\ e[i] \in Entity
  BY <1>7, EntityFields DEF Replica
<1>9. OwnOnce(e, d, r)
  BY DEF Departures
<1> HIDE DEF e, d, m, n
<1>10. ASSUME m.kind = "create" \/ m.kind = "snapshot"
       PROVE  Keeps(r) /\ OwnOnce(n, down'[r], r)
  <2>1. PICK v : n = Put(e, m.id, Fresh(m.info, v))
    BY <1>10 DEF Apply, n
  <2>2. DOMAIN n = DOMAIN e \cup {m.id} /\ \A i \in DOMAIN e : i # m.id => n[i] = e[i]
    BY <2>1 DEF Put
  <2>3. SetsState(m) /\ m.info = born[m.id]
    BY <1>5, <1>10 DEF SetsState
  <2>4. m.info.owner = r => m.kind = "create" /\ m.id \notin DOMAIN e
    BY <2>3, <1>2, <1>9 DEF OwnOnce
  <2>5. Keeps(r)
    <3> SUFFICES ASSUME NEW i \in DOMAIN e \cap DOMAIN n, e[i].info.owner = r
                 PROVE  n[i].val >= e[i].val
      BY <1>3 DEF Keeps, e
    <3>1. i # m.id
      BY <2>3, <2>4, <1>8
    <3> QED BY <3>1, <2>2, <1>8
  <2>6. OwnOnce(n, down'[r], r)
    <3> SUFFICES ASSUME NEW k \in DOMAIN down'[r], SetsState(down'[r][k]), down'[r][k].info.owner = r
                 PROVE  /\ down'[r][k].kind = "create" /\ down'[r][k].id \notin DOMAIN n
                        /\ \A j \in DOMAIN down'[r] :
                             down'[r][j].kind = "create" /\ down'[r][j].id = down'[r][k].id => j = k
      BY DEF OwnOnce
    <3>1. k + 1 \in DOMAIN d /\ down'[r][k] = d[k + 1]
      BY <1>4
    <3>2. /\ d[k + 1].kind = "create" /\ d[k + 1].id \notin DOMAIN e
          /\ \A j \in DOMAIN d : d[j].kind = "create" /\ d[j].id = d[k + 1].id => j = k + 1
      BY <3>1, <1>9 DEF OwnOnce
    <3>3. m.id # d[k + 1].id
      <4> SUFFICES ASSUME m.id = d[k + 1].id PROVE FALSE
        OBVIOUS
      <4>1. m.info.owner = r
        BY <3>1, <2>3, <1>6
      <4>2. m.kind = "create"
        BY <4>1, <2>4
      <4>3. 1 = k + 1
        BY <4>2, <3>2, <1>2
      <4> QED BY <4>3, <1>4
    <3>4. ASSUME NEW j \in DOMAIN down'[r], down'[r][j].kind = "create", down'[r][j].id = down'[r][k].id
          PROVE  j = k
      <4>1. j + 1 = k + 1
        BY <3>1, <3>2, <3>4, <1>4
      <4> QED BY <4>1, <1>4
    <3> QED BY <3>1, <3>2, <3>3, <3>4, <2>2
  <2> QED BY <2>5, <2>6
<1>11. ASSUME m.kind = "update" \/ m.kind = "delete"
       PROVE  Keeps(r) /\ OwnOnce(n, down'[r], r)
  <2>1. DOMAIN n = DOMAIN e /\ \A i \in DOMAIN e : e[i].info.owner = r => n[i].val = e[i].val
    <3>1. CASE m.kind = "update" /\ m.id \in DOMAIN e /\ e[m.id].info = m.info
      <4>1. n = [e EXCEPT ![m.id].val = m.val]
        BY <3>1 DEF Apply, n
      <4>2. SetsState(m) /\ m.kind # "create"
        BY <3>1 DEF SetsState
      <4>3. m.info.owner # r
        BY <4>2, <1>2, <1>9 DEF OwnOnce
      <4>4. \A i \in DOMAIN e : e[i].info.owner = r => i # m.id
        BY <4>3, <3>1
      <4> QED BY <4>1, <4>4
    <3>2. CASE m.kind = "update" /\ ~(m.id \in DOMAIN e /\ e[m.id].info = m.info)
      BY <3>2 DEF Apply, n
    <3>3. CASE m.kind = "delete"
      <4>1. n = MarkIn(e, {m.id})
        BY <3>3 DEF Apply, n
      <4> QED BY <4>1, <1>8 DEF MarkIn, Entity
    <3> QED BY <1>11, <3>1, <3>2, <3>3
  <2>2. Keeps(r)
    BY <2>1, <1>3, <1>8 DEF Keeps, e
  <2>3. OwnOnce(n, down'[r], r)
    <3> SUFFICES ASSUME NEW k \in DOMAIN down'[r], SetsState(down'[r][k]), down'[r][k].info.owner = r
                 PROVE  /\ down'[r][k].kind = "create" /\ down'[r][k].id \notin DOMAIN e
                        /\ \A j \in DOMAIN down'[r] :
                             down'[r][j].kind = "create" /\ down'[r][j].id = down'[r][k].id => j = k
      BY <2>1 DEF OwnOnce
    <3>1. k + 1 \in DOMAIN d /\ down'[r][k] = d[k + 1]
      BY <1>4
    <3>2. /\ d[k + 1].kind = "create" /\ d[k + 1].id \notin DOMAIN e
          /\ \A j \in DOMAIN d : d[j].kind = "create" /\ d[j].id = d[k + 1].id => j = k + 1
      BY <3>1, <1>9 DEF OwnOnce
    <3>3. ASSUME NEW j \in DOMAIN down'[r], down'[r][j].kind = "create", down'[r][j].id = down'[r][k].id
          PROVE  j = k
      <4>1. j + 1 = k + 1
        BY <3>1, <3>2, <3>3, <1>4
      <4> QED BY <4>1, <1>4
    <3> QED BY <3>1, <3>2, <3>3
  <2> QED BY <2>2, <2>3
<1>12. Keeps(r) /\ OwnOnce(n, down'[r], r)
  BY <1>5, <1>10, <1>11
<1>13. ASSUME NEW c \in Clients PROVE Keeps(c)
  BY <1>3, <1>12, ValuesKept
<1>14. Departures'
  <2> SUFFICES ASSUME NEW s \in Remotes PROVE OwnOnce(ents'[s], down'[s], s)
    BY DEF Departures
  <2>1. CASE s = r
    BY <2>1, <1>3, <1>12
  <2>2. CASE s # r
    BY <2>2, <1>3, HostReplica DEF Departures
  <2> QED BY <2>1, <2>2
<1> QED BY <1>1, <1>13, <1>14, ArrivalsKept DEF Kept

(* A client sends and changes nothing but, perhaps, what it holds.         *)
LEMMA KeptBySend ==
  ASSUME Inv, Arrivals, Departures, NEW r \in Remotes, NEW q \in Seq(Ups(born)), RemoteSend(r, q),
         \A k \in DOMAIN q : /\ q[k].kind # "connected"
                             /\ q[k].kind = "update" => q[k].info.owner = r,
         \A c \in Clients : Keeps(c),
         \A s \in Remotes : DOMAIN ents'[s] \subseteq DOMAIN ents[s]
  PROVE  Kept
<1>1. down' = down
  BY DEF RemoteSend
<1> QED BY <1>1, ArrivalsSent, DeparturesKept DEF Kept

LEMMA KeptByRemoteUpdate ==
  ASSUME Inv, Arrivals, Departures, NEW r \in Remotes, RemoteUpdate(r)
  PROVE  Kept
<1> DEFINE e == ents[r]
           lost == Orphans(e)
<1>1. PICK ids \in Ascending(lost) : RemoteSend(r, [i \in 1..Len(ids) |-> Deletion(ids[i])])
  BY DEF RemoteUpdate
<1>2. Replica(e, born) /\ born \in Seq(Info)
  BY HostReplica
<1>3. lost \subseteq DOMAIN e /\ lost \subseteq 1..Len(born)
  BY <1>2 DEF Replica, Orphans
<1> HIDE DEF lost
<1>4. ids \in Seq(lost)
  BY <1>2, <1>3, OrderedTyped
<1> DEFINE q == [i \in 1..Len(ids) |-> Deletion(ids[i])]
<1>5. q \in Seq(Ups(born)) /\ \A k \in DOMAIN q : q[k].kind = "delete"
  BY <1>2, <1>3, <1>4, ReadOutTyped, DeletionKind
<1>6. /\ \A c \in Clients : Keeps(c)
      /\ \A s \in Remotes : DOMAIN ents'[s] \subseteq DOMAIN ents[s]
  <2>1. ents' = [ents EXCEPT ![r] = Erase(ents[r], Marked(ents[r]))]
    BY DEF RemoteUpdate
  <2> QED BY <2>1, HostReplica, EntsErased
<1>7. RemoteSend(r, q)
  BY <1>1
<1> HIDE DEF q
<1> QED BY <1>5, <1>6, <1>7, KeptBySend

LEMMA KeptByRemoteTick ==
  ASSUME Inv, Arrivals, Departures, NEW r \in Remotes, RemoteTick(r)
  PROVE  Kept
<1> DEFINE own == {i \in DOMAIN ents[r] : ents[r][i].info.owner = r}
<1>1. PICK ids \in Ascending(own) : RemoteSend(r, [i \in 1..Len(ids) |-> Update(ids[i], ents[r][ids[i]])])
  BY DEF RemoteTick
<1> DEFINE q == [i \in 1..Len(ids) |-> Update(ids[i], ents[r][ids[i]])]
<1>2. Replica(ents[r], born) /\ born \in Seq(Info)
  BY HostReplica
<1>3. own \subseteq DOMAIN ents[r] /\ own \subseteq 1..Len(born)
  BY <1>2 DEF Replica
<1>4. ids \in Seq(own)
  BY <1>2, <1>3, OrderedTyped
<1>5. q \in Seq(Ups(born))
  BY <1>2, <1>3, <1>4, ReadOutTyped
<1>6. \A k \in DOMAIN q : q[k].kind = "update" /\ q[k].info.owner = r
  <2> SUFFICES ASSUME NEW k \in 1..Len(ids) PROVE q[k].kind = "update" /\ q[k].info.owner = r
    OBVIOUS
  <2>1. ids[k] \in own
    BY <1>4
  <2> QED BY <2>1, UpdateKind
<1>7. RemoteSend(r, q) /\ ents' = ents
  BY <1>1 DEF RemoteTick
<1> HIDE DEF q
<1> QED BY <1>5, <1>6, <1>7, EntsKept, KeptBySend

LEMMA KeptByRemoteCall ==
  ASSUME Inv, Arrivals, Departures, NEW r \in Remotes, RemoteCreate(r) \/ RemoteDelete(r)
  PROVE  Kept
<1>1. CASE RemoteCreate(r)
  <2>1. PICK t \in Types :
          RemoteSend(r, Append([i \in 1..Len(Children[t]) |-> CreateRequest(Children[t][i])], CreateRequest(t)))
    BY <1>1 DEF RemoteCreate
  <2> DEFINE s == [i \in 1..Len(Children[t]) |-> CreateRequest(Children[t][i])]
             q == Append(s, CreateRequest(t))
             Requests == {CreateRequest(u) : u \in Types}
  <2>2. Children[t] \in Seq(Types)
    BY ChildrenAssumption
  <2>3. s \in Seq(Requests) /\ CreateRequest(t) \in Requests
    BY <2>2
  <2>4. q \in Seq(Requests)
    BY <2>3
  <2>5. Requests \subseteq Ups(born) /\ \A m \in Requests : m.kind = "request"
    BY DEF Ups, CreateRequest
  <2>6. RemoteSend(r, q) /\ ents' = ents
    BY <2>1, <1>1 DEF RemoteCreate
  <2> HIDE DEF q, Requests
  <2>7. q \in Seq(Ups(born)) /\ \A k \in DOMAIN q : q[k].kind = "request"
    BY <2>4, <2>5
  <2> QED BY <2>6, <2>7, EntsKept, KeptBySend
<1>2. CASE RemoteDelete(r)
  <2>1. PICK i \in DOMAIN ents[r] : RemoteSend(r, <<Deletion(i)>>)
    BY <1>2 DEF RemoteDelete
  <2>2. Deletion(i) \in Ups(born)
    BY HostReplica, DeletionTyped DEF Replica
  <2>3. <<Deletion(i)>> \in Seq(Ups(born)) /\ \A k \in DOMAIN <<Deletion(i)>> : <<Deletion(i)>>[k].kind = "delete"
    BY <2>2, DeletionKind, OneElement
  <2>4. ents' = ents
    BY <1>2 DEF RemoteDelete
  <2> QED BY <2>1, <2>3, <2>4, EntsKept, KeptBySend
<1> QED BY <1>1, <1>2

LEMMA NextKept == Inv /\ Arrivals /\ Departures /\ [Next]_vars => Kept
<1> SUFFICES ASSUME Inv, Arrivals, Departures, [Next]_vars PROVE Kept
  OBVIOUS
<1>1. CASE NetPush \/ \E r \in Remotes : NetConsume(r)
  BY <1>1, KeptByNet
<1>2. CASE StartDrain
  BY <1>2, KeptQuietly DEF StartDrain, Way
<1>3. CASE HostHandle
  BY <1>3, KeptByConnected, KeptByDisconnected, KeptByRequest, KeptByUpdate, KeptByDeletion DEF HostHandle
<1>4. CASE EndDrain \/ SceneUpdate
  BY <1>4, KeptByTick, KeptBySceneUpdate
<1>5. CASE HostCreate \/ HostDelete
  BY <1>5, KeptByHostCreate, KeptByHostDelete
<1>6. ASSUME NEW c \in Clients, Mutate(c) PROVE Kept
  BY <1>6, KeptByMutate
<1>7. ASSUME NEW r \in Remotes,
             Join(r) \/ Leave(r) \/ RemoteHandle(r) \/ RemoteUpdate(r) \/ RemoteTick(r)
               \/ RemoteCreate(r) \/ RemoteDelete(r)
      PROVE  Kept
  BY <1>7, KeptByJoin, KeptByLeave, KeptByRemoteHandle, KeptByRemoteUpdate, KeptByRemoteTick, KeptByRemoteCall
<1>8. CASE UNCHANGED vars
  BY <1>8, KeptQuietly DEF vars, Way
<1> QED BY <1>1, <1>2, <1>3, <1>4, <1>5, <1>6, <1>7, <1>8, HostReplica DEF Next

LEMMA InitKept == Init => Arrivals /\ Departures
<1> SUFFICES ASSUME Init PROVE Arrivals /\ Departures
  OBVIOUS
<1>1. <<>> \o <<>> = <<>>
  OBVIOUS
<1>2. Way = <<>> /\ DOMAIN Way = {} /\ Len(born) = 0
  BY <1>1 DEF Init, Way
<1>3. \A r \in Remotes : up[r] = <<>> /\ down[r] = <<>> /\ r \notin joined
  BY DEF Init
<1>4. Arrivals
  BY <1>2, <1>3 DEF Arrivals, ConnectedFirst, OwnsNothingBefore, SendsOwnUpdates
<1>5. Departures
  BY <1>3 DEF Departures, OwnOnce
<1> QED BY <1>4, <1>5

(* Nothing that the network brings back to the owner of an entity, an echo *)
(* of its own update, a second creation or a snapshot, sets back its state *)
(* there (Scenegraph.cpp 71, 78-92, 130-168, 436-456).                     *)
THEOREM OwnerNeverSetBackTheorem == Spec => OwnerNeverSetBack
<1>1. Inv /\ Arrivals /\ Departures /\ [Next]_vars => (Arrivals /\ Departures)'
  BY NextKept DEF Kept
<1>2. Inv /\ Arrivals /\ Departures /\ [Next]_vars =>
        [\A c \in Clients : \A i \in DOMAIN ents[c] \cap DOMAIN ents'[c] :
           ents[c][i].info.owner = c => ents'[c][i].val >= ents[c][i].val]_vars
  BY NextKept DEF Kept, Keeps
<1> QED BY <1>1, <1>2, InitInv, NextInv, InitKept, PTL DEF Spec, OwnerNeverSetBack

-----------------------------------------------------------------------------
(***************************************************************************)
(* The proof that creations, deletions and state reach every client, for   *)
(* any number of clients, calls and leavers and for queues of any length.  *)
(*                                                                         *)
(* The argument.  The three properties compare the host's replica with     *)
(* Future(r), what r's becomes once all that is under way has arrived, and *)
(* so does the invariant Synced.  Each step of the host sends, to everyone *)
(* the network thread counts as connected, packets that do to Future(r)    *)
(* what the step does to the host's own replica; what r handles leaves     *)
(* Future(r) as it is, and what r does on its own only blurs it.  Reached  *)
(* says why sending to the connected ones is enough: nobody else holds     *)
(* anything, and a client is counted before the main thread sees its       *)
(* CONNECTED, hence before its snapshot is taken.                          *)
(*                                                                         *)
(* Deliver is a recursive function; that it takes a sequence in two parts  *)
(* (DeliverJoin) and its first packet first (DeliverHead), and what it     *)
(* makes of packets for different entities (DeliverDistinct), are proved   *)
(* by induction on the length of the sequence (SequenceInduction).         *)
(***************************************************************************)
-----------------------------------------------------------------------------
(* The replica after each of the packets of q.                             *)

Steps(e, q, g) ==
  /\ g = [n \in 0..Len(q) |-> g[n]]
  /\ g[0] = e
  /\ \A n \in 1..Len(q) : g[n] = Apply(g[n - 1], q[n])

LEMMA StepsExist ==
  ASSUME NEW T, NEW e, NEW q \in Seq(T)
  PROVE  \E g : Steps(e, q, g)
<1> DEFINE Upto(n, g) == /\ g = [k \in 0..n |-> g[k]]
                         /\ g[0] = e
                         /\ \A k \in 1..n : g[k] = Apply(g[k - 1], q[k])
           S == {n \in Nat : \E g : Upto(n, g)}
<1>1. 0 \in S
  <2>1. Upto(0, [k \in 0..0 |-> e])
    OBVIOUS
  <2> QED BY <2>1
<1>2. ASSUME NEW n \in Nat, n \in S PROVE n + 1 \in S
  <2>1. PICK g : Upto(n, g)
    BY <1>2
  <2> DEFINE h == [k \in 0..(n + 1) |-> IF k = n + 1 THEN Apply(g[n], q[n + 1]) ELSE g[k]]
  <2>2. h = [k \in 0..(n + 1) |-> h[k]] /\ h[0] = e
    BY <2>1
  <2>3. ASSUME NEW k \in 1..(n + 1) PROVE h[k] = Apply(h[k - 1], q[k])
    <3>1. CASE k = n + 1
      BY <3>1
    <3>2. CASE k \in 1..n
      <4>1. k \in 0..(n + 1) /\ k - 1 \in 0..(n + 1) /\ k # n + 1 /\ k - 1 # n + 1
        BY <3>2
      <4>2. g[k] = Apply(g[k - 1], q[k])
        BY <3>2, <2>1
      <4> QED BY <4>1, <4>2
    <3> QED BY <3>1, <3>2
  <2>4. Upto(n + 1, h)
    BY <2>2, <2>3
  <2> QED BY <2>4
<1>3. Nat \subseteq S
  BY <1>1, <1>2, Induction
<1>4. Len(q) \in S
  BY <1>3
<1> QED BY <1>4 DEF Steps

LEMMA StepsUnique ==
  ASSUME NEW T, NEW e, NEW q \in Seq(T), NEW g, Steps(e, q, g), NEW h, Steps(e, q, h)
  PROVE  g = h
<1> DEFINE S == {n \in Nat : n <= Len(q) => g[n] = h[n]}
<1>1. 0 \in S
  BY DEF Steps
<1>2. ASSUME NEW n \in Nat, n \in S PROVE n + 1 \in S
  <2> SUFFICES ASSUME n + 1 <= Len(q) PROVE g[n + 1] = h[n + 1]
    OBVIOUS
  <2>1. n + 1 \in 1..Len(q) /\ n <= Len(q) /\ (n + 1) - 1 = n
    OBVIOUS
  <2>2. g[n] = h[n]
    BY <1>2, <2>1
  <2> QED BY <2>1, <2>2 DEF Steps
<1>3. Nat \subseteq S
  BY <1>1, <1>2, Induction
<1>4. \A n \in 0..Len(q) : g[n] = h[n]
  BY <1>3
<1>5. g = [n \in 0..Len(q) |-> g[n]] /\ h = [n \in 0..Len(q) |-> h[n]]
  BY DEF Steps
<1> QED BY <1>4, <1>5

LEMMA DeliverSteps ==
  ASSUME NEW T, NEW e, NEW q \in Seq(T), NEW g, Steps(e, q, g)
  PROVE  Deliver(e, q) = g[Len(q)]
<1> DEFINE F(f) == [n \in 0..Len(q) |-> IF n = 0 THEN e ELSE Apply(f[n - 1], q[n])]
           c == CHOOSE f : f = F(f)
<1>1. g = F(g)
  <2>1. g = [n \in 0..Len(q) |-> g[n]]
    BY DEF Steps
  <2>2. \A n \in 0..Len(q) : g[n] = F(g)[n]
    BY DEF Steps
  <2> QED BY <2>1, <2>2
<1>2. c = F(c)
  BY <1>1
<1>3. Deliver(e, q) = c[Len(q)]
  BY DEF Deliver
<1> HIDE DEF c
<1>4. Steps(e, q, c)
  <2>1. Len(q) \in Nat
    OBVIOUS
  <2> QED BY <1>2, <2>1 DEF Steps
<1>5. c = g
  BY <1>4, StepsUnique
<1> QED BY <1>3, <1>5

LEMMA DeliverNone ==
  ASSUME NEW T, NEW e, NEW q \in Seq(T), Len(q) = 0
  PROVE  Deliver(e, q) = e
<1> DEFINE g == [n \in 0..Len(q) |-> e]
<1>1. Steps(e, q, g)
  BY DEF Steps
<1>2. g[Len(q)] = e
  OBVIOUS
<1> HIDE DEF g
<1>3. Deliver(e, q) = g[Len(q)]
  BY <1>1, DeliverSteps
<1> QED BY <1>2, <1>3

LEMMA DeliverEmpty == \A e : Deliver(e, <<>>) = e
<1> TAKE e
<1>1. PICK q : q \in Seq(Nat) /\ q = <<>> /\ Len(q) = 0
  <2>1. <<>> \in Seq(Nat) /\ Len(<<>>) = 0
    OBVIOUS
  <2> QED BY <2>1
<1>2. Deliver(e, q) = e
  BY <1>1, DeliverNone
<1> QED BY <1>1, <1>2

LEMMA DeliverOne ==
  ASSUME NEW T, NEW e, NEW m \in T
  PROVE  Deliver(e, <<m>>) = Apply(e, m)
<1> DEFINE q == <<m>>
           g == [n \in 0..1 |-> IF n = 0 THEN e ELSE Apply(e, m)]
<1>1. q \in Seq(T) /\ Len(q) = 1 /\ q[1] = m
  OBVIOUS
<1> HIDE DEF q
<1>2. Steps(e, q, g)
  BY <1>1 DEF Steps
<1>3. g[1] = Apply(e, m)
  OBVIOUS
<1> HIDE DEF g
<1>4. Deliver(e, q) = g[Len(q)]
  BY <1>1, <1>2, DeliverSteps
<1> QED BY <1>1, <1>3, <1>4 DEF q

(* A longer sequence is delivered in two parts.                            *)
LEMMA DeliverJoin ==
  ASSUME NEW T, NEW e, NEW q \in Seq(T), NEW s \in Seq(T)
  PROVE  Deliver(e, q \o s) = Deliver(Deliver(e, q), s)
<1> DEFINE w == q \o s
           a == Len(q)
<1>1. /\ w \in Seq(T) /\ a \in Nat /\ Len(s) \in Nat /\ Len(w) = a + Len(s)
      /\ \A k \in 1..a : w[k] = q[k]
      /\ \A k \in 1..Len(s) : w[a + k] = s[k]
  OBVIOUS
<1> HIDE DEF w, a
<1>2. PICK g : Steps(e, w, g)
  BY <1>1, StepsExist
<1> DEFINE f == [n \in 0..a |-> g[n]]
           h == [n \in 0..Len(s) |-> g[a + n]]
<1>3. Steps(e, q, f)
  <2>1. f[0] = e /\ f = [n \in 0..Len(q) |-> f[n]]
    BY <1>1, <1>2 DEF Steps, a
  <2>2. ASSUME NEW n \in 1..Len(q) PROVE f[n] = Apply(f[n - 1], q[n])
    <3>0. n \in 1..a
      BY DEF a
    <3>1. n \in 1..Len(w) /\ n \in 0..a /\ n - 1 \in 0..a /\ w[n] = q[n]
      BY <3>0, <1>1
    <3>2. g[n] = Apply(g[n - 1], w[n])
      BY <3>1, <1>2 DEF Steps
    <3> QED BY <3>1, <3>2
  <2> HIDE DEF f
  <2> QED BY <2>1, <2>2 DEF Steps
<1>4. Deliver(e, q) = g[a]
  <2>1. f[a] = g[a]
    BY <1>1
  <2> HIDE DEF f
  <2> QED BY <1>3, <2>1, DeliverSteps DEF a
<1>5. Steps(g[a], s, h)
  <2>1. h[0] = g[a] /\ h = [n \in 0..Len(s) |-> h[n]]
    <3>1. 0 \in 0..Len(s) /\ a + 0 = a
      BY <1>1
    <3> QED BY <3>1
  <2>2. ASSUME NEW n \in 1..Len(s) PROVE h[n] = Apply(h[n - 1], s[n])
    <3>1. /\ a + n \in 1..Len(w) /\ n \in 0..Len(s) /\ n - 1 \in 0..Len(s) /\ w[a + n] = s[n]
          /\ (a + n) - 1 = a + (n - 1)
      BY <1>1
    <3>2. g[a + n] = Apply(g[a + (n - 1)], w[a + n])
      BY <3>1, <1>2 DEF Steps
    <3> QED BY <3>1, <3>2
  <2> HIDE DEF h
  <2> QED BY <2>1, <2>2 DEF Steps
<1>6. Deliver(g[a], s) = g[Len(w)]
  <2>1. h[Len(s)] = g[Len(w)]
    BY <1>1
  <2> DEFINE e1 == g[a]
  <2>2. Steps(e1, s, h)
    BY <1>5
  <2> HIDE DEF h, e1
  <2>3. Deliver(e1, s) = h[Len(s)]
    BY <2>2, DeliverSteps
  <2> QED BY <2>1, <2>3 DEF e1
<1>7. Deliver(e, w) = g[Len(w)]
  <2>1. w \in Seq(T)
    BY <1>1
  <2> QED BY <2>1, <1>2, DeliverSteps
<1> QED BY <1>4, <1>6, <1>7 DEF w

(* The oldest packet first.                                                *)
LEMMA DeliverHead ==
  ASSUME NEW T, NEW e, NEW q \in Seq(T), q # <<>>
  PROVE  Deliver(Apply(e, Head(q)), Tail(q)) = Deliver(e, q)
<1> DEFINE one == <<Head(q)>>
           rest == Tail(q)
           w == one \o rest
<1>1. Head(q) \in T /\ rest \in Seq(T) /\ one \in Seq(T)
  OBVIOUS
<1>2. w = q
  <2>1. w \in Seq(T) /\ Len(w) = Len(q)
    BY <1>1
  <2>2. \A k \in 1..Len(q) : w[k] = q[k]
    BY <1>1
  <2> HIDE DEF w
  <2> QED BY <2>1, <2>2, SeqEqual
<1>3. Deliver(e, one) = Apply(e, Head(q))
  BY <1>1, DeliverOne
<1>4. Deliver(e, one \o rest) = Deliver(Deliver(e, one), rest)
  <2> HIDE DEF one, rest
  <2> QED BY <1>1, DeliverJoin
<1> QED BY <1>2, <1>3, <1>4

-----------------------------------------------------------------------------
(* One packet touches one entity.                                          *)

Valued(x, v) == [x EXCEPT !.val = v]
Removed(x) == [x EXCEPT !.remove = TRUE]

LEMMA ValuedFields ==
  \A x \in Entity : \A v :
    Valued(x, v).info = x.info /\ Valued(x, v).remove = x.remove /\ Valued(x, v).val = v
  BY DEF Entity, Valued

LEMMA RemovedFields ==
  \A x \in Entity :
    Removed(x).info = x.info /\ Removed(x).val = x.val /\ Removed(x).remove = TRUE
  BY DEF Entity, Removed

LEMMA Applied ==
  ASSUME NEW b \in Seq(Info), NEW e, Replica(e, b), NEW m \in Downs(b), NEW n, n = Apply(e, m)
  PROVE  /\ Replica(n, b) /\ DOMAIN e \subseteq DOMAIN n /\ DOMAIN n \subseteq DOMAIN e \cup {m.id}
         /\ m.kind \in {"create", "snapshot", "update", "delete"}
         /\ \A i \in DOMAIN e : i # m.id => n[i] = e[i]
         /\ m.kind = "create" => m.id \in DOMAIN n /\ n[m.id] = Fresh(m.info, 0)
         /\ m.kind = "snapshot" => m.id \in DOMAIN n /\ n[m.id] = Fresh(m.info, m.val)
         /\ m.kind \in {"update", "delete"} => DOMAIN n = DOMAIN e
         /\ m.id \in DOMAIN e /\ m.kind = "update" => n[m.id] = Valued(e[m.id], m.val)
         /\ m.id \in DOMAIN e /\ m.kind = "delete" => n[m.id] = Removed(e[m.id])
<1>1. Replica(n, b) /\ m.kind \in {"create", "snapshot", "update", "delete"}
  BY ApplyReplica, DownKinds
<1>2. CASE m.kind = "create"
  <2>1. n = Put(e, m.id, Fresh(m.info, 0))
    BY <1>2 DEF Apply
  <2>2. /\ DOMAIN n = DOMAIN e \cup {m.id} /\ n[m.id] = Fresh(m.info, 0)
        /\ \A i \in DOMAIN e : i # m.id => n[i] = e[i]
    BY <2>1 DEF Put
  <2> QED BY <1>1, <1>2, <2>2
<1>3. CASE m.kind = "snapshot"
  <2>1. n = Put(e, m.id, Fresh(m.info, m.val))
    BY <1>3 DEF Apply
  <2>2. /\ DOMAIN n = DOMAIN e \cup {m.id} /\ n[m.id] = Fresh(m.info, m.val)
        /\ \A i \in DOMAIN e : i # m.id => n[i] = e[i]
    BY <2>1 DEF Put
  <2> QED BY <1>1, <1>3, <2>2
<1>4. CASE m.kind = "update" /\ m.id \in DOMAIN e
  <2>1. e[m.id].info = m.info
    BY <1>4, DownKinds DEF Replica
  <2>2. n = [e EXCEPT ![m.id].val = m.val]
    BY <1>4, <2>1 DEF Apply
  <2>3. /\ DOMAIN n = DOMAIN e /\ n[m.id] = Valued(e[m.id], m.val)
        /\ \A i \in DOMAIN e : i # m.id => n[i] = e[i]
    BY <2>2, <1>4 DEF Valued
  <2> QED BY <1>1, <1>4, <2>3
<1>5. CASE m.kind = "update" /\ m.id \notin DOMAIN e
  <2>1. n = e
    BY <1>5 DEF Apply
  <2> QED BY <1>1, <1>5, <2>1
<1>6. CASE m.kind = "delete"
  <2>1. n = MarkIn(e, {m.id})
    BY <1>6 DEF Apply
  <2>2. /\ DOMAIN n = DOMAIN e
        /\ m.id \in DOMAIN e => n[m.id] = Removed(e[m.id])
        /\ \A i \in DOMAIN e : i # m.id => n[i] = e[i]
    BY <2>1 DEF MarkIn, Removed
  <2> QED BY <1>1, <1>6, <2>2
<1> QED BY <1>1, <1>2, <1>3, <1>4, <1>5, <1>6

LEMMA CreationApplied ==
  ASSUME NEW b \in Seq(Info), NEW e, Replica(e, b), NEW m \in Downs(b), m.kind = "create"
  PROVE  m.id \in DOMAIN Apply(e, m) /\ Apply(e, m)[m.id] = Fresh(m.info, 0)
<1>1. Apply(e, m) = Put(e, m.id, Fresh(m.info, 0))
  BY DEF Apply
<1> QED BY <1>1 DEF Put

(* e and f hold the same under i.                                          *)
Same(e, f, i) == (i \in DOMAIN e <=> i \in DOMAIN f) /\ (i \in DOMAIN e => e[i] = f[i])

LEMMA SameElsewhere ==
  ASSUME NEW b \in Seq(Info), NEW e, Replica(e, b), NEW m \in Downs(b), NEW i, i # m.id
  PROVE  Same(Apply(e, m), e, i)
<1> DEFINE n == Apply(e, m)
<1>1. /\ DOMAIN e \subseteq DOMAIN n /\ DOMAIN n \subseteq DOMAIN e \cup {m.id}
      /\ \A j \in DOMAIN e : j # m.id => n[j] = e[j]
  BY Applied
<1> HIDE DEF n
<1> QED BY <1>1 DEF Same, n

LEMMA SameHere ==
  ASSUME NEW b \in Seq(Info), NEW m \in Downs(b),
         NEW e, Replica(e, b), NEW f, Replica(f, b), Same(e, f, m.id)
  PROVE  Same(Apply(e, m), Apply(f, m), m.id)
<1> DEFINE n == Apply(e, m)
           o == Apply(f, m)
<1>1. /\ m.kind \in {"create", "snapshot", "update", "delete"}
      /\ m.kind = "create" => m.id \in DOMAIN n /\ n[m.id] = Fresh(m.info, 0)
      /\ m.kind = "snapshot" => m.id \in DOMAIN n /\ n[m.id] = Fresh(m.info, m.val)
      /\ m.kind \in {"update", "delete"} => DOMAIN n = DOMAIN e
      /\ m.id \in DOMAIN e /\ m.kind = "update" => n[m.id] = Valued(e[m.id], m.val)
      /\ m.id \in DOMAIN e /\ m.kind = "delete" => n[m.id] = Removed(e[m.id])
  BY Applied
<1>2. /\ m.kind = "create" => m.id \in DOMAIN o /\ o[m.id] = Fresh(m.info, 0)
      /\ m.kind = "snapshot" => m.id \in DOMAIN o /\ o[m.id] = Fresh(m.info, m.val)
      /\ m.kind \in {"update", "delete"} => DOMAIN o = DOMAIN f
      /\ m.id \in DOMAIN f /\ m.kind = "update" => o[m.id] = Valued(f[m.id], m.val)
      /\ m.id \in DOMAIN f /\ m.kind = "delete" => o[m.id] = Removed(f[m.id])
  BY Applied
<1> HIDE DEF n, o
<1>3. CASE m.kind \in {"create", "snapshot"}
  BY <1>1, <1>2, <1>3 DEF Same, n, o
<1>4. CASE m.kind \in {"update", "delete"}
  BY <1>1, <1>2, <1>4 DEF Same, n, o
<1> QED BY <1>1, <1>3, <1>4

Distinct(q) == \A j, k \in DOMAIN q : q[j].id = q[k].id => j = k

(* Packets for different entities do not interfere.                        *)
LEMMA DeliverDistinct ==
  ASSUME NEW b \in Seq(Info), NEW e, Replica(e, b), NEW q \in Seq(Downs(b)), Distinct(q)
  PROVE  /\ Replica(Deliver(e, q), b)
         /\ \A i : (\A k \in DOMAIN q : q[k].id # i) => Same(Deliver(e, q), e, i)
         /\ \A k \in DOMAIN q : Same(Deliver(e, q), Apply(e, q[k]), q[k].id)
<1>1. PICK g : Steps(e, q, g)
  BY StepsExist
<1>2. Deliver(e, q) = g[Len(q)]
  BY <1>1, DeliverSteps
<1> DEFINE Off(n) == \A i : (\A k \in 1..n : q[k].id # i) => Same(g[n], e, i)
           On(n) == \A k \in 1..n : Same(g[n], Apply(e, q[k]), q[k].id)
           S == {n \in Nat : n <= Len(q) => Replica(g[n], b) /\ Off(n) /\ On(n)}
<1>3. 0 \in S
  <2>1. g[0] = e
    BY <1>1 DEF Steps
  <2>2. \A i : Same(e, e, i)
    BY DEF Same
  <2> QED BY <2>1, <2>2
<1>4. ASSUME NEW n \in Nat, n \in S PROVE n + 1 \in S
  <2> SUFFICES ASSUME n + 1 <= Len(q) PROVE Replica(g[n + 1], b) /\ Off(n + 1) /\ On(n + 1)
    OBVIOUS
  <2> DEFINE m == q[n + 1]
  <2>1. Replica(g[n], b) /\ Off(n) /\ On(n)
    BY <1>4
  <2>2. n + 1 \in 1..Len(q) /\ m \in Downs(b) /\ n + 1 \in DOMAIN q
    OBVIOUS
  <2>3. g[n + 1] = Apply(g[n], m)
    <3>1. g[n + 1] = Apply(g[(n + 1) - 1], q[n + 1])
      BY <1>1, <2>2 DEF Steps
    <3>2. (n + 1) - 1 = n
      OBVIOUS
    <3> QED BY <3>1, <3>2
  <2>4. \A k \in 1..n : k \in DOMAIN q /\ q[k] \in Downs(b) /\ q[k].id # m.id
    <3> SUFFICES ASSUME NEW k \in 1..n PROVE k \in DOMAIN q /\ q[k] \in Downs(b) /\ q[k].id # m.id
      OBVIOUS
    <3>1. k \in 1..Len(q) /\ k # n + 1 /\ DOMAIN q = 1..Len(q)
      BY <2>2
    <3>2. q[k].id = q[n + 1].id => k = n + 1
      BY <3>1, <2>2 DEF Distinct
    <3> QED BY <3>1, <3>2
  <2>5. \A k \in 1..(n + 1) : k \in 1..n \/ k = n + 1
    OBVIOUS
  <2>6. \A k \in 1..n : k \in 1..(n + 1)
    OBVIOUS
  <2>7. n + 1 \in 1..(n + 1)
    OBVIOUS
  <2> HIDE DEF m
  <2>8. Replica(g[n + 1], b)
    BY <2>1, <2>2, <2>3, ApplyReplica
  <2>9. \A i : i # m.id => Same(g[n + 1], g[n], i)
    BY <2>1, <2>2, <2>3, SameElsewhere
  <2>10. Off(n + 1)
    <3> SUFFICES ASSUME NEW i, \A k \in 1..(n + 1) : q[k].id # i PROVE Same(g[n + 1], e, i)
      OBVIOUS
    <3>1. i # m.id
      BY <2>7 DEF m
    <3>2. Same(g[n + 1], g[n], i)
      BY <3>1, <2>9
    <3>3. Same(g[n], e, i)
      BY <2>1, <2>6
    <3> QED BY <3>2, <3>3 DEF Same
  <2>11. On(n + 1)
    <3> SUFFICES ASSUME NEW k \in 1..(n + 1) PROVE Same(g[n + 1], Apply(e, q[k]), q[k].id)
      OBVIOUS
    <3>1. CASE k \in 1..n
      <4>1. Same(g[n], Apply(e, q[k]), q[k].id)
        BY <3>1, <2>1
      <4>2. Same(g[n + 1], g[n], q[k].id)
        BY <3>1, <2>4, <2>9
      <4> QED BY <4>1, <4>2 DEF Same
    <3>2. CASE k = n + 1
      <4>1. Same(g[n], e, m.id)
        BY <2>1, <2>4
      <4>2. Same(Apply(g[n], m), Apply(e, m), m.id)
        BY <4>1, <2>1, <2>2, SameHere
      <4> QED BY <4>2, <3>2, <2>3 DEF m
    <3> QED BY <3>1, <3>2, <2>5
  <2> QED BY <2>8, <2>10, <2>11
<1>5. Nat \subseteq S
  BY <1>3, <1>4, Induction
<1>6. Len(q) \in Nat /\ DOMAIN q = 1..Len(q) /\ Len(q) <= Len(q)
  OBVIOUS
<1>7. Replica(g[Len(q)], b) /\ Off(Len(q)) /\ On(Len(q))
  <2>1. Len(q) \in S
    BY <1>5, <1>6
  <2> QED BY <1>6, <2>1
<1> QED BY <1>2, <1>6, <1>7

-----------------------------------------------------------------------------
(* What a client does on its own: it may erase what is marked and change   *)
(* the state of what it owns.  e is what it holds then, f what it held.    *)
Blur(e, f, r) ==
  /\ DOMAIN e \subseteq DOMAIN f
  /\ \A i \in DOMAIN e : /\ e[i].info = f[i].info /\ e[i].remove = f[i].remove
                         /\ e[i].info.owner # r => e[i].val = f[i].val
  /\ \A i \in DOMAIN f \ DOMAIN e : f[i].remove

LEMMA FreshFields ==
  \A x, v : Fresh(x, v).info = x /\ Fresh(x, v).val = v /\ Fresh(x, v).remove = FALSE
  BY DEF Fresh

LEMMA BlurApply ==
  ASSUME NEW b \in Seq(Info), NEW m \in Downs(b), NEW r,
         NEW e, Replica(e, b), NEW f, Replica(f, b), Blur(e, f, r)
  PROVE  Blur(Apply(e, m), Apply(f, m), r)
<1> DEFINE n == Apply(e, m)
           o == Apply(f, m)
           x == m.id
<1>1. /\ m.kind \in {"create", "snapshot", "update", "delete"}
      /\ DOMAIN e \subseteq DOMAIN n /\ DOMAIN n \subseteq DOMAIN e \cup {x}
      /\ \A i \in DOMAIN e : i # x => n[i] = e[i]
      /\ m.kind = "create" => x \in DOMAIN n /\ n[x] = Fresh(m.info, 0)
      /\ m.kind = "snapshot" => x \in DOMAIN n /\ n[x] = Fresh(m.info, m.val)
      /\ m.kind \in {"update", "delete"} => DOMAIN n = DOMAIN e
      /\ x \in DOMAIN e /\ m.kind = "update" => n[x] = Valued(e[x], m.val)
      /\ x \in DOMAIN e /\ m.kind = "delete" => n[x] = Removed(e[x])
  BY Applied
<1>2. /\ DOMAIN f \subseteq DOMAIN o /\ DOMAIN o \subseteq DOMAIN f \cup {x}
      /\ \A i \in DOMAIN f : i # x => o[i] = f[i]
      /\ m.kind = "create" => x \in DOMAIN o /\ o[x] = Fresh(m.info, 0)
      /\ m.kind = "snapshot" => x \in DOMAIN o /\ o[x] = Fresh(m.info, m.val)
      /\ m.kind \in {"update", "delete"} => DOMAIN o = DOMAIN f
      /\ x \in DOMAIN f /\ m.kind = "update" => o[x] = Valued(f[x], m.val)
      /\ x \in DOMAIN f /\ m.kind = "delete" => o[x] = Removed(f[x])
  BY Applied
<1>3. /\ \A i \in DOMAIN e : e[i] \in Entity
      /\ \A i \in DOMAIN f : f[i] \in Entity
  BY DEF Replica
<1> HIDE DEF n, o, x
<1>4. DOMAIN n \subseteq DOMAIN o
  BY <1>1, <1>2 DEF Blur
<1>5. ASSUME NEW i \in DOMAIN n, i # x
      PROVE  /\ n[i].info = o[i].info /\ n[i].remove = o[i].remove
             /\ n[i].info.owner # r => n[i].val = o[i].val
  BY <1>1, <1>2, <1>5 DEF Blur
<1>6. ASSUME x \in DOMAIN n
      PROVE  /\ n[x].info = o[x].info /\ n[x].remove = o[x].remove
             /\ n[x].info.owner # r => n[x].val = o[x].val
  <2>1. CASE m.kind \in {"create", "snapshot"}
    BY <2>1, <1>1, <1>2
  <2>2. CASE m.kind = "update"
    <3>1. x \in DOMAIN e /\ x \in DOMAIN f
      BY <2>2, <1>1, <1>6 DEF Blur
    <3>2. n[x] = Valued(e[x], m.val) /\ o[x] = Valued(f[x], m.val)
      BY <3>1, <2>2, <1>1, <1>2
    <3>3. e[x] \in Entity /\ f[x] \in Entity /\ e[x].info = f[x].info /\ e[x].remove = f[x].remove
      BY <3>1, <1>3 DEF Blur
    <3> QED BY <3>2, <3>3, ValuedFields, RemovedFields
  <2>3. CASE m.kind = "delete"
    <3>1. x \in DOMAIN e /\ x \in DOMAIN f
      BY <2>3, <1>1, <1>6 DEF Blur
    <3>2. n[x] = Removed(e[x]) /\ o[x] = Removed(f[x])
      BY <3>1, <2>3, <1>1, <1>2
    <3>3. /\ e[x] \in Entity /\ f[x] \in Entity /\ e[x].info = f[x].info
          /\ e[x].info.owner # r => e[x].val = f[x].val
      BY <3>1, <1>3 DEF Blur
    <3>4. n[x].remove = TRUE /\ n[x].info = e[x].info /\ n[x].val = e[x].val
      BY <3>2, <3>3, RemovedFields
    <3>5. o[x].remove = TRUE /\ o[x].info = f[x].info /\ o[x].val = f[x].val
      BY <3>2, <3>3, RemovedFields
    <3> QED BY <3>3, <3>4, <3>5
  <2> QED BY <1>1, <2>1, <2>2, <2>3
<1>7. ASSUME NEW i \in DOMAIN o, i \notin DOMAIN n
      PROVE  o[i].remove
  <2>1. i \in DOMAIN f /\ i \notin DOMAIN e
    BY <1>1, <1>2, <1>7
  <2>2. f[i].remove /\ f[i] \in Entity
    BY <2>1, <1>3 DEF Blur
  <2>3. CASE i # x
    BY <2>1, <2>2, <2>3, <1>2
  <2>4. CASE i = x
    <3>1. m.kind \in {"update", "delete"}
      BY <2>4, <1>1, <1>7
    <3>2. o[x] = Valued(f[x], m.val) \/ o[x] = Removed(f[x])
      BY <3>1, <2>1, <2>4, <1>2
    <3> QED BY <3>2, <2>2, <2>4, ValuedFields, RemovedFields
  <2> QED BY <2>3, <2>4
<1> QED BY <1>4, <1>5, <1>6, <1>7 DEF Blur, n, o

LEMMA BlurDeliver ==
  ASSUME NEW b \in Seq(Info), NEW q \in Seq(Downs(b)), NEW r,
         NEW e, Replica(e, b), NEW f, Replica(f, b), Blur(e, f, r)
  PROVE  Blur(Deliver(e, q), Deliver(f, q), r) /\ Replica(Deliver(e, q), b) /\ Replica(Deliver(f, q), b)
<1>1. PICK g : Steps(e, q, g)
  BY StepsExist
<1>2. PICK h : Steps(f, q, h)
  BY StepsExist
<1>3. Deliver(e, q) = g[Len(q)] /\ Deliver(f, q) = h[Len(q)]
  BY <1>1, <1>2, DeliverSteps
<1> DEFINE Good(n) == Replica(g[n], b) /\ Replica(h[n], b) /\ Blur(g[n], h[n], r)
           S == {n \in Nat : n <= Len(q) => Good(n)}
<1>4. 0 \in S
  BY <1>1, <1>2 DEF Steps
<1>5. ASSUME NEW n \in Nat, n \in S PROVE n + 1 \in S
  <2> SUFFICES ASSUME n + 1 <= Len(q) PROVE Good(n + 1)
    OBVIOUS
  <2>1. Good(n)
    BY <1>5
  <2>2. n + 1 \in 1..Len(q) /\ q[n + 1] \in Downs(b) /\ (n + 1) - 1 = n
    OBVIOUS
  <2>3. g[n + 1] = Apply(g[n], q[n + 1])
    BY <2>2, <1>1 DEF Steps
  <2>4. h[n + 1] = Apply(h[n], q[n + 1])
    BY <2>2, <1>2 DEF Steps
  <2>5. Replica(g[n + 1], b) /\ Replica(h[n + 1], b)
    BY <2>1, <2>2, <2>3, <2>4, ApplyReplica
  <2>6. Blur(g[n + 1], h[n + 1], r)
    BY <2>1, <2>2, <2>3, <2>4, BlurApply
  <2> QED BY <2>5, <2>6
<1>6. Nat \subseteq S
  BY <1>4, <1>5, Induction
<1>7. Len(q) \in Nat /\ Len(q) <= Len(q)
  OBVIOUS
<1>8. Good(Len(q))
  <2>1. Len(q) \in S
    BY <1>6, <1>7
  <2> QED BY <1>7, <2>1
<1> QED BY <1>3, <1>8

-----------------------------------------------------------------------------
(* What the host sends, entity by entity, and what becomes of a replica    *)
(* that it is delivered to.                                                *)

(* A list of IDs in order names each of them once, and all of them.        *)
LEMMA OrderedLists ==
  ASSUME NEW b \in Seq(Info), NEW S, S \subseteq 1..Len(b),
         NEW ids \in Ascending(S) \cup Descending(S)
  PROVE  /\ ids \in Seq(S)
         /\ \A j, k \in DOMAIN ids : ids[j] = ids[k] => j = k
         /\ \A i \in S : \E k \in DOMAIN ids : ids[k] = i
<1> DEFINE n == Cardinality(S)
<1>1. IsFiniteSet(S) /\ n \in Nat
  <2>1. Len(b) \in Nat
    OBVIOUS
  <2>2. IsFiniteSet(1..Len(b))
    BY <2>1, FS_Interval
  <2>3. IsFiniteSet(S)
    BY <2>2, FS_Subset
  <2> QED BY <2>3, FS_CardinalityType
<1>2. /\ ids \in [1..n -> S]
      /\ \/ \A i, j \in DOMAIN ids : i < j => ids[i] < ids[j]
         \/ \A i, j \in DOMAIN ids : i < j => ids[i] > ids[j]
  BY DEF Ascending, Descending
<1> HIDE DEF n
<1>3. \A j, k \in DOMAIN ids : ids[j] = ids[k] => j = k
  <2> SUFFICES ASSUME NEW j \in DOMAIN ids, NEW k \in DOMAIN ids, ids[j] = ids[k], j # k PROVE FALSE
    OBVIOUS
  <2>1. j \in 1..n /\ k \in 1..n
    BY <1>2
  <2>2. j < k \/ k < j
    BY <2>1, <1>1
  <2>3. ids[j] \in Nat
    <3>1. ids[j] \in S
      BY <2>1, <1>2
    <3>2. ids[j] \in 1..Len(b)
      BY <3>1
    <3> QED BY <3>2
  <2> QED BY <2>2, <2>3, <1>2
<1>4. \A i \in S : \E k \in DOMAIN ids : ids[k] = i
  <2>1. ids \in Injection(1..n, S)
    BY <1>2, <1>3 DEF Injection, IsInjective
  <2>2. Cardinality(1..n) = n
    BY <1>1, FS_Interval
  <2>3. ids \in Surjection(1..n, S)
    BY <2>1, <2>2, <1>1, FS_Injection DEF n
  <2> QED BY <2>3, <1>2 DEF Surjection
<1>5. ids \in Seq(S)
  BY <1>1, <1>2
<1> QED BY <1>3, <1>4, <1>5

Deletions(ids) == [k \in 1..Len(ids) |-> Deletion(ids[k])]
SnapshotsIn(h, ids) == [k \in 1..Len(ids) |-> Snapshot(ids[k], h[ids[k]])]
Unwinds(ids, h) == ids \in Descending(DOMAIN h)
Updates(h, ids) == [k \in 1..Len(ids) |-> Update(ids[k], h[ids[k]])]

(* The replica f is e but for the packet q[k] on each of the IDs of q.     *)
LEMMA DeletionsDelivered ==
  ASSUME NEW b \in Seq(Info), NEW e, Replica(e, b), NEW ids \in Seq(1..Len(b)),
         \A j, k \in DOMAIN ids : ids[j] = ids[k] => j = k,
         NEW q, q = Deletions(ids), NEW f, f = Deliver(e, q)
  PROVE  /\ q \in Seq(Downs(b)) /\ Replica(f, b) /\ DOMAIN f = DOMAIN e
         /\ \A i \in DOMAIN e : /\ f[i].val = e[i].val
                                /\ f[i].remove = (e[i].remove \/ \E k \in DOMAIN ids : ids[k] = i)
<1>1. /\ Len(ids) \in Nat /\ DOMAIN ids = 1..Len(ids) /\ DOMAIN q = 1..Len(ids)
      /\ \A k \in 1..Len(ids) : ids[k] \in 1..Len(b)
  BY DEF Deletions
<1>2. \A k \in DOMAIN q : q[k] = Deletion(ids[k]) /\ q[k].kind = "delete" /\ q[k].id = ids[k] /\ q[k] \in Downs(b)
  BY <1>1, DeletionTyped DEF Deletion, Deletions
<1>3. q \in Seq(Downs(b))
  BY <1>1, <1>2 DEF Deletions
<1>4. Distinct(q)
  <2>1. \A j, k \in DOMAIN q : ids[j] = ids[k] => j = k
    BY <1>1
  <2> QED BY <2>1, <1>2 DEF Distinct
<1>5. /\ Replica(f, b)
      /\ \A i : (\A k \in DOMAIN q : q[k].id # i) => Same(f, e, i)
      /\ \A k \in DOMAIN q : Same(f, Apply(e, q[k]), q[k].id)
  BY <1>3, <1>4, DeliverDistinct
<1>6. ASSUME NEW k \in DOMAIN q
      PROVE  /\ ids[k] \in DOMAIN f <=> ids[k] \in DOMAIN e
             /\ ids[k] \in DOMAIN e => f[ids[k]] = Removed(e[ids[k]])
  <2> DEFINE m == q[k]
             n == Apply(e, m)
  <2>0. m.kind = "delete" /\ m.id = ids[k] /\ m \in Downs(b)
    BY <1>2
  <2>2. Same(f, n, ids[k]) /\ n = Apply(e, m)
    BY <1>2, <1>5
  <2> HIDE DEF m, n
  <2>1. DOMAIN n = DOMAIN e /\ (ids[k] \in DOMAIN e => n[ids[k]] = Removed(e[ids[k]]))
    BY <2>0, <2>2, Applied
  <2> QED BY <2>1, <2>2 DEF Same
<1>7. \A i : (\A k \in DOMAIN q : ids[k] # i) => Same(f, e, i)
  BY <1>2, <1>5
<1>8. DOMAIN f = DOMAIN e
  <2>1. \A i : i \in DOMAIN f <=> i \in DOMAIN e
    BY <1>6, <1>7 DEF Same
  <2> QED BY <2>1
<1>9. ASSUME NEW i \in DOMAIN e
      PROVE  /\ f[i].val = e[i].val
             /\ f[i].remove = (e[i].remove \/ \E k \in DOMAIN ids : ids[k] = i)
  <2>1. e[i] \in Entity /\ e[i].remove \in BOOLEAN
    BY EntityFields DEF Replica
  <2>2. CASE \E k \in DOMAIN ids : ids[k] = i
    <3>1. f[i] = Removed(e[i])
      BY <2>2, <1>1, <1>6
    <3> QED BY <3>1, <2>1, <2>2, ValuedFields, RemovedFields
  <2>3. CASE ~ \E k \in DOMAIN ids : ids[k] = i
    <3>1. f[i] = e[i]
      BY <2>3, <1>1, <1>7 DEF Same
    <3> QED BY <3>1, <2>1, <2>3
  <2> QED BY <2>2, <2>3
<1> QED BY <1>3, <1>5, <1>8, <1>9

(* The replica f is e with a snapshot of h put into it.                    *)
Revived(f, e, h) ==
  /\ DOMAIN f = DOMAIN e \cup DOMAIN h
  /\ \A i \in DOMAIN h : f[i].val = h[i].val /\ ~f[i].remove
  /\ \A i \in DOMAIN e : i \notin DOMAIN h => f[i] = e[i]

LEMMA SnapshotsDelivered ==
  ASSUME NEW b \in Seq(Info), NEW e, Replica(e, b), NEW h, Replica(h, b),
         NEW ids, Unwinds(ids, h),
         NEW q, q = SnapshotsIn(h, ids), NEW f, f = Deliver(e, q)
  PROVE  q \in Seq(Downs(b)) /\ Replica(f, b) /\ Revived(f, e, h)
<1>1. DOMAIN h \subseteq 1..Len(b)
  BY DEF Replica
<1>2. /\ ids \in Seq(DOMAIN h)
      /\ \A j, k \in DOMAIN ids : ids[j] = ids[k] => j = k
      /\ \A i \in DOMAIN h : \E k \in DOMAIN ids : ids[k] = i
  BY <1>1, OrderedLists DEF Unwinds
<1>3. q \in Seq(Downs(b))
  BY <1>2, ReadOutTyped DEF SnapshotsIn
<1>4. /\ Len(ids) \in Nat /\ DOMAIN ids = 1..Len(ids) /\ DOMAIN q = 1..Len(ids)
      /\ \A k \in 1..Len(ids) : ids[k] \in DOMAIN h /\ q[k] \in Downs(b)
  BY <1>2, <1>3 DEF SnapshotsIn
<1>5. \A k \in DOMAIN q : /\ q[k].kind = "snapshot" /\ q[k].id = ids[k]
                          /\ q[k].val = h[ids[k]].val /\ q[k].info = h[ids[k]].info
  BY <1>4 DEF Snapshot, SnapshotsIn
<1>6. Distinct(q)
  BY <1>2, <1>4, <1>5 DEF Distinct
<1>7. /\ Replica(f, b)
      /\ \A i : (\A k \in DOMAIN q : q[k].id # i) => Same(f, e, i)
      /\ \A k \in DOMAIN q : Same(f, Apply(e, q[k]), q[k].id)
  BY <1>3, <1>6, DeliverDistinct
<1>8. ASSUME NEW i \in DOMAIN h
      PROVE  i \in DOMAIN f /\ f[i].val = h[i].val /\ ~f[i].remove
  <2>1. PICK k \in DOMAIN ids : ids[k] = i
    BY <1>2
  <2> DEFINE m == q[k]
             n == Apply(e, m)
  <2>2. m.kind = "snapshot" /\ m.id = i /\ m.val = h[i].val /\ m \in Downs(b)
    BY <2>1, <1>4, <1>5
  <2>4. Same(f, n, i) /\ n = Apply(e, m)
    BY <2>1, <2>2, <1>4, <1>7
  <2> HIDE DEF m, n
  <2>3. i \in DOMAIN n /\ n[i] = Fresh(m.info, m.val)
    BY <2>2, <2>4, Applied
  <2>5. i \in DOMAIN f /\ f[i] = Fresh(m.info, m.val)
    BY <2>3, <2>4 DEF Same
  <2> QED BY <2>2, <2>5, FreshFields
<1>9. \A i : i \notin DOMAIN h => Same(f, e, i)
  <2> SUFFICES ASSUME NEW i, i \notin DOMAIN h PROVE Same(f, e, i)
    OBVIOUS
  <2>1. \A k \in DOMAIN q : q[k].id # i
    BY <1>4, <1>5
  <2> QED BY <2>1, <1>7
<1>10. DOMAIN f = DOMAIN e \cup DOMAIN h
  <2>1. \A i : i \in DOMAIN f <=> i \in DOMAIN e \/ i \in DOMAIN h
    BY <1>8, <1>9 DEF Same
  <2> QED BY <2>1
<1> QED BY <1>3, <1>7, <1>8, <1>9, <1>10 DEF Same, Revived

(* An update changes the state of what it names and nothing else.          *)
LEMMA UpdatesDelivered ==
  ASSUME NEW b \in Seq(Info), NEW e, Replica(e, b), NEW h, Replica(h, b),
         NEW S, S \subseteq DOMAIN h, NEW ids \in Ascending(S),
         NEW q, q = Updates(h, ids), NEW f, f = Deliver(e, q)
  PROVE  /\ q \in Seq(Downs(b)) /\ Replica(f, b) /\ DOMAIN f = DOMAIN e
         /\ \A i \in DOMAIN e : /\ f[i].remove = e[i].remove
                                /\ f[i].val = IF i \in S THEN h[i].val ELSE e[i].val
<1>1. S \subseteq 1..Len(b)
  BY DEF Replica
<1>2. /\ ids \in Seq(S)
      /\ \A j, k \in DOMAIN ids : ids[j] = ids[k] => j = k
      /\ \A i \in S : \E k \in DOMAIN ids : ids[k] = i
  BY <1>1, OrderedLists
<1>3. q \in Seq(Downs(b))
  BY <1>2, ReadOutTyped DEF Updates
<1>4. /\ Len(ids) \in Nat /\ DOMAIN ids = 1..Len(ids) /\ DOMAIN q = 1..Len(ids)
      /\ \A k \in 1..Len(ids) : ids[k] \in S /\ q[k] \in Downs(b)
  BY <1>2, <1>3 DEF Updates
<1>5. \A k \in DOMAIN q : /\ q[k].kind = "update" /\ q[k].id = ids[k] /\ q[k].val = h[ids[k]].val
  BY <1>4 DEF Update, Updates
<1>6. Distinct(q)
  BY <1>2, <1>4, <1>5 DEF Distinct
<1>7. /\ Replica(f, b)
      /\ \A i : (\A k \in DOMAIN q : q[k].id # i) => Same(f, e, i)
      /\ \A k \in DOMAIN q : Same(f, Apply(e, q[k]), q[k].id)
  BY <1>3, <1>6, DeliverDistinct
<1>8. ASSUME NEW i \in S
      PROVE  /\ i \in DOMAIN f <=> i \in DOMAIN e
             /\ i \in DOMAIN e => f[i] = Valued(e[i], h[i].val)
  <2>1. PICK k \in DOMAIN ids : ids[k] = i
    BY <1>2
  <2> DEFINE m == q[k]
             n == Apply(e, m)
  <2>2. m.kind = "update" /\ m.id = i /\ m.val = h[i].val /\ m \in Downs(b)
    BY <2>1, <1>4, <1>5
  <2>4. Same(f, n, i) /\ n = Apply(e, m)
    BY <2>1, <2>2, <1>4, <1>7
  <2> HIDE DEF m, n
  <2>3. DOMAIN n = DOMAIN e /\ (i \in DOMAIN e => n[i] = Valued(e[i], m.val))
    BY <2>2, <2>4, Applied
  <2> QED BY <2>2, <2>3, <2>4 DEF Same
<1>9. \A i : i \notin S => Same(f, e, i)
  <2> SUFFICES ASSUME NEW i, i \notin S PROVE Same(f, e, i)
    OBVIOUS
  <2>1. \A k \in DOMAIN q : q[k].id # i
    BY <1>4, <1>5
  <2> QED BY <2>1, <1>7
<1>10. DOMAIN f = DOMAIN e
  <2>1. \A i : i \in DOMAIN f <=> i \in DOMAIN e
    BY <1>8, <1>9 DEF Same
  <2> QED BY <2>1
<1>11. ASSUME NEW i \in DOMAIN e
       PROVE  f[i].remove = e[i].remove /\ f[i].val = IF i \in S THEN h[i].val ELSE e[i].val
  <2>1. e[i] \in Entity
    BY DEF Replica
  <2>2. CASE i \in S
    BY <2>1, <2>2, <1>8, ValuedFields, RemovedFields
  <2>3. CASE i \notin S
    BY <2>3, <1>9 DEF Same
  <2> QED BY <2>2, <2>3
<1> QED BY <1>3, <1>7, <1>10, <1>11

(* q creates each of the IDs after n, once.                                *)
CreatesAfter(q, b, n) ==
  /\ \A k \in DOMAIN q : /\ q[k].kind = "create" /\ q[k].id > n
                          /\ \A j \in DOMAIN q : q[j].id = q[k].id => j = k
  /\ \A i \in (n + 1)..Len(b) : \E k \in DOMAIN q : q[k].id = i

(* The replica f is e with these new entities.                             *)
Grown(f, e, b, n) ==
  /\ DOMAIN f = DOMAIN e \cup (n + 1)..Len(b)
  /\ \A i \in DOMAIN e : f[i] = e[i]
  /\ \A i \in (n + 1)..Len(b) : f[i] = Fresh(b[i], 0)

LEMMA CreationsDelivered ==
  ASSUME NEW b \in Seq(Info), NEW n \in Nat, NEW e, Replica(e, b), DOMAIN e \subseteq 1..n,
         NEW q \in Seq(Downs(b)), CreatesAfter(q, b, n), NEW f, f = Deliver(e, q)
  PROVE  Replica(f, b) /\ Grown(f, e, b, n)
<1>0. /\ \A k \in DOMAIN q : /\ q[k].kind = "create" /\ q[k].id > n
                             /\ \A j \in DOMAIN q : q[j].id = q[k].id => j = k
      /\ \A i \in (n + 1)..Len(b) : \E k \in DOMAIN q : q[k].id = i
  BY DEF CreatesAfter
<1>1. Distinct(q)
  BY <1>0 DEF Distinct
<1>2. /\ Replica(f, b)
      /\ \A i : (\A k \in DOMAIN q : q[k].id # i) => Same(f, e, i)
      /\ \A k \in DOMAIN q : Same(f, Apply(e, q[k]), q[k].id)
  BY <1>1, DeliverDistinct
<1>3. ASSUME NEW i \in (n + 1)..Len(b)
      PROVE  i \in DOMAIN f /\ f[i] = Fresh(b[i], 0)
  <2>1. PICK k \in DOMAIN q : q[k].id = i
    BY <1>0
  <2> DEFINE m == q[k]
             o == Apply(e, m)
  <2>2. m.kind = "create" /\ m.id = i /\ m \in Downs(b)
    BY <1>0, <2>1
  <2>3. Same(f, o, i) /\ o = Apply(e, m)
    BY <2>1, <1>2
  <2> HIDE DEF m, o
  <2>4. m.info = b[i]
    BY <2>2, DownKinds
  <2>5. m.id \in DOMAIN o /\ o[m.id] = Fresh(m.info, 0)
    BY <2>2, <2>3, CreationApplied
  <2> QED BY <2>2, <2>3, <2>4, <2>5 DEF Same
<1>4. ASSUME NEW i, i \notin (n + 1)..Len(b)
      PROVE  Same(f, e, i)
  <2>1. ASSUME NEW k \in DOMAIN q, q[k].id = i PROVE FALSE
    <3>1. q[k] \in Downs(b)
      OBVIOUS
    <3>2. q[k].id \in 1..Len(b) /\ q[k].id > n
      BY <1>0, <3>1, DownKinds
    <3> QED BY <2>1, <3>2, <1>4
  <2> QED BY <2>1, <1>2
<1>5. DOMAIN f = DOMAIN e \cup (n + 1)..Len(b)
  <2>1. \A i : i \in DOMAIN f <=> i \in DOMAIN e \/ i \in (n + 1)..Len(b)
    BY <1>3, <1>4 DEF Same
  <2> QED BY <2>1
<1>6. \A i \in DOMAIN e : f[i] = e[i]
  <2> SUFFICES ASSUME NEW i \in DOMAIN e PROVE f[i] = e[i]
    OBVIOUS
  <2>1. i \in 1..n
    OBVIOUS
  <2>2. i \notin (n + 1)..Len(b)
    BY <2>1
  <2> QED BY <2>2, <1>4 DEF Same
<1> QED BY <1>2, <1>3, <1>5, <1>6 DEF Grown

-----------------------------------------------------------------------------
(* The invariant.  Whom the host's packets reach: a client is empty, and   *)
(* nothing is under way to it, unless the network thread counts it as      *)
(* connected; and it does so before the main thread sees its CONNECTED.    *)
Reached(r) ==
  /\ ~(link[r] = "in" /\ r \in connected) => ents[r] = <<>> /\ down[r] = <<>>
  /\ \A k \in DOMAIN up[r] : up[r][k].kind = "disconnected" => link[r] = "gone"
  /\ link[r] = "in" /\ (r \in joined \/ \E k \in DOMAIN Way : Way[k].from = r /\ Way[k].msg.kind = "connected")
       => r \in connected

(* h stands for the host's replica, f for what becomes of r's.             *)
Covers(h, f, r) ==
  /\ Live(h) \subseteq Live(f)
  /\ \A i \in Live(h) \cap DOMAIN f :
       /\ h[i].info.owner \notin {r, Host} => f[i].val = h[i].val
       /\ h[i].info.owner = Host => f[i].val <= h[i].val

Outlives(h, f, r, G) == \A i \in Live(f) : i \in Live(h) \/ <<r, i>> \in G

Synced(r) ==
  /\ link[r] = "in" => Outlives(ents[Host], Future(r), r, ghosts)
  /\ link[r] = "in" /\ r \in joined => Covers(ents[Host], Future(r), r)

Delivery == \A r \in Remotes : Reached(r) /\ Synced(r)

LEMMA DeliveryShows == Inv /\ Delivery => CreationsReachClients /\ DeletionsReachClients /\ StateReachesClients
<1> SUFFICES ASSUME Inv, Delivery
             PROVE  CreationsReachClients /\ DeletionsReachClients /\ StateReachesClients
  OBVIOUS
<1>1. DeletionsReachClients
  BY DEF Delivery, Synced, Outlives, DeletionsReachClients
<1>2. \A r \in Served : Covers(ents[Host], Future(r), r)
  BY WayTyped DEF Delivery, Synced, Served
<1> QED BY <1>1, <1>2 DEF Covers, CreationsReachClients, StateReachesClients

LEMMA FutureTyped ==
  ASSUME Inv, NEW r \in Remotes
  PROVE  Replica(Future(r), born)
<1>1. Replica(ents[r], born) /\ born \in Seq(Info) /\ down[r] \in Seq(Downs(born))
  BY HostReplica, WayTyped
<1>2. Blur(ents[r], ents[r], r)
  BY DEF Blur
<1> QED BY <1>1, <1>2, BlurDeliver DEF Future

LEMMA FutureKept ==
  ASSUME NEW r, ents'[r] = ents[r], down'[r] = down[r]
  PROVE  Future(r)' = Future(r)
  BY DEF Future

(* The host sends q, of packets about a history b, to the clients of S.    *)
LEMMA FutureSent ==
  ASSUME NEW r \in Remotes, NEW b, NEW q \in Seq(Downs(b)), down[r] \in Seq(Downs(b)), NEW S, Send(S, q),
         ents'[r] = ents[r]
  PROVE  Future(r)' = IF r \in S /\ link[r] = "in" THEN Deliver(Future(r), q) ELSE Future(r)
<1>1. down'[r] = IF r \in S /\ link[r] = "in" THEN down[r] \o q ELSE down[r]
  BY DEF Send
<1>2. Future(r)' = Deliver(ents[r], down'[r])
  BY DEF Future
<1>3. Deliver(ents[r], down[r] \o q) = Deliver(Deliver(ents[r], down[r]), q)
  BY DeliverJoin
<1> QED BY <1>1, <1>2, <1>3 DEF Future

LEMMA Unreached ==
  ASSUME NEW r \in Remotes, Reached(r), ~(link[r] = "in" /\ r \in connected)
  PROVE  Future(r) = <<>> /\ ~(link[r] = "in" /\ r \in joined)
<1>1. ents[r] = <<>> /\ down[r] = <<>>
  BY DEF Reached
<1>2. Future(r) = <<>>
  BY <1>1, DeliverEmpty DEF Future
<1> QED BY <1>2 DEF Reached

LEMMA SyncedKept ==
  ASSUME NEW r \in Remotes, Synced(r), link'[r] = link[r], r \in joined' => r \in joined, ghosts \subseteq ghosts',
         ents'[Host] = ents[Host], Future(r)' = Future(r)
  PROVE  Synced(r)'
  BY DEF Synced, Outlives, Covers, Live

(* q goes to everyone the network thread counts as connected.              *)
LEMMA SyncedSent ==
  ASSUME Inv, NEW r \in Remotes, Reached(r), Synced(r), link' = link, joined' = joined, ghosts' = ghosts,
         ents'[r] = ents[r], NEW b, NEW q \in Seq(Downs(b)), down[r] \in Seq(Downs(b)), Send(connected, q),
         Outlives(ents[Host], Future(r), r, ghosts) =>
           Outlives(ents'[Host], Deliver(Future(r), q), r, ghosts),
         Outlives(ents[Host], Future(r), r, ghosts) /\ Covers(ents[Host], Future(r), r) =>
           Covers(ents'[Host], Deliver(Future(r), q), r)
  PROVE  Synced(r)'
<1>1. Future(r)' = IF r \in connected /\ link[r] = "in" THEN Deliver(Future(r), q) ELSE Future(r)
  BY FutureSent
<1>2. CASE link[r] = "in" /\ r \in connected
  <2> DEFINE f1 == Deliver(Future(r), q)
  <2>1. Future(r)' = f1
    BY <1>1, <1>2
  <2>2. Outlives(ents'[Host], f1, r, ghosts) /\ (r \in joined => Covers(ents'[Host], f1, r))
    BY <1>2 DEF Synced
  <2> HIDE DEF f1
  <2> QED BY <2>1, <2>2 DEF Synced, Outlives, Covers, Live
<1>3. CASE ~(link[r] = "in" /\ r \in connected)
  <2>1. Future(r)' = <<>> /\ ~(link[r] = "in" /\ r \in joined)
    BY <1>1, <1>3, Unreached
  <2>2. Live(<<>>) = {}
    BY DEF Live
  <2> QED BY <2>1, <2>2 DEF Synced, Outlives, Live
<1> QED BY <1>2, <1>3

-----------------------------------------------------------------------------
(* Whom the host's packets reach.                                          *)

Announced(r) == \E k \in DOMAIN Way : Way[k].from = r /\ Way[k].msg.kind = "connected"

(* The host and the clients that are reached do something.                 *)
LEMMA ReachedKept ==
  ASSUME NEW r \in Remotes, Reached(r), UNCHANGED <<link, connected>>,
         ~(link[r] = "in" /\ r \in connected) => ents'[r] = ents[r] /\ down'[r] = down[r],
         \A k \in DOMAIN up'[r] : up'[r][k].kind = "disconnected" =>
           \E j \in DOMAIN up[r] : up[r][j].kind = "disconnected",
         r \in joined' \/ Announced(r)' => r \in joined \/ Announced(r)
  PROVE  Reached(r)'
<1>1. ~(link'[r] = "in" /\ r \in connected') => ents'[r] = <<>> /\ down'[r] = <<>>
  BY DEF Reached
<1>2. \A k \in DOMAIN up'[r] : up'[r][k].kind = "disconnected" => link'[r] = "gone"
  BY DEF Reached
<1>3. link'[r] = "in" /\ (r \in joined' \/ Announced(r)') => r \in connected'
  BY DEF Reached, Announced
<1> QED BY <1>1, <1>2, <1>3 DEF Reached, Announced

(* What the host sends goes to those it reaches.                           *)
LEMMA ReachedSent ==
  ASSUME NEW r \in Remotes, Reached(r), UNCHANGED <<link, up, connected>>,
         ents'[r] = ents[r], NEW S, NEW q, Send(S, q), r \in S => r \in connected,
         r \in joined' \/ Announced(r)' => r \in joined \/ Announced(r)
  PROVE  Reached(r)'
<1>1. ~(link[r] = "in" /\ r \in connected) => down'[r] = down[r]
  BY DEF Send
<1> QED BY <1>1, ReachedKept

LEMMA ReachedJoin ==
  ASSUME Inv, Arrivals, NEW s \in Remotes, Join(s), NEW r \in Remotes, Reached(r)
  PROVE  Reached(r)'
<1>1. /\ link[s] = "out" /\ link' = [link EXCEPT ![s] = "in"] /\ up' = [up EXCEPT ![s] = <<Connected>>]
      /\ UNCHANGED <<ents, down, connected, joined>> /\ Way' = Way
  BY DEF Join, Way
<1>2. CASE r # s
  <2>1. link'[r] = link[r] /\ up'[r] = up[r]
    BY <1>1, <1>2, WayTyped
  <2> QED BY <2>1, <1>1 DEF Reached
<1>3. CASE r = s
  <2>1. link'[r] = "in" /\ up'[r] = <<Connected>>
    BY <1>1, <1>3, WayTyped
  <2>2. \A k \in DOMAIN up'[r] : up'[r][k].kind # "disconnected"
    BY <2>1 DEF Connected
  <2>3. r \notin joined /\ ~Announced(r)
    <3>1. Waiting(r) /\ ConnectedFirst(r) /\ OwnsNothingBefore(r)
      BY <1>1, <1>3 DEF Arrivals, Waiting
    <3> QED BY <3>1, <1>1, <1>3 DEF ConnectedFirst, OwnsNothingBefore, Announced
  <2>4. ents[r] = <<>> /\ down[r] = <<>>
    BY <1>1, <1>3 DEF Reached
  <2> QED BY <2>1, <2>2, <2>3, <2>4, <1>1 DEF Reached, Announced
<1> QED BY <1>2, <1>3

LEMMA ReachedLeave ==
  ASSUME Inv, NEW s \in Remotes, Leave(s), NEW r \in Remotes, Reached(r)
  PROVE  Reached(r)'
<1>1. PICK n \in 0..Len(up[s]) : up' = [up EXCEPT ![s] = Append(SubSeq(up[s], 1, n), Disconnected)]
  BY DEF Leave
<1>2. /\ link' = [link EXCEPT ![s] = "gone"] /\ ents' = [ents EXCEPT ![s] = <<>>]
      /\ down' = [down EXCEPT ![s] = <<>>] /\ UNCHANGED <<connected, joined>> /\ Way' = Way
  BY DEF Leave, Way
<1>3. CASE r # s
  <2>1. link'[r] = link[r] /\ up'[r] = up[r] /\ ents'[r] = ents[r] /\ down'[r] = down[r]
    BY <1>1, <1>2, <1>3, WayTyped DEF Inv, Shape, Clients
  <2> QED BY <2>1, <1>2 DEF Reached
<1>4. CASE r = s
  <2>1. link'[r] = "gone" /\ ents'[r] = <<>> /\ down'[r] = <<>>
    BY <1>2, <1>4, WayTyped DEF Inv, Shape, Clients
  <2> QED BY <2>1 DEF Reached
<1> QED BY <1>3, <1>4

(* The network thread counts a client out when nothing reaches it anyway.  *)
LEMMA ReachedConsumed ==
  ASSUME Inv, NEW s \in Remotes, NetConsume(s), NEW r \in Remotes, Reached(r)
  PROVE  Reached(r)'
<1> DEFINE m == Head(up[s])
           x == [from |-> s, msg |-> m]
           n == Len(Way)
<1>1. /\ net = <<>> /\ net' = <<x>> /\ up[s] # <<>> /\ up' = [up EXCEPT ![s] = Tail(up[s])]
      /\ UNCHANGED <<link, ents, down, joined, packets>>
      /\ m.kind = "connected" => connected' = connected \cup {s}
      /\ m.kind = "disconnected" => connected' = connected \ {s}
      /\ m.kind \notin {"connected", "disconnected"} => connected' = connected
  BY DEF NetConsume
<1>2. /\ up[s] \in Seq(Ups(born)) /\ up'[s] = Tail(up[s])
      /\ r # s => up'[r] = up[r]
      /\ m = up[s][1] /\ 1 \in DOMAIN up[s]
  BY <1>1, WayTyped
<1>3. \A k \in DOMAIN up'[s] : k + 1 \in DOMAIN up[s] /\ up'[s][k] = up[s][k + 1]
  BY <1>2
<1>4. Way = packets /\ Way' = Append(Way, x) /\ Way \in Seq(Forwarded(born))
  <2>1. packets \o <<>> = packets
    BY WayTyped
  <2>2. packets \o <<x>> = Append(packets, x)
    BY WayTyped
  <2> QED BY <2>1, <2>2, <1>1, WayTyped DEF Way
<1>5. /\ DOMAIN Way = 1..n /\ n \in Nat /\ DOMAIN Way' = 1..(n + 1)
      /\ \A k \in 1..n : Way'[k] = Way[k]
      /\ Way'[n + 1] = x /\ x.from = s /\ x.msg = m
  BY <1>4
<1> HIDE DEF x, m, n
<1>6. \A k \in DOMAIN up'[r] : up'[r][k].kind = "disconnected" =>
        \E j \in DOMAIN up[r] : up[r][j].kind = "disconnected"
  BY <1>2, <1>3
<1>7. CASE m.kind = "connected" /\ r = s
  <2>1. r \in connected'
    BY <1>1, <1>7
  <2>2. ~(link'[r] = "in" /\ r \in connected') => ents'[r] = <<>> /\ down'[r] = <<>>
    BY <2>1, <1>1 DEF Reached
  <2> QED BY <2>1, <2>2, <1>1, <1>6 DEF Reached
<1>8. CASE ~(m.kind = "connected" /\ r = s)
  <2>1. Announced(r)' => Announced(r)
    <3> SUFFICES ASSUME NEW k \in DOMAIN Way', Way'[k].from = r, Way'[k].msg.kind = "connected"
                 PROVE  Announced(r)
      BY DEF Announced
    <3>1. k # n + 1
      BY <1>5, <1>8
    <3> QED BY <3>1, <1>5 DEF Announced
  <2>2. CASE m.kind = "disconnected" /\ r = s
    <3>1. link[r] = "gone"
      BY <2>2, <1>2 DEF Reached
    <3> QED BY <3>1, <1>1, <1>6 DEF Reached
  <2>3. CASE ~(m.kind = "disconnected" /\ r = s)
    <3>1. r \in connected' <=> r \in connected
      BY <2>3, <1>1, <1>8
    <3> QED BY <3>1, <2>1, <1>1, <1>6 DEF Reached, Announced
  <2> QED BY <2>2, <2>3
<1> QED BY <1>7, <1>8

(* The main thread takes a packet.                                         *)
LEMMA AnnouncedTaken ==
  ASSUME Inv, NEW s \in Remotes, NEW m, Handling(s, m), NEW r \in Remotes
  PROVE  /\ UNCHANGED <<link, up, connected>>
         /\ Announced(r)' => Announced(r)
         /\ m.kind = "connected" => Announced(s)
<1>1. /\ packets # <<>> /\ packets' = Tail(packets) /\ net' = net /\ UNCHANGED <<link, up, connected>>
      /\ Head(packets) = [from |-> s, msg |-> m] /\ Head(packets) = packets[1]
  BY WayTyped DEF Handling
<1>2. /\ Way[1] = packets[1] /\ 1 \in DOMAIN Way
      /\ \A k \in DOMAIN Way' : k + 1 \in DOMAIN Way /\ Way'[k] = Way[k + 1]
  BY <1>1, OneTaken
<1>3. Announced(r)' => Announced(r)
  BY <1>2 DEF Announced
<1>4. m.kind = "connected" => Announced(s)
  BY <1>1, <1>2 DEF Announced
<1> QED BY <1>1, <1>3, <1>4

-----------------------------------------------------------------------------
(* What the steps do to the host's replica, from h to g, and to a client's *)
(* future one, from e to f.                                                *)

(* The replica h without the entities of the list is g.                    *)
Loses(h, g, ids) ==
  /\ \A i : i \in Live(g) <=> i \in Live(h) /\ ~ \E k \in DOMAIN ids : ids[k] = i
  /\ \A i \in Live(g) : g[i].val = h[i].val

LEMMA DeletionsSynced ==
  ASSUME NEW b \in Seq(Info), NEW h, Replica(h, b), NEW g, Replica(g, b), NEW e, Replica(e, b),
         NEW ids \in Seq(1..Len(b)), \A j, k \in DOMAIN ids : ids[j] = ids[k] => j = k,
         NEW q, q = Deletions(ids), NEW f, f = Deliver(e, q), NEW r, NEW G,
         Loses(h, g, ids)
  PROVE  /\ q \in Seq(Downs(b))
         /\ Outlives(h, e, r, G) => Outlives(g, f, r, G)
         /\ Covers(h, e, r) => Covers(g, f, r)
<1>1. /\ q \in Seq(Downs(b)) /\ Replica(f, b) /\ DOMAIN f = DOMAIN e
      /\ \A i \in DOMAIN e : /\ f[i].val = e[i].val
                             /\ f[i].remove = (e[i].remove \/ \E k \in DOMAIN ids : ids[k] = i)
  BY DeletionsDelivered
<1>2. \A i : i \in Live(f) <=> i \in Live(e) /\ ~ \E k \in DOMAIN ids : ids[k] = i
  BY <1>1 DEF Live
<1>3. Outlives(h, e, r, G) => Outlives(g, f, r, G)
  BY <1>2 DEF Outlives, Loses
<1>4. \A i \in Live(g) : i \in Live(h) /\ g[i].info = h[i].info /\ g[i].val = h[i].val
  BY DEF Live, Replica, Loses
<1>5. Covers(h, e, r) => Covers(g, f, r)
  <2> SUFFICES ASSUME Covers(h, e, r) PROVE Covers(g, f, r)
    OBVIOUS
  <2>1. Live(g) \subseteq Live(f)
    BY <1>2 DEF Covers, Loses
  <2>2. \A i \in Live(g) \cap DOMAIN f : i \in Live(h) \cap DOMAIN e
    BY <1>1, <1>4
  <2> QED BY <2>1, <2>2, <1>1, <1>4 DEF Covers
<1> QED BY <1>1, <1>3, <1>5

LEMMA SnapshotsSynced ==
  ASSUME NEW b \in Seq(Info), NEW h, Replica(h, b), NEW e, Replica(e, b),
         NEW ids, Unwinds(ids, h),
         NEW q, q = SnapshotsIn(h, ids), NEW f, f = Deliver(e, q),
         NEW r, NEW G, NEW G1, G1 = G \cup {<<r, i>> : i \in Marked(h)}
  PROVE  /\ q \in Seq(Downs(b))
         /\ Outlives(h, e, r, G) => Outlives(h, f, r, G1)
         /\ Covers(h, f, r)
<1>0. q \in Seq(Downs(b)) /\ Replica(f, b) /\ Revived(f, e, h)
  BY SnapshotsDelivered
<1>1. /\ q \in Seq(Downs(b)) /\ Replica(f, b) /\ DOMAIN f = DOMAIN e \cup DOMAIN h
      /\ \A i \in DOMAIN h : f[i].val = h[i].val /\ ~f[i].remove
      /\ \A i \in DOMAIN e : i \notin DOMAIN h => f[i] = e[i]
  BY <1>0 DEF Revived
<1>2. Outlives(h, e, r, G) => Outlives(h, f, r, G1)
  <2> SUFFICES ASSUME Outlives(h, e, r, G), NEW i \in Live(f), i \notin Live(h) PROVE <<r, i>> \in G1
    BY DEF Outlives
  <2>1. CASE i \in DOMAIN h
    <3>1. i \in Marked(h)
      BY <2>1 DEF Live, Marked
    <3> QED BY <3>1
  <2>2. CASE i \notin DOMAIN h
    <3>1. i \in Live(e)
      BY <2>2, <1>1 DEF Live
    <3> QED BY <3>1 DEF Outlives
  <2> QED BY <2>1, <2>2
<1>3. \A i \in DOMAIN h : f[i].val \in Nat /\ h[i].val \in Nat
  BY <1>1, EntityFields DEF Replica
<1>4. Covers(h, f, r)
  <2>1. \A i \in Live(h) : i \in DOMAIN h
    BY DEF Live
  <2>2. Live(h) \subseteq Live(f)
    BY <2>1, <1>1 DEF Live
  <2> QED BY <2>1, <2>2, <1>1, <1>3 DEF Covers
<1> QED BY <1>1, <1>2, <1>4

LEMMA CreationsSynced ==
  ASSUME NEW b \in Seq(Info), NEW n \in Nat,
         NEW h, Replica(h, b), DOMAIN h \subseteq 1..n, NEW e, Replica(e, b), DOMAIN e \subseteq 1..n,
         NEW g, Grown(g, h, b, n), NEW f, Grown(f, e, b, n), NEW r, NEW G
  PROVE  /\ Outlives(h, e, r, G) => Outlives(g, f, r, G)
         /\ Covers(h, e, r) => Covers(g, f, r)
<1> DEFINE New == (n + 1)..Len(b)
<1>1. \A i \in New : i \notin DOMAIN h /\ i \notin DOMAIN e
  <2>1. Len(b) \in Nat
    OBVIOUS
  <2>2. \A i \in New : i \notin 1..n
    BY <2>1
  <2> QED BY <2>2
<1>2. \A i \in New : i \in DOMAIN g /\ i \in DOMAIN f /\ g[i] = f[i] /\ ~g[i].remove /\ g[i].val = 0 /\ f[i].val = 0
  BY FreshFields DEF Grown
<1>3. /\ DOMAIN g = DOMAIN h \cup New /\ \A i \in DOMAIN h : g[i] = h[i]
      /\ DOMAIN f = DOMAIN e \cup New /\ \A i \in DOMAIN e : f[i] = e[i]
  BY DEF Grown
<1> HIDE DEF New
<1>4. Live(g) = Live(h) \cup New /\ Live(f) = Live(e) \cup New
  BY <1>1, <1>2, <1>3 DEF Live
<1>5. Outlives(h, e, r, G) => Outlives(g, f, r, G)
  BY <1>4 DEF Outlives
<1>6. Covers(h, e, r) => Covers(g, f, r)
  <2> SUFFICES ASSUME Covers(h, e, r), NEW i \in Live(g) \cap DOMAIN f
               PROVE  /\ g[i].info.owner \notin {r, Host} => f[i].val = g[i].val
                      /\ g[i].info.owner = Host => f[i].val <= g[i].val
    BY <1>4 DEF Covers
  <2>1. CASE i \in New
    BY <2>1, <1>2
  <2>2. CASE i \notin New
    <3>1. i \in Live(h) \cap DOMAIN e /\ g[i] = h[i] /\ f[i] = e[i]
      BY <2>2, <1>3, <1>4 DEF Live
    <3> QED BY <3>1 DEF Covers
  <2> QED BY <2>1, <2>2
<1> QED BY <1>5, <1>6

LEMMA TickSynced ==
  ASSUME NEW b \in Seq(Info), NEW h, Replica(h, b), NEW e, Replica(e, b),
         NEW S, S = {i \in DOMAIN h : h[i].info.owner = Host}, NEW ids \in Ascending(S),
         NEW q, q = Updates(h, ids), NEW f, f = Deliver(e, q),
         NEW r, NEW G
  PROVE  /\ q \in Seq(Downs(b))
         /\ Outlives(h, e, r, G) => Outlives(h, f, r, G)
         /\ Covers(h, e, r) => Covers(h, f, r)
<1>0. S \subseteq DOMAIN h
  OBVIOUS
<1>1. /\ q \in Seq(Downs(b)) /\ Replica(f, b) /\ DOMAIN f = DOMAIN e
      /\ \A i \in DOMAIN e : /\ f[i].remove = e[i].remove
                             /\ f[i].val = IF i \in S THEN h[i].val ELSE e[i].val
  BY <1>0, UpdatesDelivered
<1>2. Live(f) = Live(e)
  BY <1>1 DEF Live
<1>3. Outlives(h, e, r, G) => Outlives(h, f, r, G)
  BY <1>2 DEF Outlives
<1>4. \A i \in DOMAIN h : h[i].val \in Nat
  BY EntityFields DEF Replica
<1>5. Covers(h, e, r) => Covers(h, f, r)
  BY <1>1, <1>2, <1>4 DEF Covers, Live
<1> QED BY <1>1, <1>3, <1>5

(* The host applies the update m, and so does r unless it sent it.         *)
LEMMA UpdateSynced ==
  ASSUME NEW b \in Seq(Info), NEW h, Replica(h, b), NEW e, Replica(e, b),
         NEW m \in Downs(b), m.kind = "update", m.info.owner # Host, NEW r, NEW G,
         NEW g, g = Apply(h, m), NEW f, f = Apply(e, m) \/ (f = e /\ m.info.owner = r)
  PROVE  /\ Outlives(h, e, r, G) => Outlives(g, f, r, G)
         /\ Covers(h, e, r) => Covers(g, f, r)
<1> DEFINE x == m.id
<1>1. /\ Replica(g, b) /\ DOMAIN g = DOMAIN h
      /\ \A i \in DOMAIN h : i # x => g[i] = h[i]
      /\ x \in DOMAIN h => g[x] = Valued(h[x], m.val)
  BY Applied
<1>2. CASE f = Apply(e, m)
  <2>1. /\ DOMAIN f = DOMAIN e
        /\ \A i \in DOMAIN e : i # x => f[i] = e[i]
        /\ x \in DOMAIN e => f[x] = Valued(e[x], m.val)
    BY <1>2, Applied
  <2>2. (\A i \in DOMAIN h : h[i] \in Entity) /\ (\A i \in DOMAIN e : e[i] \in Entity)
    BY DEF Replica
  <2> HIDE DEF x
  <2>3. \A i \in DOMAIN h : /\ g[i].info = h[i].info /\ g[i].remove = h[i].remove
                            /\ g[i].val = IF i = x THEN m.val ELSE h[i].val
    BY <2>2, <1>1, ValuedFields
  <2>4. \A i \in DOMAIN e : /\ f[i].remove = e[i].remove
                            /\ f[i].val = IF i = x THEN m.val ELSE e[i].val
    BY <2>1, <2>2, ValuedFields
  <2>5. Live(g) = Live(h) /\ Live(f) = Live(e)
    BY <2>1, <2>3, <2>4, <1>1 DEF Live
  <2>6. x \in DOMAIN h => h[x].info.owner # Host
    <3>1. m.info = b[x]
      BY DownKinds DEF x
    <3> QED BY <3>1 DEF Replica
  <2>7. Outlives(h, e, r, G) => Outlives(g, f, r, G)
    BY <2>5 DEF Outlives
  <2>8. Covers(h, e, r) => Covers(g, f, r)
    <3> SUFFICES ASSUME Covers(h, e, r), NEW i \in Live(g) \cap DOMAIN f
                 PROVE  /\ g[i].info.owner \notin {r, Host} => f[i].val = g[i].val
                        /\ g[i].info.owner = Host => f[i].val <= g[i].val
      BY <2>5 DEF Covers
    <3>1. i \in Live(h) \cap DOMAIN e /\ i \in DOMAIN h
      BY <2>1, <2>5 DEF Live
    <3>2. CASE i = x
      BY <3>1, <3>2, <2>3, <2>4, <2>6
    <3>3. CASE i # x
      BY <3>1, <3>3, <2>3, <2>4 DEF Covers
    <3> QED BY <3>2, <3>3
  <2> QED BY <2>7, <2>8
<1>3. CASE f = e /\ m.info.owner = r
  <2>1. \A i \in DOMAIN h : h[i] \in Entity
    BY DEF Replica
  <2> HIDE DEF x
  <2>2. \A i \in DOMAIN h : /\ g[i].info = h[i].info /\ g[i].remove = h[i].remove
                            /\ i # x => g[i].val = h[i].val
    BY <2>1, <1>1, ValuedFields
  <2>3. Live(g) = Live(h)
    BY <2>2, <1>1 DEF Live
  <2>4. x \in DOMAIN h => h[x].info.owner = r
    <3>1. m.info = b[x]
      BY DownKinds DEF x
    <3> QED BY <3>1, <1>3 DEF Replica
  <2>5. Outlives(h, e, r, G) => Outlives(g, f, r, G)
    BY <2>3, <1>3 DEF Outlives
  <2>6. Covers(h, e, r) => Covers(g, f, r)
    <3> SUFFICES ASSUME Covers(h, e, r), NEW i \in Live(g) \cap DOMAIN f
                 PROVE  /\ g[i].info.owner \notin {r, Host} => f[i].val = g[i].val
                        /\ g[i].info.owner = Host => f[i].val <= g[i].val
      BY <2>3, <1>3 DEF Covers
    <3>1. i \in Live(h) \cap DOMAIN e /\ i \in DOMAIN h
      BY <2>3, <1>3 DEF Live
    <3>2. CASE i = x
      <4>1. g[i].info.owner = r /\ r # Host
        BY <3>1, <3>2, <2>2, <2>4, <1>3
      <4> QED BY <4>1
    <3>3. CASE i # x
      BY <3>1, <3>3, <2>2, <1>3 DEF Covers
    <3> QED BY <3>2, <3>3
  <2> QED BY <2>5, <2>6
<1> QED BY <1>2, <1>3

(* The host changes the state of what it owns.                             *)
LEMMA HostMutationSynced ==
  ASSUME NEW b \in Seq(Info), NEW h, Replica(h, b), NEW e, Replica(e, b),
         NEW i \in DOMAIN h, h[i].info.owner = Host,
         NEW g, DOMAIN g = DOMAIN h, \A j \in DOMAIN h : j # i => g[j] = h[j],
         g[i] = Valued(h[i], h[i].val + 1), NEW r, NEW G
  PROVE  /\ Outlives(h, e, r, G) => Outlives(g, e, r, G)
         /\ Covers(h, e, r) => Covers(g, e, r)
<1>1. /\ h[i] \in Entity /\ h[i].val \in Nat /\ \A j \in DOMAIN e : e[j].val \in Nat
  BY EntityFields DEF Replica
<1>2. g[i].info = h[i].info /\ g[i].remove = h[i].remove /\ g[i].val = h[i].val + 1
  BY <1>1, ValuedFields
<1>3. Live(g) = Live(h)
  BY <1>2 DEF Live
<1>4. Outlives(h, e, r, G) => Outlives(g, e, r, G)
  BY <1>3 DEF Outlives
<1>5. Covers(h, e, r) => Covers(g, e, r)
  <2> SUFFICES ASSUME Covers(h, e, r), NEW j \in Live(g) \cap DOMAIN e
               PROVE  /\ g[j].info.owner \notin {r, Host} => e[j].val = g[j].val
                      /\ g[j].info.owner = Host => e[j].val <= g[j].val
    BY <1>3 DEF Covers
  <2>1. j \in Live(h) \cap DOMAIN e /\ j \in DOMAIN h
    BY <1>3 DEF Live
  <2>2. CASE j = i
    <3>1. e[j].val <= h[j].val /\ e[j].val \in Nat
      BY <2>1, <2>2, <1>1 DEF Covers
    <3> QED BY <3>1, <2>2, <1>1, <1>2
  <2>3. CASE j # i
    BY <2>1, <2>3 DEF Covers
  <2> QED BY <2>2, <2>3
<1> QED BY <1>4, <1>5

(* A client acts on its own.                                               *)
LEMMA BlurSynced ==
  ASSUME NEW b \in Seq(Info), NEW h, Replica(h, b), NEW e, Replica(e, b), NEW f, Replica(f, b),
         NEW r, r # Host, Blur(e, f, r) \/ Blur(f, e, r), Live(e) = Live(f), DOMAIN f \subseteq DOMAIN e, NEW G
  PROVE  /\ Outlives(h, e, r, G) => Outlives(h, f, r, G)
         /\ Covers(h, e, r) => Covers(h, f, r)
<1>1. Outlives(h, e, r, G) => Outlives(h, f, r, G)
  BY DEF Outlives
<1>2. Covers(h, e, r) => Covers(h, f, r)
  <2> SUFFICES ASSUME Covers(h, e, r), NEW i \in Live(h) \cap DOMAIN f
               PROVE  i \in DOMAIN e /\ (h[i].info.owner # r => f[i].val = e[i].val)
    BY DEF Covers
  <2>1. i \in DOMAIN h /\ i \in DOMAIN e /\ i \in DOMAIN f
    BY DEF Live
  <2>2. h[i].info = b[i] /\ e[i].info = b[i] /\ f[i].info = b[i]
    BY <2>1 DEF Replica
  <2>3. e[i].info.owner # r => f[i].val = e[i].val
    BY <2>1, <2>2 DEF Blur
  <2> QED BY <2>1, <2>2, <2>3
<1> QED BY <1>1, <1>2

-----------------------------------------------------------------------------
(* The steps.  First those that the replicas and the host's packets do not *)
(* notice.                                                                 *)

LEMMA DeliveryQuiet ==
  ASSUME Delivery, UNCHANGED <<ents, link, down, connected, ghosts>>, joined' \subseteq joined,
         \A r \in Remotes : \A k \in DOMAIN up'[r] : up'[r][k].kind = "disconnected" =>
           \E j \in DOMAIN up[r] : up[r][j].kind = "disconnected",
         \A r \in Remotes : Announced(r)' => Announced(r)
  PROVE  Delivery'
<1> SUFFICES ASSUME NEW r \in Remotes PROVE Reached(r)' /\ Synced(r)'
  BY DEF Delivery
<1>1. Reached(r) /\ Synced(r)
  BY DEF Delivery
<1>2. Reached(r)'
  BY <1>1, ReachedKept
<1>3. Future(r)' = Future(r)
  BY FutureKept
<1>4. Synced(r)'
  BY <1>1, <1>3, SyncedKept
<1> QED BY <1>2, <1>4

LEMMA AnnouncedKept == ASSUME Way' = Way, NEW r PROVE Announced(r)' <=> Announced(r)
  BY DEF Announced

LEMMA DeliveryByNet ==
  ASSUME Inv, Delivery, NetPush \/ \E s \in Remotes : NetConsume(s)
  PROVE  Delivery'
<1>1. CASE NetPush
  <2>1. Way' = Way
    <3>1. packets' = packets \o net /\ net' = <<>>
      BY <1>1 DEF NetPush
    <3> QED BY <3>1, WayTyped DEF Way
  <2>2. UNCHANGED <<ents, link, up, down, connected, ghosts, joined>>
    BY <1>1 DEF NetPush
  <2> QED BY <2>1, <2>2, AnnouncedKept, DeliveryQuiet
<1>2. ASSUME NEW s \in Remotes, NetConsume(s) PROVE Delivery'
  <2>1. UNCHANGED <<ents, link, down, joined, ghosts>>
    BY <1>2 DEF NetConsume
  <2> SUFFICES ASSUME NEW r \in Remotes PROVE Reached(r)' /\ Synced(r)'
    BY DEF Delivery
  <2>2. Reached(r) /\ Synced(r)
    BY DEF Delivery
  <2>3. Reached(r)'
    BY <1>2, <2>2, ReachedConsumed
  <2>4. Synced(r)'
    BY <2>1, <2>2, FutureKept, SyncedKept
  <2> QED BY <2>3, <2>4
<1> QED BY <1>1, <1>2

LEMMA DeliveryByJoin ==
  ASSUME Inv, Arrivals, Delivery, NEW s \in Remotes, Join(s)
  PROVE  Delivery'
<1>1. /\ link[s] = "out" /\ link' = [link EXCEPT ![s] = "in"]
      /\ UNCHANGED <<ents, down, joined, ghosts>>
  BY DEF Join
<1> SUFFICES ASSUME NEW r \in Remotes PROVE Reached(r)' /\ Synced(r)'
  BY DEF Delivery
<1>2. Reached(r) /\ Synced(r)
  BY DEF Delivery
<1>3. Reached(r)'
  BY <1>2, ReachedJoin
<1>4. Future(r)' = Future(r)
  BY <1>1, FutureKept
<1>5. CASE r # s
  <2>1. link'[r] = link[r]
    BY <1>1, <1>5
  <2>2. Synced(r)'
    BY <1>1, <1>2, <1>4, <2>1, SyncedKept
  <2> QED BY <1>3, <2>2
<1>6. CASE r = s
  <2>1. Future(r)' = <<>>
    BY <1>1, <1>2, <1>4, <1>6, Unreached
  <2>2. r \notin joined'
    BY <1>1, <1>6 DEF Arrivals, OwnsNothingBefore, Waiting
  <2>3. Live(<<>>) = {}
    BY DEF Live
  <2>4. Synced(r)'
    BY <2>1, <2>2, <2>3 DEF Synced, Outlives, Live
  <2> QED BY <1>3, <2>4
<1> QED BY <1>5, <1>6

LEMMA DeliveryByLeave ==
  ASSUME Inv, Delivery, NEW s \in Remotes, Leave(s)
  PROVE  Delivery'
<1>1. /\ link' = [link EXCEPT ![s] = "gone"] /\ ents' = [ents EXCEPT ![s] = <<>>]
      /\ down' = [down EXCEPT ![s] = <<>>] /\ UNCHANGED <<joined, ghosts>>
  BY DEF Leave
<1> SUFFICES ASSUME NEW r \in Remotes PROVE Reached(r)' /\ Synced(r)'
  BY DEF Delivery
<1>2. Reached(r) /\ Synced(r)
  BY DEF Delivery
<1>3. Reached(r)'
  BY <1>2, ReachedLeave
<1>4. CASE r # s
  <2>1. link'[r] = link[r] /\ ents'[r] = ents[r] /\ down'[r] = down[r] /\ ents'[Host] = ents[Host]
    BY <1>1, <1>4, HostAssumption
  <2>2. Synced(r)'
    BY <1>1, <1>2, <2>1, FutureKept, SyncedKept
  <2> QED BY <1>3, <2>2
<1>5. CASE r = s
  <2>1. link'[r] = "gone"
    BY <1>1, <1>5, WayTyped
  <2> QED BY <1>3, <2>1 DEF Synced
<1> QED BY <1>4, <1>5

(* The host takes a CONNECTED: the snapshot of its replica goes out.       *)
LEMMA DeliveryByConnected ==
  ASSUME Inv, Delivery, NEW s \in Remotes, HandleConnected(s)
  PROVE  Delivery'
<1> DEFINE h == ents[Host]
<1>1. /\ Handling(s, Connected) /\ UNCHANGED <<ents, born>> /\ joined' = joined \cup {s}
      /\ ghosts' = ghosts \cup {<<s, i>> : i \in Marked(h)}
  BY DEF HandleConnected
<1>2. PICK ids \in Descending(DOMAIN h) : Send({s}, SnapshotsIn(h, ids))
  BY DEF HandleConnected, Snapshots, SnapshotsOf, SnapshotsIn
<1> DEFINE q == SnapshotsIn(h, ids)
<1>3. Connected.kind = "connected"
  BY DEF Connected
<1>4. /\ UNCHANGED <<link, up, connected>> /\ Announced(s)
      /\ \A r \in Remotes : Announced(r)' => Announced(r)
  BY <1>1, <1>3, AnnouncedTaken
<1>5. Replica(h, born) /\ born \in Seq(Info) /\ Unwinds(ids, h)
  BY HostReplica DEF Unwinds
<1> HIDE DEF h
<1> SUFFICES ASSUME NEW r \in Remotes PROVE Reached(r)' /\ Synced(r)'
  BY DEF Delivery
<1>6. Reached(r) /\ Synced(r) /\ Replica(Future(r), born) /\ down[r] \in Seq(Downs(born))
  BY FutureTyped, WayTyped DEF Delivery
<1>7. CASE r # s
  <2>1. down'[r] = down[r]
    BY <1>2, <1>7 DEF Send
  <2>2. Reached(r)'
    BY <1>1, <1>4, <1>6, <1>7, <2>1, ReachedKept
  <2>3. Synced(r)'
    BY <1>1, <1>4, <1>6, <1>7, <2>1, FutureKept, SyncedKept
  <2> QED BY <2>2, <2>3
<1>8. CASE r = s
  <2>1. link[r] = "in" => r \in connected
    BY <1>4, <1>6, <1>8 DEF Reached, Announced
  <2> DEFINE e == Future(r)
             f == Deliver(e, q)
             G1 == ghosts \cup {<<r, i>> : i \in Marked(h)}
  <2>2. q \in Seq(Downs(born)) /\ (Outlives(h, e, r, ghosts) => Outlives(h, f, r, G1)) /\ Covers(h, f, r)
    <3>1. q = SnapshotsIn(h, ids) /\ f = Deliver(e, q) /\ Replica(e, born)
      BY <1>6
    <3>2. G1 = ghosts \cup {<<r, i>> : i \in Marked(h)}
      OBVIOUS
    <3> HIDE DEF e, f, G1, q
    <3> QED BY <1>5, <3>1, <3>2, SnapshotsSynced
  <2>3. link[r] = "in" => Future(r)' = f
    <3> HIDE DEF q
    <3> QED BY <1>1, <1>2, <1>6, <1>8, <2>2, FutureSent DEF q
  <2>4. Reached(r)'
    <3>1. ~(link[r] = "in" /\ r \in connected) => down'[r] = down[r]
      BY <1>2, <2>1 DEF Send
    <3>2. r \in joined' => r \in joined \/ Announced(r)
      BY <1>4, <1>8
    <3> QED BY <3>1, <3>2, <1>1, <1>4, <1>6, ReachedKept
  <2>5. link[r] = "in" => Outlives(h, f, r, G1)
    BY <2>2, <1>6 DEF Synced, h
  <2>6. ghosts' = G1 /\ ents'[Host] = h /\ link' = link
    BY <1>1, <1>4, <1>8 DEF h
  <2> HIDE DEF e, f, G1
  <2>7. Synced(r)'
    BY <2>2, <2>3, <2>5, <2>6 DEF Synced, Outlives, Covers, Live
  <2> QED BY <2>4, <2>7
<1> QED BY <1>7, <1>8

LEMMA DeliveryByDisconnected ==
  ASSUME Inv, Delivery, NEW s \in Remotes, HandleDisconnected(s)
  PROVE  Delivery'
<1>1. /\ Handling(s, Disconnected) /\ UNCHANGED <<ents, down, ghosts>> /\ joined' = joined \ {s}
  BY DEF HandleDisconnected
<1>2. UNCHANGED <<link, up, connected>> /\ \A r \in Remotes : Announced(r)' => Announced(r)
  BY <1>1, AnnouncedTaken
<1> QED BY <1>1, <1>2, DeliveryQuiet

-----------------------------------------------------------------------------
(* What the host sends to everyone.                                        *)

LEMMA DeliverySent ==
  ASSUME Inv, Delivery, UNCHANGED <<link, up, connected, joined, ghosts>>,
         \A r \in Remotes : ents'[r] = ents[r] /\ (Announced(r)' => Announced(r)),
         NEW b, NEW q \in Seq(Downs(b)), \A r \in Remotes : down[r] \in Seq(Downs(b)), Send(connected, q),
         \A r \in Remotes :
           /\ Outlives(ents[Host], Future(r), r, ghosts) =>
                Outlives(ents'[Host], Deliver(Future(r), q), r, ghosts)
           /\ Outlives(ents[Host], Future(r), r, ghosts) /\ Covers(ents[Host], Future(r), r) =>
                Covers(ents'[Host], Deliver(Future(r), q), r)
  PROVE  Delivery'
<1> SUFFICES ASSUME NEW r \in Remotes PROVE Reached(r)' /\ Synced(r)'
  BY DEF Delivery
<1>1. Reached(r) /\ Synced(r)
  BY DEF Delivery
<1>2. Reached(r)'
  BY <1>1, ReachedSent
<1>3. Synced(r)'
  <2>1. /\ Outlives(ents[Host], Future(r), r, ghosts) =>
             Outlives(ents'[Host], Deliver(Future(r), q), r, ghosts)
        /\ Outlives(ents[Host], Future(r), r, ghosts) /\ Covers(ents[Host], Future(r), r) =>
             Covers(ents'[Host], Deliver(Future(r), q), r)
    OBVIOUS
  <2>2. link' = link /\ joined' = joined /\ ghosts' = ghosts /\ ents'[r] = ents[r]
    OBVIOUS
  <2> QED BY <1>1, <2>1, <2>2, SyncedSent
<1> QED BY <1>2, <1>3

(* Deletions: of the entities that the host's replica loses by the step.   *)
LEMMA DeliveryOfDeletions ==
  ASSUME Inv, Delivery, UNCHANGED <<link, up, connected, joined, ghosts>>,
         \A r \in Remotes : ents'[r] = ents[r] /\ (Announced(r)' => Announced(r)),
         NEW ids \in Seq(1..Len(born)), \A j, k \in DOMAIN ids : ids[j] = ids[k] => j = k,
         BroadcastDeletions(ids), NEW g, g = ents'[Host], Replica(g, born),
         Loses(ents[Host], g, ids)
  PROVE  Delivery'
<1> DEFINE q == Deletions(ids)
           h == ents[Host]
<1>1. Send(connected, q)
  BY DEF BroadcastDeletions, Deletions
<1>2. Replica(h, born) /\ born \in Seq(Info) /\ \A r \in Remotes : down[r] \in Seq(Downs(born))
  BY HostReplica, WayTyped
<1> HIDE DEF q
<1>3. ASSUME NEW e, Replica(e, born), NEW r
      PROVE  /\ q \in Seq(Downs(born))
             /\ Outlives(h, e, r, ghosts) => Outlives(g, Deliver(e, q), r, ghosts)
             /\ Covers(h, e, r) => Covers(g, Deliver(e, q), r)
  <2> DEFINE f == Deliver(e, q)
             b == born
             G == ghosts
  <2>1. b \in Seq(Info) /\ Replica(h, b) /\ Replica(g, b) /\ Replica(e, b) /\ ids \in Seq(1..Len(b))
    BY <1>2, <1>3
  <2>2. f = Deliver(e, q) /\ q = Deletions(ids)
    BY DEF q
  <2>3. Loses(h, g, ids)
    OBVIOUS
  <2> HIDE DEF f, b, G, h
  <2>4. /\ q \in Seq(Downs(b))
        /\ Outlives(h, e, r, G) => Outlives(g, f, r, G)
        /\ Covers(h, e, r) => Covers(g, f, r)
    BY <2>1, <2>2, <2>3, DeletionsSynced
  <2> QED BY <2>4 DEF f, b, G
<1>4. q \in Seq(Downs(born))
  BY <1>2, <1>3
<1>5. \A r \in Remotes :
           /\ Outlives(h, Future(r), r, ghosts) => Outlives(g, Deliver(Future(r), q), r, ghosts)
           /\ Covers(h, Future(r), r) => Covers(g, Deliver(Future(r), q), r)
  BY <1>3, FutureTyped
<1> QED BY <1>1, <1>2, <1>4, <1>5, DeliverySent

(* One entity of the host's is marked and its deletion sent.               *)
LEMMA DeliveryOfDeletion ==
  ASSUME Inv, Delivery, UNCHANGED <<link, up, connected, joined, ghosts>>,
         \A r \in Remotes : Announced(r)' => Announced(r),
         NEW i \in DOMAIN ents[Host], BroadcastDeletions(<<i>>),
         ents' = [ents EXCEPT ![Host] = MarkIn(@, {i})]
  PROVE  Delivery'
<1> DEFINE h == ents[Host]
           g == MarkIn(h, {i})
           ids == <<i>>
<1>1. Replica(h, born) /\ born \in Seq(Info) /\ i \in 1..Len(born)
  BY HostReplica DEF Replica
<1>2. ents'[Host] = g /\ \A r \in Remotes : ents'[r] = ents[r]
  BY EntsReplaced, HostReplica, HostAssumption
<1>3. Replica(g, born)
  BY <1>1, MarkReplica
<1>4. /\ DOMAIN g = DOMAIN h
      /\ \A j \in DOMAIN h : /\ j # i => g[j] = h[j]
                             /\ j = i => g[j] = Removed(h[j])
  BY DEF MarkIn, Removed
<1>5. \A j \in DOMAIN h : h[j] \in Entity
  BY <1>1 DEF Replica
<1>6. ids \in Seq(1..Len(born)) /\ DOMAIN ids = {1} /\ ids[1] = i
  BY <1>1
<1> HIDE DEF h, g
<1>7. \A j : j \in Live(g) <=> j \in Live(h) /\ ~ \E k \in DOMAIN ids : ids[k] = j
  <2> HIDE DEF ids
  <2>1. \A j : (\E k \in DOMAIN ids : ids[k] = j) <=> j = i
    BY <1>6
  <2>2. Removed(h[i]).remove = TRUE
    BY <1>5, RemovedFields DEF h
  <2>3. i \notin Live(g)
    BY <2>2, <1>4 DEF Live, h
  <2> QED BY <2>1, <2>3, <1>4 DEF Live
<1>8. \A j \in Live(g) : g[j].val = h[j].val
  <2> HIDE DEF ids
  <2>1. \A j \in Live(g) : j \in DOMAIN h
    BY <1>4 DEF Live
  <2> QED BY <2>1, <1>4, <1>5, RemovedFields
<1>9. BroadcastDeletions(ids) /\ \A j, k \in DOMAIN ids : ids[j] = ids[k] => j = k
  BY <1>6
<1> HIDE DEF ids
<1>10. Loses(h, g, ids)
  BY <1>7, <1>8 DEF Loses
<1> QED BY <1>2, <1>3, <1>6, <1>9, <1>10, DeliveryOfDeletions DEF h

LEMMA DeliveryByDeletion ==
  ASSUME Inv, Delivery, NEW s \in Remotes, HandleDeletion(s)
  PROVE  Delivery'
<1>1. PICK i \in IDs :
        /\ Handling(s, Deletion(i))
        /\ IF i \in DOMAIN ents[Host] /\ ents[Host][i].info.owner = s
           THEN /\ BroadcastDeletions(<<i>>)
                /\ ents' = [ents EXCEPT ![Host] = MarkIn(@, {i})]
           ELSE UNCHANGED <<ents, down>>
        /\ UNCHANGED <<born, joined, ghosts>>
  BY DEF HandleDeletion
<1>2. UNCHANGED <<link, up, connected>> /\ \A r \in Remotes : Announced(r)' => Announced(r)
  BY <1>1, AnnouncedTaken
<1>3. CASE i \in DOMAIN ents[Host] /\ ents[Host][i].info.owner = s
  BY <1>1, <1>2, <1>3, DeliveryOfDeletion
<1>4. CASE ~(i \in DOMAIN ents[Host] /\ ents[Host][i].info.owner = s)
  BY <1>1, <1>2, <1>4, DeliveryQuiet
<1> QED BY <1>3, <1>4

LEMMA DeliveryByHostDelete ==
  ASSUME Inv, Delivery, HostDelete
  PROVE  Delivery'
<1>1. PICK i \in DOMAIN ents[Host] : /\ BroadcastDeletions(<<i>>)
                                     /\ ents' = [ents EXCEPT ![Host] = MarkIn(@, {i})]
  BY DEF HostDelete
<1>2. UNCHANGED <<link, up, connected, joined, ghosts>> /\ Way' = Way
  BY DEF HostDelete, Way
<1> QED BY <1>1, <1>2, AnnouncedKept, DeliveryOfDeletion

(* The host's orphans and its marked entities go.                          *)
LEMMA DeliveryBySceneUpdate ==
  ASSUME Inv, Delivery, SceneUpdate
  PROVE  Delivery'
<1> DEFINE h == ents[Host]
           lost == Orphans(h)
           g == Erase(h, Marked(h) \cup lost)
<1>1. PICK ids \in Ascending(lost) : BroadcastDeletions(ids)
  BY DEF SceneUpdate
<1>2. /\ ents' = [ents EXCEPT ![Host] = g]
      /\ UNCHANGED <<link, up, connected, joined, ghosts>> /\ Way' = Way
  BY DEF SceneUpdate, Way
<1>3. Replica(h, born) /\ born \in Seq(Info) /\ lost \subseteq DOMAIN h /\ lost \subseteq 1..Len(born)
  BY HostReplica DEF Replica, Orphans
<1>4. ents'[Host] = g /\ Replica(g, born) /\ \A r \in Remotes : ents'[r] = ents[r]
  BY <1>2, <1>3, EntsReplaced, EraseReplica, HostReplica, HostAssumption
<1>5. DOMAIN g = DOMAIN h \ (Marked(h) \cup lost) /\ \A i \in DOMAIN g : g[i] = h[i]
  BY DEF Erase
<1> HIDE DEF g, lost
<1>6. /\ ids \in Seq(lost) /\ \A j, k \in DOMAIN ids : ids[j] = ids[k] => j = k
      /\ \A i \in lost : \E k \in DOMAIN ids : ids[k] = i
  BY <1>1, <1>3, OrderedLists
<1>7. \A k \in DOMAIN ids : ids[k] \in lost
  BY <1>6
<1>8. ids \in Seq(1..Len(born))
  BY <1>3, <1>6, SeqGrows
<1> HIDE DEF h
<1>9. \A i : i \in Live(g) <=> i \in Live(h) /\ ~ \E k \in DOMAIN ids : ids[k] = i
  <2>1. \A i : (\E k \in DOMAIN ids : ids[k] = i) <=> i \in lost
    BY <1>6, <1>7
  <2>2. \A i \in DOMAIN h : i \in Marked(h) <=> h[i].remove
    BY DEF Marked
  <2> QED BY <2>1, <2>2, <1>5 DEF Live
<1>10. \A i \in Live(g) : g[i].val = h[i].val
  BY <1>5 DEF Live
<1>11. Loses(h, g, ids)
  BY <1>9, <1>10 DEF Loses
<1> QED BY <1>1, <1>2, <1>4, <1>6, <1>8, <1>11, AnnouncedKept, DeliveryOfDeletions DEF h

(* The network tick: the state of what the host owns.                      *)
LEMMA DeliveryByTick ==
  ASSUME Inv, Delivery, EndDrain
  PROVE  Delivery'
<1> DEFINE h == ents[Host]
           own == {i \in DOMAIN h : h[i].info.owner = Host}
<1>1. UNCHANGED <<ents, link, up, connected, joined, ghosts>> /\ Way' = Way
  BY DEF EndDrain, Way
<1>2. CASE UNCHANGED down
  BY <1>1, <1>2, AnnouncedKept, DeliveryQuiet
<1>3. ASSUME NEW ids \in Ascending(own), Send(connected, Updates(h, ids)) PROVE Delivery'
  <2> DEFINE q == Updates(h, ids)
             b == born
             S == own
             G == ghosts
  <2>1. Replica(h, b) /\ b \in Seq(Info) /\ \A r \in Remotes : down[r] \in Seq(Downs(b))
    BY HostReplica, WayTyped
  <2>2. S = {i \in DOMAIN h : h[i].info.owner = Host} /\ ids \in Ascending(S) /\ q = Updates(h, ids)
    BY <1>3
  <2>3. ASSUME NEW e, Replica(e, b), NEW r
        PROVE  /\ q \in Seq(Downs(b))
               /\ Outlives(h, e, r, G) => Outlives(h, Deliver(e, q), r, G)
               /\ Covers(h, e, r) => Covers(h, Deliver(e, q), r)
    <3> HIDE DEF q, b, S, G, h, own
    <3> QED BY <2>1, <2>2, <2>3, TickSynced
  <2>4. \A r \in Remotes : Replica(Future(r), b)
    BY FutureTyped
  <2> HIDE DEF q, own
  <2>5. /\ q \in Seq(Downs(b)) /\ Send(connected, q)
        /\ \A r \in Remotes : /\ Outlives(h, Future(r), r, G) => Outlives(h, Deliver(Future(r), q), r, G)
                              /\ Covers(h, Future(r), r) => Covers(h, Deliver(Future(r), q), r)
    BY <1>3, <2>1, <2>3, <2>4 DEF q
  <2>6. ents'[Host] = h /\ \A r \in Remotes : ents'[r] = ents[r] /\ (Announced(r)' => Announced(r))
    BY <1>1, AnnouncedKept
  <2> QED BY <1>1, <2>1, <2>5, <2>6, DeliverySent
<1>4. UNCHANGED down \/ \E ids \in Ascending(own) : Send(connected, Updates(h, ids))
  BY DEF EndDrain, Updates
<1> QED BY <1>2, <1>3, <1>4

(* createNetworkedEntity: the same new entities here and there.            *)
LEMMA DeliveryOfCreations ==
  ASSUME Inv, Delivery, UNCHANGED <<link, up, connected, joined, ghosts>>,
         \A r \in Remotes : Announced(r)' => Announced(r),
         NEW t \in Types, NEW owner \in Clients, CreateNetworked(t, owner)
  PROVE  Delivery'
<1> DEFINE b == born'
           n == Len(born)
           h == ents[Host]
           g == ents'[Host]
           G == ghosts
<1>1. /\ b \in Seq(Info) /\ \A r \in Remotes : ents'[r] = ents[r]
      /\ Grown(g, h, b, n)
  BY Created DEF Grown
<1>2. PICK q \in Seq(Downs(b)) : Send(connected, q) /\ CreatesAfter(q, b, n)
  BY Created DEF CreatesAfter
<1>3. Extends(b, born) /\ born \in Seq(Info) /\ n \in Nat
  BY CreateStep, HostReplica DEF Inv
<1>4. ASSUME NEW e, Replica(e, born)
      PROVE  Replica(e, b) /\ DOMAIN e \subseteq 1..n
  <2>1. Replica(e, b)
    BY <1>3, <1>4, ReplicaGrows
  <2>2. DOMAIN e \subseteq 1..n
    BY <1>4 DEF Replica
  <2> QED BY <2>1, <2>2
<1>5. \A r \in Remotes : down[r] \in Seq(Downs(b))
  BY <1>3, WayTyped, PacketsGrow, SeqGrows
<1>6. Replica(h, b) /\ DOMAIN h \subseteq 1..n
  BY <1>4, HostReplica
<1>7. ASSUME NEW r \in Remotes
      PROVE  /\ Outlives(h, Future(r), r, G) => Outlives(g, Deliver(Future(r), q), r, G)
             /\ Covers(h, Future(r), r) => Covers(g, Deliver(Future(r), q), r)
  <2> DEFINE e == Future(r)
             f == Deliver(e, q)
  <2>1. Replica(e, b) /\ DOMAIN e \subseteq 1..n
    BY <1>4, FutureTyped
  <2>2. f = Deliver(e, q)
    OBVIOUS
  <2> HIDE DEF e, f, b, n, h, g, G
  <2>3. Replica(f, b) /\ Grown(f, e, b, n)
    BY <1>1, <1>2, <1>3, <2>1, <2>2, CreationsDelivered
  <2>4. Outlives(h, e, r, G) => Outlives(g, f, r, G)
    BY <1>1, <1>3, <1>6, <2>1, <2>3, CreationsSynced
  <2>5. Covers(h, e, r) => Covers(g, f, r)
    BY <1>1, <1>3, <1>6, <2>1, <2>3, CreationsSynced
  <2> QED BY <2>4, <2>5 DEF e, f
<1> HIDE DEF b
<1> QED BY <1>1, <1>2, <1>5, <1>7, DeliverySent

LEMMA DeliveryByRequest ==
  ASSUME Inv, Delivery, NEW s \in Remotes, HandleRequest(s)
  PROVE  Delivery'
<1>1. PICK t \in Types : /\ Handling(s, CreateRequest(t)) /\ CreateNetworked(t, s)
                         /\ UNCHANGED <<joined, ghosts>>
  BY DEF HandleRequest
<1>2. UNCHANGED <<link, up, connected>> /\ \A r \in Remotes : Announced(r)' => Announced(r)
  BY <1>1, AnnouncedTaken
<1> QED BY <1>1, <1>2, HostReplica, DeliveryOfCreations

LEMMA DeliveryByHostCreate ==
  ASSUME Inv, Delivery, HostCreate
  PROVE  Delivery'
<1>1. PICK t \in Types, owner \in {Host} \cup joined : CreateNetworked(t, owner)
  BY DEF HostCreate
<1>2. owner \in Clients /\ UNCHANGED <<link, up, connected, joined, ghosts>> /\ Way' = Way
  BY HostReplica DEF HostCreate, Way, Inv, Frame
<1> QED BY <1>1, <1>2, AnnouncedKept, DeliveryOfCreations

(* A client's update: the host applies it and everyone else does.          *)
LEMMA DeliveryByUpdate ==
  ASSUME Inv, Arrivals, Delivery, NEW s \in Remotes, HandleUpdate(s)
  PROVE  Delivery'
<1> DEFINE m == Head(packets).msg
           h == ents[Host]
           g == Apply(h, m)
           b == born
           G == ghosts
<1>1. /\ m.kind = "update" /\ Handling(s, m) /\ Send(OtherClients(s), <<m>>)
      /\ ents' = [ents EXCEPT ![Host] = Apply(@, m)]
      /\ UNCHANGED <<born, joined, ghosts>>
  BY DEF HandleUpdate
<1>2. m.info.owner = s /\ m.info.owner # Host
  <2>1. /\ packets # <<>> /\ Head(packets) = [from |-> s, msg |-> m]
        /\ packets \in Seq(Forwarded(born)) /\ net \in Seq(Forwarded(born))
    BY <1>1, WayTyped DEF Handling
  <2>2. 1 \in DOMAIN Way /\ Way[1] = Head(packets) /\ Way[1].from = s
    BY <2>1 DEF Way
  <2> QED BY <2>2, <1>1, HostAssumption DEF Arrivals, SendsOwnUpdates
<1> HIDE DEF m
<1>3. m \in Downs(b) /\ <<m>> \in Seq(Downs(b)) /\ b \in Seq(Info) /\ Replica(h, b)
  <2>1. m \in Ups(b)
    BY <1>1, HandlingTyped
  <2> QED BY <2>1, <1>1, HostReplica, UpdatesGoDown
<1>4. ents'[Host] = g /\ \A r \in Remotes : ents'[r] = ents[r]
  BY <1>1, EntsReplaced, HostReplica, HostAssumption
<1>5. UNCHANGED <<link, up, connected>> /\ \A r \in Remotes : Announced(r)' => Announced(r)
  BY <1>1, AnnouncedTaken
<1> SUFFICES ASSUME NEW r \in Remotes PROVE Reached(r)' /\ Synced(r)'
  BY DEF Delivery
<1>6. Reached(r) /\ Synced(r) /\ down[r] \in Seq(Downs(b))
  BY WayTyped DEF Delivery
<1>7. Reached(r)'
  <2>1. r \in OtherClients(s) => r \in connected
    BY DEF OtherClients
  <2> QED BY <2>1, <1>1, <1>4, <1>5, <1>6, ReachedSent
<1> DEFINE e == Future(r)
           f == Future(r)'
<1>8. f = IF r \in OtherClients(s) /\ link[r] = "in" THEN Deliver(e, <<m>>) ELSE e
  BY <1>1, <1>3, <1>4, <1>6, FutureSent
<1>9. Deliver(e, <<m>>) = Apply(e, m)
  BY <1>3, DeliverOne
<1>10. CASE link[r] = "in" /\ r \in connected
  <2>1. f = Apply(e, m) \/ (f = e /\ m.info.owner = r)
    BY <1>2, <1>8, <1>9, <1>10 DEF OtherClients
  <2>2. g = Apply(h, m) /\ Replica(e, b)
    BY FutureTyped
  <2> HIDE DEF e, f, g, h, b, G
  <2>3. /\ Outlives(h, e, r, G) => Outlives(g, f, r, G)
        /\ Covers(h, e, r) => Covers(g, f, r)
    BY <1>1, <1>2, <1>3, <2>1, <2>2, UpdateSynced
  <2>4. Synced(r)'
    BY <1>1, <1>4, <1>5, <1>6, <2>3 DEF Synced, Outlives, Covers, Live, e, f, h, G
  <2> QED BY <1>7, <2>4
<1>11. CASE ~(link[r] = "in" /\ r \in connected)
  <2>1. f = <<>> /\ ~(link[r] = "in" /\ r \in joined)
    BY <1>6, <1>8, <1>11, Unreached DEF OtherClients
  <2>2. Live(<<>>) = {}
    BY DEF Live
  <2>3. Synced(r)'
    BY <1>1, <1>5, <2>1, <2>2 DEF Synced, Outlives, Live
  <2> QED BY <1>7, <2>3
<1> QED BY <1>10, <1>11

-----------------------------------------------------------------------------
(* What game code does to the state of its own entities, and what a client *)
(* does.                                                                   *)

LEMMA Mutated ==
  ASSUME Inv, NEW c \in Clients, Mutate(c)
  PROVE  \E i \in DOMAIN ents[c] :
           /\ ents[c][i].info.owner = c
           /\ DOMAIN ents'[c] = DOMAIN ents[c]
           /\ \A j \in DOMAIN ents[c] : j # i => ents'[c][j] = ents[c][j]
           /\ ents'[c][i] = Valued(ents[c][i], ents[c][i].val + 1)
           /\ \A d \in Clients : d # c => ents'[d] = ents[d]
<1>1. PICK i \in DOMAIN ents[c] : ents[c][i].info.owner = c /\ ents' = [ents EXCEPT ![c][i].val = @ + 1]
  BY DEF Mutate
<1>2. /\ DOMAIN ents'[c] = DOMAIN ents[c]
      /\ \A j \in DOMAIN ents[c] : j # i => ents'[c][j] = ents[c][j]
      /\ \A d \in Clients : d # c => ents'[d] = ents[d]
  BY <1>1 DEF Inv, Shape
<1>3. ents'[c][i] = Valued(ents[c][i], ents[c][i].val + 1)
  BY <1>1 DEF Inv, Shape, Valued
<1> QED BY <1>1, <1>2, <1>3

LEMMA DeliveryByHostMutate ==
  ASSUME Inv, Delivery, Mutate(Host)
  PROVE  Delivery'
<1> DEFINE h == ents[Host]
           g == ents'[Host]
           b == born
           G == ghosts
<1>1. PICK i \in DOMAIN h :
        /\ h[i].info.owner = Host /\ DOMAIN g = DOMAIN h
        /\ \A j \in DOMAIN h : j # i => g[j] = h[j]
        /\ g[i] = Valued(h[i], h[i].val + 1)
        /\ \A d \in Clients : d # Host => ents'[d] = ents[d]
  BY Mutated, HostReplica
<1>2. UNCHANGED <<link, up, down, connected, joined, ghosts>> /\ Way' = Way
  BY DEF Mutate, Way
<1> SUFFICES ASSUME NEW r \in Remotes PROVE Reached(r)' /\ Synced(r)'
  BY DEF Delivery
<1>3. ents'[r] = ents[r] /\ Reached(r) /\ Synced(r)
  BY <1>1, HostReplica, HostAssumption DEF Delivery
<1>4. Reached(r)'
  BY <1>2, <1>3, AnnouncedKept, ReachedKept
<1> DEFINE e == Future(r)
<1>5. Future(r)' = e
  BY <1>2, <1>3, FutureKept
<1>6. Replica(e, b) /\ Replica(h, b) /\ b \in Seq(Info)
  BY FutureTyped, HostReplica
<1>7. /\ Outlives(h, e, r, G) => Outlives(g, e, r, G)
      /\ Covers(h, e, r) => Covers(g, e, r)
  <2> HIDE DEF e, h, g, b, G
  <2>1. Outlives(h, e, r, G) => Outlives(g, e, r, G)
    BY <1>1, <1>6, HostMutationSynced
  <2>2. Covers(h, e, r) => Covers(g, e, r)
    BY <1>1, <1>6, HostMutationSynced
  <2> QED BY <2>1, <2>2
<1>8. Synced(r)'
  <2>1. ents'[Host] = g
    OBVIOUS
  <2> HIDE DEF g
  <2> QED BY <1>2, <1>3, <1>5, <1>7, <2>1 DEF Synced, Outlives, Covers, Live
<1> QED BY <1>4, <1>8

(* A client that is reached changes its own replica, from e to n.          *)
LEMMA DeliveryAlone ==
  ASSUME Inv, Delivery, NEW s \in Remotes, link[s] = "in", s \in connected,
         NEW n, ents'[s] = n, Replica(n, born), Blur(n, ents[s], s),
         \A c \in Clients : c # s => ents'[c] = ents[c],
         UNCHANGED <<link, down, connected, joined, ghosts>>, Way' = Way,
         \A r \in Remotes : \A k \in DOMAIN up'[r] : up'[r][k].kind = "disconnected" =>
           \E j \in DOMAIN up[r] : up[r][j].kind = "disconnected"
  PROVE  Delivery'
<1> SUFFICES ASSUME NEW r \in Remotes PROVE Reached(r)' /\ Synced(r)'
  BY DEF Delivery
<1>1. Reached(r) /\ Synced(r) /\ ents'[Host] = ents[Host]
  BY HostReplica, HostAssumption DEF Delivery
<1>2. r # s => ents'[r] = ents[r]
  BY HostReplica
<1>3. Reached(r)'
  BY <1>1, <1>2, AnnouncedKept, ReachedKept
<1>4. CASE r # s
  BY <1>1, <1>2, <1>3, <1>4, FutureKept, SyncedKept
<1>5. CASE r = s
  <2> DEFINE e == Future(r)
             f == Future(r)'
             b == born
             h == ents[Host]
             G == ghosts
  <2>1. /\ Replica(ents[r], b) /\ Replica(n, b) /\ b \in Seq(Info) /\ down[r] \in Seq(Downs(b))
        /\ Replica(h, b)
    BY HostReplica, WayTyped
  <2>2. e = Deliver(ents[r], down[r]) /\ f = Deliver(n, down[r])
    BY <1>5 DEF Future
  <2>3. Blur(f, e, r) /\ Replica(e, b) /\ Replica(f, b)
    <3> HIDE DEF e, f, b
    <3> QED BY <1>5, <2>1, <2>2, BlurDeliver
  <2>4. Live(e) = Live(f) /\ DOMAIN f \subseteq DOMAIN e
    <3> HIDE DEF e, f
    <3> QED BY <2>3 DEF Blur, Live
  <2>5. /\ Outlives(h, e, r, G) => Outlives(h, f, r, G)
        /\ Covers(h, e, r) => Covers(h, f, r)
    <3>1. r # Host
      BY HostAssumption
    <3> HIDE DEF e, f, b, h, G
    <3> QED BY <2>1, <2>3, <2>4, <3>1, BlurSynced
  <2>6. Synced(r)'
    <3> HIDE DEF e, f
    <3> QED BY <1>1, <2>5 DEF Synced, Outlives, Covers, Live, e, f
  <2> QED BY <1>3, <2>6
<1> QED BY <1>4, <1>5

(* Only a client that is reached holds anything, or has anything to handle. *)
LEMMA Holding ==
  ASSUME Delivery, NEW s \in Remotes, ents[s] # <<>> \/ down[s] # <<>>
  PROVE  link[s] = "in" /\ s \in connected
  BY DEF Delivery, Reached

LEMMA NonEmpty == DOMAIN <<>> = {} /\ Marked(<<>>) = {} /\ Orphans(<<>>) = {}
  BY DEF Marked, Orphans

LEMMA DeliveryByRemoteMutate ==
  ASSUME Inv, Delivery, NEW s \in Remotes, Mutate(s)
  PROVE  Delivery'
<1> DEFINE e == ents[s]
           n == ents'[s]
<1>1. PICK i \in DOMAIN e :
        /\ e[i].info.owner = s /\ DOMAIN n = DOMAIN e
        /\ \A j \in DOMAIN e : j # i => n[j] = e[j]
        /\ n[i] = Valued(e[i], e[i].val + 1)
        /\ \A c \in Clients : c # s => ents'[c] = ents[c]
  BY Mutated, HostReplica
<1>2. UNCHANGED <<link, up, down, connected, joined, ghosts>> /\ Way' = Way /\ born' = born
  BY DEF Mutate, Way
<1>3. Inv'
  BY HostReplica, MutateStep
<1>4. Replica(n, born)
  BY <1>2, <1>3, HostReplica DEF Inv, Shape, Clients
<1>5. link[s] = "in" /\ s \in connected
  <2>1. e # <<>>
    BY NonEmpty
  <2> QED BY <2>1, Holding
<1>6. \A j \in DOMAIN e : e[j] \in Entity
  BY HostReplica DEF Replica
<1> HIDE DEF e, n
<1>7. Blur(n, e, s)
  <2>1. n[i].info = e[i].info /\ n[i].remove = e[i].remove
    BY <1>1, <1>6, ValuedFields
  <2> QED BY <1>1, <2>1 DEF Blur
<1> QED BY <1>1, <1>2, <1>4, <1>5, <1>7, DeliveryAlone DEF e, n

LEMMA DeliveryByRemoteHandle ==
  ASSUME Inv, Delivery, NEW s \in Remotes, RemoteHandle(s)
  PROVE  Delivery'
<1> DEFINE e == ents[s]
           q == down[s]
<1>1. /\ q # <<>> /\ ents' = [ents EXCEPT ![s] = Apply(e, Head(q))] /\ down' = [down EXCEPT ![s] = Tail(q)]
      /\ UNCHANGED <<link, up, connected, joined, ghosts>> /\ Way' = Way
  BY DEF RemoteHandle, Way
<1>2. ents'[s] = Apply(e, Head(q)) /\ down'[s] = Tail(q) /\ q \in Seq(Downs(born))
  BY <1>1, HostReplica, WayTyped, EntsReplaced DEF Inv, Shape
<1>3. \A r \in Remotes : r # s => ents'[r] = ents[r] /\ down'[r] = down[r]
  BY <1>1, HostReplica, EntsReplaced DEF Inv, Shape
<1>4. ents'[Host] = ents[Host] /\ link[s] = "in" /\ s \in connected
  BY <1>1, HostReplica, HostAssumption, EntsReplaced, Holding
<1>5. Future(s)' = Future(s)
  <2>1. Future(s)' = Deliver(ents'[s], down'[s]) /\ Future(s) = Deliver(e, q)
    BY DEF Future
  <2> HIDE DEF e, q
  <2>2. Deliver(Apply(e, Head(q)), Tail(q)) = Deliver(e, q)
    BY <1>1, <1>2, DeliverHead
  <2> QED BY <1>2, <2>1, <2>2
<1> SUFFICES ASSUME NEW r \in Remotes PROVE Reached(r)' /\ Synced(r)'
  BY DEF Delivery
<1>6. Reached(r) /\ Synced(r)
  BY DEF Delivery
<1>7. Reached(r)'
  BY <1>1, <1>3, <1>4, <1>6, AnnouncedKept, ReachedKept
<1>8. Future(r)' = Future(r)
  BY <1>3, <1>5, FutureKept
<1>9. Synced(r)'
  BY <1>1, <1>4, <1>6, <1>8, SyncedKept
<1> QED BY <1>7, <1>9

(* A client's own packets are no news of its leaving.                      *)
LEMMA SentUp ==
  ASSUME Inv, NEW s \in Remotes, NEW q \in Seq(Ups(born)), RemoteSend(s, q),
         \A k \in DOMAIN q : q[k].kind # "disconnected"
  PROVE  /\ UNCHANGED <<link, down, connected, joined, ghosts>> /\ Way' = Way
         /\ \A r \in Remotes : \A k \in DOMAIN up'[r] : up'[r][k].kind = "disconnected" =>
              \E j \in DOMAIN up[r] : up[r][j].kind = "disconnected"
<1>1. UNCHANGED <<link, down, connected, joined, ghosts>> /\ Way' = Way
  BY DEF RemoteSend, Way
<1>2. up' = [up EXCEPT ![s] = up[s] \o q] /\ up[s] \in Seq(Ups(born))
  BY WayTyped DEF RemoteSend
<1>3. up'[s] = up[s] \o q /\ \A r \in Remotes : r # s => up'[r] = up[r]
  BY <1>2, WayTyped
<1>4. \A k \in DOMAIN up'[s] : up'[s][k].kind = "disconnected" => k \in DOMAIN up[s] /\ up'[s][k] = up[s][k]
  <2> SUFFICES ASSUME NEW k \in DOMAIN up'[s], up'[s][k].kind = "disconnected"
               PROVE  k \in DOMAIN up[s] /\ up'[s][k] = up[s][k]
    OBVIOUS
  <2>1. CASE k <= Len(up[s])
    BY <1>2, <1>3, <2>1
  <2>2. CASE k > Len(up[s])
    <3>1. k - Len(up[s]) \in DOMAIN q /\ up'[s][k] = q[k - Len(up[s])]
      BY <1>2, <1>3, <2>2
    <3> QED BY <3>1
  <2>3. k \in Nat /\ Len(up[s]) \in Nat
    BY <1>2, <1>3
  <2> QED BY <2>1, <2>2, <2>3
<1> QED BY <1>1, <1>3, <1>4

LEMMA DeliveryBySend ==
  ASSUME Inv, Delivery, NEW s \in Remotes, NEW q \in Seq(Ups(born)), RemoteSend(s, q),
         \A k \in DOMAIN q : q[k].kind # "disconnected", ents' = ents
  PROVE  Delivery'
  BY SentUp, AnnouncedKept, DeliveryQuiet

LEMMA DeliveryByRemoteUpdate ==
  ASSUME Inv, Delivery, NEW s \in Remotes, RemoteUpdate(s)
  PROVE  Delivery'
<1> DEFINE e == ents[s]
           lost == Orphans(e)
           n == Erase(e, Marked(e))
<1>1. PICK ids \in Ascending(lost) : RemoteSend(s, [i \in 1..Len(ids) |-> Deletion(ids[i])])
  BY DEF RemoteUpdate
<1>2. /\ Replica(e, born) /\ born \in Seq(Info) /\ ents' = [ents EXCEPT ![s] = n]
      /\ Marked(e) \cup lost # {}
  BY HostReplica DEF RemoteUpdate
<1>3. lost \subseteq DOMAIN e /\ lost \subseteq 1..Len(born)
  BY <1>2 DEF Replica, Orphans
<1>4. e # <<>>
  BY <1>2, NonEmpty
<1>5. link[s] = "in" /\ s \in connected
  BY <1>4, Holding
<1>6. Replica(n, born) /\ Blur(n, e, s)
  <2>1. DOMAIN n = DOMAIN e \ Marked(e) /\ \A i \in DOMAIN n : n[i] = e[i]
    BY DEF Erase
  <2> HIDE DEF n
  <2>2. Blur(n, e, s)
    BY <2>1 DEF Blur, Marked
  <2> QED BY <1>2, <2>2, EraseReplica DEF n
<1>7. ents'[s] = n /\ \A c \in Clients : c # s => ents'[c] = ents[c]
  BY <1>2, HostReplica, EntsReplaced
<1> HIDE DEF lost, n
<1>8. ids \in Seq(lost)
  BY <1>1, <1>2, <1>3, OrderedTyped
<1> DEFINE q == [i \in 1..Len(ids) |-> Deletion(ids[i])]
<1>9. q \in Seq(Ups(born)) /\ \A k \in DOMAIN q : q[k].kind # "disconnected"
  BY <1>2, <1>3, <1>8, ReadOutTyped, DeletionKind
<1>10. RemoteSend(s, q)
  BY <1>1
<1> HIDE DEF q
<1>11. /\ UNCHANGED <<link, down, connected, joined, ghosts>> /\ Way' = Way
       /\ \A r \in Remotes : \A k \in DOMAIN up'[r] : up'[r][k].kind = "disconnected" =>
            \E j \in DOMAIN up[r] : up[r][j].kind = "disconnected"
  BY <1>9, <1>10, SentUp
<1> QED BY <1>5, <1>6, <1>7, <1>11, DeliveryAlone

LEMMA DeliveryByRemoteTick ==
  ASSUME Inv, Delivery, NEW s \in Remotes, RemoteTick(s)
  PROVE  Delivery'
<1> DEFINE own == {i \in DOMAIN ents[s] : ents[s][i].info.owner = s}
<1>1. PICK ids \in Ascending(own) : RemoteSend(s, [i \in 1..Len(ids) |-> Update(ids[i], ents[s][ids[i]])])
  BY DEF RemoteTick
<1> DEFINE q == [i \in 1..Len(ids) |-> Update(ids[i], ents[s][ids[i]])]
<1>2. Replica(ents[s], born) /\ born \in Seq(Info)
  BY HostReplica
<1>3. own \subseteq DOMAIN ents[s] /\ own \subseteq 1..Len(born)
  BY <1>2 DEF Replica
<1>4. ids \in Seq(own)
  BY <1>2, <1>3, OrderedTyped
<1>5. q \in Seq(Ups(born))
  BY <1>2, <1>3, <1>4, ReadOutTyped
<1>6. \A k \in DOMAIN q : q[k].kind # "disconnected"
  BY UpdateKind
<1>7. RemoteSend(s, q) /\ ents' = ents
  BY <1>1 DEF RemoteTick
<1> HIDE DEF q
<1> QED BY <1>5, <1>6, <1>7, DeliveryBySend

LEMMA DeliveryByRemoteCall ==
  ASSUME Inv, Delivery, NEW r \in Remotes, RemoteCreate(r) \/ RemoteDelete(r)
  PROVE  Delivery'
<1>1. CASE RemoteCreate(r)
  <2>1. PICK t \in Types :
          RemoteSend(r, Append([i \in 1..Len(Children[t]) |-> CreateRequest(Children[t][i])], CreateRequest(t)))
    BY <1>1 DEF RemoteCreate
  <2> DEFINE s == [i \in 1..Len(Children[t]) |-> CreateRequest(Children[t][i])]
             q == Append(s, CreateRequest(t))
             Requests == {CreateRequest(u) : u \in Types}
  <2>2. Children[t] \in Seq(Types)
    BY ChildrenAssumption
  <2>3. s \in Seq(Requests) /\ CreateRequest(t) \in Requests
    BY <2>2
  <2>4. q \in Seq(Requests)
    BY <2>3
  <2>5. Requests \subseteq Ups(born) /\ \A m \in Requests : m.kind = "request"
    BY DEF Ups, CreateRequest
  <2>6. RemoteSend(r, q) /\ ents' = ents
    BY <2>1, <1>1 DEF RemoteCreate
  <2> HIDE DEF q, Requests
  <2>7. q \in Seq(Ups(born)) /\ \A k \in DOMAIN q : q[k].kind = "request"
    BY <2>4, <2>5
  <2> QED BY <2>6, <2>7, DeliveryBySend
<1>2. CASE RemoteDelete(r)
  <2>1. PICK i \in DOMAIN ents[r] : RemoteSend(r, <<Deletion(i)>>)
    BY <1>2 DEF RemoteDelete
  <2>2. Deletion(i) \in Ups(born)
    BY HostReplica, DeletionTyped DEF Replica
  <2>3. <<Deletion(i)>> \in Seq(Ups(born)) /\ \A k \in DOMAIN <<Deletion(i)>> : <<Deletion(i)>>[k].kind = "delete"
    BY <2>2, DeletionKind, OneElement
  <2>4. ents' = ents
    BY <1>2 DEF RemoteDelete
  <2> QED BY <2>1, <2>3, <2>4, DeliveryBySend
<1> QED BY <1>1, <1>2

-----------------------------------------------------------------------------
LEMMA InitDelivery == Init => Delivery
<1> SUFFICES ASSUME Init PROVE Delivery
  OBVIOUS
<1>1. <<>> \o <<>> = <<>>
  OBVIOUS
<1>2. Way = <<>> /\ DOMAIN Way = {}
  BY <1>1 DEF Init, Way
<1>3. \A r \in Remotes : /\ up[r] = <<>> /\ down[r] = <<>> /\ r \notin joined /\ link[r] = "out"
                         /\ ents[r] = <<>>
  BY DEF Init, Clients
<1> QED BY <1>2, <1>3 DEF Delivery, Reached, Synced

LEMMA NextDelivery == Inv /\ Arrivals /\ Delivery /\ [Next]_vars => Delivery'
<1> SUFFICES ASSUME Inv, Arrivals, Delivery, [Next]_vars PROVE Delivery'
  OBVIOUS
<1>1. CASE NetPush \/ \E r \in Remotes : NetConsume(r)
  BY <1>1, DeliveryByNet
<1>2. CASE StartDrain \/ UNCHANGED vars
  <2>1. UNCHANGED <<ents, link, up, down, connected, joined, ghosts>> /\ Way' = Way
    BY <1>2 DEF StartDrain, vars, Way
  <2> QED BY <2>1, AnnouncedKept, DeliveryQuiet
<1>3. CASE HostHandle
  BY <1>3, DeliveryByConnected, DeliveryByDisconnected, DeliveryByRequest, DeliveryByUpdate,
     DeliveryByDeletion DEF HostHandle
<1>4. CASE EndDrain \/ SceneUpdate
  BY <1>4, DeliveryByTick, DeliveryBySceneUpdate
<1>5. CASE HostCreate \/ HostDelete \/ Mutate(Host)
  BY <1>5, DeliveryByHostCreate, DeliveryByHostDelete, DeliveryByHostMutate
<1>6. ASSUME NEW r \in Remotes,
             Join(r) \/ Leave(r) \/ RemoteHandle(r) \/ RemoteUpdate(r) \/ RemoteTick(r)
               \/ RemoteCreate(r) \/ RemoteDelete(r) \/ Mutate(r)
      PROVE  Delivery'
  BY <1>6, DeliveryByJoin, DeliveryByLeave, DeliveryByRemoteHandle, DeliveryByRemoteUpdate,
     DeliveryByRemoteTick, DeliveryByRemoteCall, DeliveryByRemoteMutate
<1> QED BY <1>1, <1>2, <1>3, <1>4, <1>5, <1>6 DEF Next

LEMMA AlwaysDelivery == Spec => [](Inv /\ Delivery)
<1>1. Inv /\ Arrivals /\ Departures /\ [Next]_vars => (Arrivals /\ Departures)'
  BY NextKept DEF Kept
<1> QED BY <1>1, InitInv, NextInv, InitKept, InitDelivery, NextDelivery, PTL DEF Spec

(* No live entity of the host's is missing from what a served client is    *)
(* going to hold: neither one created around its snapshot, nor one created *)
(* while the network thread already counts it as connected, nor one that   *)
(* reaches it twice (Scenegraph.cpp 54-68, 365-428, 430-456).              *)
THEOREM CreationsReachClientsTheorem == Spec => []CreationsReachClients
  BY AlwaysDelivery, DeliveryShows, PTL

(* What the host has deleted, or lost as an orphan, does not stay in a     *)
(* client's replica once everything sent has arrived, but for the marked   *)
(* entities a snapshot revived (Scenegraph.cpp 143-166, 242-256, 468-488). *)
THEOREM DeletionsReachClientsTheorem == Spec => []DeletionsReachClients
  BY AlwaysDelivery, DeliveryShows, PTL

(* The state of what another client owns is going to be, at every served   *)
(* client, what it is at the host; of what the host owns no client gets    *)
(* ahead (Scenegraph.cpp 69-73, 172-257, 259-278, 430-456).                *)
THEOREM StateReachesClientsTheorem == Spec => []StateReachesClients
  BY AlwaysDelivery, DeliveryShows, PTL

=============================================================================
