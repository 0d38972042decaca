--------------------------- MODULE EntityRPC_proof ---------------------------
(***************************************************************************)
(* Proofs about entity RPCs, for any number of clients, entities and calls:*)
(* the state's shape, that the calls implement their contract, that no     *)
(* replica counts a call twice, and that a late joiner's replicas come to  *)
(* agree with the host's.                                                  *)
(*                                                                         *)
(* The argument for the contract.  A call may be executed where it has not *)
(* been, and where no later call of its caller has been: so it must not be *)
(* overtaken.  It travels from its caller to the host and from there to the*)
(* others, each way in a queue.  UpInv says that a call that has not       *)
(* reached the host is unknown to everyone else, and so is every later call*)
(* of that caller.  DownInv says that a call under way to a client is for  *)
(* it and somebody else's, and that no later one has been executed there.  *)
(* A client's own calls do not come back to it, which is why it may execute*)
(* them at once.                                                           *)
(*                                                                         *)
(* The argument for CountedOnce.  A snapshot replaces the state of the     *)
(* replica, so a call counts twice only if the snapshot contains it and it *)
(* is sent, too: OnceInv says that calls under way to the host are in no   *)
(* replica of others and in no snapshot, and that what follows a snapshot  *)
(* in a queue is not in it.                                                *)
(*                                                                         *)
(* The argument for ScoresAgree.  It speaks of a client to which nothing is*)
(* under way; Agreeing says of every client that its replica will reflect  *)
(* the owner's calls the host's reflects once what is under way to it has  *)
(* arrived (Later).  What the host executes it sends to every client at    *)
(* once, so both sides of that equation change together.                   *)
(*                                                                         *)
(* The lemmas speak of a history I, k calls and a set w of entities, so    *)
(* that they apply on both sides of a step.                                *)
(***************************************************************************)
EXTENDS EntityRPC, SequenceInduction, FiniteSetTheorems, TLAPS

(* What a replica, a sent and a received packet may be, after k calls on   *)
(* the entities w.                                                         *)
Replica(e, k, w) ==
  /\ DOMAIN e \subseteq w
  /\ e \in [DOMAIN e -> [ran : Seq(1..k), remove : BOOLEAN]]

Ups(k) == {Connected} \cup [kind : {"rpc"}, call : 1..k]

Downs(k, w) ==
  [kind : {"create", "delete"}, ent : w]
    \cup [kind : {"snapshot"}, ent : w, ran : Seq(1..k)]
    \cup [kind : {"rpc"}, call : 1..k]

Replicas(k, w) ==
  /\ DOMAIN ents = Clients
  /\ \A c \in Clients : Replica(ents[c], k, w)
  /\ \A r \in Remotes : link[r] # "in" => down[r] = <<>> /\ ents[r] = <<>>

Types ==
  /\ issued \in Seq([caller : Clients, ent : DOMAIN owner, type : RPCTypes, to : SUBSET Clients])
  /\ executed \in [Clients -> Seq(1..Len(issued))]
  /\ Replicas(Len(issued), DOMAIN owner)
  /\ DOMAIN owner \subseteq Entities
  /\ owner \in [DOMAIN owner -> Clients]
  /\ link \in [Remotes -> {"out", "in", "gone"}]
  /\ served \subseteq Remotes
  /\ up \in [Remotes -> Seq(Ups(Len(issued)))]
  /\ down \in [Remotes -> Seq(Downs(Len(issued), DOMAIN owner))]

(* The calls in a sequence of packets and the elements of a sequence.      *)
CallsIn(q) == {q[i].call : i \in {j \in 1..Len(q) : q[j].kind = "rpc"}}

Elements(s) == {s[i] : i \in 1..Len(s)}

(* In the history I: the calls of each caller are in the order they were   *)
(* made, and all calls of S by n's caller are earlier than n.              *)
Rising(I, q) ==
  \A i, j \in 1..Len(q) :
    i < j /\ q[i].kind = "rpc" /\ q[j].kind = "rpc" /\ I[q[i].call].caller = I[q[j].call].caller
      => q[i].call < q[j].call

Before(I, S, n) == \A m \in S : I[m].caller = I[n].caller => m < n

(* A call on its way to the host is r's, and the last of r's that anyone   *)
(* else has heard of is an earlier one.                                    *)
UpInv ==
  \A r \in Remotes :
    /\ Rising(issued, up[r])
    /\ \A n \in CallsIn(up[r]) :
         /\ issued[n].caller = r
         /\ \A c \in Clients \ {r} : Before(issued, Elements(executed[c]), n)
         /\ \A d \in Remotes : Before(issued, CallsIn(down[d]), n)

(* A call on its way to d is for d and somebody else's, and d has not      *)
(* executed a later one.                                                   *)
DownInv ==
  \A d \in Remotes :
    /\ Rising(issued, down[d])
    /\ \A n \in CallsIn(down[d]) :
         /\ d \in Contract!Audience(Calls[n])
         /\ issued[n].caller # d
         /\ Before(issued, Elements(executed[d]), n)

IInv == Types /\ UpInv /\ DownInv

-----------------------------------------------------------------------------
(* Sequences of packets.                                                   *)

LEMMA SeqGrows ==
  ASSUME NEW S, NEW T, S \subseteq T, NEW q \in Seq(S)
  PROVE  q \in Seq(T)
  OBVIOUS

LEMMA ElementTyped ==
  ASSUME NEW S, NEW q \in Seq(S), NEW i \in 1..Len(q)
  PROVE  q[i] \in S
  OBVIOUS

LEMMA RPCKind ==
  ASSUME NEW n
  PROVE  RPC(n).kind = "rpc" /\ RPC(n).call = n
  BY DEF RPC

LEMMA CallsOfTail ==
  ASSUME NEW S, NEW q \in Seq(S), q # <<>>
  PROVE  CallsIn(Tail(q)) \subseteq CallsIn(q)
<1>1. \A i \in 1..Len(Tail(q)) : Tail(q)[i] = q[i + 1] /\ i + 1 \in 1..Len(q)
  OBVIOUS
<1> QED BY <1>1 DEF CallsIn

LEMMA CallsOfPrefix ==
  ASSUME NEW S, NEW q \in Seq(S), NEW k \in 0..Len(q)
  PROVE  /\ SubSeq(q, 1, k) \in Seq(S)
         /\ CallsIn(SubSeq(q, 1, k)) \subseteq CallsIn(q)
<1>1. SubSeq(q, 1, k) \in Seq(S) /\ Len(SubSeq(q, 1, k)) = k
  OBVIOUS
<1>2. \A i \in 1..k : SubSeq(q, 1, k)[i] = q[i] /\ i \in 1..Len(q)
  OBVIOUS
<1> QED BY <1>1, <1>2 DEF CallsIn

LEMMA CallsOfConcat ==
  ASSUME NEW S, NEW q \in Seq(S), NEW p \in Seq(S)
  PROVE  CallsIn(q \o p) = CallsIn(q) \cup CallsIn(p)
<1>1. Len(q \o p) = Len(q) + Len(p) /\ Len(q) \in Nat /\ Len(p) \in Nat
  OBVIOUS
<1>2. \A i \in 1..Len(q) : (q \o p)[i] = q[i]
  OBVIOUS
<1>3. \A i \in 1..Len(p) : (q \o p)[Len(q) + i] = p[i]
  OBVIOUS
<1>4. \A i \in 1..Len(q \o p) : i \in 1..Len(q) \/ (i - Len(q) \in 1..Len(p) /\ i = Len(q) + (i - Len(q)))
  BY <1>1
<1>5. CallsIn(q \o p) \subseteq CallsIn(q) \cup CallsIn(p)
  <2> SUFFICES ASSUME NEW i \in 1..Len(q \o p), (q \o p)[i].kind = "rpc"
               PROVE  (q \o p)[i].call \in CallsIn(q) \cup CallsIn(p)
    BY DEF CallsIn
  <2>1. CASE i \in 1..Len(q)
    BY <2>1, <1>2 DEF CallsIn
  <2>2. CASE i - Len(q) \in 1..Len(p)
    <3>1. (q \o p)[i] = p[i - Len(q)]
      BY <2>2, <1>3, <1>4, <1>1
    <3> QED BY <2>2, <3>1 DEF CallsIn
  <2> QED BY <2>1, <2>2, <1>4
<1>6. CallsIn(q) \subseteq CallsIn(q \o p)
  BY <1>1, <1>2 DEF CallsIn
<1>7. CallsIn(p) \subseteq CallsIn(q \o p)
  <2> SUFFICES ASSUME NEW i \in 1..Len(p), p[i].kind = "rpc"
               PROVE  p[i].call \in CallsIn(q \o p)
    BY DEF CallsIn
  <2>1. (q \o p)[Len(q) + i] = p[i] /\ Len(q) + i \in 1..Len(q \o p)
    BY <1>1, <1>3
  <2> QED BY <2>1 DEF CallsIn
<1> QED BY <1>5, <1>6, <1>7

LEMMA CallsOfOne == ASSUME NEW n PROVE CallsIn(<<RPC(n)>>) = {n}
<1>1. Len(<<RPC(n)>>) = 1 /\ <<RPC(n)>>[1] = RPC(n)
  OBVIOUS
<1> HIDE DEF RPC
<1> QED BY <1>1, RPCKind DEF CallsIn

LEMMA CallsOfAppend ==
  ASSUME NEW S, NEW q \in Seq(S), NEW n
  PROVE  CallsIn(q \o <<RPC(n)>>) = CallsIn(q) \cup {n} /\ Append(q, RPC(n)) = q \o <<RPC(n)>>
<1> DEFINE D == S \cup {RPC(n)}
           p == <<RPC(n)>>
<1>1. q \in Seq(D)
  BY SeqGrows
<1>2. p \in Seq(D)
  OBVIOUS
<1>3. Append(q, RPC(n)) = q \o p
  BY <1>1
<1>4. CallsIn(p) = {n}
  BY CallsOfOne
<1> HIDE DEF D, p
<1>5. CallsIn(q \o p) = CallsIn(q) \cup CallsIn(p)
  BY <1>1, <1>2, CallsOfConcat
<1> QED BY <1>3, <1>4, <1>5 DEF p

LEMMA HeadIsCalled ==
  ASSUME NEW S, NEW q \in Seq(S), q # <<>>, NEW n, Head(q) = RPC(n)
  PROVE  n \in CallsIn(q)
<1>1. q[1] = RPC(n) /\ 1 \in 1..Len(q)
  OBVIOUS
<1> QED BY <1>1, RPCKind DEF CallsIn

LEMMA ElementsOfAppend ==
  ASSUME NEW S, NEW s \in Seq(S), NEW x
  PROVE  Elements(Append(s, x)) = Elements(s) \cup {x}
<1>1. Len(Append(s, x)) = Len(s) + 1 /\ Len(s) \in Nat
  OBVIOUS
<1>2. \A i \in 1..Len(s) : Append(s, x)[i] = s[i]
  OBVIOUS
<1>3. Append(s, x)[Len(s) + 1] = x
  OBVIOUS
<1>4. 1..(Len(s) + 1) = 1..Len(s) \cup {Len(s) + 1}
  BY <1>1
<1> QED BY <1>1, <1>2, <1>3, <1>4 DEF Elements

(* The order of calls.                                                     *)

LEMMA RisingTail ==
  ASSUME NEW I, NEW S, NEW q \in Seq(S), q # <<>>, Rising(I, q)
  PROVE  Rising(I, Tail(q))
<1>1. \A i \in 1..Len(Tail(q)) : Tail(q)[i] = q[i + 1] /\ i + 1 \in 1..Len(q)
  OBVIOUS
<1>2. \A i, j \in 1..Len(Tail(q)) : i < j => i + 1 < j + 1
  OBVIOUS
<1> QED BY <1>1, <1>2 DEF Rising

LEMMA RisingPrefix ==
  ASSUME NEW I, NEW S, NEW q \in Seq(S), NEW k \in 0..Len(q), Rising(I, q)
  PROVE  Rising(I, SubSeq(q, 1, k))
<1>1. Len(SubSeq(q, 1, k)) = k
  OBVIOUS
<1>2. \A i \in 1..k : SubSeq(q, 1, k)[i] = q[i] /\ i \in 1..Len(q)
  OBVIOUS
<1> QED BY <1>1, <1>2 DEF Rising

LEMMA RisingQuiet ==
  ASSUME NEW I, NEW S, NEW q \in Seq(S), NEW p \in Seq(S), Rising(I, q),
         \A i \in 1..Len(p) : p[i].kind # "rpc"
  PROVE  Rising(I, q \o p)
<1>1. Len(q \o p) = Len(q) + Len(p) /\ Len(q) \in Nat /\ Len(p) \in Nat
  OBVIOUS
<1>2. \A i \in 1..Len(q) : (q \o p)[i] = q[i]
  OBVIOUS
<1>3. \A i \in 1..Len(q \o p) : i \notin 1..Len(q) => (q \o p)[i].kind # "rpc"
  <2> SUFFICES ASSUME NEW i \in 1..Len(q \o p), i \notin 1..Len(q)
               PROVE  (q \o p)[i].kind # "rpc"
    OBVIOUS
  <2>1. i - Len(q) \in 1..Len(p) /\ (q \o p)[i] = p[i - Len(q)]
    BY <1>1
  <2> QED BY <2>1
<1> QED BY <1>2, <1>3 DEF Rising

LEMMA RisingAppend ==
  ASSUME NEW I, NEW S, NEW q \in Seq(S), NEW n, Rising(I, q), Before(I, CallsIn(q), n)
  PROVE  Rising(I, q \o <<RPC(n)>>)
<1> DEFINE p == q \o <<RPC(n)>>
<1>1. Len(p) = Len(q) + 1 /\ Len(q) \in Nat
  OBVIOUS
<1>2. \A i \in 1..Len(q) : p[i] = q[i]
  OBVIOUS
<1>3. p[Len(q) + 1] = RPC(n)
  OBVIOUS
<1> HIDE DEF p
<1> SUFFICES ASSUME NEW i \in 1..Len(p), NEW j \in 1..Len(p), i < j,
                    p[i].kind = "rpc", p[j].kind = "rpc", I[p[i].call].caller = I[p[j].call].caller
             PROVE  p[i].call < p[j].call
  BY DEF Rising, p
<1>4. i \in 1..Len(q) /\ (j \in 1..Len(q) \/ j = Len(q) + 1)
  BY <1>1
<1>5. CASE j \in 1..Len(q)
  BY <1>2, <1>4, <1>5 DEF Rising
<1>6. CASE j = Len(q) + 1
  <2>1. q[i].kind = "rpc" /\ q[i].call \in CallsIn(q)
    BY <1>2, <1>4 DEF CallsIn
  <2>2. p[j].call = n
    BY <1>3, <1>6, RPCKind
  <2> QED BY <1>2, <1>4, <2>1, <2>2 DEF Before
<1> QED BY <1>4, <1>5, <1>6

LEMMA RisingHead ==
  ASSUME NEW I, NEW S, NEW q \in Seq(S), q # <<>>, Rising(I, q), NEW n, Head(q) = RPC(n),
         NEW m \in CallsIn(Tail(q)), I[m].caller = I[n].caller
  PROVE  n < m
<1>1. PICK i \in 1..Len(Tail(q)) : Tail(q)[i].kind = "rpc" /\ m = Tail(q)[i].call
  BY DEF CallsIn
<1>2. Tail(q)[i] = q[i + 1] /\ i + 1 \in 1..Len(q) /\ 1 \in 1..Len(q) /\ 1 < i + 1
  OBVIOUS
<1>3. q[1] = RPC(n)
  OBVIOUS
<1>4. q[1].kind = "rpc" /\ q[1].call = n
  BY <1>3, RPCKind
<1>5. q[i + 1].kind = "rpc" /\ q[i + 1].call = m
  BY <1>1, <1>2
<1> QED BY <1>2, <1>4, <1>5 DEF Rising

-----------------------------------------------------------------------------
(* Types.                                                                  *)

LEMMA HostAndRemotes ==
  /\ Host \in Clients
  /\ \A r \in Remotes : r \in Clients /\ r # Host
  BY HostAssumption DEF Clients

LEMMA EmptyReplica == ASSUME NEW k, NEW w PROVE Replica(<<>>, k, w)
  BY DEF Replica

LEMMA ReplicaGrows ==
  ASSUME NEW k \in Nat, NEW k1 \in Nat, k <= k1, NEW w, NEW w1, w \subseteq w1,
         NEW e, Replica(e, k, w)
  PROVE  Replica(e, k1, w1)
<1>1. 1..k \subseteq 1..k1
  OBVIOUS
<1>2. Seq(1..k) \subseteq Seq(1..k1)
  BY <1>1, SeqGrows
<1> QED BY <1>2 DEF Replica

LEMMA PacketsGrow ==
  ASSUME NEW k \in Nat, NEW k1 \in Nat, k <= k1, NEW w, NEW w1, w \subseteq w1
  PROVE  Ups(k) \subseteq Ups(k1) /\ Downs(k, w) \subseteq Downs(k1, w1)
<1>1. 1..k \subseteq 1..k1
  OBVIOUS
<1>2. Seq(1..k) \subseteq Seq(1..k1)
  BY <1>1, SeqGrows
<1>3. Ups(k) \subseteq Ups(k1)
  BY <1>1 DEF Ups
<1>4. Downs(k, w) \subseteq Downs(k1, w1)
  BY <1>1, <1>2 DEF Downs
<1> QED BY <1>3, <1>4

LEMMA ReplicasGrow ==
  ASSUME NEW k \in Nat, NEW k1 \in Nat, k <= k1, NEW w, NEW w1, w \subseteq w1, Replicas(k, w)
  PROVE  Replicas(k1, w1)
  BY ReplicaGrows DEF Replicas

LEMMA ChannelsGrow ==
  ASSUME NEW k \in Nat, NEW k1 \in Nat, k <= k1, NEW w, NEW w1, w \subseteq w1
  PROVE  /\ up \in [Remotes -> Seq(Ups(k))] => up \in [Remotes -> Seq(Ups(k1))]
         /\ down \in [Remotes -> Seq(Downs(k, w))] => down \in [Remotes -> Seq(Downs(k1, w1))]
<1>1. Seq(Ups(k)) \subseteq Seq(Ups(k1)) /\ Seq(Downs(k, w)) \subseteq Seq(Downs(k1, w1))
  BY PacketsGrow, SeqGrows
<1> QED BY <1>1

LEMMA ExecutedGrows ==
  ASSUME NEW k \in Nat, NEW k1 \in Nat, k <= k1, executed \in [Clients -> Seq(1..k)]
  PROVE  executed \in [Clients -> Seq(1..k1)]
<1>1. 1..k \subseteq 1..k1
  OBVIOUS
<1>2. Seq(1..k) \subseteq Seq(1..k1)
  BY <1>1, SeqGrows
<1> QED BY <1>2

LEMMA RPCTyped ==
  ASSUME NEW k \in Nat, NEW n \in 1..k, NEW w
  PROVE  RPC(n) \in Ups(k) /\ RPC(n) \in Downs(k, w)
  BY DEF RPC, Ups, Downs

LEMMA DownKinds ==
  ASSUME NEW k \in Nat, NEW w, NEW m \in Downs(k, w)
  PROVE  /\ m.kind \in {"create", "delete", "snapshot", "rpc"}
         /\ m.kind # "rpc" => m.ent \in w
         /\ m.kind = "snapshot" => m.ran \in Seq(1..k)
         /\ m.kind = "rpc" => m.call \in 1..k
  BY DEF Downs

LEMMA CallsTyped ==
  ASSUME NEW k \in Nat, NEW w
  PROVE  /\ \A q \in Seq(Ups(k)) : CallsIn(q) \subseteq 1..k
         /\ \A q \in Seq(Downs(k, w)) : CallsIn(q) \subseteq 1..k
<1>1. \A m \in Ups(k) : m.kind = "rpc" => m.call \in 1..k
  BY DEF Ups, Connected
<1>2. \A m \in Downs(k, w) : m.kind = "rpc" => m.call \in 1..k
  BY DownKinds
<1>3. \A q \in Seq(Ups(k)) : \A i \in 1..Len(q) : q[i] \in Ups(k)
  OBVIOUS
<1>4. \A q \in Seq(Downs(k, w)) : \A i \in 1..Len(q) : q[i] \in Downs(k, w)
  OBVIOUS
<1> QED BY <1>1, <1>2, <1>3, <1>4 DEF CallsIn

LEMMA ElementsTyped ==
  ASSUME NEW S, NEW s \in Seq(S)
  PROVE  Elements(s) \subseteq S
  BY DEF Elements

LEMMA SendTyped ==
  ASSUME NEW S, NEW D, NEW q \in Seq(D), down \in [Remotes -> Seq(D)], Send(S, q)
  PROVE  /\ down' \in [Remotes -> Seq(D)]
         /\ \A r \in Remotes : down'[r] = IF r \in S \cap connected THEN down[r] \o q ELSE down[r]
         /\ \A r \in Remotes : link[r] # "in" => down'[r] = down[r]
  BY DEF Send, connected

LEMMA PutReplica ==
  ASSUME NEW k \in Nat, NEW w, NEW e, Replica(e, k, w), NEW x \in w, NEW s \in Seq(1..k)
  PROVE  Replica(Put(e, x, s), k, w)
  BY DEF Replica, Put

LEMMA MarkReplica ==
  ASSUME NEW k \in Nat, NEW w, NEW e, Replica(e, k, w), NEW x \in DOMAIN e
  PROVE  Replica([e EXCEPT ![x].remove = TRUE], k, w)
<1> DEFINE n == [e EXCEPT ![x].remove = TRUE]
<1>1. DOMAIN n = DOMAIN e /\ n = [j \in DOMAIN n |-> n[j]]
  BY DEF Replica
<1>2. \A j \in DOMAIN e : n[j] \in [ran : Seq(1..k), remove : BOOLEAN]
  BY DEF Replica
<1> HIDE DEF n
<1> QED BY <1>1, <1>2 DEF Replica, n

LEMMA RanReplica ==
  ASSUME NEW k \in Nat, NEW w, NEW e, Replica(e, k, w), NEW x \in DOMAIN e, NEW n \in 1..k
  PROVE  Replica([e EXCEPT ![x].ran = Append(@, n)], k, w)
<1> DEFINE f == [e EXCEPT ![x].ran = Append(@, n)]
<1>1. DOMAIN f = DOMAIN e /\ f = [j \in DOMAIN f |-> f[j]]
  BY DEF Replica
<1>2. Append(e[x].ran, n) \in Seq(1..k)
  BY DEF Replica
<1>3. \A j \in DOMAIN e : f[j] \in [ran : Seq(1..k), remove : BOOLEAN]
  BY <1>2 DEF Replica
<1> HIDE DEF f
<1> QED BY <1>1, <1>3 DEF Replica, f

LEMMA EraseReplica ==
  ASSUME NEW k \in Nat, NEW w, NEW e, Replica(e, k, w), NEW S, S \subseteq DOMAIN e
  PROVE  Replica([x \in S |-> e[x]], k, w)
  BY DEF Replica

(* Changing the replicas of one client.                                    *)
LEMMA OneReplica ==
  ASSUME NEW k, NEW w, Replicas(k, w), NEW c \in Clients, NEW e, Replica(e, k, w),
         ents' = [ents EXCEPT ![c] = e]
  PROVE  /\ DOMAIN ents' = Clients
         /\ \A d \in Clients : Replica(ents'[d], k, w)
         /\ ents'[c] = e
         /\ \A d \in Clients \ {c} : ents'[d] = ents[d]
  BY DEF Replicas

(* Running a call: what changes, and what does not.                        *)
LEMMA RunStep ==
  ASSUME NEW k \in Nat, NEW w, Replicas(k, w), executed \in [Clients -> Seq(1..k)],
         NEW c \in Clients, NEW call, NEW n \in 1..k, Run(c, call, n)
  PROVE  /\ DOMAIN ents' = Clients
         /\ \A d \in Clients : Replica(ents'[d], k, w)
         /\ executed' \in [Clients -> Seq(1..k)]
         /\ executed' = executed \/ executed' = [executed EXCEPT ![c] = Append(@, n)]
         /\ \A d \in Clients \ {c} : ents'[d] = ents[d] /\ executed'[d] = executed[d]
         /\ ents[c] = <<>> => ents'[c] = <<>>
<1>1. CASE Holds(c, call.ent) /\ call.ent \notin Lacks[c]
  <2> DEFINE e == [ents[c] EXCEPT ![call.ent].ran = Append(@, n)]
  <2>1. call.ent \in DOMAIN ents[c] /\ Replica(ents[c], k, w)
    BY <1>1 DEF Holds, Replicas
  <2>2. ents' = [ents EXCEPT ![c] = e] /\ executed' = [executed EXCEPT ![c] = Append(@, n)]
    BY <1>1 DEF Run
  <2>3. Replica(e, k, w)
    BY <2>1, RanReplica
  <2>4. ents[c] # <<>>
    BY <2>1
  <2>5. executed' \in [Clients -> Seq(1..k)] /\ \A d \in Clients \ {c} : executed'[d] = executed[d]
    BY <2>2
  <2> HIDE DEF e
  <2> QED BY <2>2, <2>3, <2>4, <2>5, OneReplica
<1>2. CASE ~(Holds(c, call.ent) /\ call.ent \notin Lacks[c])
  BY <1>2 DEF Run, Replicas
<1> QED BY <1>1, <1>2

-----------------------------------------------------------------------------
(* Every step keeps the types.                                             *)

LEMMA TypesFacts ==
  ASSUME Types
  PROVE  /\ Len(issued) \in Nat
         /\ \A n \in 1..Len(issued) :
              /\ issued[n].caller \in Clients
              /\ issued[n].ent \in DOMAIN owner
              /\ issued[n].type \in RPCTypes
         /\ \A c \in Clients : Replica(ents[c], Len(issued), DOMAIN owner)
         /\ \A r \in Remotes : up[r] \in Seq(Ups(Len(issued)))
         /\ \A r \in Remotes : down[r] \in Seq(Downs(Len(issued), DOMAIN owner))
         /\ \A c \in Clients : executed[c] \in Seq(1..Len(issued))
         /\ \A e \in DOMAIN owner : owner[e] \in Clients
         /\ Replicas(Len(issued), DOMAIN owner)
<1>1. issued \in Seq([caller : Clients, ent : DOMAIN owner, type : RPCTypes, to : SUBSET Clients])
  BY DEF Types
<1>2. Len(issued) \in Nat
  BY <1>1
<1>3. \A n \in 1..Len(issued) :
        issued[n] \in [caller : Clients, ent : DOMAIN owner, type : RPCTypes, to : SUBSET Clients]
  BY <1>1, ElementTyped, Zenon
<1>4. \A c \in Clients : Replica(ents[c], Len(issued), DOMAIN owner)
  <2>1. Replicas(Len(issued), DOMAIN owner)
    BY DEF Types
  <2> QED BY <2>1 DEF Replicas
<1>5. /\ \A r \in Remotes : up[r] \in Seq(Ups(Len(issued)))
      /\ \A r \in Remotes : down[r] \in Seq(Downs(Len(issued), DOMAIN owner))
      /\ \A c \in Clients : executed[c] \in Seq(1..Len(issued))
      /\ \A e \in DOMAIN owner : owner[e] \in Clients
      /\ Replicas(Len(issued), DOMAIN owner)
  BY DEF Types
<1> QED BY <1>2, <1>3, <1>4, <1>5

LEMMA JoinTypes ==
  ASSUME Types, NEW r \in Remotes, Join(r)
  PROVE  Types'
<1>1. UNCHANGED <<ents, owner, served, down, issued, executed>>
  BY DEF Join
<1>2. link' \in [Remotes -> {"out", "in", "gone"}] /\ \A s \in Remotes : link'[s] # "in" => link[s] # "in"
  BY DEF Join, Types
<1>3. <<Connected>> \in Seq(Ups(Len(issued)))
  BY DEF Ups
<1>4. up' \in [Remotes -> Seq(Ups(Len(issued)))]
  BY <1>3 DEF Join, Types
<1> QED BY <1>1, <1>2, <1>4 DEF Types, Replicas

LEMMA LeaveTypes ==
  ASSUME Types, NEW r \in Remotes, Leave(r)
  PROVE  Types'
<1>1. UNCHANGED <<owner, served, issued, executed>>
  BY DEF Leave
<1>2. link' = [link EXCEPT ![r] = "gone"] /\ down' = [down EXCEPT ![r] = <<>>]
  BY DEF Leave
<1>3. ents' = [ents EXCEPT ![r] = <<>>]
  BY DEF Leave
<1>4. PICK k \in 0..Len(up[r]) : up' = [up EXCEPT ![r] = SubSeq(@, 1, k)]
  BY DEF Leave
<1>5. SubSeq(up[r], 1, k) \in Seq(Ups(Len(issued)))
  BY TypesFacts, CallsOfPrefix
<1>6. up' \in [Remotes -> Seq(Ups(Len(issued)))]
  BY <1>4, <1>5 DEF Types
<1>7. /\ DOMAIN ents' = Clients
      /\ \A c \in Clients : Replica(ents'[c], Len(issued), DOMAIN owner)
      /\ ents'[r] = <<>>
      /\ \A c \in Clients \ {r} : ents'[c] = ents[c]
  <2>1. r \in Clients
    BY HostAndRemotes
  <2> QED BY <1>3, <2>1, EmptyReplica, OneReplica DEF Types
<1>8. down' \in [Remotes -> Seq(Downs(Len(issued), DOMAIN owner))] /\ down'[r] = <<>>
      /\ \A s \in Remotes \ {r} : down'[s] = down[s]
  BY <1>2 DEF Types
<1>9. link' \in [Remotes -> {"out", "in", "gone"}] /\ \A s \in Remotes \ {r} : link'[s] = link[s]
  BY <1>2 DEF Types
<1>10. \A s \in Remotes : link'[s] # "in" => down'[s] = <<>> /\ ents'[s] = <<>>
  BY <1>7, <1>8, <1>9, HostAndRemotes DEF Types, Replicas
<1> QED BY <1>1, <1>6, <1>7, <1>8, <1>9, <1>10 DEF Types, Replicas

LEMMA SpawnTypes ==
  ASSUME Types, NEW e \in Entities, Spawn(e)
  PROVE  Types' /\ DOMAIN owner \subseteq DOMAIN owner' /\ \A x \in DOMAIN owner : owner'[x] = owner[x]
<1>1. UNCHANGED <<link, served, up, issued, executed>>
  BY DEF Spawn
<1>2. PICK o \in served \cup {Host} :
        owner' = [x \in DOMAIN owner \cup {e} |-> IF x = e THEN o ELSE owner[x]]
  BY DEF Spawn
<1>3. o \in Clients
  BY HostAndRemotes DEF Types
<1>4. DOMAIN owner' = DOMAIN owner \cup {e} /\ owner' \in [DOMAIN owner' -> Clients]
  BY <1>2, <1>3 DEF Types
<1>5. \A x \in DOMAIN owner : owner'[x] = owner[x]
  BY <1>2 DEF Spawn
<1> DEFINE k == Len(issued)
           w == DOMAIN owner
           w1 == DOMAIN owner'
<1>k. k \in Nat /\ k <= k /\ w \subseteq w1 /\ Replicas(k, w)
  <2>1. k \in Nat /\ Replicas(k, w)
    BY TypesFacts
  <2> QED BY <2>1, <1>4
<1>6. Replicas(Len(issued), DOMAIN owner')
  <2> HIDE DEF k, w, w1
  <2>1. Replicas(k, w1)
    BY <1>k, ReplicasGrow
  <2> QED BY <2>1 DEF k, w1
<1>7. Replica(Put(ents[Host], e, <<>>), Len(issued), DOMAIN owner')
  <2>1. Replica(ents[Host], Len(issued), DOMAIN owner')
    BY <1>6, HostAndRemotes DEF Replicas
  <2>2. e \in DOMAIN owner' /\ <<>> \in Seq(1..Len(issued))
    BY <1>4
  <2> QED BY <2>1, <2>2, <1>k, PutReplica
<1>8. /\ DOMAIN ents' = Clients
      /\ \A c \in Clients : Replica(ents'[c], Len(issued), DOMAIN owner')
      /\ \A r \in Remotes : ents'[r] = ents[r]
  <2>1. ents' = [ents EXCEPT ![Host] = Put(ents[Host], e, <<>>)]
    BY DEF Spawn
  <2> QED BY <1>6, <1>7, <2>1, HostAndRemotes, OneReplica
<1>9. down \in [Remotes -> Seq(Downs(Len(issued), DOMAIN owner'))]
  <2>1. down \in [Remotes -> Seq(Downs(k, w))]
    BY DEF Types
  <2> HIDE DEF k, w, w1
  <2>2. down \in [Remotes -> Seq(Downs(k, w1))]
    BY <1>k, <2>1, ChannelsGrow
  <2> QED BY <2>2 DEF k, w1
<1>10. <<Creation(e)>> \in Seq(Downs(Len(issued), DOMAIN owner'))
  BY <1>4 DEF Creation, Downs
<1>11. down' \in [Remotes -> Seq(Downs(Len(issued), DOMAIN owner'))]
       /\ \A r \in Remotes : link[r] # "in" => down'[r] = down[r]
  <2>1. Send(connected, <<Creation(e)>>)
    BY DEF Spawn
  <2> QED BY <1>9, <1>10, <2>1, SendTyped
<1>12. issued \in Seq([caller : Clients, ent : DOMAIN owner', type : RPCTypes, to : SUBSET Clients])
  <2>1. [caller : Clients, ent : DOMAIN owner, type : RPCTypes, to : SUBSET Clients]
          \subseteq [caller : Clients, ent : DOMAIN owner', type : RPCTypes, to : SUBSET Clients]
    BY <1>4
  <2> QED BY <2>1, SeqGrows DEF Types
<1>13. \A r \in Remotes : link'[r] # "in" => down'[r] = <<>> /\ ents'[r] = <<>>
  BY <1>1, <1>8, <1>11 DEF Types, Replicas
<1>14. DOMAIN owner' \subseteq Entities
  BY <1>4 DEF Types
<1> QED BY <1>1, <1>4, <1>5, <1>8, <1>11, <1>12, <1>13, <1>14 DEF Types, Replicas

LEMMA DeleteTypes ==
  ASSUME Types, NEW e \in Entities, Delete(e)
  PROVE  Types'
<1>1. UNCHANGED <<owner, link, served, up, issued, executed>>
  BY DEF Delete
<1>2. e \in DOMAIN owner /\ e \in DOMAIN ents[Host]
  BY DEF Delete, Deleted, Holds
<1>3. /\ DOMAIN ents' = Clients
      /\ \A c \in Clients : Replica(ents'[c], Len(issued), DOMAIN owner)
      /\ \A r \in Remotes : ents'[r] = ents[r]
  <2>1. ents' = [ents EXCEPT ![Host] = [ents[Host] EXCEPT ![e].remove = TRUE]]
    BY DEF Delete
  <2>2. Replica([ents[Host] EXCEPT ![e].remove = TRUE], Len(issued), DOMAIN owner)
    BY <1>2, TypesFacts, HostAndRemotes, MarkReplica
  <2>3. Replicas(Len(issued), DOMAIN owner)
    BY DEF Types
  <2> QED BY <2>1, <2>2, <2>3, HostAndRemotes, OneReplica
<1>4. <<Deletion(e)>> \in Seq(Downs(Len(issued), DOMAIN owner))
  BY <1>2 DEF Deletion, Downs
<1>5. down' \in [Remotes -> Seq(Downs(Len(issued), DOMAIN owner))]
      /\ \A r \in Remotes : link[r] # "in" => down'[r] = down[r]
  <2>1. Send(connected, <<Deletion(e)>>)
    BY DEF Delete
  <2> QED BY <1>4, <2>1, SendTyped DEF Types
<1> QED BY <1>1, <1>3, <1>5 DEF Types, Replicas

LEMMA SweepTypes ==
  ASSUME Types, NEW c \in Clients, Sweep(c)
  PROVE  Types'
<1> DEFINE kept == {e \in DOMAIN ents[c] : ~ents[c][e].remove}
<1>1. UNCHANGED <<owner, link, served, up, down, issued, executed>>
  BY DEF Sweep
<1>2. ents[c] # <<>>
  BY DEF Sweep
<1>3. ents' = [ents EXCEPT ![c] = [e \in kept |-> ents[c][e]]]
  BY DEF Sweep
<1>4. Replica([e \in kept |-> ents[c][e]], Len(issued), DOMAIN owner)
  BY TypesFacts, EraseReplica
<1> HIDE DEF kept
<1>5. /\ DOMAIN ents' = Clients
      /\ \A d \in Clients : Replica(ents'[d], Len(issued), DOMAIN owner)
      /\ \A d \in Clients \ {c} : ents'[d] = ents[d]
  <2>1. Replicas(Len(issued), DOMAIN owner)
    BY TypesFacts
  <2> QED BY <1>3, <1>4, <2>1, OneReplica
<1>6. \A r \in Remotes : link'[r] # "in" => ents'[r] = <<>>
  BY <1>1, <1>2, <1>5, HostAndRemotes DEF Types, Replicas
<1> QED BY <1>1, <1>5, <1>6 DEF Types, Replicas

(* A call numbered next.                                                   *)
LEMMA Issued ==
  ASSUME Types, NEW call, call \in [caller : Clients, ent : DOMAIN owner, type : RPCTypes, to : SUBSET Clients],
         issued' = Append(issued, call)
  PROVE  /\ issued' \in Seq([caller : Clients, ent : DOMAIN owner, type : RPCTypes, to : SUBSET Clients])
         /\ Len(issued') = Len(issued) + 1
         /\ issued'[Len(issued) + 1] = call
         /\ \A n \in 1..Len(issued) : issued'[n] = issued[n]
         /\ Replicas(Len(issued'), DOMAIN owner)
         /\ executed \in [Clients -> Seq(1..Len(issued'))]
         /\ up \in [Remotes -> Seq(Ups(Len(issued')))]
         /\ down \in [Remotes -> Seq(Downs(Len(issued'), DOMAIN owner))]
<1> DEFINE C == [caller : Clients, ent : DOMAIN owner, type : RPCTypes, to : SUBSET Clients]
           k == Len(issued)
           k1 == Len(issued')
           w == DOMAIN owner
<1>1. issued \in Seq(C) /\ call \in C
  BY DEF Types
<1> HIDE DEF C
<1>2. /\ issued' \in Seq(C)
      /\ Len(issued') = Len(issued) + 1
      /\ issued'[Len(issued) + 1] = call
      /\ \A n \in 1..Len(issued) : issued'[n] = issued[n]
  BY <1>1
<1>3. k \in Nat /\ k1 \in Nat /\ k <= k1 /\ w \subseteq w
  BY <1>1, <1>2
<1>4. /\ Replicas(k, w)
      /\ executed \in [Clients -> Seq(1..k)]
      /\ up \in [Remotes -> Seq(Ups(k))]
      /\ down \in [Remotes -> Seq(Downs(k, w))]
  BY DEF Types
<1>5. /\ Replicas(k1, w)
      /\ executed \in [Clients -> Seq(1..k1)]
      /\ up \in [Remotes -> Seq(Ups(k1))]
      /\ down \in [Remotes -> Seq(Downs(k1, w))]
  <2> HIDE DEF k, k1, w
  <2> QED BY <1>3, <1>4, ReplicasGrow, ExecutedGrows, ChannelsGrow
<1> QED BY <1>2, <1>5 DEF C

LEMMA NewCallTyped ==
  ASSUME Types, NEW c \in Clients, NEW e \in Entities, NEW t \in RPCTypes, CanCall(c, e, t)
  PROVE  NewCall(c, e, t) \in [caller : Clients, ent : DOMAIN owner, type : RPCTypes, to : SUBSET Clients]
<1>1. e \in DOMAIN owner
  <2>1. e \in DOMAIN ents[c]
    BY DEF CanCall, Holds
  <2> QED BY <2>1, TypesFacts DEF Replica
<1>2. {Host} \cup (served \cap connected) \subseteq Clients
  BY HostAndRemotes DEF connected
<1> QED BY <1>1, <1>2 DEF NewCall

LEMMA HostCallTypes ==
  ASSUME Types, HostCall
  PROVE  Types'
<1>1. PICK e \in Entities, t \in RPCTypes :
        /\ CanCall(Host, e, t)
        /\ issued' = Append(issued, NewCall(Host, e, t))
        /\ IF RunsRemotely(t, owner[e] = Host)
           THEN Send(Receivers(NewCall(Host, e, t)), <<RPC(Len(issued) + 1)>>) ELSE UNCHANGED down
        /\ IF RunsLocally(t, owner[e] = Host)
           THEN Run(Host, NewCall(Host, e, t), Len(issued) + 1) ELSE UNCHANGED <<ents, executed>>
        /\ UNCHANGED <<owner, link, served, up>>
  BY DEF HostCall
<1> DEFINE call == NewCall(Host, e, t)
           n == Len(issued) + 1
           k1 == Len(issued')
           w == DOMAIN owner
<1>2. call \in [caller : Clients, ent : DOMAIN owner, type : RPCTypes, to : SUBSET Clients]
  BY <1>1, HostAndRemotes, NewCallTyped
<1>3. /\ issued' \in Seq([caller : Clients, ent : DOMAIN owner, type : RPCTypes, to : SUBSET Clients])
      /\ k1 = n
      /\ Replicas(k1, w)
      /\ executed \in [Clients -> Seq(1..k1)]
      /\ up \in [Remotes -> Seq(Ups(k1))]
      /\ down \in [Remotes -> Seq(Downs(k1, w))]
  BY <1>1, <1>2, Issued
<1>4. k1 \in Nat /\ n \in 1..k1
  BY <1>3, TypesFacts
<1> HIDE DEF call, n, k1, w
<1>5. /\ down' \in [Remotes -> Seq(Downs(k1, w))]
      /\ \A r \in Remotes : link[r] # "in" => down'[r] = down[r]
  <2>1. <<RPC(n)>> \in Seq(Downs(k1, w))
    BY <1>4, RPCTyped
  <2> QED BY <1>1, <1>3, <2>1, SendTyped DEF call, n
<1>6. /\ DOMAIN ents' = Clients
      /\ \A c \in Clients : Replica(ents'[c], k1, w)
      /\ executed' \in [Clients -> Seq(1..k1)]
      /\ \A r \in Remotes : ents'[r] = ents[r]
  <2>1. CASE UNCHANGED <<ents, executed>>
    BY <2>1, <1>3 DEF Replicas
  <2>2. CASE Run(Host, call, n)
    BY <2>2, <1>3, <1>4, HostAndRemotes, RunStep
  <2> QED BY <1>1, <2>1, <2>2 DEF call, n
<1>7. \A r \in Remotes : link[r] # "in" => down'[r] = <<>> /\ ents'[r] = <<>>
  BY <1>3, <1>5, <1>6 DEF Replicas
<1>8. DOMAIN owner \subseteq Entities /\ owner \in [DOMAIN owner -> Clients]
      /\ link \in [Remotes -> {"out", "in", "gone"}] /\ served \subseteq Remotes
  BY DEF Types
<1> QED BY <1>1, <1>3, <1>5, <1>6, <1>7, <1>8 DEF Types, Replicas, k1, w

LEMMA RemoteCallTypes ==
  ASSUME Types, NEW r \in Remotes, RemoteCall(r)
  PROVE  Types'
<1>1. PICK e \in Entities, t \in RPCTypes :
        /\ link[r] = "in"
        /\ CanCall(r, e, t)
        /\ issued' = Append(issued, NewCall(r, e, t))
        /\ up' = IF RunsRemotely(t, owner[e] = r)
                 THEN [up EXCEPT ![r] = Append(@, RPC(Len(issued) + 1))] ELSE up
        /\ IF RunsLocally(t, owner[e] = r)
           THEN Run(r, NewCall(r, e, t), Len(issued) + 1) ELSE UNCHANGED <<ents, executed>>
        /\ UNCHANGED <<owner, link, served, down>>
  BY DEF RemoteCall
<1> DEFINE call == NewCall(r, e, t)
           n == Len(issued) + 1
           k1 == Len(issued')
           w == DOMAIN owner
<1>2. call \in [caller : Clients, ent : DOMAIN owner, type : RPCTypes, to : SUBSET Clients]
  BY <1>1, HostAndRemotes, NewCallTyped
<1>3. /\ issued' \in Seq([caller : Clients, ent : DOMAIN owner, type : RPCTypes, to : SUBSET Clients])
      /\ k1 = n
      /\ Replicas(k1, w)
      /\ executed \in [Clients -> Seq(1..k1)]
      /\ up \in [Remotes -> Seq(Ups(k1))]
      /\ down \in [Remotes -> Seq(Downs(k1, w))]
  BY <1>1, <1>2, Issued
<1>4. k1 \in Nat /\ n \in 1..k1
  BY <1>3, TypesFacts
<1> HIDE DEF call, n, k1, w
<1>5. up' \in [Remotes -> Seq(Ups(k1))]
  <2>1. RPC(n) \in Ups(k1)
    BY <1>4, RPCTyped
  <2>2. Append(up[r], RPC(n)) \in Seq(Ups(k1))
    BY <1>3, <2>1
  <2> QED BY <1>1, <1>3, <2>2 DEF n
<1>6. /\ DOMAIN ents' = Clients
      /\ \A c \in Clients : Replica(ents'[c], k1, w)
      /\ executed' \in [Clients -> Seq(1..k1)]
      /\ \A s \in Remotes \ {r} : ents'[s] = ents[s]
  <2>1. CASE UNCHANGED <<ents, executed>>
    BY <2>1, <1>3 DEF Replicas
  <2>2. CASE Run(r, call, n)
    BY <2>2, <1>3, <1>4, HostAndRemotes, RunStep
  <2> QED BY <1>1, <2>1, <2>2 DEF call, n
<1>7. \A s \in Remotes : link[s] # "in" => down[s] = <<>> /\ ents'[s] = <<>>
  BY <1>1, <1>3, <1>6 DEF Replicas
<1>8. DOMAIN owner \subseteq Entities /\ owner \in [DOMAIN owner -> Clients]
      /\ link \in [Remotes -> {"out", "in", "gone"}] /\ served \subseteq Remotes
  BY DEF Types
<1> QED BY <1>1, <1>3, <1>5, <1>6, <1>7, <1>8 DEF Types, Replicas, k1, w

LEMMA TakeUp ==
  ASSUME Types, NEW r \in Remotes, up[r] # <<>>, up' = [up EXCEPT ![r] = Tail(@)]
  PROVE  up' \in [Remotes -> Seq(Ups(Len(issued)))]
<1>1. up[r] \in Seq(Ups(Len(issued))) /\ up \in [Remotes -> Seq(Ups(Len(issued)))]
  BY DEF Types
<1>2. Tail(up[r]) \in Seq(Ups(Len(issued)))
  BY <1>1
<1> QED BY <1>1, <1>2

LEMMA TakeDown ==
  ASSUME Types, NEW r \in Remotes, NEW m, Receiving(r, m)
  PROVE  /\ down' \in [Remotes -> Seq(Downs(Len(issued), DOMAIN owner))]
         /\ m \in Downs(Len(issued), DOMAIN owner)
         /\ link[r] = "in"
         /\ \A s \in Remotes : link[s] # "in" => down'[s] = <<>>
<1>1. down[r] \in Seq(Downs(Len(issued), DOMAIN owner))
      /\ down \in [Remotes -> Seq(Downs(Len(issued), DOMAIN owner))]
  BY DEF Types
<1>2. down[r] # <<>> /\ m = Head(down[r]) /\ down' = [down EXCEPT ![r] = Tail(@)]
  BY DEF Receiving
<1>3. Tail(down[r]) \in Seq(Downs(Len(issued), DOMAIN owner)) /\ m \in Downs(Len(issued), DOMAIN owner)
  BY <1>1, <1>2
<1>4. \A s \in Remotes : link[s] # "in" => down[s] = <<>>
  BY DEF Types, Replicas
<1> QED BY <1>1, <1>2, <1>3, <1>4

LEMMA HostsIDs ==
  ASSUME Types, NEW ids \in Descending(DOMAIN ents[Host])
  PROVE  ids \in Seq(DOMAIN ents[Host]) /\ DOMAIN ents[Host] \subseteq DOMAIN owner
<1>1. DOMAIN ents[Host] \subseteq DOMAIN owner
  BY HostAndRemotes, TypesFacts DEF Replica
<1>2. IsFiniteSet(DOMAIN ents[Host])
  BY <1>1, EntityAssumption, FS_Subset DEF Types
<1>3. Cardinality(DOMAIN ents[Host]) \in Nat
  BY <1>2, FS_CardinalityType
<1> QED BY <1>1, <1>3 DEF Descending

LEMMA HandleConnectedTypes ==
  ASSUME Types, NEW r \in Remotes, HandleConnected(r)
  PROVE  Types'
<1>1. UNCHANGED <<ents, owner, link, issued, executed>> /\ served' \subseteq Remotes
  BY DEF HandleConnected, Types
<1>2. up' \in [Remotes -> Seq(Ups(Len(issued)))]
  BY TakeUp DEF HandleConnected
<1>3. PICK ids \in Descending(DOMAIN ents[Host]) :
        Send({r}, [i \in 1..Len(ids) |-> Snapshot(ids[i])])
  BY DEF HandleConnected
<1>4. ids \in Seq(DOMAIN ents[Host]) /\ DOMAIN ents[Host] \subseteq DOMAIN owner
  BY HostsIDs
<1>5. \A e \in DOMAIN ents[Host] : Snapshot(e) \in Downs(Len(issued), DOMAIN owner)
  <2>1. \A e \in DOMAIN ents[Host] : ents[Host][e].ran \in Seq(1..Len(issued))
    BY HostAndRemotes, TypesFacts DEF Replica
  <2>2. <<>> \in Seq(1..Len(issued))
    OBVIOUS
  <2> QED BY <1>4, <2>1, <2>2 DEF Snapshot, Downs
<1>6. [i \in 1..Len(ids) |-> Snapshot(ids[i])] \in Seq(Downs(Len(issued), DOMAIN owner))
  <2>1. \A i \in 1..Len(ids) : Snapshot(ids[i]) \in Downs(Len(issued), DOMAIN owner)
    BY <1>4, <1>5
  <2> QED BY <1>4, <2>1
<1>7. /\ down' \in [Remotes -> Seq(Downs(Len(issued), DOMAIN owner))]
      /\ \A s \in Remotes : link[s] # "in" => down'[s] = down[s]
  BY <1>3, <1>6, SendTyped DEF Types
<1> QED BY <1>1, <1>2, <1>7 DEF Types, Replicas

LEMMA HandleRPCTypes ==
  ASSUME Types, NEW r \in Remotes, HandleRPC(r)
  PROVE  Types'
<1>1. PICK n \in 1..Len(issued) :
        /\ up[r] # <<>>
        /\ Head(up[r]) = RPC(n)
        /\ up' = [up EXCEPT ![r] = Tail(@)]
        /\ Send(Receivers(issued[n]), <<RPC(n)>>)
        /\ IF Host \in Receivers(issued[n])
           THEN Run(Host, issued[n], n) ELSE UNCHANGED <<ents, executed>>
        /\ UNCHANGED <<owner, link, served, issued>>
  BY DEF HandleRPC
<1>2. up' \in [Remotes -> Seq(Ups(Len(issued)))]
  BY <1>1, TakeUp
<1>3. <<RPC(n)>> \in Seq(Downs(Len(issued), DOMAIN owner))
  <2>1. RPC(n) \in Downs(Len(issued), DOMAIN owner)
    BY TypesFacts, RPCTyped
  <2> QED BY <2>1
<1>4. /\ down' \in [Remotes -> Seq(Downs(Len(issued), DOMAIN owner))]
      /\ \A s \in Remotes : link[s] # "in" => down'[s] = down[s]
  <2>1. down \in [Remotes -> Seq(Downs(Len(issued), DOMAIN owner))]
    BY DEF Types
  <2> QED BY <1>1, <1>3, <2>1, SendTyped
<1>5. /\ DOMAIN ents' = Clients
      /\ \A c \in Clients : Replica(ents'[c], Len(issued), DOMAIN owner)
      /\ executed' \in [Clients -> Seq(1..Len(issued))]
      /\ \A s \in Remotes : ents'[s] = ents[s]
  <2>1. CASE UNCHANGED <<ents, executed>>
    BY <2>1 DEF Types, Replicas
  <2>2. CASE Run(Host, issued[n], n)
    <3>1. Replicas(Len(issued), DOMAIN owner) /\ executed \in [Clients -> Seq(1..Len(issued))]
      BY DEF Types
    <3>2. Len(issued) \in Nat /\ Host \in Clients /\ \A s \in Remotes : s \in Clients \ {Host}
      BY TypesFacts, HostAndRemotes
    <3> QED BY <2>2, <3>1, <3>2, RunStep
  <2> QED BY <1>1, <2>1, <2>2
<1> QED BY <1>1, <1>2, <1>4, <1>5 DEF Types, Replicas

LEMMA RemoteHandleTypes ==
  ASSUME Types, NEW r \in Remotes, RemoteHandle(r)
  PROVE  Types'
<1> DEFINE k == Len(issued)
           w == DOMAIN owner
<1>1. PICK m : Receiving(r, m)
  BY DEF RemoteHandle, RemoteCreate, RemoteSnapshot, RemoteDelete, RemoteRPC
<1>2. UNCHANGED <<owner, link, served, up, issued>>
  BY <1>1 DEF Receiving
<1>3. /\ down' \in [Remotes -> Seq(Downs(k, w))]
      /\ m \in Downs(k, w)
      /\ link[r] = "in"
      /\ \A s \in Remotes : link[s] # "in" => down'[s] = <<>>
  BY <1>1, TakeDown
<1>4. \A x : Receiving(r, x) => x = m
  BY <1>1 DEF Receiving
<1>5. k \in Nat /\ Replicas(k, w) /\ executed \in [Clients -> Seq(1..k)] /\ r \in Clients
      /\ Replica(ents[r], k, w)
  <2>1. k \in Nat /\ Replicas(k, w) /\ r \in Clients /\ Replica(ents[r], k, w)
    BY TypesFacts, HostAndRemotes
  <2> QED BY <2>1 DEF Types
<1>6. /\ DOMAIN ents' = Clients
      /\ \A c \in Clients : Replica(ents'[c], k, w)
      /\ executed' \in [Clients -> Seq(1..k)]
      /\ \A c \in Clients \ {r} : ents'[c] = ents[c]
  <2> HIDE DEF k, w
  <2>1. CASE RemoteCreate(r)
    <3>1. PICK e \in Entities : /\ Receiving(r, Creation(e))
                                /\ ents' = [ents EXCEPT ![r] = Put(ents[r], e, <<>>)]
                                /\ UNCHANGED executed
      BY <2>1 DEF RemoteCreate
    <3>2. Creation(e) \in Downs(k, w) /\ Creation(e).kind = "create" /\ Creation(e).ent = e
      BY <1>3, <1>4, <3>1 DEF Creation
    <3>3. e \in w /\ <<>> \in Seq(1..k)
      BY <1>5, <3>2, DownKinds
    <3>4. Replica(Put(ents[r], e, <<>>), k, w)
      BY <1>5, <3>3, PutReplica
    <3> QED BY <1>5, <3>1, <3>4, OneReplica
  <2>2. CASE RemoteSnapshot(r)
    <3>1. /\ Receiving(r, Head(down[r]))
          /\ Head(down[r]).kind = "snapshot"
          /\ ents' = [ents EXCEPT ![r] = Put(ents[r], Head(down[r]).ent, Head(down[r]).ran)]
          /\ UNCHANGED executed
      BY <2>2 DEF RemoteSnapshot
    <3>2. m = Head(down[r])
      BY <1>4, <3>1
    <3>3. m.kind = "snapshot"
      BY <3>1, <3>2
    <3>4. m.ent \in w /\ m.ran \in Seq(1..k)
      BY <1>3, <1>5, <3>3, DownKinds
    <3>5. Replica(Put(ents[r], m.ent, m.ran), k, w)
      BY <1>5, <3>4, PutReplica
    <3> QED BY <1>5, <3>1, <3>2, <3>5, OneReplica
  <2>3. CASE RemoteDelete(r)
    <3>1. PICK e \in Entities :
            /\ ents' = IF Holds(r, e) THEN [ents EXCEPT ![r][e].remove = TRUE] ELSE ents
            /\ UNCHANGED executed
      BY <2>3 DEF RemoteDelete
    <3>2. CASE Holds(r, e)
      <4>1. Replica([ents[r] EXCEPT ![e].remove = TRUE], k, w)
        BY <1>5, <3>2, MarkReplica DEF Holds
      <4>2. ents' = [ents EXCEPT ![r] = [ents[r] EXCEPT ![e].remove = TRUE]]
        BY <3>1, <3>2
      <4>3. Replicas(k, w) /\ r \in Clients /\ executed' \in [Clients -> Seq(1..k)]
        BY <1>5, <3>1
      <4> QED BY <4>1, <4>2, <4>3, OneReplica
    <3>3. CASE ~Holds(r, e)
      BY <1>5, <3>1, <3>3 DEF Replicas
    <3> QED BY <3>2, <3>3
  <2>4. CASE RemoteRPC(r)
    <3>1. PICK n \in 1..k : Run(r, issued[n], n)
      BY <2>4 DEF RemoteRPC, k
    <3> QED BY <1>5, <3>1, RunStep
  <2> QED BY <2>1, <2>2, <2>3, <2>4 DEF RemoteHandle
<1>7. \A s \in Remotes : link[s] # "in" => down'[s] = <<>> /\ ents'[s] = <<>>
  BY <1>3, <1>5, <1>6, HostAndRemotes DEF Replicas
<1> QED BY <1>2, <1>3, <1>6, <1>7 DEF Types, Replicas

-----------------------------------------------------------------------------
(* Every step keeps the order of calls and takes a step of the contract.   *)

Audience(n) == Contract!Audience(Calls[n])

LEMMA CallsKept ==
  ASSUME Types, Len(issued) <= Len(issued'), Len(issued') \in Nat,
         \A n \in 1..Len(issued) : issued'[n] = issued[n],
         \A x \in DOMAIN owner : owner'[x] = owner[x]
  PROVE  \A n \in 1..Len(issued) :
           /\ Calls'[n] = Calls[n]
           /\ issued'[n].caller = issued[n].caller
           /\ Audience(n)' = Audience(n)
<1> SUFFICES ASSUME NEW n \in 1..Len(issued)
             PROVE  /\ Calls'[n] = Calls[n]
                    /\ issued'[n].caller = issued[n].caller
                    /\ Audience(n)' = Audience(n)
  OBVIOUS
<1>1. issued[n].ent \in DOMAIN owner /\ n \in 1..Len(issued')
  BY TypesFacts
<1>2. Calls'[n] = Calls[n] /\ issued'[n].caller = issued[n].caller
  BY <1>1 DEF Calls
<1>3. Audience(n)' = Audience(n)
  BY <1>2 DEF Audience, Contract!Audience
<1> QED BY <1>2, <1>3

(* Steps that neither make, send on nor execute a call.                    *)
Quieter ==
  /\ UNCHANGED <<issued, executed>>
  /\ \A x \in DOMAIN owner : owner'[x] = owner[x]
  /\ \A r \in Remotes :
       /\ Rising(issued, up[r]) => Rising(issued, up'[r])
       /\ CallsIn(up'[r]) \subseteq CallsIn(up[r])
       /\ Rising(issued, down[r]) => Rising(issued, down'[r])
       /\ CallsIn(down'[r]) \subseteq CallsIn(down[r])

LEMMA QuieterOrder ==
  ASSUME IInv, Quieter
  PROVE  UpInv' /\ DownInv' /\ UNCHANGED <<Calls, executed>>
<1>1. Types /\ UpInv /\ DownInv /\ Len(issued) \in Nat
  BY TypesFacts DEF IInv
<1>2. UNCHANGED <<issued, executed>>
  BY DEF Quieter
<1>3. \A n \in 1..Len(issued) :
        Calls'[n] = Calls[n] /\ issued'[n].caller = issued[n].caller /\ Audience(n)' = Audience(n)
  BY <1>1, <1>2, CallsKept DEF Quieter
<1>4. UNCHANGED Calls
  <2>1. \A n \in 1..Len(issued) : issued[n].ent \in DOMAIN owner
    BY <1>1, TypesFacts
  <2> QED BY <1>2, <2>1 DEF Calls, Quieter
<1>6. ASSUME NEW r \in Remotes
      PROVE  /\ Rising(issued, up[r])' /\ Rising(issued, down[r])'
             /\ CallsIn(up[r])' \subseteq CallsIn(up[r]) /\ CallsIn(up[r]) \subseteq 1..Len(issued)
             /\ CallsIn(down[r])' \subseteq CallsIn(down[r]) /\ CallsIn(down[r]) \subseteq 1..Len(issued)
  <2>1. Rising(issued, up'[r]) /\ Rising(issued, down'[r])
    BY <1>1 DEF Quieter, UpInv, DownInv
  <2>2. Rising(issued, up[r])' /\ Rising(issued, down[r])'
    BY <1>2, <2>1 DEF Rising
  <2>3. CallsIn(up[r]) \subseteq 1..Len(issued) /\ CallsIn(down[r]) \subseteq 1..Len(issued)
    BY <1>1, TypesFacts, CallsTyped
  <2>4. CallsIn(up[r])' \subseteq CallsIn(up[r]) /\ CallsIn(down[r])' \subseteq CallsIn(down[r])
    BY DEF Quieter, CallsIn
  <2> QED BY <2>2, <2>3, <2>4
<1>7. UpInv'
  <2> SUFFICES ASSUME NEW r \in Remotes, NEW n \in CallsIn(up[r])'
               PROVE  /\ issued[n].caller' = r
                      /\ \A c \in Clients \ {r} : Before(issued, Elements(executed[c]), n)'
                      /\ \A d \in Remotes : Before(issued, CallsIn(down[d]), n)'
    BY <1>6 DEF UpInv
  <2>1. n \in CallsIn(up[r]) /\ n \in 1..Len(issued)
    BY <1>6
  <2>2. issued[n].caller' = r
    BY <1>1, <1>2, <2>1 DEF UpInv
  <2>3. ASSUME NEW c \in Clients \ {r} PROVE Before(issued, Elements(executed[c]), n)'
    BY <1>1, <1>2, <2>1 DEF UpInv, Before, Elements
  <2>4. ASSUME NEW d \in Remotes PROVE Before(issued, CallsIn(down[d]), n)'
    BY <1>1, <1>2, <1>6, <2>1 DEF UpInv, Before
  <2> QED BY <2>2, <2>3, <2>4
<1>8. DownInv'
  <2> SUFFICES ASSUME NEW d \in Remotes, NEW n \in CallsIn(down[d])'
               PROVE  /\ Audience(n)' = Audience(n) /\ d \in Audience(n)
                      /\ issued'[n].caller # d
                      /\ Before(issued, Elements(executed[d]), n)'
    BY <1>6 DEF DownInv, Audience
  <2>1. n \in CallsIn(down[d]) /\ n \in 1..Len(issued)
    BY <1>6
  <2>2. Audience(n)' = Audience(n) /\ d \in Audience(n) /\ issued'[n].caller # d
    BY <1>1, <1>3, <2>1 DEF DownInv, Audience
  <2>3. Before(issued, Elements(executed[d]), n)'
    BY <1>1, <1>2, <2>1 DEF DownInv, Before, Elements
  <2> QED BY <2>2, <2>3
<1> QED BY <1>2, <1>4, <1>7, <1>8

LEMMA NoCallsIn ==
  ASSUME NEW S, NEW q \in Seq(S), \A i \in 1..Len(q) : q[i].kind # "rpc"
  PROVE  CallsIn(q) = {} /\ Rising(issued, q)
  BY DEF CallsIn, Rising

LEMMA QuietSend ==
  ASSUME Types, NEW S, NEW D, NEW q \in Seq(D), Downs(Len(issued), DOMAIN owner) \subseteq D, Send(S, q),
         \A i \in 1..Len(q) : q[i].kind # "rpc", NEW r \in Remotes
  PROVE  /\ Rising(issued, down[r]) => Rising(issued, down'[r])
         /\ CallsIn(down'[r]) \subseteq CallsIn(down[r])
<1>1. down[r] \in Seq(D)
  BY TypesFacts, SeqGrows
<1>2. down'[r] = down[r] \/ down'[r] = down[r] \o q
  BY DEF Send
<1>3. CallsIn(down[r] \o q) = CallsIn(down[r])
  <2>1. CallsIn(q) = {}
    BY NoCallsIn
  <2>2. CallsIn(down[r] \o q) = CallsIn(down[r]) \cup CallsIn(q)
    BY <1>1, CallsOfConcat
  <2> QED BY <2>1, <2>2
<1>4. Rising(issued, down[r]) => Rising(issued, down[r] \o q)
  BY <1>1, RisingQuiet
<1> QED BY <1>2, <1>3, <1>4

LEMMA JoinQuiet == ASSUME IInv, NEW r \in Remotes, Join(r) PROVE Quieter
<1>1. Types
  BY DEF IInv
<1>2. UNCHANGED <<ents, owner, served, down, issued, executed>> /\ up' = [up EXCEPT ![r] = <<Connected>>]
  BY DEF Join
<1>3. CallsIn(<<Connected>>) = {} /\ Rising(issued, <<Connected>>)
  <2>1. <<Connected>> \in Seq({Connected}) /\ \A i \in 1..Len(<<Connected>>) : <<Connected>>[i] = Connected
    OBVIOUS
  <2>2. Connected.kind # "rpc"
    BY DEF Connected
  <2> QED BY <2>1, <2>2, NoCallsIn
<1>4. \A s \in Remotes : up'[s] = up[s] \/ up'[s] = <<Connected>>
  BY <1>1, <1>2 DEF Types
<1> QED BY <1>2, <1>3, <1>4 DEF Quieter

LEMMA LeaveQuiet == ASSUME IInv, NEW r \in Remotes, Leave(r) PROVE Quieter
<1>1. Types
  BY DEF IInv
<1>2. UNCHANGED <<owner, served, issued, executed>>
  BY DEF Leave
<1>3. PICK k \in 0..Len(up[r]) : up' = [up EXCEPT ![r] = SubSeq(@, 1, k)]
  BY DEF Leave
<1>4. up[r] \in Seq(Ups(Len(issued)))
  BY <1>1, TypesFacts
<1>5. /\ CallsIn(SubSeq(up[r], 1, k)) \subseteq CallsIn(up[r])
      /\ Rising(issued, up[r]) => Rising(issued, SubSeq(up[r], 1, k))
  BY <1>4, CallsOfPrefix, RisingPrefix
<1>6. \A s \in Remotes : up'[s] = up[s] \/ (s = r /\ up'[s] = SubSeq(up[r], 1, k))
  BY <1>1, <1>3 DEF Types
<1>7. CallsIn(<<>>) = {} /\ Rising(issued, <<>>)
  BY DEF CallsIn, Rising
<1>8. \A s \in Remotes : down'[s] = down[s] \/ down'[s] = <<>>
  BY <1>1 DEF Leave, Types
<1> QED BY <1>2, <1>5, <1>6, <1>7, <1>8 DEF Quieter

LEMMA SpawnQuiet == ASSUME IInv, NEW e \in Entities, Spawn(e) PROVE Quieter
<1>1. Types /\ \A x \in DOMAIN owner : owner'[x] = owner[x]
  BY SpawnTypes DEF IInv
<1>2. UNCHANGED <<up, issued, executed>> /\ Send(connected, <<Creation(e)>>)
  BY DEF Spawn
<1> DEFINE D == Downs(Len(issued), DOMAIN owner) \cup {Creation(e)}
           q == <<Creation(e)>>
<1>3. q \in Seq(D) /\ Downs(Len(issued), DOMAIN owner) \subseteq D
  OBVIOUS
<1>4. \A i \in 1..Len(q) : q[i].kind # "rpc"
  <2>1. Creation(e).kind # "rpc"
    BY DEF Creation
  <2> QED BY <2>1
<1> HIDE DEF D
<1> QED BY <1>1, <1>2, <1>3, <1>4, QuietSend DEF Quieter

LEMMA DeleteQuiet == ASSUME IInv, NEW e \in Entities, Delete(e) PROVE Quieter
<1>1. Types
  BY DEF IInv
<1>2. UNCHANGED <<owner, up, issued, executed>> /\ Send(connected, <<Deletion(e)>>)
  BY DEF Delete
<1> DEFINE D == Downs(Len(issued), DOMAIN owner) \cup {Deletion(e)}
           q == <<Deletion(e)>>
<1>3. q \in Seq(D) /\ Downs(Len(issued), DOMAIN owner) \subseteq D
  OBVIOUS
<1>4. \A i \in 1..Len(q) : q[i].kind # "rpc"
  <2>1. Deletion(e).kind # "rpc"
    BY DEF Deletion
  <2> QED BY <2>1
<1> HIDE DEF D
<1> QED BY <1>1, <1>2, <1>3, <1>4, QuietSend DEF Quieter

LEMMA SweepQuiet == ASSUME IInv, NEW c \in Clients, Sweep(c) PROVE Quieter
  BY DEF Sweep, Quieter

LEMMA TailQuiet ==
  ASSUME Types, NEW r \in Remotes
  PROVE  /\ up[r] # <<>> /\ up' = [up EXCEPT ![r] = Tail(@)] =>
              \A s \in Remotes : /\ CallsIn(up'[s]) \subseteq CallsIn(up[s])
                                 /\ Rising(issued, up[s]) => Rising(issued, up'[s])
         /\ down[r] # <<>> /\ down' = [down EXCEPT ![r] = Tail(@)] =>
              \A s \in Remotes : /\ CallsIn(down'[s]) \subseteq CallsIn(down[s])
                                 /\ Rising(issued, down[s]) => Rising(issued, down'[s])
<1>1. up[r] \in Seq(Ups(Len(issued))) /\ down[r] \in Seq(Downs(Len(issued), DOMAIN owner))
  BY TypesFacts
<1>2. up[r] # <<>> => /\ CallsIn(Tail(up[r])) \subseteq CallsIn(up[r])
                      /\ Rising(issued, up[r]) => Rising(issued, Tail(up[r]))
  BY <1>1, CallsOfTail, RisingTail
<1>3. down[r] # <<>> => /\ CallsIn(Tail(down[r])) \subseteq CallsIn(down[r])
                        /\ Rising(issued, down[r]) => Rising(issued, Tail(down[r]))
  BY <1>1, CallsOfTail, RisingTail
<1>4. up' = [up EXCEPT ![r] = Tail(@)] => \A s \in Remotes : up'[s] = up[s] \/ (s = r /\ up'[s] = Tail(up[s]))
  BY DEF Types
<1>5. down' = [down EXCEPT ![r] = Tail(@)] => \A s \in Remotes : down'[s] = down[s] \/ (s = r /\ down'[s] = Tail(down[s]))
  BY DEF Types
<1> QED BY <1>2, <1>3, <1>4, <1>5

LEMMA HandleConnectedQuiet == ASSUME IInv, NEW r \in Remotes, HandleConnected(r) PROVE Quieter
<1>1. Types
  BY DEF IInv
<1>2. UNCHANGED <<owner, issued, executed>>
  BY DEF HandleConnected
<1>3. PICK ids \in Descending(DOMAIN ents[Host]) :
        Send({r}, [i \in 1..Len(ids) |-> Snapshot(ids[i])])
  BY DEF HandleConnected
<1> DEFINE q == [i \in 1..Len(ids) |-> Snapshot(ids[i])]
           D == Downs(Len(issued), DOMAIN owner) \cup {Snapshot(e) : e \in DOMAIN ents[Host]}
<1>4. ids \in Seq(DOMAIN ents[Host])
  BY <1>1, HostsIDs
<1>5. q \in Seq(D) /\ \A i \in 1..Len(q) : q[i].kind # "rpc"
  <2>1. \A e : Snapshot(e).kind = "snapshot"
    BY DEF Snapshot
  <2>2. \A i \in 1..Len(ids) : Snapshot(ids[i]) \in D
    BY <1>4
  <2> HIDE DEF D
  <2> QED BY <1>4, <2>1, <2>2
<1>6. Downs(Len(issued), DOMAIN owner) \subseteq D
  OBVIOUS
<1>7. ASSUME NEW s \in Remotes
      PROVE  /\ Rising(issued, down[s]) => Rising(issued, down'[s])
             /\ CallsIn(down'[s]) \subseteq CallsIn(down[s])
  <2> HIDE DEF q, D
  <2>1. Send({r}, q)
    BY <1>3 DEF q
  <2> QED BY <1>1, <1>5, <1>6, <2>1, QuietSend
<1>8. \A s \in Remotes : /\ CallsIn(up'[s]) \subseteq CallsIn(up[s])
                         /\ Rising(issued, up[s]) => Rising(issued, up'[s])
  BY <1>1, TailQuiet DEF HandleConnected
<1> QED BY <1>2, <1>7, <1>8 DEF Quieter

LEMMA ReplicaPacketQuiet ==
  ASSUME IInv, NEW r \in Remotes, RemoteCreate(r) \/ RemoteSnapshot(r) \/ RemoteDelete(r)
  PROVE  Quieter
<1>1. Types
  BY DEF IInv
<1>2. PICK m : Receiving(r, m)
  BY DEF RemoteCreate, RemoteSnapshot, RemoteDelete
<1>3. UNCHANGED <<owner, up, issued>> /\ down[r] # <<>> /\ down' = [down EXCEPT ![r] = Tail(@)]
  BY <1>2 DEF Receiving
<1>4. UNCHANGED executed
  BY DEF RemoteCreate, RemoteSnapshot, RemoteDelete
<1> QED BY <1>1, <1>3, <1>4, TailQuiet DEF Quieter

(* Whom a call reaches, and who runs it at once, are in its audience.      *)
LEMMA ReceiversInAudience ==
  ASSUME NEW call, NEW d \in Receivers(call), call.ent \in DOMAIN owner => owner[call.ent] \in Clients,
         Types
  PROVE  d \in Contract!Audience([caller |-> call.caller, owner |-> owner[call.ent], type |-> call.type])
         /\ d # call.caller
<1> DEFINE c == [caller |-> call.caller, owner |-> owner[call.ent], type |-> call.type]
<1>1. d \in SentTo(call.caller, call.ent, call.type)
  BY DEF Receivers
<1>2. connected \cup {Host} \subseteq Clients
  BY HostAndRemotes DEF connected
<1>3. c.caller = call.caller /\ c.owner = owner[call.ent] /\ c.type = call.type
  OBVIOUS
<1> HIDE DEF c
<1>4. d \in Contract!Audience(c) /\ d # call.caller
  BY <1>1, <1>2, <1>3 DEF SentTo, Contract!Audience
<1> QED BY <1>4 DEF c

LEMMA CallerInAudience ==
  ASSUME NEW c \in Clients, NEW o, NEW t, RunsLocally(t, o = c)
  PROVE  c \in Contract!Audience([caller |-> c, owner |-> o, type |-> t])
<1> DEFINE call == [caller |-> c, owner |-> o, type |-> t]
<1>1. call.caller = c /\ call.owner = o /\ call.type = t
  OBVIOUS
<1> HIDE DEF call
<1>2. c \in Contract!Audience(call)
  BY <1>1 DEF RunsLocally, Contract!Audience
<1> QED BY <1>2 DEF call

(* What executing n adds to what c has executed.                           *)
LEMMA RunElements ==
  ASSUME Types, NEW c \in Clients, NEW k \in Nat, NEW n,
         executed \in [Clients -> Seq(1..k)],
         executed' = executed \/ executed' = [executed EXCEPT ![c] = Append(@, n)]
  PROVE  /\ Elements(executed'[c]) \subseteq Elements(executed[c]) \cup {n}
         /\ \A d \in Clients \ {c} : executed'[d] = executed[d]
<1>1. Elements(Append(executed[c], n)) = Elements(executed[c]) \cup {n}
  BY ElementsOfAppend
<1> QED BY <1>1

(* A step of the contract.                                                 *)
LEMMA InvokeStep ==
  ASSUME Types, NEW call \in [caller : Clients, ent : DOMAIN owner, type : RPCTypes, to : SUBSET Clients],
         issued' = Append(issued, call), owner' = owner,
         \/ executed' = executed
         \/ /\ executed' = [executed EXCEPT ![call.caller] = Append(@, Len(issued) + 1)]
            /\ call.caller \in Contract!Audience([caller |-> call.caller, owner |-> owner[call.ent], type |-> call.type])
  PROVE  /\ Contract!Next
         /\ Calls'[Len(issued) + 1] =
              [caller |-> call.caller, owner |-> owner[call.ent], type |-> call.type]
<1> DEFINE new == [caller |-> call.caller, owner |-> owner[call.ent], type |-> call.type]
<1>1. issued \in Seq([caller : Clients, ent : DOMAIN owner, type : RPCTypes, to : SUBSET Clients])
  BY DEF Types
<1>2. /\ Len(issued) \in Nat /\ Len(issued') = Len(issued) + 1
      /\ issued'[Len(issued) + 1] = call
      /\ \A n \in 1..Len(issued) : issued'[n] = issued[n]
  BY <1>1, Issued
<1>3. new.caller = call.caller /\ new \in Contract!Calls
  BY TypesFacts DEF Contract!Calls
<1>4. Len(Calls) = Len(issued)
  BY <1>2 DEF Calls
<1>5. Calls' = Append(Calls, new)
  <2>1. Calls' = [i \in 1..(Len(issued) + 1) |-> IF i \in 1..Len(issued) THEN Calls[i] ELSE new]
    BY <1>2 DEF Calls
  <2>2. Append(Calls, new) = [i \in 1..(Len(issued) + 1) |-> IF i \in 1..Len(issued) THEN Calls[i] ELSE new]
    <3> DEFINE n == Len(issued)
               f == Calls
    <3>1. n \in Nat /\ f = [i \in 1..n |-> f[i]]
      BY <1>2 DEF Calls
    <3>2. f \in Seq({f[i] : i \in 1..n}) /\ Len(f) = n
      BY <3>1, <1>4
    <3> HIDE DEF n, f
    <3>3. Append(f, new) = [i \in 1..(n + 1) |-> IF i \in 1..n THEN f[i] ELSE new]
      BY <3>1, <3>2
    <3> QED BY <3>3 DEF n, f
  <2> QED BY <2>1, <2>2
<1>6. Calls'[Len(issued) + 1] = new
  BY <1>2 DEF Calls
<1>7. Contract!Invoke(new)
  <2> HIDE DEF new
  <2> QED BY <1>3, <1>4, <1>5 DEF Contract!Invoke, new
<1> QED BY <1>3, <1>6, <1>7 DEF Contract!Next

LEMMA ExecuteStep ==
  ASSUME Types, NEW d \in Clients, NEW n \in 1..Len(issued), UNCHANGED <<issued, owner>>,
         d \in Audience(n), Before(issued, Elements(executed[d]), n),
         executed' = executed \/ executed' = [executed EXCEPT ![d] = Append(@, n)]
  PROVE  Contract!Next \/ UNCHANGED <<Calls, executed>>
<1>1. Len(Calls) = Len(issued) /\ Len(issued) \in Nat /\ UNCHANGED Calls
  BY TypesFacts DEF Calls
<1>2. \A m \in 1..Len(issued) : Calls[m].caller = issued[m].caller
  BY DEF Calls
<1>3. executed[d] \in Seq(1..Len(issued))
  BY TypesFacts
<1>4. Contract!InOrder(d, n)
  <2> SUFFICES ASSUME NEW i \in 1..Len(executed[d]),
                      Calls[executed[d][i]].caller = Calls[n].caller
               PROVE  executed[d][i] < n
    BY DEF Contract!InOrder
  <2>1. executed[d][i] \in 1..Len(issued) /\ executed[d][i] \in Elements(executed[d])
    BY <1>3, ElementTyped DEF Elements
  <2>2. issued[executed[d][i]].caller = issued[n].caller
    BY <1>2, <2>1
  <2> QED BY <2>1, <2>2 DEF Before
<1>5. executed' = [executed EXCEPT ![d] = Append(@, n)] => Contract!Execute(d)
  BY <1>1, <1>4 DEF Contract!Execute, Audience
<1> QED BY <1>1, <1>5 DEF Contract!Next

LEMMA RisingAgrees ==
  ASSUME NEW I, NEW J, NEW k, \A n \in 1..k : J[n] = I[n],
         NEW q, CallsIn(q) \subseteq 1..k, Rising(I, q)
  PROVE  Rising(J, q)
<1>1. \A i \in 1..Len(q) : q[i].kind = "rpc" => J[q[i].call] = I[q[i].call]
  BY DEF CallsIn
<1> QED BY <1>1 DEF Rising

LEMMA BeforeAgrees ==
  ASSUME NEW I, NEW J, NEW k, \A n \in 1..k : J[n] = I[n],
         NEW S, S \subseteq 1..k, NEW n \in 1..k, Before(I, S, n)
  PROVE  Before(J, S, n)
  BY DEF Before

(* A call that is sent on.                                                 *)
LEMMA CallSent ==
  ASSUME Types, NEW n \in Nat, NEW S, Send(S, <<RPC(n)>>), NEW d \in Remotes
  PROVE  \/ down'[d] = down[d]
         \/ /\ d \in S
            /\ down'[d] = down[d] \o <<RPC(n)>>
            /\ CallsIn(down'[d]) = CallsIn(down[d]) \cup {n}
            /\ \A I : Rising(I, down[d]) /\ Before(I, CallsIn(down[d]), n) => Rising(I, down'[d])
<1>1. down[d] \in Seq(Downs(Len(issued), DOMAIN owner))
  BY TypesFacts
<1>4. CallsIn(down[d] \o <<RPC(n)>>) = CallsIn(down[d]) \cup {n}
  BY <1>1, CallsOfAppend
<1>5. \A I : Rising(I, down[d]) /\ Before(I, CallsIn(down[d]), n) => Rising(I, down[d] \o <<RPC(n)>>)
  BY <1>1, RisingAppend
<1>6. down'[d] = IF d \in S \cap connected THEN down[d] \o <<RPC(n)>> ELSE down[d]
  BY DEF Send
<1> QED BY <1>4, <1>5, <1>6

LEMMA CallSets ==
  ASSUME Types
  PROVE  /\ \A r \in Remotes : CallsIn(up[r]) \subseteq 1..Len(issued)
         /\ \A r \in Remotes : CallsIn(down[r]) \subseteq 1..Len(issued)
         /\ \A c \in Clients : Elements(executed[c]) \subseteq 1..Len(issued)
  BY TypesFacts, CallsTyped, ElementsTyped

LEMMA HostCallOrder ==
  ASSUME IInv, HostCall
  PROVE  UpInv' /\ DownInv' /\ Contract!Next
<1>1. PICK e \in Entities, t \in RPCTypes :
        /\ CanCall(Host, e, t)
        /\ issued' = Append(issued, NewCall(Host, e, t))
        /\ IF RunsRemotely(t, owner[e] = Host)
           THEN Send(Receivers(NewCall(Host, e, t)), <<RPC(Len(issued) + 1)>>) ELSE UNCHANGED down
        /\ IF RunsLocally(t, owner[e] = Host)
           THEN Run(Host, NewCall(Host, e, t), Len(issued) + 1) ELSE UNCHANGED <<ents, executed>>
        /\ UNCHANGED <<owner, link, served, up>>
  BY DEF HostCall
<1>0. Types /\ UpInv /\ DownInv /\ Len(issued) \in Nat
  BY TypesFacts DEF IInv
<1> PICK k \in Nat : k = Len(issued)
  BY <1>0
<1> PICK n \in Nat : n = k + 1
  OBVIOUS
<1>2. Types /\ UpInv /\ DownInv /\ k \in Nat /\ n = k + 1 /\ k = Len(issued) /\ UNCHANGED <<owner, up>>
  BY <1>0, <1>1
<1> DEFINE call == NewCall(Host, e, t)
<1>3. /\ call \in [caller : Clients, ent : DOMAIN owner, type : RPCTypes, to : SUBSET Clients]
      /\ call.caller = Host /\ call.ent = e /\ call.type = t
  <2>1. call \in [caller : Clients, ent : DOMAIN owner, type : RPCTypes, to : SUBSET Clients]
    BY <1>1, <1>2, HostAndRemotes, NewCallTyped
  <2> QED BY <2>1 DEF NewCall
<1>4. /\ Len(issued') = n
      /\ issued'[n] = call
      /\ \A m \in 1..k : issued'[m] = issued[m]
  BY <1>1, <1>2, <1>3, Issued
<1>5. owner[call.ent] \in Clients
  BY <1>2, <1>3, TypesFacts
<1>6. executed' = executed \/ (executed' = [executed EXCEPT ![Host] = Append(@, n)] /\ RunsLocally(t, owner[e] = Host))
  BY <1>1 DEF Run
<1>7. RunsLocally(t, owner[e] = Host) =>
        Host \in Contract!Audience([caller |-> call.caller, owner |-> owner[call.ent], type |-> call.type])
  BY <1>3, HostAndRemotes, CallerInAudience
<1> HIDE DEF call
<1>8. /\ Contract!Next
      /\ Calls'[n] = [caller |-> call.caller, owner |-> owner[call.ent], type |-> call.type]
  BY <1>1, <1>2, <1>3, <1>6, <1>7, InvokeStep DEF call
<1>9. \A m \in 1..k : Audience(m)' = Audience(m)
  BY <1>1, <1>2, <1>4, CallsKept
<1> DEFINE new == [caller |-> call.caller, owner |-> owner[call.ent], type |-> call.type]
<1> HIDE DEF new
<1>10. ASSUME NEW d \in Remotes
       PROVE  \/ down'[d] = down[d]
              \/ /\ d \in Contract!Audience(new)
                 /\ down'[d] = down[d] \o <<RPC(n)>>
                 /\ CallsIn(down'[d]) = CallsIn(down[d]) \cup {n}
                 /\ \A I : Rising(I, down[d]) /\ Before(I, CallsIn(down[d]), n) => Rising(I, down'[d])
  <2>1. CASE UNCHANGED down
    BY <2>1
  <2>2. CASE Send(Receivers(call), <<RPC(n)>>)
    <3>1. n \in Nat
      BY <1>2
    <3>2. d \in Receivers(call) => d \in Contract!Audience(new)
      BY <1>2, <1>5, ReceiversInAudience DEF new
    <3> QED BY <1>2, <2>2, <3>1, <3>2, CallSent
  <2> QED BY <1>1, <2>1, <2>2 DEF call
<1>11. /\ \A r \in Remotes : CallsIn(up[r]) \subseteq 1..k
       /\ \A r \in Remotes : CallsIn(down[r]) \subseteq 1..k
       /\ \A c \in Clients : Elements(executed[c]) \subseteq 1..k
  BY <1>2, CallSets
<1>12. /\ Elements(executed'[Host]) \subseteq Elements(executed[Host]) \cup {n}
       /\ \A c \in Clients \ {Host} : executed'[c] = executed[c]
  <2>1. executed \in [Clients -> Seq(1..k)]
    BY <1>2 DEF Types
  <2> QED BY <1>2, <1>6, <2>1, HostAndRemotes, RunElements
<1>13. UpInv'
  <2>1. \A r \in Remotes : Rising(issued', up'[r])
    <3> SUFFICES ASSUME NEW r \in Remotes PROVE Rising(issued', up[r])
      BY <1>2
    <3>1. CallsIn(up[r]) \subseteq 1..k /\ Rising(issued, up[r])
      BY <1>2, <1>11 DEF UpInv
    <3> QED BY <1>4, <3>1, RisingAgrees
  <2>2. ASSUME NEW r \in Remotes, NEW m \in CallsIn(up[r])
        PROVE  /\ issued'[m].caller = r
               /\ \A c \in Clients \ {r} : Before(issued', Elements(executed'[c]), m)
               /\ \A d \in Remotes : Before(issued', CallsIn(down'[d]), m)
    <3>1. m \in 1..k /\ issued'[m].caller = r /\ issued'[n].caller # r
      BY <1>2, <1>3, <1>4, <1>11, HostAndRemotes DEF UpInv
    <3>2. ASSUME NEW c \in Clients \ {r} PROVE Before(issued', Elements(executed'[c]), m)
      <4>1. Before(issued', Elements(executed[c]), m)
        BY <1>2, <1>4, <1>11, <3>1, BeforeAgrees DEF UpInv
      <4>2. Elements(executed'[c]) \subseteq Elements(executed[c]) \cup {n}
        BY <1>12
      <4> QED BY <3>1, <4>1, <4>2 DEF Before
    <3>3. ASSUME NEW d \in Remotes PROVE Before(issued', CallsIn(down'[d]), m)
      <4>1. Before(issued', CallsIn(down[d]), m)
        BY <1>2, <1>4, <1>11, <3>1, BeforeAgrees DEF UpInv
      <4>2. CallsIn(down'[d]) \subseteq CallsIn(down[d]) \cup {n}
        BY <1>10
      <4> QED BY <3>1, <4>1, <4>2 DEF Before
    <3> QED BY <3>1, <3>2, <3>3
  <2> QED BY <1>2, <2>1, <2>2 DEF UpInv
<1>14. DownInv'
  <2> SUFFICES ASSUME NEW d \in Remotes
               PROVE  /\ Rising(issued', down'[d])
                      /\ \A m \in CallsIn(down'[d]) :
                           /\ d \in Audience(m)'
                           /\ issued'[m].caller # d
                           /\ Before(issued', Elements(executed'[d]), m)
    BY DEF DownInv, Audience
  <2>1. executed'[d] = executed[d]
    BY <1>12, HostAndRemotes
  <2>2. ASSUME NEW m \in CallsIn(down[d])
        PROVE  d \in Audience(m)' /\ issued'[m].caller # d /\ Before(issued', Elements(executed'[d]), m)
    <3>1. /\ m \in 1..k
          /\ d \in Audience(m)' /\ issued'[m].caller # d /\ Before(issued, Elements(executed[d]), m)
      BY <1>2, <1>4, <1>9, <1>11 DEF DownInv, Audience
    <3> QED BY <1>4, <1>11, <2>1, <3>1, HostAndRemotes, BeforeAgrees
  <2>3. Rising(issued', down[d])
    BY <1>2, <1>4, <1>11, RisingAgrees DEF DownInv
  <2>4. Before(issued', CallsIn(down[d]), n) /\ Before(issued', Elements(executed'[d]), n)
    <3>1. CallsIn(down[d]) \subseteq 1..k /\ Elements(executed'[d]) \subseteq 1..k
      BY <1>11, <2>1, HostAndRemotes
    <3> QED BY <1>2, <3>1 DEF Before
  <2>5. CASE down'[d] = down[d]
    BY <2>2, <2>3, <2>5
  <2>6. CASE /\ d \in Contract!Audience(new)
             /\ CallsIn(down'[d]) = CallsIn(down[d]) \cup {n}
             /\ \A I : Rising(I, down[d]) /\ Before(I, CallsIn(down[d]), n) => Rising(I, down'[d])
    <3>1. d \in Audience(n)'
      <4>1. Calls'[n] = new
        BY <1>8 DEF new
      <4> QED BY <2>6, <4>1 DEF Audience
    <3>2. issued'[n].caller # d
      BY <1>3, <1>4, HostAndRemotes
    <3> QED BY <2>2, <2>3, <2>4, <2>6, <3>1, <3>2
  <2> QED BY <1>10, <2>5, <2>6
<1> QED BY <1>8, <1>13, <1>14

LEMMA RemoteCallOrder ==
  ASSUME IInv, NEW r \in Remotes, RemoteCall(r)
  PROVE  UpInv' /\ DownInv' /\ Contract!Next
<1>1. PICK e \in Entities, t \in RPCTypes :
        /\ CanCall(r, e, t)
        /\ issued' = Append(issued, NewCall(r, e, t))
        /\ up' = IF RunsRemotely(t, owner[e] = r)
                 THEN [up EXCEPT ![r] = Append(@, RPC(Len(issued) + 1))] ELSE up
        /\ IF RunsLocally(t, owner[e] = r)
           THEN Run(r, NewCall(r, e, t), Len(issued) + 1) ELSE UNCHANGED <<ents, executed>>
        /\ UNCHANGED <<owner, link, served, down>>
  BY DEF RemoteCall
<1>0. Types /\ UpInv /\ DownInv /\ Len(issued) \in Nat
  BY TypesFacts DEF IInv
<1> PICK k \in Nat : k = Len(issued)
  BY <1>0
<1> PICK n \in Nat : n = k + 1
  OBVIOUS
<1>2. /\ Types /\ UpInv /\ DownInv /\ k \in Nat /\ n = k + 1 /\ k = Len(issued)
      /\ UNCHANGED <<owner, down>> /\ r \in Clients
  BY <1>0, <1>1, HostAndRemotes
<1> DEFINE call == NewCall(r, e, t)
<1>3. /\ call \in [caller : Clients, ent : DOMAIN owner, type : RPCTypes, to : SUBSET Clients]
      /\ call.caller = r /\ call.ent = e /\ call.type = t
  <2>1. call \in [caller : Clients, ent : DOMAIN owner, type : RPCTypes, to : SUBSET Clients]
    BY <1>1, <1>2, NewCallTyped
  <2> QED BY <2>1 DEF NewCall
<1>4. /\ Len(issued') = n
      /\ issued'[n] = call
      /\ \A m \in 1..k : issued'[m] = issued[m]
  BY <1>1, <1>2, <1>3, Issued
<1>6. executed' = executed \/ (executed' = [executed EXCEPT ![r] = Append(@, n)] /\ RunsLocally(t, owner[e] = r))
  BY <1>1, <1>2 DEF Run
<1>7. RunsLocally(t, owner[e] = r) =>
        r \in Contract!Audience([caller |-> call.caller, owner |-> owner[call.ent], type |-> call.type])
  BY <1>2, <1>3, CallerInAudience
<1> HIDE DEF call
<1>8. Contract!Next
  BY <1>1, <1>2, <1>3, <1>6, <1>7, InvokeStep DEF call
<1>9. \A m \in 1..k : Audience(m)' = Audience(m)
  BY <1>1, <1>2, <1>4, CallsKept
<1>10. /\ \A s \in Remotes : CallsIn(up[s]) \subseteq 1..k
       /\ \A s \in Remotes : CallsIn(down[s]) \subseteq 1..k
       /\ \A c \in Clients : Elements(executed[c]) \subseteq 1..k
  BY <1>2, CallSets
<1>11. /\ Elements(executed'[r]) \subseteq Elements(executed[r]) \cup {n}
       /\ \A c \in Clients \ {r} : executed'[c] = executed[c]
  <2>1. executed \in [Clients -> Seq(1..k)]
    BY <1>2 DEF Types
  <2> QED BY <1>2, <1>6, <2>1, RunElements
<1>12. \A s \in Remotes : Rising(issued', up[s]) /\ Rising(issued', down[s])
  <2> SUFFICES ASSUME NEW s \in Remotes PROVE Rising(issued', up[s]) /\ Rising(issued', down[s])
    OBVIOUS
  <2>1. /\ CallsIn(up[s]) \subseteq 1..k /\ Rising(issued, up[s])
        /\ CallsIn(down[s]) \subseteq 1..k /\ Rising(issued, down[s])
    BY <1>2, <1>10 DEF UpInv, DownInv
  <2> QED BY <1>4, <2>1, RisingAgrees
<1>13. ASSUME NEW s \in Remotes
       PROVE  \/ up'[s] = up[s]
              \/ s = r /\ CallsIn(up'[s]) = CallsIn(up[s]) \cup {n} /\ Rising(issued', up'[s])
  <2>1. up' = up \/ up' = [up EXCEPT ![r] = Append(@, RPC(n))]
    BY <1>1, <1>2
  <2>2. up'[s] = up[s] \/ (s = r /\ up'[s] = Append(up[r], RPC(n)))
    BY <1>2, <2>1 DEF Types
  <2>3. CASE s = r /\ up'[s] = Append(up[r], RPC(n))
    <3>1. up[r] \in Seq(Ups(Len(issued)))
      BY <1>2, TypesFacts
    <3>2. Append(up[r], RPC(n)) = up[r] \o <<RPC(n)>> /\ CallsIn(up[r] \o <<RPC(n)>>) = CallsIn(up[r]) \cup {n}
      BY <3>1, CallsOfAppend
    <3>6. Before(issued', CallsIn(up[r]), n)
      <4>1. CallsIn(up[r]) \subseteq 1..k /\ \A m \in 1..k : m < n
        BY <1>2, <1>10
      <4> QED BY <4>1 DEF Before
    <3>7. Rising(issued', up[r] \o <<RPC(n)>>)
      BY <1>12, <3>1, <3>6, RisingAppend
    <3> QED BY <2>3, <3>2, <3>7
  <2> QED BY <2>2, <2>3
<1>14. UpInv'
  <2> SUFFICES ASSUME NEW s \in Remotes
               PROVE  /\ Rising(issued', up'[s])
                      /\ \A m \in CallsIn(up'[s]) :
                           /\ issued'[m].caller = s
                           /\ \A c \in Clients \ {s} : Before(issued', Elements(executed'[c]), m)
                           /\ \A d \in Remotes : Before(issued', CallsIn(down'[d]), m)
    BY DEF UpInv
  <2>1. Rising(issued', up'[s])
    BY <1>12, <1>13
  <2>2. ASSUME NEW m \in CallsIn(up[s])
        PROVE  /\ issued'[m].caller = s
               /\ \A c \in Clients \ {s} : Before(issued', Elements(executed'[c]), m)
               /\ \A d \in Remotes : Before(issued', CallsIn(down'[d]), m)
    <3>1. m \in 1..k /\ issued'[m].caller = s /\ issued'[n].caller = r
      BY <1>2, <1>3, <1>4, <1>10 DEF UpInv
    <3>2. ASSUME NEW c \in Clients \ {s} PROVE Before(issued', Elements(executed'[c]), m)
      <4>1. Before(issued', Elements(executed[c]), m)
        BY <1>2, <1>4, <1>10, <3>1, BeforeAgrees DEF UpInv
      <4>2. CASE c # r
        BY <1>11, <4>1, <4>2
      <4>3. CASE c = r
        <5>1. issued'[n].caller # issued'[m].caller
          BY <3>1, <4>3
        <5>2. Elements(executed'[c]) \subseteq Elements(executed[c]) \cup {n}
          BY <1>11, <4>3
        <5> QED BY <4>1, <5>1, <5>2 DEF Before
      <4> QED BY <4>2, <4>3
    <3>3. ASSUME NEW d \in Remotes PROVE Before(issued', CallsIn(down'[d]), m)
      <4>1. Before(issued', CallsIn(down[d]), m)
        BY <1>2, <1>4, <1>10, <3>1, BeforeAgrees DEF UpInv
      <4> QED BY <1>2, <4>1
    <3> QED BY <3>1, <3>2, <3>3
  <2>3. ASSUME s = r
        PROVE  /\ issued'[n].caller = s
               /\ \A c \in Clients \ {s} : Before(issued', Elements(executed'[c]), n)
               /\ \A d \in Remotes : Before(issued', CallsIn(down'[d]), n)
    <3>1. issued'[n].caller = s
      BY <1>3, <1>4, <2>3
    <3>2. \A c \in Clients \ {s} : Elements(executed'[c]) \subseteq 1..k
      BY <1>10, <1>11, <2>3
    <3>3. \A d \in Remotes : CallsIn(down'[d]) \subseteq 1..k
      BY <1>2, <1>10
    <3>4. \A S : S \subseteq 1..k => Before(issued', S, n)
      BY <1>2 DEF Before
    <3> QED BY <3>1, <3>2, <3>3, <3>4
  <2> QED BY <1>13, <2>1, <2>2, <2>3
<1>15. DownInv'
  <2> SUFFICES ASSUME NEW d \in Remotes, NEW m \in CallsIn(down[d])
               PROVE  /\ d \in Audience(m)'
                      /\ issued'[m].caller # d
                      /\ Before(issued', Elements(executed'[d]), m)
    BY <1>2, <1>12 DEF DownInv, Audience
  <2>1. m \in 1..k /\ d \in Audience(m)' /\ issued'[m].caller # d /\ Before(issued, Elements(executed[d]), m)
    BY <1>2, <1>4, <1>9, <1>10 DEF DownInv, Audience
  <2>2. Before(issued', Elements(executed[d]), m)
    BY <1>4, <1>10, <2>1, HostAndRemotes, BeforeAgrees
  <2>3. Before(issued', Elements(executed'[d]), m)
    <3>1. CASE d = r
      <4>1. issued'[n].caller # issued'[m].caller
        BY <1>3, <1>4, <2>1, <3>1
      <4> QED BY <1>11, <2>2, <3>1, <4>1 DEF Before
    <3>2. CASE d # r
      BY <1>11, <2>2, <3>2, HostAndRemotes
    <3> QED BY <3>1, <3>2
  <2> QED BY <2>1, <2>3
<1> QED BY <1>8, <1>14, <1>15

LEMMA HandleRPCOrder ==
  ASSUME IInv, NEW r \in Remotes, HandleRPC(r)
  PROVE  UpInv' /\ DownInv' /\ (Contract!Next \/ UNCHANGED <<Calls, executed>>)
<1>1. PICK n \in 1..Len(issued) :
        /\ up[r] # <<>>
        /\ Head(up[r]) = RPC(n)
        /\ up' = [up EXCEPT ![r] = Tail(@)]
        /\ Send(Receivers(issued[n]), <<RPC(n)>>)
        /\ IF Host \in Receivers(issued[n])
           THEN Run(Host, issued[n], n) ELSE UNCHANGED <<ents, executed>>
        /\ UNCHANGED <<owner, link, served, issued>>
  BY DEF HandleRPC
<1>2. Types /\ UpInv /\ DownInv /\ Len(issued) \in Nat /\ UNCHANGED <<owner, issued>>
  BY <1>1, TypesFacts DEF IInv
<1>3. up[r] \in Seq(Ups(Len(issued))) /\ Rising(issued, up[r])
  BY <1>2, TypesFacts DEF UpInv
<1>4. n \in CallsIn(up[r])
  BY <1>1, <1>3, HeadIsCalled
<1>5. /\ issued[n].caller = r
      /\ \A c \in Clients \ {r} : Before(issued, Elements(executed[c]), n)
      /\ \A d \in Remotes : Before(issued, CallsIn(down[d]), n)
  BY <1>2, <1>4 DEF UpInv
<1>6. \A m \in CallsIn(Tail(up[r])) : m \in CallsIn(up[r]) /\ (issued[m].caller = r => n < m)
  BY <1>1, <1>3, <1>5, CallsOfTail, RisingHead
<1>7. \A m \in 1..Len(issued) : Audience(m)' = Audience(m)
  BY <1>2, CallsKept
<1>8. \A d \in Receivers(issued[n]) : d \in Audience(n) /\ d # r
  <2>1. issued[n].ent \in DOMAIN owner => owner[issued[n].ent] \in Clients
    BY <1>2, TypesFacts
  <2>2. Calls[n] = [caller |-> issued[n].caller, owner |-> owner[issued[n].ent], type |-> issued[n].type]
    BY DEF Calls
  <2> QED BY <1>2, <1>5, <2>1, <2>2, ReceiversInAudience DEF Audience
<1>9. ASSUME NEW d \in Remotes
      PROVE  \/ down'[d] = down[d]
             \/ /\ d \in Audience(n) /\ d # r
                /\ CallsIn(down'[d]) = CallsIn(down[d]) \cup {n}
                /\ Rising(issued, down'[d])
  <2>1. n \in Nat /\ Rising(issued, down[d]) /\ Before(issued, CallsIn(down[d]), n)
    BY <1>2, <1>5 DEF DownInv
  <2> QED BY <1>1, <1>2, <1>8, <2>1, CallSent
<1>10. /\ executed' = executed \/ executed' = [executed EXCEPT ![Host] = Append(@, n)]
       /\ executed' # executed => Host \in Audience(n)
  BY <1>1, <1>8 DEF Run
<1>11. /\ Elements(executed'[Host]) \subseteq Elements(executed[Host]) \cup {n}
       /\ \A c \in Clients \ {Host} : executed'[c] = executed[c]
  <2>1. executed \in [Clients -> Seq(1..Len(issued))]
    BY <1>2 DEF Types
  <2> QED BY <1>2, <1>10, <2>1, HostAndRemotes, RunElements
<1>12. Contract!Next \/ UNCHANGED <<Calls, executed>>
  <2>1. CASE executed' = executed
    BY <1>2, <2>1 DEF Calls
  <2>2. CASE executed' # executed
    <3>1. Host \in Clients \ {r}
      BY HostAndRemotes
    <3>2. Before(issued, Elements(executed[Host]), n)
      BY <1>5, <3>1
    <3> QED BY <1>2, <1>10, <2>2, <3>1, <3>2, ExecuteStep
  <2> QED BY <2>1, <2>2
<1>13. \A s \in Remotes : \/ up'[s] = up[s]
                          \/ s = r /\ up'[s] = Tail(up[r])
  BY <1>1, <1>2 DEF Types
<1>14. UpInv'
  <2> SUFFICES ASSUME NEW s \in Remotes
               PROVE  /\ Rising(issued, up'[s])
                      /\ \A m \in CallsIn(up'[s]) :
                           /\ issued[m].caller = s
                           /\ \A c \in Clients \ {s} : Before(issued, Elements(executed'[c]), m)
                           /\ \A d \in Remotes : Before(issued, CallsIn(down'[d]), m)
    BY <1>2 DEF UpInv
  <2>1. Rising(issued, up'[s])
    <3>1. Rising(issued, up[s]) /\ Rising(issued, Tail(up[r]))
      BY <1>1, <1>2, <1>3, RisingTail DEF UpInv
    <3> QED BY <1>13, <3>1
  <2>2. ASSUME NEW m \in CallsIn(up'[s])
        PROVE  m \in CallsIn(up[s]) /\ issued[m].caller = s /\ (issued[n].caller = issued[m].caller => n < m)
    <3>1. m \in CallsIn(up[s])
      BY <1>6, <1>13
    <3>2. issued[m].caller = s
      BY <1>2, <3>1 DEF UpInv
    <3>3. s = r => n < m
      <4>1. s = r => up'[s] = Tail(up[r])
        BY <1>1, <1>2 DEF Types
      <4> QED BY <1>6, <3>2, <4>1
    <3> QED BY <1>5, <3>1, <3>2, <3>3
  <2>3. ASSUME NEW m \in CallsIn(up'[s])
        PROVE  /\ \A c \in Clients \ {s} : Before(issued, Elements(executed'[c]), m)
               /\ \A d \in Remotes : Before(issued, CallsIn(down'[d]), m)
    <3>1. /\ \A c \in Clients \ {s} : Before(issued, Elements(executed[c]), m)
          /\ \A d \in Remotes : Before(issued, CallsIn(down[d]), m)
      BY <1>2, <2>2 DEF UpInv
    <3>2. ASSUME NEW c \in Clients \ {s} PROVE Before(issued, Elements(executed'[c]), m)
      <4>1. Elements(executed'[c]) \subseteq Elements(executed[c]) \cup {n}
        BY <1>11
      <4> QED BY <2>2, <3>1, <4>1 DEF Before
    <3>3. ASSUME NEW d \in Remotes PROVE Before(issued, CallsIn(down'[d]), m)
      <4>1. CallsIn(down'[d]) \subseteq CallsIn(down[d]) \cup {n}
        BY <1>9
      <4> QED BY <2>2, <3>1, <4>1 DEF Before
    <3> QED BY <3>2, <3>3
  <2> QED BY <2>1, <2>2, <2>3
<1>15. DownInv'
  <2> SUFFICES ASSUME NEW d \in Remotes
               PROVE  /\ Rising(issued, down'[d])
                      /\ \A m \in CallsIn(down'[d]) :
                           /\ d \in Audience(m)'
                           /\ issued[m].caller # d
                           /\ Before(issued, Elements(executed'[d]), m)
    BY <1>2 DEF DownInv, Audience
  <2>1. executed'[d] = executed[d] /\ d \in Clients
    BY <1>11, HostAndRemotes
  <2>2. ASSUME NEW m \in CallsIn(down[d])
        PROVE  d \in Audience(m)' /\ issued[m].caller # d /\ Before(issued, Elements(executed'[d]), m)
    <3>1. m \in 1..Len(issued)
      BY <1>2, CallSets
    <3> QED BY <1>2, <1>7, <2>1, <3>1 DEF DownInv, Audience
  <2>3. d \in Audience(n) /\ d # r =>
          d \in Audience(n)' /\ issued[n].caller # d /\ Before(issued, Elements(executed'[d]), n)
    BY <1>5, <1>7, <2>1
  <2>4. Rising(issued, down[d])
    BY <1>2 DEF DownInv
  <2> QED BY <1>9, <2>2, <2>3, <2>4
<1> QED BY <1>12, <1>14, <1>15

LEMMA RemoteRPCOrder ==
  ASSUME IInv, NEW d \in Remotes, RemoteRPC(d)
  PROVE  UpInv' /\ DownInv' /\ (Contract!Next \/ UNCHANGED <<Calls, executed>>)
<1>1. PICK n \in 1..Len(issued) : Receiving(d, RPC(n)) /\ Run(d, issued[n], n)
  BY DEF RemoteRPC
<1>2. /\ down[d] # <<>> /\ Head(down[d]) = RPC(n)
      /\ down' = [down EXCEPT ![d] = Tail(@)]
      /\ UNCHANGED <<owner, up, issued>>
  BY <1>1 DEF Receiving
<1>3. Types /\ UpInv /\ DownInv /\ Len(issued) \in Nat /\ d \in Clients
  BY TypesFacts, HostAndRemotes DEF IInv
<1>4. down[d] \in Seq(Downs(Len(issued), DOMAIN owner)) /\ Rising(issued, down[d])
  BY <1>3, TypesFacts DEF DownInv
<1>5. n \in CallsIn(down[d])
  BY <1>2, <1>4, HeadIsCalled
<1>6. d \in Audience(n) /\ issued[n].caller # d /\ Before(issued, Elements(executed[d]), n)
  BY <1>3, <1>5 DEF DownInv, Audience
<1>7. \A m \in CallsIn(Tail(down[d])) : m \in CallsIn(down[d]) /\ (issued[m].caller = issued[n].caller => n < m)
  BY <1>2, <1>4, CallsOfTail, RisingHead
<1>8. executed' = executed \/ executed' = [executed EXCEPT ![d] = Append(@, n)]
  BY <1>1 DEF Run
<1>9. /\ Elements(executed'[d]) \subseteq Elements(executed[d]) \cup {n}
      /\ \A c \in Clients \ {d} : executed'[c] = executed[c]
  <2>1. executed \in [Clients -> Seq(1..Len(issued))]
    BY <1>3 DEF Types
  <2> QED BY <1>3, <1>8, <2>1, RunElements
<1>10. Contract!Next \/ UNCHANGED <<Calls, executed>>
  BY <1>2, <1>3, <1>6, <1>8, ExecuteStep
<1>11. /\ down'[d] = Tail(down[d])
       /\ \A s \in Remotes \ {d} : down'[s] = down[s]
  BY <1>2, <1>3 DEF Types
<1>12. UpInv'
  <2> SUFFICES ASSUME NEW s \in Remotes, NEW m \in CallsIn(up[s])
               PROVE  /\ issued[m].caller = s
                      /\ \A c \in Clients \ {s} : Before(issued, Elements(executed'[c]), m)
                      /\ \A t \in Remotes : Before(issued, CallsIn(down'[t]), m)
    BY <1>2, <1>3 DEF UpInv
  <2>1. /\ issued[m].caller = s
        /\ \A c \in Clients \ {s} : Before(issued, Elements(executed[c]), m)
        /\ \A t \in Remotes : Before(issued, CallsIn(down[t]), m)
    BY <1>3 DEF UpInv
  <2>2. issued[n].caller = issued[m].caller => n < m
    BY <1>5, <2>1 DEF Before
  <2>3. ASSUME NEW c \in Clients \ {s} PROVE Before(issued, Elements(executed'[c]), m)
    <3>1. Elements(executed'[c]) \subseteq Elements(executed[c]) \cup {n}
      BY <1>9
    <3> QED BY <2>1, <2>2, <3>1 DEF Before
  <2>4. ASSUME NEW t \in Remotes PROVE Before(issued, CallsIn(down'[t]), m)
    <3>1. CallsIn(down'[t]) \subseteq CallsIn(down[t])
      BY <1>7, <1>11
    <3> QED BY <2>1, <3>1 DEF Before
  <2> QED BY <2>1, <2>3, <2>4
<1>13. DownInv'
  <2> SUFFICES ASSUME NEW s \in Remotes
               PROVE  /\ Rising(issued, down'[s])
                      /\ \A m \in CallsIn(down'[s]) :
                           /\ s \in Audience(m)'
                           /\ issued[m].caller # s
                           /\ Before(issued, Elements(executed'[s]), m)
    BY <1>2 DEF DownInv, Audience
  <2>1. Rising(issued, down'[s])
    <3>1. Rising(issued, down[s]) /\ Rising(issued, Tail(down[d]))
      BY <1>2, <1>3, <1>4, RisingTail DEF DownInv
    <3> QED BY <1>11, <3>1
  <2>2. ASSUME NEW m \in CallsIn(down'[s])
        PROVE  /\ s \in Audience(m)'
               /\ issued[m].caller # s
               /\ Before(issued, Elements(executed'[s]), m)
    <3>1. m \in CallsIn(down[s]) /\ m \in 1..Len(issued)
      BY <1>3, <1>7, <1>11, CallSets
    <3>2. s \in Audience(m)' /\ issued[m].caller # s /\ Before(issued, Elements(executed[s]), m)
      <4>1. Audience(m)' = Audience(m)
        BY <1>2, <1>3, <3>1, CallsKept
      <4> QED BY <1>3, <3>1, <4>1 DEF DownInv, Audience
    <3>3. CASE s = d
      <4>1. issued[n].caller = issued[m].caller => n < m
        BY <1>7, <1>11, <3>3
      <4>2. Elements(executed'[s]) \subseteq Elements(executed[s]) \cup {n}
        BY <1>9, <3>3
      <4>3. Before(issued, Elements(executed'[s]), m)
        BY <3>2, <4>1, <4>2 DEF Before
      <4> QED BY <3>2, <4>3
    <3>4. CASE s # d
      BY <1>9, <3>2, <3>4, HostAndRemotes
    <3> QED BY <3>3, <3>4
  <2> QED BY <2>1, <2>2
<1> QED BY <1>10, <1>12, <1>13

-----------------------------------------------------------------------------
(* The theorems.                                                           *)

LEMMA InitInv == ASSUME Init PROVE IInv /\ Contract!Init
<1>1. /\ ents = [c \in Clients |-> <<>>] /\ owner = <<>> /\ link = [r \in Remotes |-> "out"]
      /\ served = {} /\ up = [r \in Remotes |-> <<>>] /\ down = [r \in Remotes |-> <<>>]
      /\ issued = <<>> /\ executed = [c \in Clients |-> <<>>]
  BY DEF Init
<1>2. Replicas(Len(issued), DOMAIN owner)
  BY <1>1, EmptyReplica, HostAndRemotes DEF Replicas
<1>3. Types
  BY <1>1, <1>2 DEF Types
<1>4. UpInv /\ DownInv
  BY <1>1 DEF UpInv, DownInv, Rising, CallsIn
<1>5. Calls = <<>>
  BY <1>1 DEF Calls
<1> QED BY <1>1, <1>3, <1>4, <1>5 DEF IInv, Contract!Init

LEMMA StepInv ==
  ASSUME IInv, [Next]_vars
  PROVE  IInv' /\ (Contract!Next \/ UNCHANGED <<Calls, executed>>)
<1>0. Types
  BY DEF IInv
<1>1. CASE HostCall
  BY <1>0, <1>1, HostCallTypes, HostCallOrder DEF IInv
<1>2. ASSUME NEW e \in Entities, Spawn(e) \/ Delete(e)
      PROVE  IInv' /\ UNCHANGED <<Calls, executed>>
  BY <1>0, <1>2, SpawnTypes, DeleteTypes, SpawnQuiet, DeleteQuiet, QuieterOrder DEF IInv
<1>3. ASSUME NEW c \in Clients, Sweep(c)
      PROVE  IInv' /\ UNCHANGED <<Calls, executed>>
  BY <1>0, <1>3, SweepTypes, SweepQuiet, QuieterOrder DEF IInv
<1>4. ASSUME NEW r \in Remotes, Join(r) \/ Leave(r) \/ HandleConnected(r)
      PROVE  IInv' /\ UNCHANGED <<Calls, executed>>
  BY <1>0, <1>4, JoinTypes, LeaveTypes, HandleConnectedTypes, JoinQuiet, LeaveQuiet, HandleConnectedQuiet,
     QuieterOrder DEF IInv
<1>5. ASSUME NEW r \in Remotes, RemoteCall(r)
      PROVE  IInv' /\ Contract!Next
  BY <1>0, <1>5, RemoteCallTypes, RemoteCallOrder DEF IInv
<1>6. ASSUME NEW r \in Remotes, HandleRPC(r)
      PROVE  IInv' /\ (Contract!Next \/ UNCHANGED <<Calls, executed>>)
  BY <1>0, <1>6, HandleRPCTypes, HandleRPCOrder DEF IInv
<1>7. ASSUME NEW r \in Remotes, RemoteHandle(r)
      PROVE  IInv' /\ (Contract!Next \/ UNCHANGED <<Calls, executed>>)
  <2>1. Types'
    BY <1>0, <1>7, RemoteHandleTypes
  <2>2. CASE RemoteRPC(r)
    BY <2>1, <2>2, RemoteRPCOrder DEF IInv
  <2>3. CASE RemoteCreate(r) \/ RemoteSnapshot(r) \/ RemoteDelete(r)
    BY <2>1, <2>3, ReplicaPacketQuiet, QuieterOrder DEF IInv
  <2> QED BY <1>7, <2>2, <2>3 DEF RemoteHandle
<1>8. CASE UNCHANGED vars
  <2>1. Quieter
    BY <1>8 DEF vars, Quieter
  <2>2. Types'
    BY <1>0, <1>8 DEF vars, Types, Replicas
  <2> QED BY <2>1, <2>2, QuieterOrder DEF IInv
<1> QED BY <1>1, <1>2, <1>3, <1>4, <1>5, <1>6, <1>7, <1>8 DEF Next, HostHandle

LEMMA TypesImplyTypeOK == ASSUME Types PROVE TypeOK
<1>1. DownPackets = Downs(Len(issued), Entities) /\ UpPackets = Ups(Len(issued))
  BY DEF DownPackets, Downs, UpPackets, Ups
<1>2. issued \in Seq(Call)
  <2>1. issued \in Seq([caller : Clients, ent : DOMAIN owner, type : RPCTypes, to : SUBSET Clients])
        /\ DOMAIN owner \subseteq Entities
    BY DEF Types
  <2>2. [caller : Clients, ent : DOMAIN owner, type : RPCTypes, to : SUBSET Clients] \subseteq Call
    BY <2>1 DEF Call
  <2> QED BY <2>1, <2>2, SeqGrows
<1>3. down \in [Remotes -> Seq(DownPackets)]
  <2>1. Downs(Len(issued), DOMAIN owner) \subseteq Downs(Len(issued), Entities)
    BY DEF Types, Downs
  <2>2. Seq(Downs(Len(issued), DOMAIN owner)) \subseteq Seq(Downs(Len(issued), Entities))
    BY <2>1, SeqGrows
  <2> QED BY <1>1, <2>2 DEF Types
<1>4. \A c \in Clients :
        /\ DOMAIN ents[c] \subseteq DOMAIN owner
        /\ ents[c] \in [DOMAIN ents[c] -> [ran : Seq(1..Len(issued)), remove : BOOLEAN]]
  BY TypesFacts DEF Replica
<1>5. DOMAIN ents = Clients /\ \A r \in Remotes : link[r] # "in" => down[r] = <<>> /\ ents[r] = <<>>
  BY DEF Types, Replicas
<1> QED BY <1>1, <1>2, <1>3, <1>4, <1>5 DEF Types, TypeOK

LEMMA Invariance == Spec => []IInv
<1>1. Init => IInv
  BY InitInv
<1>2. IInv /\ [Next]_vars => IInv'
  BY StepInv
<1> QED BY <1>1, <1>2, PTL DEF Spec

(* For any clients, entities, registered RPCs and number of calls the      *)
(* state has its shape: packets and replicas mention only calls that were  *)
(* made and entities that were created, and nothing is kept for a client   *)
(* that is not connected.                                                  *)
THEOREM TypeCorrect == Spec => []TypeOK
<1>1. IInv => TypeOK
  BY TypesImplyTypeOK DEF IInv
<1> QED BY <1>1, Invariance, PTL

(* RPCManager::RPCInfo on the caller's machine and the two ENTITY_RPC      *)
(* handlers of Scenegraph implement what RPC.hpp says of the types: a call *)
(* runs only on the machines of its audience, at most once on each, and    *)
(* the calls of one caller in the order they were made, for any number of  *)
(* clients that join and leave and of entities that come and go.           *)
THEOREM Refinement == Spec => KeepsContract
<1>1. Init => Contract!Init
  BY InitInv
<1>2. IInv /\ [Next]_vars => [Contract!Next]_(Contract!vars)
  BY StepInv DEF Contract!vars
<1> QED BY <1>1, <1>2, Invariance, PTL DEF Spec, KeepsContract, Contract!Spec

-----------------------------------------------------------------------------
(* No replica counts a call twice.                                         *)

NoRepeat(s) == \A i, j \in 1..Len(s) : s[i] = s[j] => i = j

(* The calls that replicas reflect; none is there twice.                   *)
ReflectedIn(e) == UNION {Elements(e[x].ran) : x \in DOMAIN e}

Once(e) == \A x \in DOMAIN e : NoRepeat(e[x].ran)

(* What the snapshots in a channel reflect; no call follows one of those.  *)
SnapshotsIn(q) == {q[i].ran : i \in {j \in 1..Len(q) : q[j].kind = "snapshot"}}

Fresh(q) ==
  \A i, j \in 1..Len(q) :
    i < j /\ q[i].kind = "snapshot" /\ q[j].kind = "rpc" => q[j].call \notin Elements(q[i].ran)

(* Nobody else's replica, and no snapshot, reflects a call that is on its  *)
(* way to the host.                                                        *)
UpOnce ==
  \A r \in Remotes : \A n \in CallsIn(up[r]) :
    /\ \A c \in Clients \ {r} : n \notin ReflectedIn(ents[c])
    /\ \A d \in Remotes : \A s \in SnapshotsIn(down[d]) : n \notin Elements(s)

(* d's replicas, and the snapshots ahead of it, do not reflect a call that *)
(* is on its way to d.                                                     *)
DownOnce ==
  \A d \in Remotes :
    /\ \A n \in CallsIn(down[d]) : n \notin ReflectedIn(ents[d])
    /\ \A s \in SnapshotsIn(down[d]) : NoRepeat(s)
    /\ Fresh(down[d])

OnceInv == (\A c \in Clients : Once(ents[c])) /\ UpOnce /\ DownOnce

LEMMA PutOnce ==
  ASSUME NEW e, NEW x, NEW s, Once(e), NoRepeat(s)
  PROVE  /\ Once(Put(e, x, s))
         /\ ReflectedIn(Put(e, x, s)) \subseteq ReflectedIn(e) \cup Elements(s)
<1> DEFINE f == Put(e, x, s)
<1>1. DOMAIN f = DOMAIN e \cup {x}
  BY DEF Put
<1>2. \A y \in DOMAIN f : f[y].ran = s \/ (y \in DOMAIN e /\ f[y].ran = e[y].ran)
  BY DEF Put
<1> HIDE DEF f
<1>3. Once(f)
  BY <1>2 DEF Once
<1>4. ReflectedIn(f) \subseteq ReflectedIn(e) \cup Elements(s)
  BY <1>2 DEF ReflectedIn
<1> QED BY <1>3, <1>4 DEF f

LEMMA EmptyOnce == NoRepeat(<<>>) /\ Elements(<<>>) = {} /\ Once(<<>>) /\ ReflectedIn(<<>>) = {}
  BY DEF NoRepeat, Elements, Once, ReflectedIn

LEMMA SameOnce ==
  ASSUME NEW e, NEW f, DOMAIN f \subseteq DOMAIN e, \A x \in DOMAIN f : f[x].ran = e[x].ran, Once(e)
  PROVE  Once(f) /\ ReflectedIn(f) \subseteq ReflectedIn(e)
  BY DEF Once, ReflectedIn

LEMMA MarkOnce ==
  ASSUME NEW k, NEW w, NEW e, Replica(e, k, w), NEW x \in DOMAIN e, Once(e)
  PROVE  /\ Once([e EXCEPT ![x].remove = TRUE])
         /\ ReflectedIn([e EXCEPT ![x].remove = TRUE]) \subseteq ReflectedIn(e)
<1> DEFINE f == [e EXCEPT ![x].remove = TRUE]
<1>1. DOMAIN f = DOMAIN e
  BY DEF Replica
<1>2. \A y \in DOMAIN e : f[y].ran = e[y].ran
  BY DEF Replica
<1> HIDE DEF f
<1>3. Once(f) /\ ReflectedIn(f) \subseteq ReflectedIn(e)
  BY <1>1, <1>2, SameOnce
<1> QED BY <1>3 DEF f

LEMMA AppendOnce ==
  ASSUME NEW S, NEW s \in Seq(S), NoRepeat(s), NEW n, n \notin Elements(s)
  PROVE  NoRepeat(Append(s, n))
<1>1. Len(Append(s, n)) = Len(s) + 1 /\ Len(s) \in Nat /\ Append(s, n)[Len(s) + 1] = n
  OBVIOUS
<1>2. \A i \in 1..Len(s) : Append(s, n)[i] = s[i] /\ s[i] # n
  BY DEF Elements
<1>3. \A i \in 1..(Len(s) + 1) : i \in 1..Len(s) \/ i = Len(s) + 1
  BY <1>1
<1> QED BY <1>1, <1>2, <1>3 DEF NoRepeat

LEMMA RanOnce ==
  ASSUME NEW k, NEW w, NEW e, Replica(e, k, w), NEW x \in DOMAIN e, NEW n, Once(e), n \notin ReflectedIn(e)
  PROVE  /\ Once([e EXCEPT ![x].ran = Append(@, n)])
         /\ ReflectedIn([e EXCEPT ![x].ran = Append(@, n)]) \subseteq ReflectedIn(e) \cup {n}
<1> DEFINE f == [e EXCEPT ![x].ran = Append(@, n)]
<1>1. DOMAIN f = DOMAIN e /\ e[x].ran \in Seq(1..k)
  BY DEF Replica
<1>2. \A y \in DOMAIN e : f[y].ran = IF y = x THEN Append(e[x].ran, n) ELSE e[y].ran
  BY DEF Replica
<1>3. Elements(Append(e[x].ran, n)) = Elements(e[x].ran) \cup {n}
  BY <1>1, ElementsOfAppend
<1>4. n \notin Elements(e[x].ran)
  BY DEF ReflectedIn
<1>5. NoRepeat(Append(e[x].ran, n))
  BY <1>1, <1>4, AppendOnce DEF Once
<1> HIDE DEF f
<1>6. Once(f)
  BY <1>1, <1>2, <1>5 DEF Once
<1>7. ReflectedIn(f) \subseteq ReflectedIn(e) \cup {n}
  <2> SUFFICES ASSUME NEW y \in DOMAIN f PROVE Elements(f[y].ran) \subseteq ReflectedIn(e) \cup {n}
    BY DEF ReflectedIn
  <2>1. Elements(e[y].ran) \subseteq ReflectedIn(e)
    BY <1>1 DEF ReflectedIn
  <2> QED BY <1>1, <1>2, <1>3, <2>1
<1> QED BY <1>6, <1>7 DEF f

(* Executing n, which c's replicas do not reflect yet.                     *)
LEMMA RunOnce ==
  ASSUME NEW k, NEW w, Replicas(k, w), NEW c \in Clients, NEW call, NEW n, Run(c, call, n),
         \A d \in Clients : Once(ents[d]), n \notin ReflectedIn(ents[c])
  PROVE  /\ \A d \in Clients : Once(ents'[d])
         /\ ReflectedIn(ents'[c]) \subseteq ReflectedIn(ents[c]) \cup {n}
         /\ \A d \in Clients \ {c} : ents'[d] = ents[d]
<1>1. CASE Holds(c, call.ent) /\ call.ent \notin Lacks[c]
  <2> DEFINE f == [ents[c] EXCEPT ![call.ent].ran = Append(@, n)]
  <2>1. call.ent \in DOMAIN ents[c] /\ Replica(ents[c], k, w)
    BY <1>1 DEF Holds, Replicas
  <2>2. ents' = [ents EXCEPT ![c] = f] /\ DOMAIN ents = Clients
    BY <1>1 DEF Run, Replicas
  <2>3. Once(f) /\ ReflectedIn(f) \subseteq ReflectedIn(ents[c]) \cup {n}
    BY <2>1, RanOnce
  <2> HIDE DEF f
  <2> QED BY <2>2, <2>3
<1>2. CASE ~(Holds(c, call.ent) /\ call.ent \notin Lacks[c])
  BY <1>2 DEF Run
<1> QED BY <1>1, <1>2

(* Channels.                                                               *)

LEMMA FreshTail ==
  ASSUME NEW S, NEW q \in Seq(S), q # <<>>
  PROVE  /\ SnapshotsIn(Tail(q)) \subseteq SnapshotsIn(q)
         /\ Fresh(q) => Fresh(Tail(q))
         /\ Head(q).kind = "snapshot" => Head(q).ran \in SnapshotsIn(q)
         /\ Fresh(q) /\ Head(q).kind = "snapshot" =>
              \A n \in CallsIn(Tail(q)) : n \notin Elements(Head(q).ran)
<1>1. \A i \in 1..Len(Tail(q)) : Tail(q)[i] = q[i + 1] /\ i + 1 \in 1..Len(q) /\ 1 < i + 1
  OBVIOUS
<1>2. \A i, j \in 1..Len(Tail(q)) : i < j => i + 1 < j + 1
  OBVIOUS
<1>3. Head(q) = q[1] /\ 1 \in 1..Len(q)
  OBVIOUS
<1>4. SnapshotsIn(Tail(q)) \subseteq SnapshotsIn(q)
  BY <1>1 DEF SnapshotsIn
<1>5. Fresh(q) => Fresh(Tail(q))
  BY <1>1, <1>2 DEF Fresh
<1>6. Head(q).kind = "snapshot" => Head(q).ran \in SnapshotsIn(q)
  BY <1>3 DEF SnapshotsIn
<1>7. Fresh(q) /\ Head(q).kind = "snapshot" =>
        \A n \in CallsIn(Tail(q)) : n \notin Elements(Head(q).ran)
  BY <1>1, <1>3 DEF Fresh, CallsIn
<1> QED BY <1>4, <1>5, <1>6, <1>7

LEMMA SnapshotsOfConcat ==
  ASSUME NEW S, NEW q \in Seq(S), NEW p \in Seq(S)
  PROVE  SnapshotsIn(q \o p) \subseteq SnapshotsIn(q) \cup SnapshotsIn(p)
<1> DEFINE c == q \o p
<1>1. \A i \in 1..Len(q) : c[i] = q[i]
  OBVIOUS
<1>2. \A i \in 1..Len(c) : i \in 1..Len(q) \/ (i - Len(q) \in 1..Len(p) /\ c[i] = p[i - Len(q)])
  OBVIOUS
<1> HIDE DEF c
<1>3. SnapshotsIn(c) \subseteq SnapshotsIn(q) \cup SnapshotsIn(p)
  BY <1>1, <1>2 DEF SnapshotsIn
<1> QED BY <1>3 DEF c

LEMMA FreshConcat ==
  ASSUME NEW S, NEW q \in Seq(S), NEW p \in Seq(S), Fresh(q), Fresh(p),
         \A n \in CallsIn(p) : \A s \in SnapshotsIn(q) : n \notin Elements(s)
  PROVE  Fresh(q \o p)
<1> DEFINE c == q \o p
<1>1. Len(c) = Len(q) + Len(p) /\ Len(q) \in Nat /\ Len(p) \in Nat
  OBVIOUS
<1>2. \A i \in 1..Len(q) : c[i] = q[i]
  OBVIOUS
<1>3. \A i \in 1..Len(c) : i \in 1..Len(q) \/ (i - Len(q) \in 1..Len(p) /\ c[i] = p[i - Len(q)])
  OBVIOUS
<1> HIDE DEF c
<1>5. ASSUME NEW i \in 1..Len(c), NEW j \in 1..Len(c), i < j, c[i].kind = "snapshot", c[j].kind = "rpc"
      PROVE  c[j].call \notin Elements(c[i].ran)
  <2>1. CASE i \in 1..Len(q) /\ j \in 1..Len(q)
    BY <1>2, <1>5, <2>1 DEF Fresh
  <2>2. CASE i \in 1..Len(q) /\ j \notin 1..Len(q)
    <3>1. c[i].ran \in SnapshotsIn(q)
      BY <1>2, <1>5, <2>2 DEF SnapshotsIn
    <3>2. c[j].call \in CallsIn(p)
      BY <1>3, <1>5, <2>2 DEF CallsIn
    <3> QED BY <3>1, <3>2
  <2>3. CASE i \notin 1..Len(q)
    <3>1. j \notin 1..Len(q)
      BY <1>1, <1>5, <2>3
    <3>2. i - Len(q) < j - Len(q)
      BY <1>1, <1>5
    <3> QED BY <1>3, <1>5, <2>3, <3>1, <3>2 DEF Fresh
  <2> QED BY <2>1, <2>2, <2>3
<1> QED BY <1>5 DEF Fresh, c

LEMMA FreshOne ==
  ASSUME NEW m
  PROVE  Fresh(<<m>>) /\ (m.kind # "snapshot" => SnapshotsIn(<<m>>) = {})
  BY DEF Fresh, SnapshotsIn

(* A call sent on to d, or not.                                            *)
LEMMA SentOnce ==
  ASSUME Types, NEW n \in Nat, NEW S, Send(S, <<RPC(n)>>), NEW d \in Remotes
  PROVE  /\ SnapshotsIn(down'[d]) \subseteq SnapshotsIn(down[d])
         /\ (\A s \in SnapshotsIn(down[d]) : n \notin Elements(s)) /\ Fresh(down[d]) => Fresh(down'[d])
<1> DEFINE D == Downs(Len(issued), DOMAIN owner) \cup {RPC(n)}
           p == <<RPC(n)>>
<1>1. down[d] \in Seq(D) /\ p \in Seq(D)
  <2>1. down[d] \in Seq(Downs(Len(issued), DOMAIN owner)) /\ Downs(Len(issued), DOMAIN owner) \subseteq D
    BY TypesFacts
  <2> QED BY <2>1, SeqGrows
<1>2. CallsIn(p) = {n} /\ Fresh(p) /\ SnapshotsIn(p) = {}
  BY CallsOfOne, RPCKind, FreshOne
<1>3. down'[d] = down[d] \/ down'[d] = down[d] \o p
  BY DEF Send
<1> HIDE DEF D, p
<1>4. (\A s \in SnapshotsIn(down[d]) : n \notin Elements(s)) /\ Fresh(down[d]) => Fresh(down[d] \o p)
  BY <1>1, <1>2, FreshConcat
<1>5. SnapshotsIn(down[d] \o p) \subseteq SnapshotsIn(down[d])
  BY <1>1, <1>2, SnapshotsOfConcat
<1> QED BY <1>3, <1>4, <1>5

(* A creation or deletion sent, or not.                                    *)
LEMMA PlainSent ==
  ASSUME Types, NEW m, m.kind \notin {"snapshot", "rpc"}, NEW S, Send(S, <<m>>), NEW d \in Remotes
  PROVE  /\ SnapshotsIn(down'[d]) \subseteq SnapshotsIn(down[d])
         /\ Fresh(down[d]) => Fresh(down'[d])
<1> DEFINE D == Downs(Len(issued), DOMAIN owner) \cup {m}
           p == <<m>>
<1>1. down[d] \in Seq(D) /\ p \in Seq(D)
  <2>1. down[d] \in Seq(Downs(Len(issued), DOMAIN owner)) /\ Downs(Len(issued), DOMAIN owner) \subseteq D
    BY TypesFacts
  <2> QED BY <2>1, SeqGrows
<1>2. CallsIn(p) = {} /\ Fresh(p) /\ SnapshotsIn(p) = {}
  <2>1. CallsIn(p) = {}
    BY DEF CallsIn
  <2> QED BY <2>1, FreshOne
<1>3. down'[d] = down[d] \/ down'[d] = down[d] \o p
  BY DEF Send
<1> HIDE DEF D, p
<1>4. Fresh(down[d]) => Fresh(down[d] \o p)
  BY <1>1, <1>2, FreshConcat
<1>5. SnapshotsIn(down[d] \o p) \subseteq SnapshotsIn(down[d])
  BY <1>1, <1>2, SnapshotsOfConcat
<1> QED BY <1>3, <1>4, <1>5

LEMMA QuietOnce ==
  ASSUME OnceInv, Quieter,
         \A c \in Clients : Once(ents'[c]) /\ ReflectedIn(ents'[c]) \subseteq ReflectedIn(ents[c]),
         \A d \in Remotes : SnapshotsIn(down'[d]) \subseteq SnapshotsIn(down[d]) /\ Fresh(down'[d])
  PROVE  OnceInv'
<1>1. UpOnce /\ DownOnce
  BY DEF OnceInv
<1>2. \A r \in Remotes :
        CallsIn(up'[r]) \subseteq CallsIn(up[r]) /\ CallsIn(down'[r]) \subseteq CallsIn(down[r]) /\ r \in Clients
  BY HostAndRemotes DEF Quieter
<1>3. UpOnce'
  BY <1>1, <1>2 DEF UpOnce
<1>4. DownOnce'
  BY <1>1, <1>2 DEF DownOnce
<1> QED BY <1>3, <1>4 DEF OnceInv

LEMMA JoinOnce == ASSUME IInv, OnceInv, NEW r \in Remotes, Join(r) PROVE OnceInv'
<1>1. UNCHANGED <<ents, down>>
  BY DEF Join
<1>2. \A d \in Remotes : Fresh(down[d])
  BY DEF OnceInv, DownOnce
<1> QED BY <1>1, <1>2, JoinQuiet, QuietOnce DEF OnceInv

LEMMA LeaveOnce == ASSUME IInv, OnceInv, NEW r \in Remotes, Leave(r) PROVE OnceInv'
<1>1. \A c \in Clients : ents'[c] = ents[c] \/ ents'[c] = <<>>
  BY DEF Leave, IInv, Types, Replicas
<1>2. \A d \in Remotes : down'[d] = down[d] \/ down'[d] = <<>>
  BY DEF Leave, IInv, Types
<1>3. SnapshotsIn(<<>>) = {} /\ Fresh(<<>>)
  BY DEF SnapshotsIn, Fresh
<1>4. \A c \in Clients : Once(ents'[c]) /\ ReflectedIn(ents'[c]) \subseteq ReflectedIn(ents[c])
  BY <1>1, EmptyOnce DEF OnceInv
<1>5. \A d \in Remotes : SnapshotsIn(down'[d]) \subseteq SnapshotsIn(down[d]) /\ Fresh(down'[d])
  BY <1>2, <1>3 DEF OnceInv, DownOnce
<1> QED BY <1>4, <1>5, LeaveQuiet, QuietOnce

LEMMA SpawnOnce == ASSUME IInv, OnceInv, NEW e \in Entities, Spawn(e) PROVE OnceInv'
<1>1. Types /\ DOMAIN ents = Clients
  BY DEF IInv, Types, Replicas
<1>2. ents' = [ents EXCEPT ![Host] = Put(@, e, <<>>)] /\ Send(connected, <<Creation(e)>>)
  BY DEF Spawn
<1>3. \A c \in Clients : Once(ents'[c]) /\ ReflectedIn(ents'[c]) \subseteq ReflectedIn(ents[c])
  <2>1. Once(Put(ents[Host], e, <<>>)) /\ ReflectedIn(Put(ents[Host], e, <<>>)) \subseteq ReflectedIn(ents[Host])
    BY HostAndRemotes, EmptyOnce, PutOnce DEF OnceInv
  <2> QED BY <1>1, <1>2, <2>1 DEF OnceInv
<1>4. Creation(e).kind \notin {"snapshot", "rpc"}
  BY DEF Creation
<1>5. \A d \in Remotes : SnapshotsIn(down'[d]) \subseteq SnapshotsIn(down[d]) /\ Fresh(down'[d])
  BY <1>1, <1>2, <1>4, PlainSent DEF OnceInv, DownOnce
<1> QED BY <1>3, <1>5, SpawnQuiet, QuietOnce

LEMMA DeleteOnce == ASSUME IInv, OnceInv, NEW e \in Entities, Delete(e) PROVE OnceInv'
<1>1. Types /\ DOMAIN ents = Clients /\ Replica(ents[Host], Len(issued), DOMAIN owner)
  BY TypesFacts, HostAndRemotes DEF IInv, Types, Replicas
<1>2. ents' = [ents EXCEPT ![Host][e].remove = TRUE] /\ Send(connected, <<Deletion(e)>>)
  BY DEF Delete
<1>3. \A c \in Clients : Once(ents'[c]) /\ ReflectedIn(ents'[c]) \subseteq ReflectedIn(ents[c])
  <2>1. e \in DOMAIN ents[Host]
    BY DEF Delete, Deleted, Holds
  <2>2. /\ Once([ents[Host] EXCEPT ![e].remove = TRUE])
        /\ ReflectedIn([ents[Host] EXCEPT ![e].remove = TRUE]) \subseteq ReflectedIn(ents[Host])
    BY <1>1, <2>1, HostAndRemotes, MarkOnce DEF OnceInv
  <2>3. \A c \in Clients : ents'[c] = IF c = Host THEN [ents[Host] EXCEPT ![e].remove = TRUE] ELSE ents[c]
    BY <1>1, <1>2
  <2> QED BY <2>2, <2>3 DEF OnceInv
<1>4. Deletion(e).kind \notin {"snapshot", "rpc"}
  BY DEF Deletion
<1>5. \A d \in Remotes : SnapshotsIn(down'[d]) \subseteq SnapshotsIn(down[d]) /\ Fresh(down'[d])
  BY <1>1, <1>2, <1>4, PlainSent DEF OnceInv, DownOnce
<1> QED BY <1>3, <1>5, DeleteQuiet, QuietOnce

LEMMA SweepOnce == ASSUME IInv, OnceInv, NEW c \in Clients, Sweep(c) PROVE OnceInv'
<1> DEFINE kept == {e \in DOMAIN ents[c] : ~ents[c][e].remove}
           f == [e \in kept |-> ents[c][e]]
<1>1. DOMAIN ents = Clients
  BY DEF IInv, Types, Replicas
<1>2. ents' = [ents EXCEPT ![c] = f] /\ UNCHANGED down
  BY DEF Sweep
<1>3. Once(f) /\ ReflectedIn(f) \subseteq ReflectedIn(ents[c])
  <2>1. DOMAIN f \subseteq DOMAIN ents[c] /\ \A x \in DOMAIN f : f[x].ran = ents[c][x].ran
    OBVIOUS
  <2> HIDE DEF f
  <2> QED BY <2>1, SameOnce DEF OnceInv
<1> HIDE DEF f
<1>4. \A d \in Clients : Once(ents'[d]) /\ ReflectedIn(ents'[d]) \subseteq ReflectedIn(ents[d])
  BY <1>1, <1>2, <1>3 DEF OnceInv
<1>5. \A d \in Remotes : Fresh(down[d])
  BY DEF OnceInv, DownOnce
<1> QED BY <1>2, <1>4, <1>5, SweepQuiet, QuietOnce

LEMMA TakenOnce ==
  ASSUME IInv, OnceInv, NEW r \in Remotes, NEW m, Receiving(r, m)
  PROVE  /\ \A d \in Remotes : SnapshotsIn(down'[d]) \subseteq SnapshotsIn(down[d]) /\ Fresh(down'[d])
         /\ m = Head(down[r]) /\ down'[r] = Tail(down[r])
         /\ m.kind = "snapshot" =>
              m.ran \in SnapshotsIn(down[r]) /\ \A n \in CallsIn(Tail(down[r])) : n \notin Elements(m.ran)
<1>1. /\ down[r] # <<>> /\ m = Head(down[r])
      /\ down' = [down EXCEPT ![r] = Tail(@)]
  BY DEF Receiving
<1>2. down[r] \in Seq(Downs(Len(issued), DOMAIN owner)) /\ Types
  BY TypesFacts DEF IInv
<1>3. \A d \in Remotes : Fresh(down[d])
  BY DEF OnceInv, DownOnce
<1>4. /\ SnapshotsIn(Tail(down[r])) \subseteq SnapshotsIn(down[r]) /\ Fresh(Tail(down[r]))
      /\ m.kind = "snapshot" => /\ m.ran \in SnapshotsIn(down[r])
                                /\ \A n \in CallsIn(Tail(down[r])) : n \notin Elements(m.ran)
  BY <1>1, <1>2, <1>3, FreshTail
<1>5. \A d \in Remotes : down'[d] = IF d = r THEN Tail(down[r]) ELSE down[d]
  BY <1>1, <1>2 DEF Types
<1> QED BY <1>1, <1>3, <1>4, <1>5

LEMMA RemoteCreateOnce ==
  ASSUME IInv, OnceInv, NEW r \in Remotes, RemoteCreate(r) \/ RemoteDelete(r)
  PROVE  OnceInv'
<1>1. PICK m : Receiving(r, m)
  BY DEF RemoteCreate, RemoteDelete
<1>2. DOMAIN ents = Clients /\ r \in Clients /\ Replica(ents[r], Len(issued), DOMAIN owner)
      /\ \A c \in Clients : Once(ents[c])
  BY TypesFacts, HostAndRemotes DEF IInv, Types, Replicas, OnceInv
<1>3. \A c \in Clients : Once(ents'[c]) /\ ReflectedIn(ents'[c]) \subseteq ReflectedIn(ents[c])
  <2>1. CASE RemoteCreate(r)
    <3>1. PICK e \in Entities : ents' = [ents EXCEPT ![r] = Put(@, e, <<>>)]
      BY <2>1 DEF RemoteCreate
    <3>2. Once(Put(ents[r], e, <<>>)) /\ ReflectedIn(Put(ents[r], e, <<>>)) \subseteq ReflectedIn(ents[r])
      BY <1>2, EmptyOnce, PutOnce
    <3> QED BY <1>2, <3>1, <3>2
  <2>2. CASE RemoteDelete(r)
    <3>1. PICK e \in Entities : ents' = IF Holds(r, e) THEN [ents EXCEPT ![r][e].remove = TRUE] ELSE ents
      BY <2>2 DEF RemoteDelete
    <3>2. CASE Holds(r, e)
      <4>1. /\ Once([ents[r] EXCEPT ![e].remove = TRUE])
            /\ ReflectedIn([ents[r] EXCEPT ![e].remove = TRUE]) \subseteq ReflectedIn(ents[r])
        BY <1>2, <3>2, MarkOnce DEF Holds
      <4>2. \A c \in Clients : ents'[c] = IF c = r THEN [ents[r] EXCEPT ![e].remove = TRUE] ELSE ents[c]
        BY <1>2, <3>1, <3>2
      <4> QED BY <1>2, <4>1, <4>2
    <3>3. CASE ~Holds(r, e)
      BY <1>2, <3>1, <3>3
    <3> QED BY <3>2, <3>3
  <2> QED BY <2>1, <2>2
<1>4. \A d \in Remotes : SnapshotsIn(down'[d]) \subseteq SnapshotsIn(down[d]) /\ Fresh(down'[d])
  BY <1>1, TakenOnce
<1> QED BY <1>3, <1>4, ReplicaPacketQuiet, QuietOnce

LEMMA RemoteSnapshotOnce ==
  ASSUME IInv, OnceInv, NEW r \in Remotes, RemoteSnapshot(r)
  PROVE  OnceInv'
<1> DEFINE m == Head(down[r])
           f == Put(ents[r], m.ent, m.ran)
<1>1. /\ Receiving(r, m) /\ m.kind = "snapshot" /\ ents' = [ents EXCEPT ![r] = f]
  BY DEF RemoteSnapshot
<1>2. /\ DOMAIN ents = Clients /\ r \in Clients
      /\ UpOnce /\ DownOnce /\ \A c \in Clients : Once(ents[c])
  BY HostAndRemotes DEF IInv, Types, Replicas, OnceInv
<1>3. /\ \A d \in Remotes : SnapshotsIn(down'[d]) \subseteq SnapshotsIn(down[d]) /\ Fresh(down'[d])
      /\ down'[r] = Tail(down[r])
      /\ m.ran \in SnapshotsIn(down[r]) /\ \A n \in CallsIn(Tail(down[r])) : n \notin Elements(m.ran)
  BY <1>1, TakenOnce
<1>4. \A s \in Remotes :
        CallsIn(up'[s]) \subseteq CallsIn(up[s]) /\ CallsIn(down'[s]) \subseteq CallsIn(down[s]) /\ s \in Clients
  BY ReplicaPacketQuiet, HostAndRemotes DEF Quieter
<1>5. Once(f) /\ ReflectedIn(f) \subseteq ReflectedIn(ents[r]) \cup Elements(m.ran)
  <2>1. NoRepeat(m.ran)
    BY <1>2, <1>3 DEF DownOnce
  <2> QED BY <1>2, <2>1, PutOnce
<1> HIDE DEF m, f
<1>6. \A c \in Clients : ents'[c] = IF c = r THEN f ELSE ents[c]
  BY <1>1, <1>2
<1>7. \A c \in Clients : Once(ents'[c])
  BY <1>2, <1>5, <1>6
<1>8. UpOnce'
  <2> SUFFICES ASSUME NEW s \in Remotes, NEW n \in CallsIn(up'[s])
               PROVE  /\ \A c \in Clients \ {s} : n \notin ReflectedIn(ents'[c])
                      /\ \A d \in Remotes : \A x \in SnapshotsIn(down'[d]) : n \notin Elements(x)
    BY DEF UpOnce
  <2>1. /\ \A c \in Clients \ {s} : n \notin ReflectedIn(ents[c])
        /\ \A d \in Remotes : \A x \in SnapshotsIn(down[d]) : n \notin Elements(x)
    BY <1>2, <1>4 DEF UpOnce
  <2> QED BY <1>3, <1>5, <1>6, <2>1
<1>9. DownOnce'
  <2> SUFFICES ASSUME NEW d \in Remotes
               PROVE  /\ \A n \in CallsIn(down'[d]) : n \notin ReflectedIn(ents'[d])
                      /\ \A s \in SnapshotsIn(down'[d]) : NoRepeat(s)
                      /\ Fresh(down'[d])
    BY DEF DownOnce
  <2>1. \A n \in CallsIn(down'[d]) : n \notin ReflectedIn(ents[d])
    BY <1>2, <1>4 DEF DownOnce
  <2>2. \A n \in CallsIn(down'[d]) : n \notin ReflectedIn(ents'[d])
    BY <1>3, <1>4, <1>5, <1>6, <2>1
  <2> QED BY <1>2, <1>3, <2>2 DEF DownOnce
<1> QED BY <1>7, <1>8, <1>9 DEF OnceInv

LEMMA ReflectedTyped ==
  ASSUME Types
  PROVE  /\ \A c \in Clients : ReflectedIn(ents[c]) \subseteq 1..Len(issued)
         /\ \A d \in Remotes : \A s \in SnapshotsIn(down[d]) : Elements(s) \subseteq 1..Len(issued)
<1>1. ASSUME NEW c \in Clients, NEW x \in DOMAIN ents[c]
      PROVE  Elements(ents[c][x].ran) \subseteq 1..Len(issued)
  <2>1. ents[c][x].ran \in Seq(1..Len(issued))
    BY TypesFacts DEF Replica
  <2> QED BY <2>1, ElementsTyped
<1>2. \A c \in Clients : ReflectedIn(ents[c]) \subseteq 1..Len(issued)
  BY <1>1 DEF ReflectedIn
<1>3. ASSUME NEW d \in Remotes, NEW s \in SnapshotsIn(down[d])
      PROVE  Elements(s) \subseteq 1..Len(issued)
  <2>1. PICK i \in 1..Len(down[d]) : down[d][i].kind = "snapshot" /\ s = down[d][i].ran
    BY DEF SnapshotsIn
  <2>2. down[d][i] \in Downs(Len(issued), DOMAIN owner)
    BY TypesFacts, ElementTyped
  <2>3. s \in Seq(1..Len(issued))
    BY <2>1, <2>2, TypesFacts, DownKinds
  <2> QED BY <2>3, ElementsTyped
<1> QED BY <1>2, <1>3

LEMMA HandleConnectedOnce ==
  ASSUME IInv, OnceInv, NEW r \in Remotes, HandleConnected(r)
  PROVE  OnceInv'
<1>1. Types /\ UpOnce /\ DownOnce /\ UNCHANGED ents /\ \A c \in Clients : Once(ents[c])
  BY DEF IInv, OnceInv, HandleConnected
<1>2. PICK ids \in Descending(DOMAIN ents[Host]) :
        Send({r}, [i \in 1..Len(ids) |-> Snapshot(ids[i])])
  BY DEF HandleConnected
<1> DEFINE q == [i \in 1..Len(ids) |-> Snapshot(ids[i])]
           D == Downs(Len(issued), DOMAIN owner) \cup {Snapshot(e) : e \in DOMAIN ents[Host]}
<1>3. ids \in Seq(DOMAIN ents[Host])
  BY <1>1, HostsIDs
<1>4. /\ q \in Seq(D) /\ Len(q) = Len(ids)
      /\ \A i \in 1..Len(q) : q[i].kind = "snapshot" /\ q[i].ran \in {ents[Host][ids[i]].ran, <<>>}
                              /\ ids[i] \in DOMAIN ents[Host]
  <2>1. \A e : Snapshot(e).kind = "snapshot" /\ Snapshot(e).ran \in {ents[Host][e].ran, <<>>}
    BY DEF Snapshot
  <2>2. \A i \in 1..Len(ids) : Snapshot(ids[i]) \in D /\ ids[i] \in DOMAIN ents[Host]
    BY <1>3
  <2>3. q \in Seq(D) /\ Len(q) = Len(ids)
    <3> HIDE DEF D
    <3> QED BY <1>3, <2>2
  <2> HIDE DEF D
  <2> QED BY <2>1, <2>2, <2>3
<1>5. \A d \in Remotes : down[d] \in Seq(D)
  <2>1. Downs(Len(issued), DOMAIN owner) \subseteq D
    OBVIOUS
  <2> QED BY <1>1, <2>1, TypesFacts, SeqGrows
<1>6. \A d \in Remotes : down'[d] = down[d] \/ down'[d] = down[d] \o q
  BY <1>2 DEF Send
<1> HIDE DEF q, D
<1>7. CallsIn(q) = {} /\ Fresh(q)
  BY <1>4 DEF CallsIn, Fresh
<1>8. \A s \in SnapshotsIn(q) : NoRepeat(s) /\ Elements(s) \subseteq ReflectedIn(ents[Host])
  <2> SUFFICES ASSUME NEW i \in 1..Len(q)
               PROVE  NoRepeat(q[i].ran) /\ Elements(q[i].ran) \subseteq ReflectedIn(ents[Host])
    BY DEF SnapshotsIn
  <2>1. NoRepeat(ents[Host][ids[i]].ran) /\ Elements(ents[Host][ids[i]].ran) \subseteq ReflectedIn(ents[Host])
    BY <1>1, <1>4, HostAndRemotes DEF Once, ReflectedIn
  <2> QED BY <1>4, <2>1, EmptyOnce
<1>9. \A d \in Remotes : SnapshotsIn(down'[d]) \subseteq SnapshotsIn(down[d]) \cup SnapshotsIn(q) /\ Fresh(down'[d])
  <2> SUFFICES ASSUME NEW d \in Remotes
               PROVE  SnapshotsIn(down'[d]) \subseteq SnapshotsIn(down[d]) \cup SnapshotsIn(q) /\ Fresh(down'[d])
    OBVIOUS
  <2>1. Fresh(down[d])
    BY <1>1 DEF DownOnce
  <2>2. Fresh(down[d] \o q) /\ SnapshotsIn(down[d] \o q) \subseteq SnapshotsIn(down[d]) \cup SnapshotsIn(q)
    BY <1>4, <1>5, <1>7, <2>1, FreshConcat, SnapshotsOfConcat
  <2> QED BY <1>6, <2>1, <2>2
<1>10. \A s \in Remotes :
         CallsIn(up'[s]) \subseteq CallsIn(up[s]) /\ CallsIn(down'[s]) \subseteq CallsIn(down[s])
         /\ Host \in Clients \ {s}
  BY HandleConnectedQuiet, HostAndRemotes DEF Quieter
<1>11. UpOnce'
  <2> SUFFICES ASSUME NEW s \in Remotes, NEW n \in CallsIn(up[s])
               PROVE  /\ \A c \in Clients \ {s} : n \notin ReflectedIn(ents[c])
                      /\ \A d \in Remotes : \A x \in SnapshotsIn(down'[d]) : n \notin Elements(x)
    BY <1>1, <1>10 DEF UpOnce
  <2>1. /\ \A c \in Clients \ {s} : n \notin ReflectedIn(ents[c])
        /\ \A d \in Remotes : \A x \in SnapshotsIn(down[d]) : n \notin Elements(x)
    BY <1>1 DEF UpOnce
  <2>2. \A x \in SnapshotsIn(q) : n \notin Elements(x)
    BY <1>8, <1>10, <2>1
  <2> QED BY <1>9, <2>1, <2>2
<1>12. DownOnce'
  <2> SUFFICES ASSUME NEW d \in Remotes
               PROVE  /\ \A n \in CallsIn(down'[d]) : n \notin ReflectedIn(ents[d])
                      /\ \A s \in SnapshotsIn(down'[d]) : NoRepeat(s)
                      /\ Fresh(down'[d])
    BY <1>1 DEF DownOnce
  <2> QED BY <1>1, <1>8, <1>9, <1>10 DEF DownOnce
<1> QED BY <1>1, <1>11, <1>12 DEF OnceInv

LEMMA HostCallOnce ==
  ASSUME IInv, OnceInv, HostCall
  PROVE  OnceInv'
<1>0. Types /\ UpOnce /\ DownOnce /\ Len(issued) \in Nat /\ \A c \in Clients : Once(ents[c])
  BY TypesFacts DEF IInv, OnceInv
<1>1. PICK n \in Nat : n = Len(issued) + 1
  BY <1>0
<1>2. PICK e \in Entities, t \in RPCTypes :
        /\ IF RunsRemotely(t, owner[e] = Host)
           THEN Send(Receivers(NewCall(Host, e, t)), <<RPC(n)>>) ELSE UNCHANGED down
        /\ IF RunsLocally(t, owner[e] = Host)
           THEN Run(Host, NewCall(Host, e, t), n) ELSE UNCHANGED <<ents, executed>>
        /\ UNCHANGED up
  BY <1>1 DEF HostCall
<1>3. /\ \A c \in Clients : n \notin ReflectedIn(ents[c])
      /\ \A d \in Remotes : \A s \in SnapshotsIn(down[d]) : n \notin Elements(s)
      /\ \A s \in Remotes : n \notin CallsIn(up[s])
  <2>1. n \notin 1..Len(issued)
    BY <1>0, <1>1
  <2> QED BY <1>0, <2>1, ReflectedTyped, CallSets
<1>4. /\ \A c \in Clients : Once(ents'[c])
      /\ ReflectedIn(ents'[Host]) \subseteq ReflectedIn(ents[Host]) \cup {n}
      /\ \A c \in Clients \ {Host} : ents'[c] = ents[c]
  <2>1. CASE UNCHANGED <<ents, executed>>
    BY <1>0, <2>1
  <2>2. CASE Run(Host, NewCall(Host, e, t), n)
    <3>1. Replicas(Len(issued), DOMAIN owner)
      BY <1>0, TypesFacts
    <3> QED BY <1>0, <1>3, <2>2, <3>1, HostAndRemotes, RunOnce
  <2> QED BY <1>2, <2>1, <2>2
<1>5. ASSUME NEW d \in Remotes
      PROVE  /\ SnapshotsIn(down'[d]) \subseteq SnapshotsIn(down[d])
             /\ Fresh(down'[d])
             /\ CallsIn(down'[d]) \subseteq CallsIn(down[d]) \cup {n}
  <2>1. Fresh(down[d])
    BY <1>0 DEF DownOnce
  <2>2. CASE UNCHANGED down
    BY <2>1, <2>2
  <2>3. CASE Send(Receivers(NewCall(Host, e, t)), <<RPC(n)>>)
    <3>1. SnapshotsIn(down'[d]) \subseteq SnapshotsIn(down[d]) /\ Fresh(down'[d])
      BY <1>0, <1>3, <2>1, <2>3, SentOnce
    <3>2. down'[d] = down[d] \/ CallsIn(down'[d]) = CallsIn(down[d]) \cup {n}
      BY <1>0, <2>3, CallSent
    <3> QED BY <3>1, <3>2
  <2> QED BY <1>2, <2>2, <2>3
<1>6. UpOnce'
  <2> SUFFICES ASSUME NEW s \in Remotes, NEW m \in CallsIn(up[s])
               PROVE  /\ \A c \in Clients \ {s} : m \notin ReflectedIn(ents'[c])
                      /\ \A d \in Remotes : \A x \in SnapshotsIn(down'[d]) : m \notin Elements(x)
    BY <1>2 DEF UpOnce
  <2>1. m # n
    BY <1>3
  <2>2. /\ \A c \in Clients \ {s} : m \notin ReflectedIn(ents[c])
        /\ \A d \in Remotes : \A x \in SnapshotsIn(down[d]) : m \notin Elements(x)
    BY <1>0 DEF UpOnce
  <2>3. \A c \in Clients \ {s} : m \notin ReflectedIn(ents'[c])
    BY <1>4, <2>1, <2>2
  <2> QED BY <1>5, <2>2, <2>3
<1>7. DownOnce'
  <2> SUFFICES ASSUME NEW d \in Remotes
               PROVE  /\ \A m \in CallsIn(down'[d]) : m \notin ReflectedIn(ents'[d])
                      /\ \A s \in SnapshotsIn(down'[d]) : NoRepeat(s)
                      /\ Fresh(down'[d])
    BY DEF DownOnce
  <2>1. ents'[d] = ents[d] /\ d \in Clients
    BY <1>4, HostAndRemotes
  <2> QED BY <1>0, <1>3, <1>5, <2>1 DEF DownOnce
<1> QED BY <1>4, <1>6, <1>7 DEF OnceInv

LEMMA RemoteCallOnce ==
  ASSUME IInv, OnceInv, NEW r \in Remotes, RemoteCall(r)
  PROVE  OnceInv'
<1>0. Types /\ UpOnce /\ DownOnce /\ Len(issued) \in Nat /\ r \in Clients /\ \A c \in Clients : Once(ents[c])
  BY TypesFacts, HostAndRemotes DEF IInv, OnceInv
<1>1. PICK n \in Nat : n = Len(issued) + 1
  BY <1>0
<1>2. PICK e \in Entities, t \in RPCTypes :
        /\ up' = IF RunsRemotely(t, owner[e] = r) THEN [up EXCEPT ![r] = Append(@, RPC(n))] ELSE up
        /\ IF RunsLocally(t, owner[e] = r)
           THEN Run(r, NewCall(r, e, t), n) ELSE UNCHANGED <<ents, executed>>
        /\ UNCHANGED down
  BY <1>1 DEF RemoteCall
<1>3. /\ \A c \in Clients : n \notin ReflectedIn(ents[c])
      /\ \A d \in Remotes : \A s \in SnapshotsIn(down[d]) : n \notin Elements(s)
      /\ \A s \in Remotes : n \notin CallsIn(up[s]) /\ n \notin CallsIn(down[s])
  <2>1. n \notin 1..Len(issued)
    BY <1>0, <1>1
  <2> QED BY <1>0, <2>1, ReflectedTyped, CallSets
<1>4. /\ \A c \in Clients : Once(ents'[c])
      /\ ReflectedIn(ents'[r]) \subseteq ReflectedIn(ents[r]) \cup {n}
      /\ \A c \in Clients \ {r} : ents'[c] = ents[c]
  <2>1. CASE UNCHANGED <<ents, executed>>
    BY <1>0, <2>1
  <2>2. CASE Run(r, NewCall(r, e, t), n)
    <3>1. Replicas(Len(issued), DOMAIN owner)
      BY <1>0, TypesFacts
    <3> QED BY <1>0, <1>3, <2>2, <3>1, RunOnce
  <2> QED BY <1>2, <2>1, <2>2
<1>5. \A s \in Remotes : \/ CallsIn(up'[s]) = CallsIn(up[s])
                         \/ s = r /\ CallsIn(up'[s]) = CallsIn(up[s]) \cup {n}
  <2>1. CallsIn(Append(up[r], RPC(n))) = CallsIn(up[r]) \cup {n}
    <3>1. up[r] \in Seq(Ups(Len(issued)))
      BY <1>0, TypesFacts
    <3>2. Append(up[r], RPC(n)) = up[r] \o <<RPC(n)>> /\ CallsIn(up[r] \o <<RPC(n)>>) = CallsIn(up[r]) \cup {n}
      BY <3>1, CallsOfAppend
    <3> QED BY <3>2
  <2>2. \A s \in Remotes : up'[s] = up[s] \/ (s = r /\ up'[s] = Append(up[r], RPC(n)))
    BY <1>0, <1>2 DEF Types
  <2> QED BY <2>1, <2>2
<1>6. UpOnce'
  <2> SUFFICES ASSUME NEW s \in Remotes, NEW m \in CallsIn(up'[s])
               PROVE  /\ \A c \in Clients \ {s} : m \notin ReflectedIn(ents'[c])
                      /\ \A d \in Remotes : \A x \in SnapshotsIn(down[d]) : m \notin Elements(x)
    BY <1>2 DEF UpOnce
  <2>1. CASE m \in CallsIn(up[s])
    <3>1. m # n
      BY <1>3, <2>1
    <3>2. /\ \A c \in Clients \ {s} : m \notin ReflectedIn(ents[c])
          /\ \A d \in Remotes : \A x \in SnapshotsIn(down[d]) : m \notin Elements(x)
      BY <1>0, <2>1 DEF UpOnce
    <3>3. \A c \in Clients \ {s} : m \notin ReflectedIn(ents'[c])
      BY <1>4, <3>1, <3>2
    <3> QED BY <3>2, <3>3
  <2>2. CASE s = r /\ m = n
    BY <1>3, <1>4, <2>2
  <2> QED BY <1>5, <2>1, <2>2
<1>7. DownOnce'
  <2> SUFFICES ASSUME NEW d \in Remotes
               PROVE  /\ \A m \in CallsIn(down[d]) : m \notin ReflectedIn(ents'[d])
                      /\ \A s \in SnapshotsIn(down[d]) : NoRepeat(s)
                      /\ Fresh(down[d])
    BY <1>2 DEF DownOnce
  <2>1. ReflectedIn(ents'[d]) \subseteq ReflectedIn(ents[d]) \cup {n}
    BY <1>4, HostAndRemotes
  <2> QED BY <1>0, <1>3, <2>1 DEF DownOnce
<1> QED BY <1>4, <1>6, <1>7 DEF OnceInv

LEMMA HandleRPCOnce ==
  ASSUME IInv, OnceInv, NEW r \in Remotes, HandleRPC(r)
  PROVE  OnceInv'
<1>0. /\ Types /\ UpInv /\ UpOnce /\ DownOnce /\ Len(issued) \in Nat /\ r \in Clients
      /\ \A c \in Clients : Once(ents[c])
  BY TypesFacts, HostAndRemotes DEF IInv, OnceInv
<1>1. PICK n \in 1..Len(issued) :
        /\ up[r] # <<>>
        /\ Head(up[r]) = RPC(n)
        /\ up' = [up EXCEPT ![r] = Tail(@)]
        /\ Send(Receivers(issued[n]), <<RPC(n)>>)
        /\ IF Host \in Receivers(issued[n])
           THEN Run(Host, issued[n], n) ELSE UNCHANGED <<ents, executed>>
  BY DEF HandleRPC
<1>2. up[r] \in Seq(Ups(Len(issued))) /\ Rising(issued, up[r])
  BY <1>0, TypesFacts DEF UpInv
<1>3. n \in CallsIn(up[r]) /\ issued[n].caller = r /\ n \in Nat
  BY <1>0, <1>1, <1>2, HeadIsCalled DEF UpInv
<1>4. /\ \A c \in Clients \ {r} : n \notin ReflectedIn(ents[c])
      /\ \A d \in Remotes : \A x \in SnapshotsIn(down[d]) : n \notin Elements(x)
  BY <1>0, <1>3 DEF UpOnce
<1>5. \A s \in Remotes : CallsIn(up'[s]) \subseteq CallsIn(up[s]) /\ n \notin CallsIn(up'[s])
  <2>1. CallsIn(Tail(up[r])) \subseteq CallsIn(up[r]) /\ n \notin CallsIn(Tail(up[r]))
    BY <1>1, <1>2, <1>3, CallsOfTail, RisingHead
  <2>2. \A s \in Remotes \ {r} : n \notin CallsIn(up[s])
    BY <1>0, <1>3 DEF UpInv
  <2>3. \A s \in Remotes : up'[s] = IF s = r THEN Tail(up[r]) ELSE up[s]
    BY <1>0, <1>1 DEF Types
  <2> QED BY <2>1, <2>2, <2>3
<1>6. /\ \A c \in Clients : Once(ents'[c])
      /\ ReflectedIn(ents'[Host]) \subseteq ReflectedIn(ents[Host]) \cup {n}
      /\ \A c \in Clients \ {Host} : ents'[c] = ents[c]
  <2>1. CASE UNCHANGED <<ents, executed>>
    BY <1>0, <2>1
  <2>2. CASE Run(Host, issued[n], n)
    <3>1. Replicas(Len(issued), DOMAIN owner) /\ n \notin ReflectedIn(ents[Host])
      BY <1>0, <1>4, TypesFacts, HostAndRemotes
    <3> QED BY <1>0, <2>2, <3>1, HostAndRemotes, RunOnce
  <2> QED BY <1>1, <2>1, <2>2
<1>7. ASSUME NEW d \in Remotes
      PROVE  /\ SnapshotsIn(down'[d]) \subseteq SnapshotsIn(down[d])
             /\ Fresh(down'[d])
             /\ CallsIn(down'[d]) \subseteq CallsIn(down[d]) \cup {n}
             /\ n \in CallsIn(down'[d]) => n \in CallsIn(down[d]) \/ d # r
  <2>1. Fresh(down[d])
    BY <1>0 DEF DownOnce
  <2>2. SnapshotsIn(down'[d]) \subseteq SnapshotsIn(down[d]) /\ Fresh(down'[d])
    BY <1>0, <1>1, <1>3, <1>4, <2>1, SentOnce
  <2>3. \/ down'[d] = down[d]
        \/ d \in Receivers(issued[n]) /\ CallsIn(down'[d]) = CallsIn(down[d]) \cup {n}
    BY <1>0, <1>1, <1>3, CallSent
  <2>4. d \in Receivers(issued[n]) => d # r
    <3>1. issued[n].ent \in DOMAIN owner => owner[issued[n].ent] \in Clients
      BY <1>0, TypesFacts
    <3> QED BY <1>0, <1>3, <3>1, ReceiversInAudience
  <2> QED BY <2>2, <2>3, <2>4
<1>8. UpOnce'
  <2> SUFFICES ASSUME NEW s \in Remotes, NEW m \in CallsIn(up'[s])
               PROVE  /\ \A c \in Clients \ {s} : m \notin ReflectedIn(ents'[c])
                      /\ \A d \in Remotes : \A x \in SnapshotsIn(down'[d]) : m \notin Elements(x)
    BY DEF UpOnce
  <2>1. m # n /\ m \in CallsIn(up[s])
    BY <1>5
  <2>2. /\ \A c \in Clients \ {s} : m \notin ReflectedIn(ents[c])
        /\ \A d \in Remotes : \A x \in SnapshotsIn(down[d]) : m \notin Elements(x)
    BY <1>0, <2>1 DEF UpOnce
  <2>3. \A c \in Clients \ {s} : m \notin ReflectedIn(ents'[c])
    BY <1>6, <2>1, <2>2
  <2> QED BY <1>7, <2>2, <2>3
<1>9. DownOnce'
  <2> SUFFICES ASSUME NEW d \in Remotes
               PROVE  /\ \A m \in CallsIn(down'[d]) : m \notin ReflectedIn(ents'[d])
                      /\ \A s \in SnapshotsIn(down'[d]) : NoRepeat(s)
                      /\ Fresh(down'[d])
    BY DEF DownOnce
  <2>1. ents'[d] = ents[d] /\ d \in Clients
    BY <1>6, HostAndRemotes
  <2>2. \A m \in CallsIn(down[d]) : m \notin ReflectedIn(ents[d])
    BY <1>0 DEF DownOnce
  <2>3. d # r => n \notin ReflectedIn(ents[d])
    BY <1>4, <2>1
  <2>4. \A s \in SnapshotsIn(down[d]) : NoRepeat(s)
    BY <1>0 DEF DownOnce
  <2>5. \A m \in CallsIn(down'[d]) : m \notin ReflectedIn(ents[d])
    BY <1>7, <2>2, <2>3
  <2> QED BY <1>7, <2>1, <2>4, <2>5
<1> QED BY <1>6, <1>8, <1>9 DEF OnceInv

LEMMA RemoteRPCOnce ==
  ASSUME IInv, OnceInv, NEW d \in Remotes, RemoteRPC(d)
  PROVE  OnceInv'
<1>0. /\ Types /\ UpInv /\ DownInv /\ UpOnce /\ DownOnce /\ Len(issued) \in Nat /\ d \in Clients
      /\ \A c \in Clients : Once(ents[c])
  BY TypesFacts, HostAndRemotes DEF IInv, OnceInv
<1>1. PICK n \in 1..Len(issued) : Receiving(d, RPC(n)) /\ Run(d, issued[n], n)
  BY DEF RemoteRPC
<1>2. /\ down[d] # <<>> /\ Head(down[d]) = RPC(n) /\ UNCHANGED up
      /\ \A s \in Remotes : down'[s] = IF s = d THEN Tail(down[d]) ELSE down[s]
  BY <1>0, <1>1 DEF Receiving, Types
<1>3. down[d] \in Seq(Downs(Len(issued), DOMAIN owner)) /\ Rising(issued, down[d])
  BY <1>0, TypesFacts DEF DownInv
<1>4. n \in CallsIn(down[d]) /\ n \notin ReflectedIn(ents[d]) /\ n \in Nat
  <2>1. n \in CallsIn(down[d])
    BY <1>2, <1>3, HeadIsCalled
  <2> QED BY <1>0, <2>1 DEF DownOnce
<1>5. CallsIn(Tail(down[d])) \subseteq CallsIn(down[d]) /\ n \notin CallsIn(Tail(down[d]))
  BY <1>2, <1>3, <1>4, CallsOfTail, RisingHead
<1>6. \A s \in Remotes : n \notin CallsIn(up[s])
  <2> SUFFICES ASSUME NEW s \in Remotes, n \in CallsIn(up[s]) PROVE FALSE
    OBVIOUS
  <2>1. Before(issued, CallsIn(down[d]), n)
    BY <1>0 DEF UpInv
  <2>2. n < n
    BY <1>4, <2>1 DEF Before
  <2> QED BY <1>4, <2>2
<1>7. /\ \A c \in Clients : Once(ents'[c])
      /\ ReflectedIn(ents'[d]) \subseteq ReflectedIn(ents[d]) \cup {n}
      /\ \A c \in Clients \ {d} : ents'[c] = ents[c]
  <2>1. Replicas(Len(issued), DOMAIN owner)
    BY <1>0, TypesFacts
  <2> QED BY <1>0, <1>1, <1>4, <2>1, RunOnce
<1>8. \A s \in Remotes : SnapshotsIn(down'[s]) \subseteq SnapshotsIn(down[s]) /\ Fresh(down'[s])
  BY <1>1, TakenOnce
<1>9. UpOnce'
  <2> SUFFICES ASSUME NEW s \in Remotes, NEW m \in CallsIn(up[s])
               PROVE  /\ \A c \in Clients \ {s} : m \notin ReflectedIn(ents'[c])
                      /\ \A t \in Remotes : \A x \in SnapshotsIn(down'[t]) : m \notin Elements(x)
    BY <1>2 DEF UpOnce
  <2>1. m # n
    BY <1>6
  <2>2. /\ \A c \in Clients \ {s} : m \notin ReflectedIn(ents[c])
        /\ \A t \in Remotes : \A x \in SnapshotsIn(down[t]) : m \notin Elements(x)
    BY <1>0 DEF UpOnce
  <2>3. \A c \in Clients \ {s} : m \notin ReflectedIn(ents'[c])
    BY <1>7, <2>1, <2>2
  <2> QED BY <1>8, <2>2, <2>3
<1>10. DownOnce'
  <2> SUFFICES ASSUME NEW s \in Remotes
               PROVE  /\ \A m \in CallsIn(down'[s]) : m \notin ReflectedIn(ents'[s])
                      /\ \A x \in SnapshotsIn(down'[s]) : NoRepeat(x)
                      /\ Fresh(down'[s])
    BY DEF DownOnce
  <2>1. \A m \in CallsIn(down[s]) : m \notin ReflectedIn(ents[s])
    BY <1>0 DEF DownOnce
  <2>2. \A x \in SnapshotsIn(down[s]) : NoRepeat(x)
    BY <1>0 DEF DownOnce
  <2>3. CASE s = d
    <3>1. \A m \in CallsIn(Tail(down[d])) : m # n /\ m \in CallsIn(down[s])
      BY <1>5, <2>3
    <3>2. \A m \in CallsIn(down'[s]) : m # n /\ m \notin ReflectedIn(ents[s])
      BY <1>2, <2>1, <2>3, <3>1
    <3> QED BY <1>7, <1>8, <2>2, <2>3, <3>2
  <2>4. CASE s # d
    <3>1. down'[s] = down[s] /\ ents'[s] = ents[s]
      BY <1>2, <1>7, <2>4, HostAndRemotes
    <3> QED BY <1>8, <2>1, <2>2, <3>1
  <2> QED BY <2>3, <2>4
<1> QED BY <1>7, <1>9, <1>10 DEF OnceInv

LEMMA InitOnce == ASSUME Init PROVE OnceInv
<1>1. /\ ents = [c \in Clients |-> <<>>]
      /\ up = [r \in Remotes |-> <<>>] /\ down = [r \in Remotes |-> <<>>]
  BY DEF Init
<1>2. CallsIn(<<>>) = {} /\ SnapshotsIn(<<>>) = {} /\ Fresh(<<>>)
  BY DEF CallsIn, SnapshotsIn, Fresh
<1> QED BY <1>1, <1>2, EmptyOnce DEF OnceInv, UpOnce, DownOnce

LEMMA StepOnce ==
  ASSUME IInv, OnceInv, [Next]_vars
  PROVE  OnceInv'
<1>1. CASE HostCall
  BY <1>1, HostCallOnce
<1>2. ASSUME NEW e \in Entities, Spawn(e) \/ Delete(e)
      PROVE  OnceInv'
  BY <1>2, SpawnOnce, DeleteOnce
<1>3. ASSUME NEW c \in Clients, Sweep(c)
      PROVE  OnceInv'
  BY <1>3, SweepOnce
<1>4. ASSUME NEW r \in Remotes, Join(r) \/ Leave(r) \/ RemoteCall(r) \/ HostHandle(r)
      PROVE  OnceInv'
  BY <1>4, JoinOnce, LeaveOnce, RemoteCallOnce, HandleConnectedOnce, HandleRPCOnce DEF HostHandle
<1>5. ASSUME NEW r \in Remotes, RemoteHandle(r)
      PROVE  OnceInv'
  BY <1>5, RemoteCreateOnce, RemoteSnapshotOnce, RemoteRPCOnce DEF RemoteHandle
<1>6. CASE UNCHANGED vars
  BY <1>6 DEF vars, OnceInv, UpOnce, DownOnce
<1> QED BY <1>1, <1>2, <1>3, <1>4, <1>5, <1>6 DEF Next

LEMMA DistinctElements ==
  ASSUME NEW S, NEW s \in Seq(S), NoRepeat(s)
  PROVE  Cardinality(Elements(s)) = Len(s)
<1>1. Len(s) \in Nat /\ DOMAIN s = 1..Len(s)
  OBVIOUS
<1>2. s \in [1..Len(s) -> Elements(s)]
  BY <1>1 DEF Elements
<1>3. s \in Bijection(1..Len(s), Elements(s))
  BY <1>1, <1>2 DEF NoRepeat, Elements, Bijection, Injection, Surjection, IsInjective
<1>4. IsFiniteSet(1..Len(s)) /\ Cardinality(1..Len(s)) = Len(s)
  BY <1>1, FS_Interval
<1>5. ExistsBijection(1..Len(s), Elements(s))
  BY <1>3 DEF ExistsBijection
<1> QED BY <1>4, <1>5, FS_Bijection

(* No replica counts a call twice, for any number of clients, entities and *)
(* calls: a call made while a client is joining reaches it in the snapshot *)
(* or as a packet and never both ways, because deserializeOnConnection     *)
(* replaces the state and what is sent after a snapshot is not in it.      *)
THEOREM CountedOnceAlways == Spec => []CountedOnce
<1>1. Init => OnceInv
  BY InitOnce
<1>2. IInv /\ OnceInv /\ [Next]_vars => OnceInv'
  BY StepOnce
<1>3. IInv /\ OnceInv => CountedOnce
  <2> SUFFICES ASSUME IInv, OnceInv, NEW c \in Clients, NEW e \in DOMAIN ents[c]
               PROVE  Cardinality(Reflected(c, e)) = Len(ents[c][e].ran)
    BY DEF CountedOnce
  <2>1. ents[c][e].ran \in Seq(1..Len(issued))
    BY TypesFacts DEF IInv, Replica
  <2>2. NoRepeat(ents[c][e].ran)
    BY DEF OnceInv, Once
  <2>3. Reflected(c, e) = Elements(ents[c][e].ran)
    BY DEF Reflected, Elements
  <2> QED BY <2>1, <2>2, <2>3, DistinctElements
<1> QED BY <1>1, <1>2, <1>3, Invariance, PTL DEF Spec

-----------------------------------------------------------------------------
(* ScoresAgree.  Later(r, e) is what r's replica of e reflects of the      *)
(* owner's calls S once everything that is under way to r has arrived; P   *)
(* are those of S that are on e itself.                                    *)

Sent ==
  [kind : {"create", "delete"}, ent : Entities]
    \cup [kind : {"snapshot"}, ent : Entities, ran : Seq(Nat)]
    \cup [kind : {"rpc"}, call : Nat]

State == [held : BOOLEAN, ran : Seq(Nat)]

Held(s) == [held |-> TRUE, ran |-> s]

Absent == [held |-> FALSE, ran |-> <<>>]

Arrived(S, P, e, x, m) ==
  IF m.kind = "create" /\ m.ent = e THEN Held(<<>>)
  ELSE IF m.kind = "snapshot" /\ m.ent = e THEN Held(Filter(m.ran, S))
  ELSE IF m.kind = "rpc" /\ m.call \in P /\ x.held THEN Held(Append(x.ran, m.call))
  ELSE x

Arrives(S, P, e) == [p \in State \X Sent |-> Arrived(S, P, e, p[1], p[2])]

After(S, P, e, x, q) == Accumulated(Arrives(S, P, e), x, q)

CallsOn(e) == {n \in OwnersCalls(e) : issued[n].ent = e}

Now(c, e) == IF e \in DOMAIN ents[c] THEN Held(FromOwner(c, e)) ELSE Absent

Later(r, e) == After(OwnersCalls(e), CallsOn(e), e, Now(r, e), down[r])

(* Of the entities whose state the snapshot carries.                       *)
Concerned(r, e) ==
  /\ link[r] = "in"
  /\ e \in DOMAIN ents[Host]
  /\ e \in Carried
  /\ e \notin Lacks[r]
  /\ owner[e] # r

Agrees(r, e) == Concerned(r, e) /\ Later(r, e).held => Later(r, e).ran = FromOwner(Host, e)

Agreeing == \A r \in Remotes, e \in Entities : Agrees(r, e)

LEMMA SentKinds ==
  ASSUME NEW m \in Sent
  PROVE  /\ m.kind = "snapshot" => m.ran \in Seq(Nat)
         /\ m.kind = "rpc" => m.call \in Nat
  BY DEF Sent

LEMMA DownsAreSent ==
  ASSUME NEW k \in Nat, NEW w, w \subseteq Entities
  PROVE  Downs(k, w) \subseteq Sent
<1>1. 1..k \subseteq Nat
  OBVIOUS
<1>2. Seq(1..k) \subseteq Seq(Nat)
  BY <1>1, SeqGrows
<1> QED BY <1>1, <1>2 DEF Downs, Sent

LEMMA HeldType == ASSUME NEW s \in Seq(Nat) PROVE Held(s) \in State /\ Held(s).held /\ Held(s).ran = s
  BY DEF Held, State

LEMMA AbsentType == Absent \in State /\ ~Absent.held
  BY DEF Absent, State

LEMMA ArrivedType ==
  ASSUME NEW S, NEW P, NEW e, NEW x \in State, NEW m \in Sent
  PROVE  Arrived(S, P, e, x, m) \in State
<1>1. <<>> \in Seq(Nat)
  OBVIOUS
<1>2. m.kind = "snapshot" => Filter(m.ran, S) \in Seq(Nat)
  BY SentKinds, FilterType
<1>3. m.kind = "rpc" => Append(x.ran, m.call) \in Seq(Nat)
  <2>1. x.ran \in Seq(Nat)
    BY DEF State
  <2> QED BY <2>1, SentKinds
<1> QED BY <1>1, <1>2, <1>3, HeldType DEF Arrived

LEMMA ArrivesAt ==
  ASSUME NEW S, NEW P, NEW e, NEW x \in State, NEW m \in Sent
  PROVE  Arrives(S, P, e)[<<x, m>>] = Arrived(S, P, e, x, m)
  BY DEF Arrives

LEMMA AfterNil ==
  ASSUME NEW S, NEW P, NEW e, NEW x
  PROVE  After(S, P, e, x, <<>>) = x
  BY AccumulatedNil DEF After

LEMMA AfterOne ==
  ASSUME NEW S, NEW P, NEW e, NEW x \in State, NEW m \in Sent
  PROVE  After(S, P, e, x, <<m>>) = Arrived(S, P, e, x, m)
<1> DEFINE f == Arrives(S, P, e)
<1>1. f[<<x, m>>] = Arrived(S, P, e, x, m)
  BY ArrivesAt
<1> HIDE DEF f
<1>2. Accumulated(f, x, <<m>>) = f[<<x, m>>]
  BY AccumulatedOne
<1> QED BY <1>1, <1>2 DEF After, f

LEMMA AfterHead ==
  ASSUME NEW S, NEW P, NEW e, NEW x \in State, NEW q \in Seq(Sent), q # <<>>
  PROVE  After(S, P, e, x, q) = After(S, P, e, Arrived(S, P, e, x, Head(q)), Tail(q))
<1> DEFINE f == Arrives(S, P, e)
           m == Head(q)
<1>0. m \in Sent
  OBVIOUS
<1>1. f[<<x, m>>] = Arrived(S, P, e, x, m)
  BY <1>0, ArrivesAt
<1> HIDE DEF f
<1>2. Accumulated(f, f[<<x, Head(q)>>], Tail(q)) = Accumulated(f, x, q)
  BY AccumulatedHead
<1> QED BY <1>1, <1>2 DEF After, f

LEMMA AfterConcat ==
  ASSUME NEW S, NEW P, NEW e, NEW x, NEW q \in Seq(Sent), NEW p \in Seq(Sent)
  PROVE  After(S, P, e, x, q \o p) = After(S, P, e, After(S, P, e, x, q), p)
<1> DEFINE f == Arrives(S, P, e)
<1> HIDE DEF f
<1>1. Accumulated(f, x, q \o p) = Accumulated(f, Accumulated(f, x, q), p)
  BY AccumulatedConcat
<1> QED BY <1>1 DEF After, f

LEMMA AfterKept ==
  ASSUME NEW S, NEW P, NEW e, NEW T, NEW G, T \subseteq Sent, G \subseteq State,
         \A a \in G, m \in T : Arrived(S, P, e, a, m) \in G,
         NEW x \in G, NEW q \in Seq(T)
  PROVE  After(S, P, e, x, q) \in G
<1> DEFINE f == Arrives(S, P, e)
           R == {p \in G \X G : p[1] = p[2]}
<1>1. <<x, x>> \in R
  OBVIOUS
<1>2. ASSUME NEW a, NEW b, NEW m \in T, <<a, b>> \in R
      PROVE  <<f[<<a, m>>], f[<<b, m>>]>> \in R
  <2>1. a \in G /\ a = b
    BY <1>2
  <2>2. f[<<a, m>>] = Arrived(S, P, e, a, m)
    BY <2>1, ArrivesAt
  <2>3. f[<<a, m>>] \in G
    BY <2>1, <2>2
  <2> HIDE DEF f
  <2> QED BY <2>1, <2>3
<1> HIDE DEF f, R
<1>3. <<Accumulated(f, x, q), Accumulated(f, x, q)>> \in R
  BY <1>1, <1>2, AccumulatedRelated
<1> QED BY <1>3 DEF R, After, f

LEMMA AfterType ==
  ASSUME NEW S, NEW P, NEW e, NEW x \in State, NEW q \in Seq(Sent)
  PROVE  After(S, P, e, x, q) \in State
  BY ArrivedType, AfterKept

(* More calls make no difference to packets that do not mention them.      *)
LEMMA AfterSame ==
  ASSUME NEW k \in Nat, NEW S, NEW P, NEW S1, NEW P1, NEW e, NEW x \in State,
         \A n \in 1..k : (n \in S <=> n \in S1) /\ (n \in P <=> n \in P1),
         NEW q \in Seq(Downs(k, Entities))
  PROVE  After(S1, P1, e, x, q) = After(S, P, e, x, q)
<1> DEFINE f == Arrives(S, P, e)
           g == Arrives(S1, P1, e)
           R == {p \in State \X State : p[1] = p[2]}
           T == Downs(k, Entities)
<1>0. T \subseteq Sent
  BY DownsAreSent
<1>1. <<x, x>> \in R
  OBVIOUS
<1>2. ASSUME NEW a, NEW b, NEW m \in T, <<a, b>> \in R
      PROVE  <<f[<<a, m>>], g[<<b, m>>]>> \in R
  <2>1. a \in State /\ a = b /\ m \in Sent
    BY <1>0, <1>2
  <2>2. f[<<a, m>>] = Arrived(S, P, e, a, m) /\ g[<<a, m>>] = Arrived(S1, P1, e, a, m)
    BY <2>1, ArrivesAt
  <2>3. Arrived(S, P, e, a, m) \in State
    BY <2>1, ArrivedType
  <2>4. m.kind = "snapshot" => Filter(m.ran, S) = Filter(m.ran, S1)
    <3> SUFFICES ASSUME m.kind = "snapshot" PROVE Filter(m.ran, S) = Filter(m.ran, S1)
      OBVIOUS
    <3>1. m.ran \in Seq(1..k)
      BY DownKinds
    <3>2. \A i \in 1..Len(m.ran) : m.ran[i] \in 1..k
      BY <3>1
    <3>3. \A i \in 1..Len(m.ran) : m.ran[i] \in S <=> m.ran[i] \in S1
      BY <3>2
    <3> QED BY <3>1, <3>3, FilterSame
  <2>5. m.kind = "rpc" => (m.call \in P <=> m.call \in P1)
    BY DownKinds
  <2>6. Arrived(S, P, e, a, m) = Arrived(S1, P1, e, a, m)
    BY <2>4, <2>5 DEF Arrived
  <2> HIDE DEF f, g
  <2> QED BY <2>1, <2>2, <2>3, <2>6
<1> HIDE DEF f, g, R, T
<1>3. <<Accumulated(f, x, q), Accumulated(g, x, q)>> \in R
  BY <1>1, <1>2, AccumulatedRelated DEF T
<1> QED BY <1>3 DEF R, After, f, g

(* Nor does an erased entity to what agrees once it is built again.        *)
LEMMA AfterSwept ==
  ASSUME NEW S, NEW P, NEW e, NEW x \in State, NEW y \in State, ~x.held \/ x = y,
         NEW q \in Seq(Sent)
  PROVE  LET a == After(S, P, e, x, q) IN ~a.held \/ a = After(S, P, e, y, q)
<1> DEFINE f == Arrives(S, P, e)
           R == {p \in State \X State : ~p[1].held \/ p[1] = p[2]}
<1>1. <<x, y>> \in R
  OBVIOUS
<1>2. ASSUME NEW a, NEW b, NEW m \in Sent, <<a, b>> \in R
      PROVE  <<f[<<a, m>>], f[<<b, m>>]>> \in R
  <2>1. a \in State /\ b \in State /\ (~a.held \/ a = b)
    BY <1>2
  <2>2. f[<<a, m>>] = Arrived(S, P, e, a, m) /\ f[<<b, m>>] = Arrived(S, P, e, b, m)
    BY <2>1, ArrivesAt
  <2>3. Arrived(S, P, e, a, m) \in State /\ Arrived(S, P, e, b, m) \in State
    BY <2>1, ArrivedType
  <2>4. ~Arrived(S, P, e, a, m).held \/ Arrived(S, P, e, a, m) = Arrived(S, P, e, b, m)
    BY <2>1 DEF Arrived
  <2> HIDE DEF f
  <2> QED BY <2>2, <2>3, <2>4
<1> HIDE DEF f, R
<1>3. <<Accumulated(f, x, q), Accumulated(f, y, q)>> \in R
  BY <1>1, <1>2, AccumulatedRelated
<1> QED BY <1>3 DEF R, After, f

(* A call that is sent where it counts, and only there.                    *)
LEMMA AfterCall ==
  ASSUME NEW S, NEW P, NEW e, NEW x \in State, NEW n \in Nat, NEW p, NEW h, NEW h1,
         x.held => x.ran = h,
         p = <<>> \/ p = <<RPC(n)>>,
         n \in P => p = <<RPC(n)>> /\ h1 = Append(h, n),
         n \notin P => h1 = h
  PROVE  After(S, P, e, x, p).held => After(S, P, e, x, p).ran = h1
<1>1. RPC(n) \in Sent /\ RPC(n).kind = "rpc" /\ RPC(n).call = n
  BY DEF RPC, Sent
<1>2. Arrived(S, P, e, x, RPC(n)) = IF n \in P /\ x.held THEN Held(Append(x.ran, n)) ELSE x
  BY <1>1 DEF Arrived
<1>3. CASE p = <<>>
  <2>1. After(S, P, e, x, p) = x /\ n \notin P
    BY <1>3, AfterNil
  <2> QED BY <2>1
<1>4. CASE p = <<RPC(n)>>
  <2>1. After(S, P, e, x, p) = Arrived(S, P, e, x, RPC(n))
    BY <1>1, <1>4, AfterOne
  <2>2. CASE n \in P /\ x.held
    BY <1>2, <2>1, <2>2 DEF Held
  <2>3. CASE ~(n \in P /\ x.held)
    <3>1. After(S, P, e, x, p) = x
      BY <1>2, <2>1, <2>3
    <3> QED BY <2>3, <3>1
  <2> QED BY <2>2, <2>3
<1> QED BY <1>3, <1>4

(* What the types say of it.                                               *)
LEMMA RanTyped ==
  ASSUME Types, NEW c \in Clients, NEW e \in DOMAIN ents[c]
  PROVE  ents[c][e].ran \in Seq(1..Len(issued)) /\ ents[c][e].ran \in Seq(Nat)
<1>1. Replica(ents[c], Len(issued), DOMAIN owner)
  BY TypesFacts
<1>2. ents[c][e].ran \in Seq(1..Len(issued))
  BY <1>1 DEF Replica
<1>3. 1..Len(issued) \subseteq Nat
  BY TypesFacts
<1> QED BY <1>2, <1>3, SeqGrows

LEMMA NowType ==
  ASSUME Types, NEW c \in Clients, NEW e
  PROVE  /\ Now(c, e) \in State
         /\ Now(c, e).held <=> e \in DOMAIN ents[c]
         /\ e \in DOMAIN ents[c] => Now(c, e) = Held(FromOwner(c, e))
<1>1. e \in DOMAIN ents[c] => FromOwner(c, e) \in Seq(Nat)
  BY RanTyped, FilterType DEF FromOwner
<1>2. e \in DOMAIN ents[c] => Now(c, e) = Held(FromOwner(c, e))
  BY DEF Now
<1>3. e \notin DOMAIN ents[c] => Now(c, e) = Absent
  BY DEF Now
<1> QED BY <1>1, <1>2, <1>3, HeldType, AbsentType

LEMMA DownTyped ==
  ASSUME Types, NEW r \in Remotes
  PROVE  down[r] \in Seq(Downs(Len(issued), Entities)) /\ down[r] \in Seq(Sent)
<1> DEFINE k == Len(issued)
           w == DOMAIN owner
<1>1. k \in Nat /\ k <= k /\ w \subseteq Entities /\ down[r] \in Seq(Downs(k, w))
  BY TypesFacts DEF Types
<1> HIDE DEF k, w
<1>2. Downs(k, w) \subseteq Downs(k, Entities)
  BY <1>1, PacketsGrow
<1>3. Downs(k, Entities) \subseteq Sent
  BY <1>1, DownsAreSent
<1>4. down[r] \in Seq(Downs(k, Entities))
  BY <1>1, <1>2, SeqGrows
<1>5. down[r] \in Seq(Sent)
  BY <1>3, <1>4, SeqGrows
<1> QED BY <1>4, <1>5 DEF k

LEMMA LaterType ==
  ASSUME Types, NEW r \in Remotes, NEW e
  PROVE  Later(r, e) \in State
<1>1. r \in Clients
  BY HostAndRemotes
<1>2. Now(r, e) \in State /\ down[r] \in Seq(Sent)
  BY <1>1, NowType, DownTyped
<1> QED BY <1>2, AfterType DEF Later

(* The pieces of a step.                                                   *)
LEMMA OwnersCallsKept ==
  ASSUME NEW e, issued' = issued, owner'[e] = owner[e]
  PROVE  OwnersCalls(e)' = OwnersCalls(e) /\ CallsOn(e)' = CallsOn(e)
<1>1. OwnersCalls(e)' = OwnersCalls(e)
  <2>1. \A n : n \in OwnersCalls(e)' <=> n \in OwnersCalls(e)
    BY DEF OwnersCalls
  <2> QED BY <2>1
<1>2. CallsOn(e)' = CallsOn(e)
  <2>1. \A n : n \in CallsOn(e)' <=> n \in CallsOn(e)
    BY <1>1 DEF CallsOn
  <2> QED BY <2>1
<1> QED BY <1>1, <1>2

LEMMA FromKept ==
  ASSUME NEW c, NEW e, issued' = issued, owner'[e] = owner[e], ents'[c][e].ran = ents[c][e].ran
  PROVE  FromOwner(c, e)' = FromOwner(c, e)
<1>1. OwnersCalls(e)' = OwnersCalls(e)
  BY OwnersCallsKept
<1> QED BY <1>1 DEF FromOwner

LEMMA NowKept ==
  ASSUME NEW c, NEW e, issued' = issued, owner'[e] = owner[e], ents'[c] = ents[c]
  PROVE  Now(c, e)' = Now(c, e)
<1>1. FromOwner(c, e)' = FromOwner(c, e)
  BY FromKept
<1> QED BY <1>1 DEF Now

LEMMA LaterSent ==
  ASSUME Types, NEW r \in Remotes, NEW e, issued' = issued, owner'[e] = owner[e], ents'[r] = ents[r],
         NEW p \in Seq(Sent), down'[r] = down[r] \o p
  PROVE  Later(r, e)' = After(OwnersCalls(e), CallsOn(e), e, Later(r, e), p)
<1>1. OwnersCalls(e)' = OwnersCalls(e) /\ CallsOn(e)' = CallsOn(e) /\ Now(r, e)' = Now(r, e)
  BY OwnersCallsKept, NowKept
<1>2. down[r] \in Seq(Sent)
  BY DownTyped
<1>3. Later(r, e)' = After(OwnersCalls(e), CallsOn(e), e, Now(r, e), down[r] \o p)
  BY <1>1 DEF Later
<1>4. After(OwnersCalls(e), CallsOn(e), e, Now(r, e), down[r] \o p)
        = After(OwnersCalls(e), CallsOn(e), e, Later(r, e), p)
  BY <1>2, AfterConcat DEF Later
<1> QED BY <1>3, <1>4

LEMMA LaterKept ==
  ASSUME NEW r, NEW e, issued' = issued, owner'[e] = owner[e], ents'[r] = ents[r],
         down'[r] = down[r]
  PROVE  Later(r, e)' = Later(r, e)
<1>1. OwnersCalls(e)' = OwnersCalls(e) /\ CallsOn(e)' = CallsOn(e) /\ Now(r, e)' = Now(r, e)
  BY OwnersCallsKept, NowKept
<1> QED BY <1>1 DEF Later

LEMMA KeptAgrees ==
  ASSUME Agreeing, NEW r \in Remotes, NEW e \in Entities,
         Concerned(r, e)' => /\ Concerned(r, e)
                             /\ Later(r, e)' = Later(r, e)
                             /\ FromOwner(Host, e)' = FromOwner(Host, e)
  PROVE  Agrees(r, e)'
<1>1. Agrees(r, e)
  BY DEF Agreeing
<1> QED BY <1>1 DEF Agrees


(* Every step keeps it.                                                    *)
LEMMA JoinAgrees ==
  ASSUME Types, Agreeing, NEW j \in Remotes, Join(j), NEW r \in Remotes, NEW e \in Entities
  PROVE  Agrees(r, e)'
<1>1. UNCHANGED <<ents, owner, down, issued>> /\ link[j] = "out" /\ link' = [link EXCEPT ![j] = "in"]
  BY DEF Join
<1>2. Later(r, e)' = Later(r, e) /\ FromOwner(Host, e)' = FromOwner(Host, e)
  BY <1>1, LaterKept, FromKept
<1>3. CASE r # j
  <2>1. Concerned(r, e)' => Concerned(r, e)
    BY <1>1, <1>3 DEF Concerned, Types
  <2> QED BY <1>2, <2>1, KeptAgrees
<1>4. CASE r = j
  <2>1. down[r] = <<>> /\ ents[r] = <<>>
    BY <1>1, <1>4, TypesFacts DEF Replicas
  <2>2. Later(r, e) = Now(r, e)
    BY <2>1, AfterNil DEF Later
  <2>3. ~Now(r, e).held
    BY <2>1, NowType, HostAndRemotes
  <2> QED BY <1>2, <2>2, <2>3 DEF Agrees
<1> QED BY <1>3, <1>4

LEMMA LeaveAgrees ==
  ASSUME Types, Agreeing, NEW l \in Remotes, Leave(l), NEW r \in Remotes, NEW e \in Entities
  PROVE  Agrees(r, e)'
<1>1. /\ UNCHANGED <<owner, issued>>
      /\ link' = [link EXCEPT ![l] = "gone"]
      /\ down' = [down EXCEPT ![l] = <<>>]
      /\ ents' = [ents EXCEPT ![l] = <<>>]
  BY DEF Leave
<1> SUFFICES ASSUME Concerned(r, e)' PROVE Agrees(r, e)'
  BY DEF Agrees
<1>2. r # l
  BY <1>1 DEF Concerned, Types
<1>3. link'[r] = link[r] /\ down'[r] = down[r] /\ ents'[r] = ents[r] /\ ents'[Host] = ents[Host]
  BY <1>1, <1>2, HostAndRemotes DEF Types, Replicas
<1>4. Concerned(r, e)
  BY <1>1, <1>3 DEF Concerned
<1>5. Later(r, e)' = Later(r, e) /\ FromOwner(Host, e)' = FromOwner(Host, e)
  BY <1>1, <1>3, LaterKept, FromKept
<1> QED BY <1>4, <1>5, KeptAgrees

LEMMA SpawnAgrees ==
  ASSUME Types, Agreeing, NEW n \in Entities, Spawn(n), NEW r \in Remotes, NEW e \in Entities
  PROVE  Agrees(r, e)'
<1>1. /\ UNCHANGED <<link, issued>>
      /\ Send(connected, <<Creation(n)>>)
      /\ ents' = [ents EXCEPT ![Host] = Put(@, n, <<>>)]
      /\ e # n => (e \in DOMAIN owner' <=> e \in DOMAIN owner) /\ (e \in DOMAIN owner => owner'[e] = owner[e])
  BY DEF Spawn
<1> SUFFICES ASSUME Concerned(r, e)' PROVE Agrees(r, e)'
  BY DEF Agrees
<1>2. r \in connected /\ ents'[r] = ents[r] /\ ents'[Host] = Put(ents[Host], n, <<>>)
  BY <1>1, HostAndRemotes DEF Concerned, connected, Types, Replicas
<1>3. Creation(n) \in Sent /\ Creation(n).kind = "create" /\ Creation(n).ent = n
  BY DEF Creation, Sent
<1>4. down'[r] = down[r] \o <<Creation(n)>>
  BY <1>1, <1>2 DEF Send
<1>5. CASE e # n
  <2>1. /\ (e \in DOMAIN ents'[Host] <=> e \in DOMAIN ents[Host])
        /\ (e \in DOMAIN ents[Host] => ents'[Host][e] = ents[Host][e])
    BY <1>2, <1>5 DEF Put
  <2>2. e \in DOMAIN ents[Host] /\ e \in DOMAIN owner
    BY <2>1, TypesFacts, HostAndRemotes DEF Concerned, Replica
  <2>3. owner'[e] = owner[e] /\ ents'[Host][e].ran = ents[Host][e].ran
    BY <1>1, <1>5, <2>1, <2>2
  <2>4. Concerned(r, e)
    BY <1>1, <2>2, <2>3 DEF Concerned
  <2>5. FromOwner(Host, e)' = FromOwner(Host, e)
    BY <1>1, <2>3, FromKept
  <2>6. Later(r, e)' = After(OwnersCalls(e), CallsOn(e), e, Later(r, e), <<Creation(n)>>)
    <3>1. <<Creation(n)>> \in Seq(Sent)
      BY <1>3
    <3> QED BY <1>1, <1>2, <1>4, <2>3, <3>1, LaterSent
  <2>7. Later(r, e)' = Arrived(OwnersCalls(e), CallsOn(e), e, Later(r, e), Creation(n))
    BY <1>3, <2>6, LaterType, AfterOne
  <2>8. Later(r, e)' = Later(r, e)
    BY <1>3, <1>5, <2>7 DEF Arrived
  <2> QED BY <2>4, <2>5, <2>8, KeptAgrees
<1>6. CASE e = n
  <2> DEFINE S == OwnersCalls(e)'
             P == CallsOn(e)'
             x == Now(r, e)'
             m == Creation(n)
  <2>1. Later(r, e)' = After(S, P, e, x, down[r] \o <<m>>)
    BY <1>4 DEF Later
  <2>2. x \in State
    <3>1. e \notin DOMAIN owner /\ e \notin DOMAIN ents[r]
      BY <1>6, TypesFacts, HostAndRemotes DEF Spawn, Replica
    <3>2. x = Absent
      BY <1>2, <3>1 DEF Now
    <3> HIDE DEF x
    <3> QED BY <3>2, AbsentType
  <2>3. down[r] \in Seq(Sent) /\ <<m>> \in Seq(Sent) /\ m \in Sent
    BY <1>3, DownTyped
  <2> DEFINE p == <<m>>
  <2> HIDE DEF S, P, x, m
  <2>4. After(S, P, e, x, down[r]) \in State
    BY <2>2, <2>3, AfterType
  <2>5. Later(r, e)' = After(S, P, e, After(S, P, e, x, down[r]), <<m>>)
    <3>1. p \in Seq(Sent) /\ Later(r, e)' = After(S, P, e, x, down[r] \o p)
      BY <2>1, <2>3
    <3> HIDE DEF p
    <3>2. After(S, P, e, x, down[r] \o p) = After(S, P, e, After(S, P, e, x, down[r]), p)
      BY <2>3, <3>1, AfterConcat
    <3> QED BY <3>1, <3>2 DEF p
  <2>6. Later(r, e)' = Arrived(S, P, e, After(S, P, e, x, down[r]), m)
    BY <2>3, <2>4, <2>5, AfterOne
  <2>7. Later(r, e)' = Held(<<>>)
    BY <1>3, <1>6, <2>6 DEF Arrived, m
  <2>8. Later(r, e)'.ran = <<>>
    BY <2>7 DEF Held
  <2>9. ents'[Host][e].ran = <<>>
    BY <1>2, <1>6 DEF Put
  <2>10. FromOwner(Host, e)' = <<>>
    BY <2>9, FilterNil DEF FromOwner
  <2> QED BY <2>8, <2>10 DEF Agrees
<1> QED BY <1>5, <1>6

LEMMA DeleteAgrees ==
  ASSUME Types, Agreeing, NEW d \in Entities, Delete(d), NEW r \in Remotes, NEW e \in Entities
  PROVE  Agrees(r, e)'
<1>1. /\ UNCHANGED <<owner, link, issued>>
      /\ Send(connected, <<Deletion(d)>>)
      /\ ents' = [ents EXCEPT ![Host] = [@ EXCEPT ![d].remove = TRUE]]
  BY DEF Delete
<1> SUFFICES ASSUME Concerned(r, e)' PROVE Agrees(r, e)'
  BY DEF Agrees
<1>2. r \in connected /\ ents'[r] = ents[r] /\ ents'[Host] = [ents[Host] EXCEPT ![d].remove = TRUE]
  BY <1>1, HostAndRemotes DEF Concerned, connected, Types, Replicas
<1>3. Deletion(d) \in Sent /\ Deletion(d).kind = "delete"
  BY DEF Deletion, Sent
<1>4. down'[r] = down[r] \o <<Deletion(d)>>
  BY <1>1, <1>2 DEF Send
<1>5. e \in DOMAIN ents[Host] /\ ents'[Host][e].ran = ents[Host][e].ran
  <2>1. e \in DOMAIN ents[Host]
    BY <1>2 DEF Concerned
  <2>2. ents[Host][e] \in [ran : Seq(1..Len(issued)), remove : BOOLEAN]
    BY <2>1, TypesFacts, HostAndRemotes DEF Replica
  <2> QED BY <1>2, <2>1, <2>2
<1>6. Concerned(r, e)
  BY <1>1, <1>5 DEF Concerned
<1>7. FromOwner(Host, e)' = FromOwner(Host, e)
  BY <1>1, <1>5, FromKept
<1>8. Later(r, e)' = After(OwnersCalls(e), CallsOn(e), e, Later(r, e), <<Deletion(d)>>)
  <2>1. <<Deletion(d)>> \in Seq(Sent)
    BY <1>3
  <2> QED BY <1>1, <1>2, <1>4, <2>1, LaterSent
<1>9. Later(r, e)' = Arrived(OwnersCalls(e), CallsOn(e), e, Later(r, e), Deletion(d))
  BY <1>3, <1>8, LaterType, AfterOne
<1>10. Later(r, e)' = Later(r, e)
  BY <1>3, <1>9 DEF Arrived
<1> QED BY <1>6, <1>7, <1>10, KeptAgrees

LEMMA SweepAgrees ==
  ASSUME Types, Agreeing, NEW c \in Clients, Sweep(c), NEW r \in Remotes, NEW e \in Entities
  PROVE  Agrees(r, e)'
<1> DEFINE kept == {x \in DOMAIN ents[c] : ~ents[c][x].remove}
<1>1. /\ UNCHANGED <<owner, link, down, issued>>
      /\ ents' = [ents EXCEPT ![c] = [x \in kept |-> ents[c][x]]]
  BY DEF Sweep
<1>2. \A d \in Clients \ {c} : ents'[d] = ents[d]
  BY <1>1 DEF Types, Replicas
<1>3. DOMAIN ents'[c] \subseteq DOMAIN ents[c] /\ \A x \in DOMAIN ents'[c] : ents'[c][x] = ents[c][x]
  BY <1>1 DEF Types, Replicas
<1> HIDE DEF kept
<1> SUFFICES ASSUME Concerned(r, e)' PROVE Agrees(r, e)'
  BY DEF Agrees
<1>4. e \in DOMAIN ents[Host] /\ ents'[Host][e].ran = ents[Host][e].ran
  BY <1>2, <1>3, HostAndRemotes DEF Concerned
<1>5. Concerned(r, e)
  BY <1>1, <1>4 DEF Concerned
<1>6. FromOwner(Host, e)' = FromOwner(Host, e)
  BY <1>1, <1>4, FromKept
<1>7. CASE c # r
  <2>1. Later(r, e)' = Later(r, e)
    BY <1>1, <1>2, <1>7, HostAndRemotes, LaterKept
  <2> QED BY <1>5, <1>6, <2>1, KeptAgrees
<1>8. CASE c = r
  <2> DEFINE S == OwnersCalls(e)
             P == CallsOn(e)
             x == Now(r, e)'
             y == Now(r, e)
  <2>1. Later(r, e)' = After(S, P, e, x, down[r])
    BY <1>1, OwnersCallsKept DEF Later
  <2>2. Later(r, e) = After(S, P, e, y, down[r])
    BY DEF Later
  <2>3. y \in State /\ down[r] \in Seq(Sent)
    BY NowType, DownTyped, HostAndRemotes
  <2>4. e \in DOMAIN ents'[r] => x = y
    <3> SUFFICES ASSUME e \in DOMAIN ents'[r] PROVE x = y
      OBVIOUS
    <3>1. e \in DOMAIN ents[r] /\ ents'[r][e].ran = ents[r][e].ran
      BY <1>3, <1>8
    <3>2. FromOwner(r, e)' = FromOwner(r, e)
      BY <1>1, <3>1, FromKept
    <3> QED BY <3>1, <3>2 DEF Now
  <2>5. e \notin DOMAIN ents'[r] => x = Absent
    BY DEF Now
  <2> HIDE DEF S, P, x, y
  <2>6. x \in State /\ (~x.held \/ x = y)
    <3>1. CASE e \in DOMAIN ents'[r]
      BY <2>3, <2>4, <3>1
    <3>2. CASE e \notin DOMAIN ents'[r]
      BY <2>5, <3>2, AbsentType
    <3> QED BY <3>1, <3>2
  <2> DEFINE a == After(S, P, e, x, down[r])
             b == After(S, P, e, y, down[r])
  <2>7. ~a.held \/ a = b
    BY <2>3, <2>6, AfterSwept
  <2> HIDE DEF a, b
  <2>8. Later(r, e)' = a /\ Later(r, e) = b
    BY <2>1, <2>2 DEF a, b
  <2>9. Agrees(r, e)
    BY DEF Agreeing
  <2> QED BY <1>5, <1>6, <2>7, <2>8, <2>9 DEF Agrees
<1> QED BY <1>7, <1>8


(* Calls: what a replica reflects after one more of them.                  *)
SameCalls(e) ==
  \A m \in 1..Len(issued) : /\ m \in OwnersCalls(e)' <=> m \in OwnersCalls(e)
                            /\ m \in CallsOn(e)' <=> m \in CallsOn(e)

LEMMA CallsIssued ==
  ASSUME Types, NEW e, NEW call, owner' = owner,
         call \in [caller : Clients, ent : DOMAIN owner, type : RPCTypes, to : SUBSET Clients],
         issued' = Append(issued, call)
  PROVE  /\ SameCalls(e)
         /\ Len(issued) + 1 \in OwnersCalls(e)'
              <=> call.type \in {"RemoteAndLocal", "All"} /\ call.caller = owner[e]
         /\ Len(issued) + 1 \in CallsOn(e)'
              <=> Len(issued) + 1 \in OwnersCalls(e)' /\ call.ent = e
<1> DEFINE k == Len(issued)
<1>1. /\ Len(issued') = k + 1
      /\ issued'[k + 1] = call
      /\ \A n \in 1..k : issued'[n] = issued[n]
  BY Issued
<1>2. k \in Nat /\ k + 1 \in 1..(k + 1) /\ \A n \in 1..k : n \in 1..(k + 1)
  BY TypesFacts
<1> HIDE DEF k
<1>3. \A n \in 1..k : n \in OwnersCalls(e)' <=> n \in OwnersCalls(e)
  BY <1>1, <1>2 DEF OwnersCalls, k
<1>4. \A n \in 1..k : n \in CallsOn(e)' <=> n \in CallsOn(e)
  BY <1>1, <1>3 DEF CallsOn
<1>5. k + 1 \in OwnersCalls(e)' <=> call.type \in {"RemoteAndLocal", "All"} /\ call.caller = owner[e]
  BY <1>1, <1>2 DEF OwnersCalls
<1>6. k + 1 \in CallsOn(e)' <=> k + 1 \in OwnersCalls(e)' /\ call.ent = e
  BY <1>1 DEF CallsOn
<1> QED BY <1>3, <1>4, <1>5, <1>6 DEF SameCalls, k

LEMMA RunRan ==
  ASSUME Types, NEW c \in Clients, NEW call, NEW n, Run(c, call, n)
  PROVE  /\ \A d \in Clients \ {c} : ents'[d] = ents[d]
         /\ DOMAIN ents'[c] = DOMAIN ents[c]
         /\ \A e \in DOMAIN ents[c] :
              ents'[c][e].ran = IF call.ent = e /\ e \notin Lacks[c]
                                THEN Append(ents[c][e].ran, n) ELSE ents[c][e].ran
<1>1. DOMAIN ents = Clients /\ \A x \in DOMAIN ents[c] : ents[c][x] \in [ran : Seq(1..Len(issued)), remove : BOOLEAN]
  BY TypesFacts DEF Replicas, Replica
<1>2. CASE Holds(c, call.ent) /\ call.ent \notin Lacks[c]
  <2> DEFINE f == [ents[c] EXCEPT ![call.ent].ran = Append(@, n)]
  <2>1. ents' = [ents EXCEPT ![c] = f]
    BY <1>2 DEF Run
  <2>2. DOMAIN f = DOMAIN ents[c] /\ call.ent \in DOMAIN ents[c]
    BY <1>2 DEF Holds
  <2>3. ASSUME NEW e \in DOMAIN ents[c]
        PROVE  f[e].ran = IF call.ent = e /\ e \notin Lacks[c]
                          THEN Append(ents[c][e].ran, n) ELSE ents[c][e].ran
    BY <1>1, <1>2
  <2> HIDE DEF f
  <2>4. ents'[c] = f /\ \A d \in Clients \ {c} : ents'[d] = ents[d]
    BY <1>1, <2>1
  <2> QED BY <2>2, <2>3, <2>4
<1>3. CASE ~(Holds(c, call.ent) /\ call.ent \notin Lacks[c])
  BY <1>3 DEF Run, Holds
<1> QED BY <1>2, <1>3

LEMMA FromSame ==
  ASSUME Types, NEW c \in Clients, NEW e \in DOMAIN ents[c], SameCalls(e)
  PROVE  Filter(ents[c][e].ran, OwnersCalls(e)') = FromOwner(c, e)
<1> DEFINE s == ents[c][e].ran
           S == OwnersCalls(e)'
           T == OwnersCalls(e)
<1>1. s \in Seq(1..Len(issued))
  BY RanTyped
<1>2. \A i \in 1..Len(s) : s[i] \in 1..Len(issued)
  BY <1>1
<1>3. \A i \in 1..Len(s) : s[i] \in S <=> s[i] \in T
  BY <1>2 DEF SameCalls
<1> HIDE DEF s, S, T
<1>4. Filter(s, S) = Filter(s, T)
  BY <1>1, <1>3, FilterSame
<1> QED BY <1>4 DEF FromOwner, s, S, T

LEMMA FromAfter ==
  ASSUME Types, NEW c \in Clients, NEW e \in DOMAIN ents[c], SameCalls(e), NEW n \in Nat
  PROVE  /\ ents'[c][e].ran = ents[c][e].ran => FromOwner(c, e)' = FromOwner(c, e)
         /\ ents'[c][e].ran = Append(ents[c][e].ran, n) =>
              FromOwner(c, e)' = IF n \in OwnersCalls(e)' THEN Append(FromOwner(c, e), n)
                                 ELSE FromOwner(c, e)
<1> DEFINE s == ents[c][e].ran
           t == ents'[c][e].ran
           S == OwnersCalls(e)'
<1>1. Filter(s, S) = FromOwner(c, e) /\ s \in Seq(Nat)
  BY FromSame, RanTyped
<1>2. FromOwner(c, e)' = Filter(t, S)
  BY DEF FromOwner
<1> HIDE DEF s, t, S
<1>3. Filter(Append(s, n), S) = IF n \in S THEN Append(Filter(s, S), n) ELSE Filter(s, S)
  BY <1>1, FilterAppend
<1>4. t = s => FromOwner(c, e)' = FromOwner(c, e)
  BY <1>1, <1>2
<1>5. t = Append(s, n) =>
        FromOwner(c, e)' = IF n \in S THEN Append(FromOwner(c, e), n) ELSE FromOwner(c, e)
  BY <1>1, <1>2, <1>3
<1> QED BY <1>4, <1>5 DEF s, t, S

LEMMA NowSame ==
  ASSUME Types, NEW c \in Clients, NEW e, SameCalls(e), ents'[c] = ents[c]
  PROVE  Now(c, e)' = Now(c, e)
<1>1. CASE e \in DOMAIN ents[c]
  <2>1. FromOwner(c, e)' = FromOwner(c, e)
    BY <1>1, FromSame DEF FromOwner
  <2> QED BY <1>1, <2>1 DEF Now
<1>2. CASE e \notin DOMAIN ents[c]
  BY <1>2 DEF Now
<1> QED BY <1>1, <1>2

LEMMA RPCSent ==
  ASSUME NEW n \in Nat
  PROVE  RPC(n) \in Sent /\ <<>> \in Seq(Sent) /\ <<RPC(n)>> \in Seq(Sent)
<1>1. RPC(n) \in Sent
  BY DEF RPC, Sent
<1> QED BY <1>1

LEMMA LaterCalled ==
  ASSUME Types, NEW r \in Remotes, NEW e, SameCalls(e), Now(r, e)' = Now(r, e),
         NEW p \in Seq(Sent), down'[r] = down[r] \o p
  PROVE  Later(r, e)' = After(OwnersCalls(e)', CallsOn(e)', e, Later(r, e), p)
<1> DEFINE S == OwnersCalls(e)
           P == CallsOn(e)
           S1 == OwnersCalls(e)'
           P1 == CallsOn(e)'
           x == Now(r, e)
           k == Len(issued)
           q == down[r]
<1>1. x \in State /\ q \in Seq(Downs(k, Entities)) /\ q \in Seq(Sent) /\ k \in Nat
  BY NowType, DownTyped, HostAndRemotes, TypesFacts
<1>2. \A n \in 1..k : (n \in S <=> n \in S1) /\ (n \in P <=> n \in P1)
  BY DEF SameCalls
<1>3. Later(r, e) = After(S, P, e, x, q)
  BY DEF Later
<1>4. Later(r, e)' = After(S1, P1, e, x, q \o p)
  BY DEF Later
<1> HIDE DEF S, P, S1, P1, x, k, q
<1>5. After(S1, P1, e, x, q) = After(S, P, e, x, q)
  BY <1>1, <1>2, AfterSame
<1>6. After(S1, P1, e, x, q \o p) = After(S1, P1, e, After(S1, P1, e, x, q), p)
  BY <1>1, AfterConcat
<1>7. Later(r, e)' = After(S1, P1, e, Later(r, e), p)
  BY <1>3, <1>4, <1>5, <1>6
<1> QED BY <1>7 DEF S1, P1

LEMMA LaterWaits ==
  ASSUME Types, NEW r \in Remotes, NEW e, SameCalls(e), Now(r, e)' = Now(r, e), down' = down
  PROVE  Later(r, e)' = Later(r, e)
<1> DEFINE S == OwnersCalls(e)
           P == CallsOn(e)
           S1 == OwnersCalls(e)'
           P1 == CallsOn(e)'
           x == Now(r, e)
           k == Len(issued)
           q == down[r]
<1>1. x \in State /\ q \in Seq(Downs(k, Entities)) /\ k \in Nat
  BY NowType, DownTyped, HostAndRemotes, TypesFacts
<1>2. \A n \in 1..k : (n \in S <=> n \in S1) /\ (n \in P <=> n \in P1)
  BY DEF SameCalls
<1>3. Later(r, e) = After(S, P, e, x, q) /\ Later(r, e)' = After(S1, P1, e, x, q)
  BY DEF Later
<1> HIDE DEF S, P, S1, P1, x, k, q
<1>4. After(S1, P1, e, x, q) = After(S, P, e, x, q)
  BY <1>1, <1>2, AfterSame
<1> QED BY <1>3, <1>4

LEMMA CallAgrees ==
  ASSUME Types, Agreeing, NEW r \in Remotes, NEW e \in Entities, Concerned(r, e),
         SameCalls(e), ents'[r] = ents[r], NEW n \in Nat, NEW p,
         p = <<>> \/ p = <<RPC(n)>>,
         down'[r] = down[r] \o p,
         n \in CallsOn(e)' => p = <<RPC(n)>> /\ FromOwner(Host, e)' = Append(FromOwner(Host, e), n),
         n \notin CallsOn(e)' => FromOwner(Host, e)' = FromOwner(Host, e)
  PROVE  Agrees(r, e)'
<1> DEFINE S1 == OwnersCalls(e)'
           P1 == CallsOn(e)'
           x == Later(r, e)
           h == FromOwner(Host, e)
           h1 == FromOwner(Host, e)'
<1>1. p \in Seq(Sent)
  BY RPCSent
<1>2. Later(r, e)' = After(S1, P1, e, x, p)
  <2>1. Now(r, e)' = Now(r, e)
    BY NowSame, HostAndRemotes
  <2> QED BY <1>1, <2>1, LaterCalled
<1>3. x \in State
  BY LaterType
<1>4. x.held => x.ran = h
  BY DEF Agreeing, Agrees
<1>5. /\ n \in P1 => p = <<RPC(n)>> /\ h1 = Append(h, n)
      /\ n \notin P1 => h1 = h
  OBVIOUS
<1> HIDE DEF S1, P1, x, h, h1
<1>6. After(S1, P1, e, x, p).held => After(S1, P1, e, x, p).ran = h1
  BY <1>3, <1>4, <1>5, AfterCall
<1> QED BY <1>2, <1>6 DEF Agrees, h1


LEMMA HostCallAgrees ==
  ASSUME Types, Agreeing, HostCall, NEW r \in Remotes, NEW e \in Entities
  PROVE  Agrees(r, e)'
<1>1. PICK d \in Entities, t \in RPCTypes :
        /\ CanCall(Host, d, t)
        /\ issued' = Append(issued, NewCall(Host, d, t))
        /\ IF RunsRemotely(t, owner[d] = Host)
           THEN Send(Receivers(NewCall(Host, d, t)), <<RPC(Len(issued) + 1)>>) ELSE UNCHANGED down
        /\ IF RunsLocally(t, owner[d] = Host)
           THEN Run(Host, NewCall(Host, d, t), Len(issued) + 1) ELSE UNCHANGED <<ents, executed>>
        /\ UNCHANGED <<owner, link, served, up>>
  BY DEF HostCall
<1> DEFINE call == NewCall(Host, d, t)
           n == Len(issued) + 1
<1> SUFFICES ASSUME Concerned(r, e)' PROVE Agrees(r, e)'
  BY DEF Agrees
<1>2. /\ call \in [caller : Clients, ent : DOMAIN owner, type : RPCTypes, to : SUBSET Clients]
      /\ call.caller = Host /\ call.ent = d /\ call.type = t
  <2>1. call \in [caller : Clients, ent : DOMAIN owner, type : RPCTypes, to : SUBSET Clients]
    BY <1>1, HostAndRemotes, NewCallTyped
  <2> QED BY <2>1 DEF NewCall
<1>3. n \in Nat
  BY TypesFacts
<1>4. /\ SameCalls(e)
      /\ n \in OwnersCalls(e)' <=> t \in {"RemoteAndLocal", "All"} /\ owner[e] = Host
      /\ n \in CallsOn(e)' <=> n \in OwnersCalls(e)' /\ d = e
  <2>1. owner' = owner /\ issued' = Append(issued, call)
    BY <1>1
  <2> HIDE DEF call
  <2> QED BY <1>2, <2>1, CallsIssued
<1> HIDE DEF call, n
<1>5. /\ \A c \in Remotes : ents'[c] = ents[c]
      /\ DOMAIN ents'[Host] = DOMAIN ents[Host]
      /\ \A x \in DOMAIN ents[Host] :
           \/ ents'[Host][x].ran = ents[Host][x].ran
           \/ d = x /\ ents'[Host][x].ran = Append(ents[Host][x].ran, n)
      /\ d \in DOMAIN ents[Host] /\ RunsLocally(t, owner[d] = Host)
           => ents'[Host][d].ran = Append(ents[Host][d].ran, n)
  <2>1. CASE RunsLocally(t, owner[d] = Host)
    <3>1. Run(Host, call, n)
      BY <1>1, <2>1 DEF call, n
    <3>2. d \notin Lacks[Host]
      BY LacksAssumption
    <3>3. /\ \A x \in Clients \ {Host} : ents'[x] = ents[x]
          /\ DOMAIN ents'[Host] = DOMAIN ents[Host]
          /\ \A x \in DOMAIN ents[Host] :
               ents'[Host][x].ran = IF d = x /\ x \notin Lacks[Host]
                                    THEN Append(ents[Host][x].ran, n) ELSE ents[Host][x].ran
      BY <1>2, <3>1, RunRan, HostAndRemotes
    <3> QED BY <3>2, <3>3, HostAndRemotes
  <2>2. CASE ~RunsLocally(t, owner[d] = Host)
    BY <1>1, <2>2
  <2> QED BY <2>1, <2>2
<1>6. e \in DOMAIN ents[Host]
  BY <1>5 DEF Concerned
<1>7. Concerned(r, e) /\ r \in connected
  BY <1>1, <1>6 DEF Concerned, connected
<1>8. /\ ents'[Host][e].ran = ents[Host][e].ran => FromOwner(Host, e)' = FromOwner(Host, e)
      /\ ents'[Host][e].ran = Append(ents[Host][e].ran, n) =>
           FromOwner(Host, e)' = IF n \in OwnersCalls(e)' THEN Append(FromOwner(Host, e), n)
                                 ELSE FromOwner(Host, e)
  BY <1>3, <1>4, <1>6, FromAfter, HostAndRemotes
<1>9. PICK p : /\ p = <<>> \/ p = <<RPC(n)>>
               /\ down'[r] = down[r] \o p
               /\ RunsRemotely(t, owner[d] = Host) /\ r \in Receivers(call) => p = <<RPC(n)>>
  <2>1. down[r] \in Seq(Sent) /\ down[r] \o <<>> = down[r]
    <3>1. down[r] \in Seq(Sent)
      BY DownTyped
    <3> QED BY <3>1, ConcatEmptySeq
  <2>2. CASE RunsRemotely(t, owner[d] = Host) /\ r \in Receivers(call)
    <3>1. down'[r] = down[r] \o <<RPC(n)>>
      BY <1>1, <1>7, <2>2 DEF Send, call, n
    <3> QED BY <2>2, <3>1
  <2>3. CASE ~(RunsRemotely(t, owner[d] = Host) /\ r \in Receivers(call))
    <3>1. down'[r] = down[r]
      BY <1>1, <2>3 DEF Send, call, n
    <3> QED BY <2>1, <2>3, <3>1
  <2> QED BY <2>2, <2>3
<1>10. ASSUME n \in CallsOn(e)'
       PROVE  p = <<RPC(n)>> /\ FromOwner(Host, e)' = Append(FromOwner(Host, e), n)
  <2>1. d = e /\ t \in {"RemoteAndLocal", "All"} /\ owner[e] = Host /\ n \in OwnersCalls(e)'
    BY <1>4, <1>10
  <2>2. RunsRemotely(t, owner[d] = Host) /\ RunsLocally(t, owner[d] = Host)
    BY <2>1 DEF RunsRemotely, RunsLocally
  <2>3. r \in Receivers(call)
    BY <1>2, <1>6, <1>7, <2>1, HostAndRemotes DEF Receivers, SentTo, Holds
  <2> QED BY <1>5, <1>6, <1>8, <1>9, <2>1, <2>2, <2>3
<1>11. ASSUME n \notin CallsOn(e)'
       PROVE  FromOwner(Host, e)' = FromOwner(Host, e)
  <2>1. CASE ents'[Host][e].ran = ents[Host][e].ran
    BY <1>8, <2>1
  <2>2. CASE d = e /\ ents'[Host][e].ran = Append(ents[Host][e].ran, n)
    <3>1. n \notin OwnersCalls(e)'
      BY <1>4, <1>11, <2>2
    <3> QED BY <1>8, <2>2, <3>1
  <2> QED BY <1>5, <1>6, <2>1, <2>2
<1>12. ents'[r] = ents[r] /\ SameCalls(e)
  BY <1>4, <1>5
<1> QED BY <1>3, <1>7, <1>9, <1>10, <1>11, <1>12, CallAgrees

LEMMA RemoteCallAgrees ==
  ASSUME Types, Agreeing, NEW c \in Remotes, RemoteCall(c), NEW r \in Remotes, NEW e \in Entities
  PROVE  Agrees(r, e)'
<1>1. PICK d \in Entities, t \in RPCTypes :
        /\ CanCall(c, d, t)
        /\ issued' = Append(issued, NewCall(c, d, t))
        /\ IF RunsLocally(t, owner[d] = c)
           THEN Run(c, NewCall(c, d, t), Len(issued) + 1) ELSE UNCHANGED <<ents, executed>>
        /\ UNCHANGED <<owner, link, served, down>>
  BY DEF RemoteCall
<1> DEFINE call == NewCall(c, d, t)
           n == Len(issued) + 1
<1> SUFFICES ASSUME Concerned(r, e)' PROVE Agrees(r, e)'
  BY DEF Agrees
<1>2. /\ call \in [caller : Clients, ent : DOMAIN owner, type : RPCTypes, to : SUBSET Clients]
      /\ call.caller = c
  <2>1. call \in [caller : Clients, ent : DOMAIN owner, type : RPCTypes, to : SUBSET Clients]
    BY <1>1, HostAndRemotes, NewCallTyped
  <2> QED BY <2>1 DEF NewCall
<1>3. n \in Nat
  BY TypesFacts
<1>4. /\ SameCalls(e)
      /\ n \in OwnersCalls(e)' => owner[e] = c
  <2>1. owner' = owner /\ issued' = Append(issued, call)
    BY <1>1
  <2> HIDE DEF call
  <2> QED BY <1>2, <2>1, CallsIssued
<1> HIDE DEF call, n
<1>5. /\ \A x \in Clients \ {c} : ents'[x] = ents[x]
      /\ DOMAIN ents'[c] = DOMAIN ents[c]
      /\ \A x \in DOMAIN ents[c] :
           \/ ents'[c][x].ran = ents[c][x].ran
           \/ ents'[c][x].ran = Append(ents[c][x].ran, n)
  <2>1. CASE RunsLocally(t, owner[d] = c)
    <3>1. Run(c, call, n)
      BY <1>1, <2>1 DEF call, n
    <3> QED BY <3>1, RunRan, HostAndRemotes
  <2>2. CASE ~RunsLocally(t, owner[d] = c)
    BY <1>1, <2>2
  <2> QED BY <2>1, <2>2
<1>6. ents'[Host] = ents[Host] /\ Concerned(r, e) /\ e \in DOMAIN ents[Host]
  BY <1>1, <1>5, HostAndRemotes DEF Concerned
<1>7. FromOwner(Host, e)' = FromOwner(Host, e)
  BY <1>3, <1>4, <1>6, FromAfter, HostAndRemotes
<1>8. Now(r, e)' = Now(r, e)
  <2>1. CASE r # c
    BY <1>4, <1>5, <2>1, NowSame, HostAndRemotes
  <2>2. CASE r = c
    <3>1. n \notin OwnersCalls(e)'
      BY <1>4, <1>6, <2>2 DEF Concerned
    <3>2. CASE e \in DOMAIN ents[c]
      <4>1. FromOwner(c, e)' = FromOwner(c, e)
        BY <1>3, <1>4, <1>5, <3>1, <3>2, FromAfter, HostAndRemotes
      <4> QED BY <1>5, <2>2, <3>2, <4>1 DEF Now
    <3>3. CASE e \notin DOMAIN ents[c]
      BY <1>5, <2>2, <3>3 DEF Now
    <3> QED BY <3>2, <3>3
  <2> QED BY <2>1, <2>2
<1>9. Later(r, e)' = Later(r, e)
  BY <1>1, <1>4, <1>8, LaterWaits
<1> QED BY <1>6, <1>7, <1>9, KeptAgrees


LEMMA AfterSnapshots ==
  ASSUME NEW S, NEW P, NEW e, NEW h, NEW q \in Seq(Sent),
         \A i \in 1..Len(q) : /\ q[i].kind = "snapshot"
                              /\ q[i].ent = e => Filter(q[i].ran, S) = h,
         NEW x \in State, x.held => x.ran = h
  PROVE  After(S, P, e, x, q).held => After(S, P, e, x, q).ran = h
<1> DEFINE T == {m \in Sent : m.kind = "snapshot" /\ (m.ent = e => Filter(m.ran, S) = h)}
           G == {y \in State : y.held => y.ran = h}
<1>1. T \subseteq Sent /\ G \subseteq State /\ x \in G
  OBVIOUS
<1>2. q \in Seq(T)
  <2>1. \A i \in 1..Len(q) : q[i] \in T
    OBVIOUS
  <2> HIDE DEF T
  <2> QED BY <2>1
<1>3. ASSUME NEW a \in G, NEW m \in T PROVE Arrived(S, P, e, a, m) \in G
  <2>1. Arrived(S, P, e, a, m) \in State
    BY ArrivedType
  <2>2. m.kind = "snapshot" /\ (m.ent = e => Filter(m.ran, S) = h)
    OBVIOUS
  <2>3. CASE m.ent = e
    BY <2>1, <2>2, <2>3 DEF Arrived, Held
  <2>4. CASE m.ent # e
    BY <2>2, <2>4 DEF Arrived
  <2> QED BY <2>3, <2>4
<1> HIDE DEF T, G
<1>4. After(S, P, e, x, q) \in G
  BY <1>1, <1>2, <1>3, AfterKept
<1> QED BY <1>4 DEF G

LEMMA HandleConnectedAgrees ==
  ASSUME Types, Agreeing, NEW c \in Remotes, HandleConnected(c), NEW r \in Remotes, NEW e \in Entities
  PROVE  Agrees(r, e)'
<1>1. UNCHANGED <<ents, owner, link, issued>>
  BY DEF HandleConnected
<1>2. PICK ids \in Descending(DOMAIN ents[Host]) :
        Send({c}, [i \in 1..Len(ids) |-> Snapshot(ids[i])])
  BY DEF HandleConnected
<1> DEFINE q == [i \in 1..Len(ids) |-> Snapshot(ids[i])]
<1> SUFFICES ASSUME Concerned(r, e)' PROVE Agrees(r, e)'
  BY DEF Agrees
<1>3. Concerned(r, e) /\ r \in connected /\ e \in Carried
  BY <1>1 DEF Concerned, connected
<1>4. FromOwner(Host, e)' = FromOwner(Host, e)
  BY <1>1, FromKept
<1>5. CASE r # c
  <2>1. down'[r] = down[r]
    BY <1>2, <1>5 DEF Send
  <2>2. Later(r, e)' = Later(r, e)
    BY <1>1, <2>1, LaterKept
  <2> QED BY <1>3, <1>4, <2>2, KeptAgrees
<1>6. CASE r = c
  <2>1. ids \in Seq(DOMAIN ents[Host]) /\ DOMAIN ents[Host] \subseteq Entities
    BY HostsIDs DEF Types
  <2>2. Len(q) = Len(ids) /\ \A i \in 1..Len(ids) : q[i] = Snapshot(ids[i]) /\ ids[i] \in DOMAIN ents[Host]
    BY <2>1
  <2>3. ASSUME NEW x \in DOMAIN ents[Host]
        PROVE  /\ Snapshot(x) \in Sent
               /\ Snapshot(x).kind = "snapshot"
               /\ Snapshot(x).ent = e => Filter(Snapshot(x).ran, OwnersCalls(e)) = FromOwner(Host, e)
    <3>1. ents[Host][x].ran \in Seq(Nat) /\ <<>> \in Seq(Nat) /\ x \in Entities
      BY <2>1, RanTyped, HostAndRemotes
    <3>2. Snapshot(x) \in Sent
      BY <3>1 DEF Snapshot, Sent
    <3>3. x = e => Snapshot(x).ran = ents[Host][e].ran
      BY <1>3 DEF Snapshot
    <3>4. Snapshot(x).kind = "snapshot" /\ Snapshot(x).ent = x
      BY DEF Snapshot
    <3> QED BY <3>2, <3>3, <3>4 DEF FromOwner
  <2>4. q \in Seq(Sent)
    <3>1. \A i \in 1..Len(ids) : Snapshot(ids[i]) \in Sent
      BY <2>2, <2>3
    <3> QED BY <2>1, <3>1
  <2>5. down'[r] = down[r] \o q
    BY <1>2, <1>3, <1>6 DEF Send
  <2> DEFINE S == OwnersCalls(e)
             P == CallsOn(e)
             x == Later(r, e)
             h == FromOwner(Host, e)
  <2>6. \A i \in 1..Len(q) : /\ q[i].kind = "snapshot"
                             /\ q[i].ent = e => Filter(q[i].ran, S) = h
    <3> HIDE DEF q
    <3> QED BY <2>2, <2>3
  <2> HIDE DEF q
  <2>7. Later(r, e)' = After(S, P, e, x, q)
    BY <1>1, <2>4, <2>5, LaterSent
  <2>8. x \in State /\ (x.held => x.ran = h)
    BY <1>3, LaterType DEF Agreeing, Agrees
  <2> HIDE DEF S, P, x, h
  <2>9. After(S, P, e, x, q).held => After(S, P, e, x, q).ran = h
    BY <2>4, <2>6, <2>8, AfterSnapshots
  <2> QED BY <1>4, <2>7, <2>9 DEF Agrees, h
<1> QED BY <1>5, <1>6

LEMMA HandleRPCAgrees ==
  ASSUME Types, UpInv, Agreeing, NEW c \in Remotes, HandleRPC(c), NEW r \in Remotes, NEW e \in Entities
  PROVE  Agrees(r, e)'
<1>1. PICK n \in 1..Len(issued) :
        /\ up[c] # <<>>
        /\ Head(up[c]) = RPC(n)
        /\ Send(Receivers(issued[n]), <<RPC(n)>>)
        /\ IF Host \in Receivers(issued[n])
           THEN Run(Host, issued[n], n) ELSE UNCHANGED <<ents, executed>>
        /\ UNCHANGED <<owner, link, served, issued>>
  BY DEF HandleRPC
<1> DEFINE call == issued[n]
<1> SUFFICES ASSUME Concerned(r, e)' PROVE Agrees(r, e)'
  BY DEF Agrees
<1>2. n \in Nat /\ call.caller = c
  <2>1. n \in CallsIn(up[c])
    BY <1>1, TypesFacts, HeadIsCalled
  <2> QED BY <2>1, TypesFacts DEF UpInv
<1>3. /\ SameCalls(e)
      /\ n \in OwnersCalls(e)' <=> call.type \in {"RemoteAndLocal", "All"} /\ call.caller = owner[e]
      /\ n \in CallsOn(e)' <=> n \in OwnersCalls(e)' /\ call.ent = e
  <2>1. OwnersCalls(e)' = OwnersCalls(e) /\ CallsOn(e)' = CallsOn(e)
    BY <1>1, OwnersCallsKept
  <2>2. SameCalls(e)
    BY <2>1 DEF SameCalls
  <2>3. n \in OwnersCalls(e) <=> call.type \in {"RemoteAndLocal", "All"} /\ call.caller = owner[e]
    BY DEF OwnersCalls
  <2>4. n \in CallsOn(e) <=> n \in OwnersCalls(e) /\ call.ent = e
    BY DEF CallsOn
  <2> QED BY <2>1, <2>2, <2>3, <2>4
<1> HIDE DEF call
<1>4. /\ \A x \in Remotes : ents'[x] = ents[x]
      /\ DOMAIN ents'[Host] = DOMAIN ents[Host]
      /\ \A x \in DOMAIN ents[Host] :
           \/ ents'[Host][x].ran = ents[Host][x].ran
           \/ call.ent = x /\ ents'[Host][x].ran = Append(ents[Host][x].ran, n)
      /\ call.ent \in DOMAIN ents[Host] /\ Host \in Receivers(call)
           => ents'[Host][call.ent].ran = Append(ents[Host][call.ent].ran, n)
  <2>1. CASE Host \in Receivers(call)
    <3>1. Run(Host, call, n)
      BY <1>1, <2>1 DEF call
    <3>2. \A x : x \notin Lacks[Host]
      BY LacksAssumption
    <3>3. /\ \A x \in Clients \ {Host} : ents'[x] = ents[x]
          /\ DOMAIN ents'[Host] = DOMAIN ents[Host]
          /\ \A x \in DOMAIN ents[Host] :
               ents'[Host][x].ran = IF call.ent = x /\ x \notin Lacks[Host]
                                    THEN Append(ents[Host][x].ran, n) ELSE ents[Host][x].ran
      BY <3>1, RunRan, HostAndRemotes
    <3> QED BY <3>2, <3>3, HostAndRemotes
  <2>2. CASE Host \notin Receivers(call)
    BY <1>1, <2>2 DEF call
  <2> QED BY <2>1, <2>2
<1>5. e \in DOMAIN ents[Host]
  BY <1>4 DEF Concerned
<1>6. Concerned(r, e) /\ r \in connected
  BY <1>1, <1>5 DEF Concerned, connected
<1>7. /\ ents'[Host][e].ran = ents[Host][e].ran => FromOwner(Host, e)' = FromOwner(Host, e)
      /\ ents'[Host][e].ran = Append(ents[Host][e].ran, n) =>
           FromOwner(Host, e)' = IF n \in OwnersCalls(e)' THEN Append(FromOwner(Host, e), n)
                                 ELSE FromOwner(Host, e)
  BY <1>2, <1>3, <1>5, FromAfter, HostAndRemotes
<1>8. PICK p : /\ p = <<>> \/ p = <<RPC(n)>>
               /\ down'[r] = down[r] \o p
               /\ r \in Receivers(call) => p = <<RPC(n)>>
  <2>1. down[r] \o <<>> = down[r]
    <3>1. down[r] \in Seq(Sent)
      BY DownTyped
    <3> QED BY <3>1, ConcatEmptySeq
  <2>2. CASE r \in Receivers(call)
    <3>1. down'[r] = down[r] \o <<RPC(n)>>
      BY <1>1, <1>6, <2>2 DEF Send, call
    <3> QED BY <2>2, <3>1
  <2>3. CASE r \notin Receivers(call)
    <3>1. down'[r] = down[r]
      BY <1>1, <2>3 DEF Send, call
    <3> QED BY <2>1, <2>3, <3>1
  <2> QED BY <2>2, <2>3
<1>9. ASSUME n \in CallsOn(e)'
      PROVE  p = <<RPC(n)>> /\ FromOwner(Host, e)' = Append(FromOwner(Host, e), n)
  <2>1. /\ call.ent = e /\ call.type \in {"RemoteAndLocal", "All"} /\ owner[e] = c
        /\ n \in OwnersCalls(e)'
    BY <1>2, <1>3, <1>9
  <2>2. r # c /\ c # Host
    BY <1>6, <2>1, HostAndRemotes DEF Concerned
  <2>3. Receivers(call) = (connected \cup {Host}) \ {c}
    BY <1>2, <1>5, <2>1 DEF Receivers, SentTo, Holds
  <2>4. r \in Receivers(call) /\ Host \in Receivers(call)
    BY <1>6, <2>2, <2>3
  <2>5. ents'[Host][e].ran = Append(ents[Host][e].ran, n)
    BY <1>4, <1>5, <2>1, <2>4
  <2> QED BY <1>7, <1>8, <2>1, <2>4, <2>5
<1>10. ASSUME n \notin CallsOn(e)'
       PROVE  FromOwner(Host, e)' = FromOwner(Host, e)
  <2>1. CASE ents'[Host][e].ran = ents[Host][e].ran
    BY <1>7, <2>1
  <2>2. CASE call.ent = e /\ ents'[Host][e].ran = Append(ents[Host][e].ran, n)
    <3>1. n \notin OwnersCalls(e)'
      BY <1>3, <1>10, <2>2
    <3> QED BY <1>7, <2>2, <3>1
  <2> QED BY <1>4, <1>5, <2>1, <2>2
<1>11. ents'[r] = ents[r] /\ SameCalls(e)
  BY <1>3, <1>4
<1> QED BY <1>2, <1>6, <1>8, <1>9, <1>10, <1>11, CallAgrees

(* A remote client: the packet that arrives was under way.                 *)
LEMMA ReceivedAgrees ==
  ASSUME Types, Agreeing, NEW d \in Remotes, NEW m, Receiving(d, m), ents'[Host] = ents[Host],
         NEW r \in Remotes, NEW e \in Entities, r # d => ents'[r] = ents[r],
         Concerned(d, e) => Now(d, e)' = Arrived(OwnersCalls(e), CallsOn(e), e, Now(d, e), m)
  PROVE  Agrees(r, e)'
<1>1. /\ UNCHANGED <<owner, link, issued>>
      /\ down[d] # <<>> /\ m = Head(down[d])
      /\ down' = [down EXCEPT ![d] = Tail(@)]
  BY DEF Receiving
<1> SUFFICES ASSUME Concerned(r, e)' PROVE Agrees(r, e)'
  BY DEF Agrees
<1>2. Concerned(r, e)
  BY <1>1 DEF Concerned
<1>3. FromOwner(Host, e)' = FromOwner(Host, e)
  BY <1>1, FromKept
<1>4. CASE r # d
  <2>1. down'[r] = down[r]
    BY <1>1, <1>4
  <2>2. Later(r, e)' = Later(r, e)
    BY <1>1, <1>4, <2>1, LaterKept
  <2> QED BY <1>2, <1>3, <2>2, KeptAgrees
<1>5. CASE r = d
  <2> DEFINE S == OwnersCalls(e)
             P == CallsOn(e)
             x == Now(r, e)
             q == down[r]
  <2>1. x \in State /\ q \in Seq(Sent) /\ q # <<>> /\ m = Head(q)
    BY <1>1, <1>5, NowType, DownTyped, HostAndRemotes
  <2>2. Later(r, e) = After(S, P, e, x, q)
    BY DEF Later
  <2>3. down'[r] = Tail(q)
    BY <1>1, <1>5 DEF Types
  <2>4. Now(r, e)' = Arrived(S, P, e, x, m)
    BY <1>2, <1>5
  <2>5. Later(r, e)' = After(S, P, e, Arrived(S, P, e, x, m), Tail(q))
    <3>1. OwnersCalls(e)' = S /\ CallsOn(e)' = P
      BY <1>1, OwnersCallsKept
    <3> QED BY <2>3, <2>4, <3>1 DEF Later
  <2> HIDE DEF S, P, x, q
  <2>6. After(S, P, e, x, q) = After(S, P, e, Arrived(S, P, e, x, Head(q)), Tail(q))
    BY <2>1, AfterHead
  <2>7. Later(r, e)' = Later(r, e)
    BY <2>1, <2>2, <2>5, <2>6
  <2> QED BY <1>2, <1>3, <2>7, KeptAgrees
<1> QED BY <1>4, <1>5


LEMMA PutNow ==
  ASSUME Types, NEW d \in Remotes, NEW x, NEW ran, issued' = issued, owner' = owner,
         ents' = [ents EXCEPT ![d] = Put(@, x, ran)], NEW e
  PROVE  /\ \A c \in Clients \ {d} : ents'[c] = ents[c]
         /\ Now(d, e)' = IF x = e THEN Held(Filter(ran, OwnersCalls(e))) ELSE Now(d, e)
<1>1. ents'[d] = Put(ents[d], x, ran) /\ \A c \in Clients \ {d} : ents'[c] = ents[c]
  BY HostAndRemotes DEF Types, Replicas
<1>2. OwnersCalls(e)' = OwnersCalls(e)
  BY OwnersCallsKept
<1>3. CASE x = e
  <2>1. e \in DOMAIN ents'[d] /\ ents'[d][e].ran = ran
    BY <1>1, <1>3 DEF Put
  <2>2. FromOwner(d, e)' = Filter(ran, OwnersCalls(e))
    BY <1>2, <2>1 DEF FromOwner
  <2> QED BY <1>1, <1>3, <2>1, <2>2 DEF Now
<1>4. CASE x # e
  <2>1. /\ e \in DOMAIN ents'[d] <=> e \in DOMAIN ents[d]
        /\ e \in DOMAIN ents[d] => ents'[d][e] = ents[d][e]
    BY <1>1, <1>4 DEF Put
  <2>2. e \in DOMAIN ents[d] => FromOwner(d, e)' = FromOwner(d, e)
    BY <2>1, FromKept
  <2> QED BY <1>1, <1>4, <2>1, <2>2 DEF Now
<1> QED BY <1>3, <1>4

LEMMA RemoteCreateAgrees ==
  ASSUME Types, Agreeing, NEW d \in Remotes, RemoteCreate(d), NEW r \in Remotes, NEW e \in Entities
  PROVE  Agrees(r, e)'
<1>1. PICK x \in Entities :
        Receiving(d, Creation(x)) /\ ents' = [ents EXCEPT ![d] = Put(@, x, <<>>)]
  BY DEF RemoteCreate
<1>2. issued' = issued /\ owner' = owner
  BY <1>1 DEF Receiving
<1>3. /\ \A c \in Clients \ {d} : ents'[c] = ents[c]
      /\ Now(d, e)' = IF x = e THEN Held(Filter(<<>>, OwnersCalls(e))) ELSE Now(d, e)
  BY <1>1, <1>2, PutNow
<1>4. Filter(<<>>, OwnersCalls(e)) = <<>>
  BY FilterNil
<1>5. Creation(x).kind = "create" /\ Creation(x).ent = x
  BY DEF Creation
<1>6. Now(d, e)' = Arrived(OwnersCalls(e), CallsOn(e), e, Now(d, e), Creation(x))
  BY <1>3, <1>4, <1>5 DEF Arrived
<1>7. ents'[Host] = ents[Host] /\ (r # d => ents'[r] = ents[r])
  BY <1>3, HostAndRemotes
<1> QED BY <1>1, <1>6, <1>7, ReceivedAgrees

LEMMA RemoteSnapshotAgrees ==
  ASSUME Types, Agreeing, NEW d \in Remotes, RemoteSnapshot(d), NEW r \in Remotes, NEW e \in Entities
  PROVE  Agrees(r, e)'
<1> DEFINE m == Head(down[d])
<1>1. /\ m.kind = "snapshot"
      /\ Receiving(d, m)
      /\ ents' = [ents EXCEPT ![d] = Put(@, m.ent, m.ran)]
  BY DEF RemoteSnapshot
<1> HIDE DEF m
<1>2. issued' = issued /\ owner' = owner
  BY <1>1 DEF Receiving
<1>3. /\ \A c \in Clients \ {d} : ents'[c] = ents[c]
      /\ Now(d, e)' = IF m.ent = e THEN Held(Filter(m.ran, OwnersCalls(e))) ELSE Now(d, e)
  BY <1>1, <1>2, PutNow
<1>4. Now(d, e)' = Arrived(OwnersCalls(e), CallsOn(e), e, Now(d, e), m)
  BY <1>1, <1>3 DEF Arrived
<1>5. ents'[Host] = ents[Host] /\ (r # d => ents'[r] = ents[r])
  BY <1>3, HostAndRemotes
<1> QED BY <1>1, <1>4, <1>5, ReceivedAgrees

LEMMA RemoteDeleteAgrees ==
  ASSUME Types, Agreeing, NEW d \in Remotes, RemoteDelete(d), NEW r \in Remotes, NEW e \in Entities
  PROVE  Agrees(r, e)'
<1>1. PICK x \in Entities :
        /\ Receiving(d, Deletion(x))
        /\ ents' = IF Holds(d, x) THEN [ents EXCEPT ![d] = [@ EXCEPT ![x].remove = TRUE]] ELSE ents
  BY DEF RemoteDelete
<1>2. issued' = issued /\ owner' = owner
  BY <1>1 DEF Receiving
<1>3. /\ \A c \in Clients \ {d} : ents'[c] = ents[c]
      /\ DOMAIN ents'[d] = DOMAIN ents[d]
      /\ \A y \in DOMAIN ents[d] : ents'[d][y].ran = ents[d][y].ran
  <2> DEFINE f == [ents[d] EXCEPT ![x].remove = TRUE]
  <2>1. CASE Holds(d, x)
    <3>1. ents' = [ents EXCEPT ![d] = f]
      BY <1>1, <2>1
    <3>2. \A y \in DOMAIN ents[d] : ents[d][y] \in [ran : Seq(1..Len(issued)), remove : BOOLEAN]
      BY TypesFacts, HostAndRemotes DEF Replica
    <3>3. DOMAIN f = DOMAIN ents[d] /\ \A y \in DOMAIN ents[d] : f[y].ran = ents[d][y].ran
      BY <3>2
    <3> HIDE DEF f
    <3>4. ents'[d] = f /\ \A c \in Clients \ {d} : ents'[c] = ents[c]
      BY <3>1, HostAndRemotes DEF Types, Replicas
    <3> QED BY <3>3, <3>4
  <2>2. CASE ~Holds(d, x)
    BY <1>1, <2>2
  <2> QED BY <2>1, <2>2
<1>4. Now(d, e)' = Now(d, e)
  <2>1. CASE e \in DOMAIN ents[d]
    <3>1. FromOwner(d, e)' = FromOwner(d, e)
      BY <1>2, <1>3, <2>1, FromKept
    <3> QED BY <1>3, <2>1, <3>1 DEF Now
  <2>2. CASE e \notin DOMAIN ents[d]
    BY <1>3, <2>2 DEF Now
  <2> QED BY <2>1, <2>2
<1>5. Deletion(x).kind = "delete"
  BY DEF Deletion
<1>6. Now(d, e)' = Arrived(OwnersCalls(e), CallsOn(e), e, Now(d, e), Deletion(x))
  BY <1>4, <1>5 DEF Arrived
<1>7. ents'[Host] = ents[Host] /\ (r # d => ents'[r] = ents[r])
  BY <1>3, HostAndRemotes
<1> QED BY <1>1, <1>6, <1>7, ReceivedAgrees

LEMMA RemoteRPCAgrees ==
  ASSUME Types, Agreeing, NEW d \in Remotes, RemoteRPC(d), NEW r \in Remotes, NEW e \in Entities
  PROVE  Agrees(r, e)'
<1>1. PICK n \in 1..Len(issued) : Receiving(d, RPC(n)) /\ Run(d, issued[n], n)
  BY DEF RemoteRPC
<1>2. issued' = issued /\ owner' = owner /\ n \in Nat
  BY <1>1, TypesFacts DEF Receiving
<1>3. OwnersCalls(e)' = OwnersCalls(e) /\ SameCalls(e)
  BY <1>2, OwnersCallsKept DEF SameCalls
<1> DEFINE call == issued[n]
<1>4. n \in CallsOn(e) <=> n \in OwnersCalls(e) /\ call.ent = e
  BY DEF CallsOn
<1>5. /\ \A c \in Clients \ {d} : ents'[c] = ents[c]
      /\ DOMAIN ents'[d] = DOMAIN ents[d]
      /\ \A x \in DOMAIN ents[d] :
           ents'[d][x].ran = IF call.ent = x /\ x \notin Lacks[d]
                             THEN Append(ents[d][x].ran, n) ELSE ents[d][x].ran
  BY <1>1, RunRan, HostAndRemotes
<1> HIDE DEF call
<1>6. RPC(n).kind = "rpc" /\ RPC(n).call = n
  BY RPCKind
<1>7. ASSUME Concerned(d, e)
      PROVE  Now(d, e)' = Arrived(OwnersCalls(e), CallsOn(e), e, Now(d, e), RPC(n))
  <2>0. Arrived(OwnersCalls(e), CallsOn(e), e, Now(d, e), RPC(n))
          = IF n \in CallsOn(e) /\ Now(d, e).held THEN Held(Append(Now(d, e).ran, n)) ELSE Now(d, e)
    BY <1>6 DEF Arrived
  <2>1. CASE e \notin DOMAIN ents[d]
    <3>1. Now(d, e) = Absent /\ Now(d, e)' = Absent
      BY <1>5, <2>1 DEF Now
    <3> QED BY <2>0, <3>1, AbsentType
  <2>2. CASE e \in DOMAIN ents[d]
    <3>1. /\ ents'[d][e].ran = ents[d][e].ran => FromOwner(d, e)' = FromOwner(d, e)
          /\ ents'[d][e].ran = Append(ents[d][e].ran, n) =>
               FromOwner(d, e)' = IF n \in OwnersCalls(e)' THEN Append(FromOwner(d, e), n)
                                  ELSE FromOwner(d, e)
      BY <1>2, <1>3, <2>2, FromAfter, HostAndRemotes
    <3>2. Now(d, e) = Held(FromOwner(d, e)) /\ Now(d, e)' = Held(FromOwner(d, e)')
      BY <1>5, <2>2 DEF Now
    <3>3. Now(d, e).held /\ Now(d, e).ran = FromOwner(d, e)
      BY <3>2 DEF Held
    <3>4. CASE n \in CallsOn(e)
      <4>1. FromOwner(d, e)' = Append(FromOwner(d, e), n)
        BY <1>3, <1>4, <1>5, <1>7, <2>2, <3>1, <3>4 DEF Concerned
      <4> QED BY <2>0, <3>2, <3>3, <3>4, <4>1
    <3>5. CASE n \notin CallsOn(e)
      <4>1. FromOwner(d, e)' = FromOwner(d, e)
        BY <1>3, <1>4, <1>5, <2>2, <3>1, <3>5
      <4> QED BY <2>0, <3>2, <3>5, <4>1
    <3> QED BY <3>4, <3>5
  <2> QED BY <2>1, <2>2
<1>8. ents'[Host] = ents[Host] /\ (r # d => ents'[r] = ents[r])
  BY <1>5, HostAndRemotes
<1> QED BY <1>1, <1>7, <1>8, ReceivedAgrees

LEMMA InitAgreeing == ASSUME Init PROVE Agreeing
<1> SUFFICES ASSUME NEW r \in Remotes, NEW e \in Entities PROVE ~Concerned(r, e)
  BY DEF Agreeing, Agrees
<1> QED BY DEF Init, Concerned

LEMMA StepAgreeing ==
  ASSUME Types, UpInv, Agreeing, [Next]_vars
  PROVE  Agreeing'
<1> SUFFICES ASSUME NEW r \in Remotes, NEW e \in Entities PROVE Agrees(r, e)'
  BY DEF Agreeing
<1>1. CASE HostCall
  BY <1>1, HostCallAgrees
<1>2. ASSUME NEW x \in Entities, Spawn(x) \/ Delete(x)
      PROVE  Agrees(r, e)'
  BY <1>2, SpawnAgrees, DeleteAgrees
<1>3. ASSUME NEW c \in Clients, Sweep(c)
      PROVE  Agrees(r, e)'
  BY <1>3, SweepAgrees
<1>4. ASSUME NEW c \in Remotes, Join(c) \/ Leave(c) \/ RemoteCall(c) \/ HostHandle(c)
      PROVE  Agrees(r, e)'
  BY <1>4, JoinAgrees, LeaveAgrees, RemoteCallAgrees, HandleConnectedAgrees, HandleRPCAgrees
     DEF HostHandle
<1>5. ASSUME NEW c \in Remotes, RemoteHandle(c)
      PROVE  Agrees(r, e)'
  BY <1>5, RemoteCreateAgrees, RemoteSnapshotAgrees, RemoteDeleteAgrees, RemoteRPCAgrees
     DEF RemoteHandle
<1>6. CASE UNCHANGED vars
  <2>1. UNCHANGED <<ents, owner, link, down, issued>>
    BY <1>6 DEF vars
  <2>2. Later(r, e)' = Later(r, e) /\ FromOwner(Host, e)' = FromOwner(Host, e)
    BY <2>1, LaterKept, FromKept
  <2>3. Concerned(r, e)' => Concerned(r, e)
    BY <2>1 DEF Concerned
  <2> QED BY <2>2, <2>3, KeptAgrees
<1> QED BY <1>1, <1>2, <1>3, <1>4, <1>5, <1>6 DEF Next

(* A late joiner ends up with the same points, for any number of clients,  *)
(* entities and calls.  Once what is under way to r has arrived its replica*)
(* of e reflects the owner's calls that the host's reflects, or it is no   *)
(* longer there: whatever the host sends or executes changes both alike.   *)
THEOREM ScoresAgreeAlways == Spec => []ScoresAgree
<1>1. Init => Agreeing
  BY InitAgreeing
<1>2. IInv /\ Agreeing /\ [Next]_vars => Agreeing'
  BY StepAgreeing DEF IInv
<1>3. IInv /\ Agreeing => ScoresAgree
  <2> SUFFICES ASSUME IInv, Agreeing, NEW r \in Remotes, Quiet(r),
                      NEW e \in (DOMAIN ents[r] \cap DOMAIN ents[Host] \cap Carried) \ Lacks[r],
                      owner[e] # r
               PROVE  FromOwner(r, e) = FromOwner(Host, e)
    BY DEF ScoresAgree
  <2>1. e \in Entities /\ Concerned(r, e)
    BY TypesFacts, HostAndRemotes DEF IInv, Types, Replica, Concerned, Quiet
  <2>2. Later(r, e) = Now(r, e)
    BY AfterNil DEF Later, Quiet
  <2>3. Now(r, e) = Held(FromOwner(r, e))
    BY DEF Now
  <2>4. Later(r, e).held /\ Later(r, e).ran = FromOwner(r, e)
    BY <2>2, <2>3 DEF Held
  <2> QED BY <2>1, <2>4 DEF Agreeing, Agrees
<1> QED BY <1>1, <1>2, <1>3, Invariance, PTL DEF Spec
=============================================================================
