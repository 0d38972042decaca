--------------------------- MODULE Asteroids_proof ---------------------------
(***************************************************************************)
(* The proof that every player has one ship, its own, and that host and    *)
(* owner agree on who is invincible, for any number of clients, any IDs    *)
(* used again, any asteroids and bullets, and queues of any length.        *)
(*                                                                         *)
(* The argument.  An ID has one holder at a time, from Join until the host *)
(* has handled DISCONNECTED, and is in free_ids otherwise (Unique); a      *)
(* client's packets begin with CONNECTED and end with DISCONNECTED, so the *)
(* host serves it for what lies between them (Queue).  A served client has *)
(* a ship on the host, and a ship there is either that of a client that is *)
(* served, and not marked, or Going: marked, with nobody served under its  *)
(* ID and, for the next holder, nothing due before the frame that erases it*)
(* (HostShips).  Hence the host's ship under the ID of a client it serves  *)
(* is that client's (ServedShip), though the client may hold one of an     *)
(* earlier holder, whose creation was left in the queue: nothing is said of*)
(* it, and nothing the client does to it counts.  A client's own ship      *)
(* reaches it once, at a time when nobody has called for it (Announced),   *)
(* and no call about it is sent back (View); from there on the last call   *)
(* under way, or else the host, has the flag of the owner (Agree).         *)
(*                                                                         *)
(* Each action has a lemma that it preserves Inv; what several of them     *)
(* leave alone is in ...Kept.  The sequences that a frame sends are made   *)
(* with Each, which puts a finite set in order (NthFacts), and FlattenSeq. *)
(***************************************************************************)
EXTENDS Asteroids, SequenceInduction, FiniteSetTheorems, TLAPS

UpPackets ==
  [kind : {"connected", "disconnected", "shot", "delete", "shield"}, ent : Nat, on : BOOLEAN]

DownPackets == [kind : {"create", "delete", "shield"}, ent : Nat, on : BOOLEAN]

Infos == [type : {"ship", "asteroid", "bullet"}, owner : Nat, for : Machines, sides : 0..12]

Flags == [damaged : BOOLEAN, dead : BOOLEAN, remove : BOOLEAN]

IDs == 1..Len(born)

(* A connection that holds its ID.                                         *)
Active(c) == link[c] = "in" \/ (link[c] = "gone" /\ up[c] # <<>>)

Ship(e) == born[e].type = "ship"

ShipOf(e, c) == Ship(e) /\ born[e].for = c

-----------------------------------------------------------------------------
Shape ==
  /\ link \in [Conns -> {"out", "in", "gone"}]
  /\ listed \in [Conns -> {"not", "yes", "erased"}]
  /\ next_uid \in Nat /\ next_uid >= 2
  /\ id \in [Conns -> Nat]
  /\ \A c \in Conns : (id[c] = 0 /\ link[c] = "out") \/ id[c] \in 2..next_uid - 1
  /\ free_ids \in Seq(Nat)
  /\ \A i \in 1..Len(free_ids) : free_ids[i] \in 2..next_uid - 1
  /\ served \subseteq Conns
  /\ up \in [Conns -> Seq(UpPackets)]
  /\ down \in [Conns -> Seq(DownPackets)]
  /\ updating \in BOOLEAN
  /\ due \in [Conns -> Nat]
  /\ \A c \in Conns : due[c] <= Len(up[c]) /\ (due[c] > 0 => updating)
  /\ born \in Seq(Infos)
  /\ \A e \in IDs : born[e].owner \in 1..next_uid - 1

(* What a machine holds.                                                   *)
Holds(m) ==
  /\ ents[m] \in [DOMAIN ents[m] -> Flags]
  /\ DOMAIN ents[m] \subseteq IDs
  /\ \A e \in DOMAIN ents[m] : ents[m][e].dead => ~Ship(e)

(* CONNECTED is the first that comes of a client, DISCONNECTED the last.   *)
Framed(q, gone, known) ==
  /\ \A i \in DOMAIN q : q[i].kind = "connected" <=> (i = 1 /\ ~known)
  /\ \A i \in DOMAIN q : q[i].kind = "disconnected" <=> (i = Len(q) /\ gone)

(* A client speaks of what was created, and deletes no ship.               *)
UpFine(p) == p.ent <= Len(born) /\ (p.kind = "delete" => p.ent \in IDs /\ ~Ship(p.ent))

Queue(c) ==
  /\ Framed(up[c], link[c] = "gone", c \in served)
  /\ \A i \in DOMAIN up[c] : UpFine(up[c][i])
  /\ link[c] = "out" => up[c] = <<>> /\ c \notin served
  /\ up[c] = <<>> => (link[c] = "in" <=> c \in served)

(* An ID has one holder at a time.                                         *)
Unique ==
  /\ \A c, d \in Conns : Active(c) /\ Active(d) /\ id[c] = id[d] => c = d
  /\ \A c \in Conns : Active(c) => \A i \in 1..Len(free_ids) : free_ids[i] # id[c]
  /\ \A i, j \in 1..Len(free_ids) : free_ids[i] = free_ids[j] => i = j

(* For whom a ship is.                                                     *)
ForOne(e) ==
  \/ born[e].for = Host /\ born[e].owner = 1
  \/ /\ born[e].for \in Conns /\ born[e].owner = id[born[e].for]
     /\ link[born[e].for] # "out"
     /\ Active(born[e].for) => born[e].for \in served

Origin ==
  /\ \A e \in IDs : born[e].type = "asteroid" => born[e].owner = 1
  /\ \A e \in IDs : Ship(e) => ForOne(e)
  /\ \A e, f \in IDs : Ship(e) /\ Ship(f) /\ born[e].for = born[f].for /\ born[e].for # Host => e = f

(* A ship that the host has; while it is marked, its ID is not in use.     *)
Kept(e) == ~ents[Host][e].remove /\ born[e].for \in served \cup {Host}

Going(e) ==
  /\ ents[Host][e].remove
  /\ born[e].for # Host /\ born[e].for \notin served
  /\ \A c \in Conns : Active(c) /\ id[c] = born[e].owner => c \notin served /\ due[c] = 0

HostShips ==
  /\ \A c \in served : \E e \in DOMAIN ents[Host] : ShipOf(e, c)
  /\ \A e \in DOMAIN ents[Host] : ents[Host][e].remove => updating
  /\ \A e \in DOMAIN ents[Host] : Ship(e) => Kept(e) \/ Going(e)

(* What is under way to c, or queued for its ID: calls about ships, but not *)
(* about its own, and creations that may be left of an earlier holder.     *)
DownFine(c, p) ==
  /\ p.ent \in IDs
  /\ p.kind = "shield" => ~ShipOf(p.ent, c)

View(c) ==
  /\ link[c] # "in" => DOMAIN ents[c] = {}
  /\ \A i \in DOMAIN down[c] : DownFine(c, down[c][i])

Announces(p, e) == p.kind = "create" /\ p.ent = e

Silent(q, e) == \A i \in DOMAIN q : ~Announces(q[i], e)

Once(q, e) == \A i, j \in DOMAIN q : Announces(q[i], e) /\ Announces(q[j], e) => i = j

IsCall(p, e) == p.kind = "shield" /\ p.ent = e

NoCall(q, e) == \A i \in DOMAIN q : ~IsCall(q[i], e)

LastCall(q, e, on) ==
  \E i \in DOMAIN q : /\ IsCall(q[i], e) /\ q[i].on = on
                      /\ \A j \in DOMAIN q : IsCall(q[j], e) => j <= i

(* A ship of c's is created on c once, and c has not called before.        *)
Awaited(c, e) ==
  /\ e \notin DOMAIN ents[c]
  /\ NoCall(up[c], e)
  /\ e \in DOMAIN ents[Host] => ~ents[Host][e].damaged

Announced(c) ==
  \A e \in IDs : ShipOf(e, c) => Once(down[c], e) /\ (Silent(down[c], e) \/ Awaited(c, e))

(* The last call under way, or else the host, knows what c knows.          *)
Told(c, e, on) ==
  \/ NoCall(up[c], e) /\ ents[Host][e].damaged = on
  \/ LastCall(up[c], e, on)

Agree(c) ==
  \A e \in DOMAIN ents[c] \cap DOMAIN ents[Host] : ShipOf(e, c) => Told(c, e, ents[c][e].damaged)

Client(c) == Queue(c) /\ View(c) /\ (link[c] = "in" => Announced(c) /\ Agree(c))

Inv ==
  /\ Shape
  /\ DOMAIN ents = Machines /\ \A m \in Machines : Holds(m)
  /\ Unique /\ Origin /\ HostShips
  /\ \A c \in Conns : Client(c)

-----------------------------------------------------------------------------
(* Sets of IDs in order.                                                   *)

LEMMA NthFacts ==
  ASSUME NEW n \in Nat, NEW S \in SUBSET (1..n)
  PROVE  /\ Cardinality(S) \in Nat
         /\ \A i \in 1..Cardinality(S) : Nth(S, i) \in S
         /\ \A e \in S : \E i \in 1..Cardinality(S) : Nth(S, i) = e
         /\ \A i, j \in 1..Cardinality(S) : Nth(S, i) = Nth(S, j) => i = j
         /\ \A e \in S : Cardinality({x \in S : x < e}) \in 0..(Cardinality(S) - 1)
<1> DEFINE k == Cardinality(S)
           below(e) == {x \in S : x < e}
           rank == [e \in S |-> Cardinality(below(e))]
<1>1. IsFiniteSet(S) /\ k \in Nat /\ S \subseteq Int
  <2>1. IsFiniteSet(1..n)
    BY FS_Interval
  <2>2. IsFiniteSet(S)
    BY <2>1, FS_Subset
  <2>3. k \in Nat
    BY <2>2, FS_CardinalityType
  <2> QED
    BY <2>2, <2>3
<1>2. ASSUME NEW e \in S
      PROVE  Cardinality(below(e)) \in 0..(k - 1) /\ IsFiniteSet(below(e))
  <2>0. below(e) \in SUBSET S
    OBVIOUS
  <2>1. IsFiniteSet(below(e)) /\ Cardinality(below(e)) \in Nat /\ Cardinality(below(e)) <= k
    <3> HIDE DEF below
    <3>1. IsFiniteSet(below(e)) /\ Cardinality(below(e)) <= k
      BY <1>1, <2>0, FS_Subset
    <3>2. Cardinality(below(e)) \in Nat
      BY <3>1, FS_CardinalityType
    <3> QED
      BY <3>1, <3>2
  <2>2. Cardinality(below(e)) # k
    <3>1. below(e) # S
      BY <1>1
    <3> QED
      BY <1>1, <3>1, FS_Subset
  <2> QED
    BY <1>1, <2>1, <2>2
<1>3. ASSUME NEW e \in S, NEW f \in S, e < f
      PROVE  Cardinality(below(e)) < Cardinality(below(f))
  <2>0. ASSUME NEW x \in below(e)
        PROVE  x \in below(f)
    <3>1. x \in S /\ x < e /\ x \in Int /\ e \in Int /\ f \in Int
      BY <1>1
    <3> QED
      BY <3>1, <1>3
  <2>1. below(e) \in SUBSET below(f) /\ e \in below(f) /\ e \notin below(e)
    <3>1. e \in Int /\ ~(e < e)
      BY <1>1
    <3> QED
      BY <2>0, <3>1, <1>3
  <2>2. below(e) # below(f)
    BY <2>1
  <2>3. IsFiniteSet(below(f)) /\ Cardinality(below(f)) \in Nat /\ Cardinality(below(e)) \in Nat
    BY <1>1, <1>2
  <2> HIDE DEF below
  <2>4. Cardinality(below(e)) <= Cardinality(below(f)) /\ Cardinality(below(e)) # Cardinality(below(f))
    BY <2>1, <2>2, <2>3, FS_Subset
  <2> QED
    BY <2>3, <2>4
<1> HIDE DEF below
<1>4. ASSUME NEW e \in S, NEW f \in S, rank[e] = rank[f]
      PROVE  e = f
  <2>1. rank[e] = Cardinality(below(e)) /\ rank[f] = Cardinality(below(f))
    OBVIOUS
  <2>2. Cardinality(below(e)) \in Int /\ Cardinality(below(f)) \in Int
    BY <1>1, <1>2
  <2>3. ~(e < f) /\ ~(f < e)
    BY <1>3, <1>4, <2>1, <2>2
  <2> QED
    BY <1>1, <2>3
<1>5. rank \in [S -> 0..(k - 1)]
  BY <1>2
<1>6. rank \in Injection(S, 0..(k - 1))
  BY <1>4, <1>5 DEF Injection, IsInjective
<1>7. IsFiniteSet(0..(k - 1)) /\ Cardinality(0..(k - 1)) = k
  <2>1. PICK n1 \in Int : n1 = k - 1
    BY <1>1
  <2>2. /\ IsFiniteSet(0..n1)
        /\ Cardinality(0..n1) = IF 0 > n1 THEN 0 ELSE n1 - 0 + 1
    BY FS_Interval
  <2>3. (IF 0 > n1 THEN 0 ELSE n1 - 0 + 1) = k
    BY <1>1, <2>1
  <2> QED
    BY <2>1, <2>2, <2>3
<1>8. rank \in Surjection(S, 0..(k - 1))
  BY <1>6, <1>7, FS_Injection
<1>9. ASSUME NEW i \in 1..k
      PROVE  \E e \in S : Cardinality(below(e)) = i - 1
  <2>1. i - 1 \in 0..(k - 1)
    BY <1>1
  <2>2. \E e \in S : rank[e] = i - 1
    BY <1>8, <2>1 DEF Surjection
  <2> QED
    BY <2>2
<1>10. \A i \in 1..k : Nth(S, i) \in S /\ Cardinality(below(Nth(S, i))) = i - 1
  BY <1>9 DEF Nth, below
<1>11. ASSUME NEW e \in S
       PROVE  \E i \in 1..k : Nth(S, i) = e
  <2> DEFINE i == Cardinality(below(e)) + 1
  <2>1. i \in 1..k /\ Cardinality(below(e)) = i - 1
    BY <1>1, <1>2
  <2> HIDE DEF i
  <2>2. Nth(S, i) \in S /\ Cardinality(below(Nth(S, i))) = Cardinality(below(e))
    BY <1>10, <2>1
  <2>3. Nth(S, i) = e
    BY <1>4, <2>2
  <2> QED
    BY <2>1, <2>3
<1>12. \A e \in S : Cardinality({x \in S : x < e}) \in 0..(k - 1)
  BY <1>2 DEF below
<1>13. \A i, j \in 1..k : Nth(S, i) = Nth(S, j) => i = j
  <2> SUFFICES ASSUME NEW i \in 1..k, NEW j \in 1..k, Nth(S, i) = Nth(S, j)
               PROVE  i = j
    OBVIOUS
  <2>1. i - 1 = j - 1
    BY <1>10
  <2> QED
    BY <2>1
<1> QED
  BY <1>1, <1>10, <1>11, <1>12, <1>13

-----------------------------------------------------------------------------
(* What a sequence is made of.                                             *)

LEMMA LiteralSeq ==
  ASSUME NEW T, NEW k \in Nat, NEW f, f = [i \in 1..k |-> f[i]], \A i \in 1..k : f[i] \in T
  PROVE  f \in Seq(T) /\ Len(f) = k /\ DOMAIN f = 1..k
<1>1. f \in [1..k -> T]
  OBVIOUS
<1> QED
  BY <1>1

LEMMA ConcatFacts ==
  ASSUME NEW T, NEW q \in Seq(T), NEW r \in Seq(T)
  PROVE  /\ q \o r \in Seq(T)
         /\ Len(q \o r) = Len(q) + Len(r)
         /\ \A i \in DOMAIN q : i \in DOMAIN (q \o r) /\ (q \o r)[i] = q[i] /\ i <= Len(q) /\ i \in Nat
         /\ \A i \in DOMAIN r : Len(q) + i \in DOMAIN (q \o r) /\ (q \o r)[Len(q) + i] = r[i]
         /\ \A i \in DOMAIN (q \o r) : i \in DOMAIN q \/ (i - Len(q) \in DOMAIN r /\ i > Len(q) /\ (q \o r)[i] = r[i - Len(q)])
<1>1. q \o r \in Seq(T) /\ Len(q \o r) = Len(q) + Len(r) /\ Len(q) \in Nat /\ Len(r) \in Nat
  OBVIOUS
<1>2. DOMAIN q = 1..Len(q) /\ DOMAIN r = 1..Len(r) /\ DOMAIN (q \o r) = 1..(Len(q) + Len(r))
  BY <1>1
<1>3. \A i \in 1..Len(q) + Len(r) : (q \o r)[i] = IF i <= Len(q) THEN q[i] ELSE r[i - Len(q)]
  OBVIOUS
<1> DEFINE qr == q \o r
<1> HIDE DEF qr
<1>4. \A i \in DOMAIN q : i \in DOMAIN qr /\ qr[i] = q[i] /\ i <= Len(q) /\ i \in Nat
  BY <1>1, <1>2, <1>3 DEF qr
<1>5. \A i \in DOMAIN r : Len(q) + i \in DOMAIN qr /\ qr[Len(q) + i] = r[i]
  <2> TAKE i \in DOMAIN r
  <2>1. i \in 1..Len(r) /\ Len(q) + i \in 1..(Len(q) + Len(r)) /\ ~(Len(q) + i <= Len(q)) /\ (Len(q) + i) - Len(q) = i
    BY <1>1, <1>2
  <2> QED
    BY <2>1, <1>2, <1>3 DEF qr
<1>6. \A i \in DOMAIN qr : i \in DOMAIN q \/ (i - Len(q) \in DOMAIN r /\ i > Len(q) /\ qr[i] = r[i - Len(q)])
  BY <1>1, <1>2, <1>3 DEF qr
<1> QED
  BY <1>1, <1>4, <1>5, <1>6 DEF qr

LEMMA TailFacts ==
  ASSUME NEW T, NEW q \in Seq(T), q # <<>>
  PROVE  /\ Head(q) \in T /\ Head(q) = q[1] /\ 1 \in DOMAIN q
         /\ Tail(q) \in Seq(T) /\ Len(Tail(q)) = Len(q) - 1 /\ Len(q) \in Nat /\ Len(q) > 0
         /\ DOMAIN Tail(q) = 1..(Len(q) - 1) /\ DOMAIN q = 1..Len(q)
         /\ \A i \in DOMAIN Tail(q) : i + 1 \in DOMAIN q /\ Tail(q)[i] = q[i + 1] /\ i \in Nat /\ i > 0
         /\ \A i \in DOMAIN q : i = 1 \/ (i - 1 \in DOMAIN Tail(q) /\ Tail(q)[i - 1] = q[i])
<1>1. /\ Head(q) \in T /\ Head(q) = q[1] /\ Tail(q) \in Seq(T) /\ Len(Tail(q)) = Len(q) - 1
      /\ Len(q) \in Nat /\ Len(q) > 0
      /\ DOMAIN Tail(q) = 1..(Len(q) - 1) /\ DOMAIN q = 1..Len(q)
  OBVIOUS
<1>2. \A i \in 1..(Len(q) - 1) : Tail(q)[i] = q[i + 1]
  OBVIOUS
<1> DEFINE t == Tail(q)
           n == Len(q)
<1> HIDE DEF t, n
<1>3. /\ \A i \in 1..(n - 1) : i + 1 \in 1..n /\ t[i] = q[i + 1] /\ i \in Nat /\ i > 0
      /\ \A i \in 1..n : i = 1 \/ (i - 1 \in 1..(n - 1) /\ t[i - 1] = q[i])
  BY <1>1, <1>2 DEF t, n
<1> QED
  BY <1>1, <1>3 DEF t, n

LEMMA SilentConcat ==
  ASSUME NEW T, NEW q \in Seq(T), NEW r \in Seq(T), NEW e
  PROVE  Silent(q \o r, e) <=> Silent(q, e) /\ Silent(r, e)
<1> DEFINE qr == q \o r
<1>1. /\ \A i \in DOMAIN q : i \in DOMAIN qr /\ qr[i] = q[i]
      /\ \A i \in DOMAIN r : Len(q) + i \in DOMAIN qr /\ qr[Len(q) + i] = r[i]
      /\ \A i \in DOMAIN qr : i \in DOMAIN q \/ (i - Len(q) \in DOMAIN r /\ qr[i] = r[i - Len(q)])
  BY ConcatFacts
<1> HIDE DEF qr
<1>2. Silent(qr, e) <=> Silent(q, e) /\ Silent(r, e)
  BY <1>1 DEF Silent
<1> QED
  BY <1>2 DEF qr

LEMMA OnceConcat ==
  ASSUME NEW T, NEW q \in Seq(T), NEW r \in Seq(T), NEW e, Once(q, e), Once(r, e),
         Silent(q, e) \/ Silent(r, e)
  PROVE  Once(q \o r, e)
<1> DEFINE qr == q \o r
<1>1. /\ \A i \in DOMAIN q : i \in DOMAIN qr /\ qr[i] = q[i]
      /\ \A i \in DOMAIN qr : i \in DOMAIN q \/ (i - Len(q) \in DOMAIN r /\ qr[i] = r[i - Len(q)])
      /\ Len(q) \in Int /\ \A i \in DOMAIN qr : i \in Int
  <2>1. qr \in Seq(T)
    OBVIOUS
  <2>2. \A i \in DOMAIN qr : i \in Int
    BY <2>1
  <2>3. Len(q) \in Int
    OBVIOUS
  <2> QED
    BY <2>2, <2>3, ConcatFacts
<1> HIDE DEF qr
<1>2. Once(qr, e)
  <2> SUFFICES ASSUME NEW i \in DOMAIN qr, NEW j \in DOMAIN qr, Announces(qr[i], e), Announces(qr[j], e)
               PROVE  i = j
    BY DEF Once
  <2>1. CASE Silent(q, e)
    <3>1. i - Len(q) \in DOMAIN r /\ qr[i] = r[i - Len(q)] /\ j - Len(q) \in DOMAIN r /\ qr[j] = r[j - Len(q)]
      BY <1>1, <2>1 DEF Silent
    <3>2. i - Len(q) = j - Len(q)
      BY <3>1 DEF Once
    <3> QED
      BY <3>2, <1>1
  <2>2. CASE Silent(r, e)
    <3>1. i \in DOMAIN q /\ j \in DOMAIN q /\ qr[i] = q[i] /\ qr[j] = q[j]
      BY <1>1, <2>2 DEF Silent
    <3> QED
      BY <3>1 DEF Once
  <2> QED
    BY <2>1, <2>2
<1> QED
  BY <1>2 DEF qr

LEMMA SilentOnce ==
  ASSUME NEW q, NEW e, Silent(q, e)
  PROVE  Once(q, e)
BY DEF Silent, Once

LEMMA OnceTail ==
  ASSUME NEW T, NEW q \in Seq(T), q # <<>>, NEW e, Once(q, e)
  PROVE  /\ Once(Tail(q), e)
         /\ Silent(q, e) => Silent(Tail(q), e)
         /\ Announces(Head(q), e) => Silent(Tail(q), e)
<1> DEFINE t == Tail(q)
           h == Head(q)
<1>1. /\ h = q[1] /\ 1 \in DOMAIN q
      /\ \A i \in DOMAIN t : i + 1 \in DOMAIN q /\ t[i] = q[i + 1] /\ i \in Nat /\ i > 0
  BY TailFacts
<1> HIDE DEF t, h
<1>2. Once(t, e)
  <2> SUFFICES ASSUME NEW i \in DOMAIN t, NEW j \in DOMAIN t, Announces(t[i], e), Announces(t[j], e)
               PROVE  i = j
    BY DEF Once
  <2>1. i + 1 = j + 1
    BY <1>1 DEF Once
  <2> QED
    BY <1>1, <2>1
<1>3. Silent(q, e) => Silent(t, e)
  BY <1>1 DEF Silent
<1>4. ASSUME Announces(h, e), NEW i \in DOMAIN t, Announces(t[i], e)
      PROVE  FALSE
  <2>1. 1 = i + 1
    BY <1>1, <1>4 DEF Once
  <2> QED
    BY <1>1, <2>1
<1>5. Announces(h, e) => Silent(t, e)
  BY <1>4 DEF Silent
<1> QED
  BY <1>2, <1>3, <1>5 DEF t, h

LEMMA NoCallConcat ==
  ASSUME NEW T, NEW q \in Seq(T), NEW r \in Seq(T), NEW e
  PROVE  NoCall(q \o r, e) <=> NoCall(q, e) /\ NoCall(r, e)
<1> DEFINE qr == q \o r
<1>1. /\ \A i \in DOMAIN q : i \in DOMAIN qr /\ qr[i] = q[i]
      /\ \A i \in DOMAIN r : Len(q) + i \in DOMAIN qr /\ qr[Len(q) + i] = r[i]
      /\ \A i \in DOMAIN qr : i \in DOMAIN q \/ (i - Len(q) \in DOMAIN r /\ qr[i] = r[i - Len(q)])
  BY ConcatFacts
<1> HIDE DEF qr
<1>2. NoCall(qr, e) <=> NoCall(q, e) /\ NoCall(r, e)
  BY <1>1 DEF NoCall
<1> QED
  BY <1>2 DEF qr

LEMMA LastCallConcat ==
  ASSUME NEW T, NEW q \in Seq(T), NEW r \in Seq(T), NEW e, NEW on
  PROVE  /\ LastCall(r, e, on) => LastCall(q \o r, e, on)
         /\ LastCall(q, e, on) /\ NoCall(r, e) => LastCall(q \o r, e, on)
<1> DEFINE qr == q \o r
           n == Len(q)
<1>1. /\ \A i \in DOMAIN q : i \in DOMAIN qr /\ qr[i] = q[i] /\ i <= n
      /\ \A i \in DOMAIN r : n + i \in DOMAIN qr /\ qr[n + i] = r[i]
      /\ \A i \in DOMAIN qr : i \in DOMAIN q \/ (i - n \in DOMAIN r /\ qr[i] = r[i - n])
  BY ConcatFacts
<1>2. /\ n \in Nat
      /\ \A i \in DOMAIN q : i \in Nat
      /\ \A i \in DOMAIN r : i \in Nat /\ i > 0
      /\ \A i \in DOMAIN qr : i \in Nat
  <2>1. qr \in Seq(T)
    OBVIOUS
  <2>2. \A i \in DOMAIN qr : i \in Nat
    BY <2>1
  <2>3. n \in Nat /\ \A i \in DOMAIN q : i \in Nat
    OBVIOUS
  <2>4. \A i \in DOMAIN r : i \in Nat /\ i > 0
    OBVIOUS
  <2> QED
    BY <2>2, <2>3, <2>4
<1> HIDE DEF qr, n
<1>3. ASSUME LastCall(r, e, on)
      PROVE  LastCall(qr, e, on)
  <2>1. PICK i \in DOMAIN r : IsCall(r[i], e) /\ r[i].on = on /\ \A j \in DOMAIN r : IsCall(r[j], e) => j <= i
    BY <1>3 DEF LastCall
  <2>2. n + i \in DOMAIN qr /\ qr[n + i] = r[i] /\ i \in Nat /\ i > 0
    BY <1>1, <1>2
  <2>3. ASSUME NEW j \in DOMAIN qr, IsCall(qr[j], e)
        PROVE  j <= n + i
    <3>1. CASE j \in DOMAIN q
      BY <3>1, <1>1, <1>2, <2>2
    <3>2. CASE j - n \in DOMAIN r /\ qr[j] = r[j - n]
      <4>1. j - n <= i
        BY <3>2, <2>1, <2>3
      <4> QED
        BY <4>1, <1>2, <2>2
    <3> QED
      BY <3>1, <3>2, <1>1
  <2> QED
    BY <2>1, <2>2, <2>3 DEF LastCall
<1>4. ASSUME LastCall(q, e, on), NoCall(r, e)
      PROVE  LastCall(qr, e, on)
  <2>1. PICK i \in DOMAIN q : IsCall(q[i], e) /\ q[i].on = on /\ \A j \in DOMAIN q : IsCall(q[j], e) => j <= i
    BY <1>4 DEF LastCall
  <2>2. i \in DOMAIN qr /\ qr[i] = q[i]
    BY <1>1
  <2>3. ASSUME NEW j \in DOMAIN qr, IsCall(qr[j], e)
        PROVE  j <= i
    <3>1. j \in DOMAIN q
      BY <2>3, <1>1, <1>4 DEF NoCall
    <3> QED
      BY <3>1, <1>1, <2>1, <2>3
  <2> QED
    BY <2>1, <2>2, <2>3 DEF LastCall
<1> QED
  BY <1>3, <1>4 DEF qr

(* After the head was handled.                                             *)
LEMMA CallTail ==
  ASSUME NEW T, NEW q \in Seq(T), q # <<>>, NEW e, NEW on
  PROVE  /\ NoCall(q, e) => NoCall(Tail(q), e)
         /\ LastCall(q, e, on) => \/ LastCall(Tail(q), e, on)
                                  \/ NoCall(Tail(q), e) /\ IsCall(Head(q), e) /\ Head(q).on = on
         /\ ~IsCall(Head(q), e) /\ LastCall(q, e, on) => LastCall(Tail(q), e, on)
<1> DEFINE t == Tail(q)
           h == Head(q)
<1>1. /\ h = q[1] /\ 1 \in DOMAIN q
      /\ \A i \in DOMAIN t : i + 1 \in DOMAIN q /\ t[i] = q[i + 1] /\ i \in Nat /\ i > 0
      /\ \A i \in DOMAIN q : i = 1 \/ (i - 1 \in DOMAIN t /\ t[i - 1] = q[i])
      /\ \A i \in DOMAIN q : i \in Nat
  <2>1. \A i \in DOMAIN q : i \in Nat
    OBVIOUS
  <2> QED
    BY <2>1, TailFacts
<1> HIDE DEF t, h
<1>2. NoCall(q, e) => NoCall(t, e)
  BY <1>1 DEF NoCall
<1>3. ASSUME LastCall(q, e, on)
      PROVE  LastCall(t, e, on) \/ (NoCall(t, e) /\ IsCall(h, e) /\ h.on = on)
  <2>1. PICK i \in DOMAIN q : IsCall(q[i], e) /\ q[i].on = on /\ \A j \in DOMAIN q : IsCall(q[j], e) => j <= i
    BY <1>3 DEF LastCall
  <2>2. CASE i = 1
    <3>1. ASSUME NEW j \in DOMAIN t, IsCall(t[j], e)
          PROVE  FALSE
      <4>1. j + 1 <= 1
        BY <3>1, <1>1, <2>1, <2>2
      <4> QED
        BY <4>1, <1>1
    <3> QED
      BY <3>1, <2>1, <2>2, <1>1 DEF NoCall
  <2>3. CASE i - 1 \in DOMAIN t /\ t[i - 1] = q[i]
    <3>1. ASSUME NEW j \in DOMAIN t, IsCall(t[j], e)
          PROVE  j <= i - 1
      <4>1. j + 1 <= i
        BY <3>1, <1>1, <2>1
      <4> QED
        BY <4>1, <1>1
    <3> QED
      BY <3>1, <2>1, <2>3 DEF LastCall
  <2> QED
    BY <2>2, <2>3, <1>1
<1> QED
  BY <1>2, <1>3 DEF t, h

LEMMA NoCallTail ==
  ASSUME NEW T, NEW q \in Seq(T), q # <<>>
  PROVE  \A e : NoCall(q, e) => NoCall(Tail(q), e)
BY CallTail

LEMMA FramedTail ==
  ASSUME NEW T, NEW q \in Seq(T), q # <<>>, NEW gone, NEW known, Framed(q, gone, known),
         NEW later, later \/ Tail(q) = <<>>
  PROVE  /\ Framed(Tail(q), gone, later)
         /\ Head(q).kind = "connected" <=> ~known
         /\ Head(q).kind = "disconnected" <=> gone /\ Tail(q) = <<>>
<1> DEFINE t == Tail(q)
           h == Head(q)
           n == Len(q)
<1>1. /\ h = q[1] /\ 1 \in DOMAIN q /\ n \in Nat /\ n > 0 /\ DOMAIN q = 1..n /\ DOMAIN t = 1..(n - 1) /\ Len(t) = n - 1
      /\ \A i \in DOMAIN t : i + 1 \in DOMAIN q /\ t[i] = q[i + 1] /\ i \in Nat /\ i > 0
  BY TailFacts
<1>2. t = <<>> <=> n = 1
  <2>1. t \in Seq(T)
    OBVIOUS
  <2> HIDE DEF t, n
  <2>2. t = <<>> <=> Len(t) = 0
    BY <2>1, EmptySeq
  <2> QED
    BY <2>2, <1>1
<1> HIDE DEF t, h, n
<1>3. \A i \in DOMAIN q : q[i].kind = "disconnected" <=> (i = n /\ gone)
  BY DEF Framed, n
<1>4. \A i \in DOMAIN q : q[i].kind = "connected" <=> (i = 1 /\ ~known)
  BY DEF Framed
<1>5. \A i \in DOMAIN t : t[i].kind = "disconnected" <=> (i = Len(t) /\ gone)
  <2> TAKE i \in DOMAIN t
  <2>1. i + 1 = n <=> i = Len(t)
    BY <1>1
  <2> QED
    BY <2>1, <1>1, <1>3
<1>6. \A i \in DOMAIN t : t[i].kind = "connected" <=> (i = 1 /\ ~later)
  <2> TAKE i \in DOMAIN t
  <2>1. i + 1 # 1 /\ later
    BY <1>1, <1>2 DEF t
  <2> QED
    BY <2>1, <1>1, <1>4
<1> QED
  BY <1>1, <1>2, <1>3, <1>4, <1>5, <1>6 DEF Framed, t, h

-----------------------------------------------------------------------------
(* A sequence of sequences in one.                                         *)

FlattenSteps(ss, g) ==
  /\ g = [i \in 1..Len(ss) |-> g[i]]
  /\ \A i \in 1..Len(ss) : g[i] = IF i = 1 THEN ss[i] ELSE g[i - 1] \o ss[i]

LEMMA FlattenStepsExist ==
  ASSUME NEW T, NEW ss \in Seq(T)
  PROVE  \E g : FlattenSteps(ss, g)
<1> DEFINE Upto(n, g) ==
             /\ g = [k \in 1..n |-> g[k]]
             /\ \A k \in 1..n : g[k] = IF k = 1 THEN ss[k] ELSE g[k - 1] \o ss[k]
           N == {n \in Nat : \E g : Upto(n, g)}
<1>1. 0 \in N
  <2>1. Upto(0, [k \in 1..0 |-> k])
    OBVIOUS
  <2> QED
    BY <2>1
<1>2. ASSUME NEW n \in Nat, n \in N
      PROVE  n + 1 \in N
  <2>1. PICK g : Upto(n, g)
    BY <1>2
  <2> DEFINE last == IF n + 1 = 1 THEN ss[n + 1] ELSE g[n] \o ss[n + 1]
             h == [k \in 1..(n + 1) |-> IF k = n + 1 THEN last ELSE g[k]]
  <2>2. h = [k \in 1..(n + 1) |-> h[k]] /\ h[n + 1] = last /\ \A k \in 1..n : h[k] = g[k]
    <3> HIDE DEF last
    <3>1. h = [k \in 1..(n + 1) |-> h[k]] /\ h[n + 1] = last
      OBVIOUS
    <3>2. \A k \in 1..n : h[k] = g[k]
      <4> TAKE k \in 1..n
      <4>1. k \in 1..(n + 1) /\ k # n + 1
        OBVIOUS
      <4> QED
        BY <4>1
    <3> QED
      BY <3>1, <3>2
  <2> HIDE DEF h
  <2>3. ASSUME NEW k \in 1..(n + 1)
        PROVE  h[k] = IF k = 1 THEN ss[k] ELSE h[k - 1] \o ss[k]
    <3>1. CASE k = n + 1 /\ k = 1
      BY <3>1, <2>2
    <3>2. CASE k = n + 1 /\ k # 1
      <4>1. k - 1 = n /\ n \in 1..n
        BY <3>2
      <4>2. h[k - 1] = g[n]
        BY <4>1, <2>2
      <4> QED
        BY <3>2, <4>2, <2>2
    <3>3. CASE k \in 1..n
      <4>1. g[k] = IF k = 1 THEN ss[k] ELSE g[k - 1] \o ss[k]
        BY <3>3, <2>1
      <4>2. k # 1 => h[k - 1] = g[k - 1]
        BY <3>3, <2>2
      <4>3. h[k] = g[k]
        BY <3>3, <2>2
      <4> QED
        BY <4>1, <4>2, <4>3
    <3> QED
      BY <3>1, <3>2, <3>3
  <2>4. Upto(n + 1, h)
    BY <2>2, <2>3
  <2> HIDE DEF Upto
  <2> QED
    BY <2>4
<1>3. Nat \subseteq N
  BY <1>1, <1>2, Induction
<1>4. Len(ss) \in N
  BY <1>3
<1> QED
  BY <1>4 DEF FlattenSteps

LEMMA FlattenLast ==
  ASSUME NEW T, NEW ss \in Seq(T), Len(ss) # 0
  PROVE  \E g : FlattenSteps(ss, g) /\ FlattenSeq(ss) = g[Len(ss)]
<1> DEFINE F(d) == [i \in 1..Len(ss) |-> IF i = 1 THEN ss[i] ELSE d[i - 1] \o ss[i]]
           c == CHOOSE d : d = F(d)
<1>1. PICK g : FlattenSteps(ss, g)
  BY FlattenStepsExist
<1>2. g = F(g)
  <2>1. g = [i \in 1..Len(ss) |-> g[i]]
    BY <1>1 DEF FlattenSteps
  <2>2. \A i \in 1..Len(ss) : g[i] = F(g)[i]
    BY <1>1 DEF FlattenSteps
  <2> QED
    BY <2>1, <2>2
<1>3. c = F(c)
  BY <1>2
<1>4. FlattenSeq(ss) = c[Len(ss)]
  BY DEF FlattenSeq
<1> HIDE DEF c
<1>5. FlattenSteps(ss, c)
  <2>1. c = [i \in 1..Len(ss) |-> c[i]]
    BY <1>3
  <2>2. \A i \in 1..Len(ss) : c[i] = IF i = 1 THEN ss[i] ELSE c[i - 1] \o ss[i]
    <3> TAKE i \in 1..Len(ss)
    <3>1. F(c)[i] = IF i = 1 THEN ss[i] ELSE c[i - 1] \o ss[i]
      OBVIOUS
    <3> HIDE DEF F
    <3> QED
      BY <1>3, <3>1
  <2> QED
    BY <2>1, <2>2 DEF FlattenSteps
<1> QED
  BY <1>4, <1>5

LEMMA FlattenTyped ==
  ASSUME NEW T, NEW ss \in Seq(Seq(T))
  PROVE  FlattenSeq(ss) \in Seq(T)
<1>1. CASE Len(ss) = 0
  <2>1. FlattenSeq(ss) = ss
    BY <1>1 DEF FlattenSeq
  <2>2. ss = <<>>
    BY <1>1
  <2>3. <<>> \in Seq(T)
    OBVIOUS
  <2> QED
    BY <2>1, <2>2, <2>3
<1>2. CASE Len(ss) # 0
  <2>1. PICK g : FlattenSteps(ss, g) /\ FlattenSeq(ss) = g[Len(ss)]
    BY <1>2, FlattenLast
  <2> DEFINE N == {n \in Nat : n \in 1..Len(ss) => g[n] \in Seq(T)}
  <2>2. ASSUME NEW n \in Nat, n \in N
        PROVE  n + 1 \in N
    <3> SUFFICES ASSUME n + 1 \in 1..Len(ss)
                 PROVE  g[n + 1] \in Seq(T)
      OBVIOUS
    <3>1. ss[n + 1] \in Seq(T) /\ (n + 1) - 1 = n
      OBVIOUS
    <3>2. g[n + 1] = IF n + 1 = 1 THEN ss[n + 1] ELSE g[n] \o ss[n + 1]
      BY <2>1, <3>1 DEF FlattenSteps
    <3>3. CASE n + 1 = 1
      BY <3>1, <3>2, <3>3
    <3>4. CASE n + 1 # 1
      <4>1. g[n] \in Seq(T)
        BY <2>2, <3>4
      <4> QED
        BY <3>1, <3>2, <3>4, <4>1
    <3> QED
      BY <3>3, <3>4
  <2>3. Nat \subseteq N
    <3>1. 0 \in N
      OBVIOUS
    <3> HIDE DEF N
    <3> QED
      BY <2>2, <3>1, Induction
  <2>4. Len(ss) \in Nat /\ Len(ss) \in 1..Len(ss)
    BY <1>2
  <2>5. g[Len(ss)] \in Seq(T)
    BY <2>3, <2>4
  <2> QED
    BY <2>1, <2>5
<1> QED
  BY <1>1, <1>2

LEMMA FlattenPairs ==
  ASSUME NEW T, NEW ss \in Seq(Seq(T)), \A i \in 1..Len(ss) : Len(ss[i]) = 2
  PROVE  Len(FlattenSeq(ss)) = 2 * Len(ss)
<1>1. CASE Len(ss) = 0
  BY <1>1 DEF FlattenSeq
<1>2. CASE Len(ss) # 0
  <2>1. PICK g : FlattenSteps(ss, g) /\ FlattenSeq(ss) = g[Len(ss)]
    BY <1>2, FlattenLast
  <2> DEFINE N == {n \in Nat : n \in 1..Len(ss) => g[n] \in Seq(T) /\ Len(g[n]) = 2 * n}
  <2>2. ASSUME NEW n \in Nat, n \in N
        PROVE  n + 1 \in N
    <3> SUFFICES ASSUME n + 1 \in 1..Len(ss)
                 PROVE  g[n + 1] \in Seq(T) /\ Len(g[n + 1]) = 2 * (n + 1)
      OBVIOUS
    <3>1. ss[n + 1] \in Seq(T) /\ (n + 1) - 1 = n /\ Len(ss[n + 1]) = 2
      OBVIOUS
    <3>2. g[n + 1] = IF n + 1 = 1 THEN ss[n + 1] ELSE g[n] \o ss[n + 1]
      BY <2>1, <3>1 DEF FlattenSteps
    <3>3. CASE n + 1 = 1
      <4>1. g[n + 1] = ss[n + 1] /\ 2 * (n + 1) = 2
        BY <3>2, <3>3
      <4> QED
        BY <3>1, <4>1
    <3>4. CASE n + 1 # 1
      <4> DEFINE x == g[n]
                 y == ss[n + 1]
      <4>0. n \in 1..Len(ss)
        BY <3>4
      <4>1. x \in Seq(T) /\ Len(x) = 2 * n
        BY <2>2, <4>0
      <4>2. g[n + 1] = x \o y /\ y \in Seq(T) /\ Len(y) = 2
        BY <3>1, <3>2, <3>4
      <4> HIDE DEF x, y
      <4>3. x \o y \in Seq(T) /\ Len(x \o y) = Len(x) + Len(y)
        BY <4>1, <4>2, ConcatProperties
      <4>4. 2 * n + 2 = 2 * (n + 1)
        OBVIOUS
      <4> QED
        BY <4>1, <4>2, <4>3, <4>4
    <3> QED
      BY <3>3, <3>4
  <2>3. Nat \subseteq N
    <3>1. 0 \in N
      OBVIOUS
    <3> HIDE DEF N
    <3> QED
      BY <2>2, <3>1, Induction
  <2>4. Len(ss) \in Nat /\ Len(ss) \in 1..Len(ss)
    BY <1>2
  <2>5. Len(g[Len(ss)]) = 2 * Len(ss)
    BY <2>3, <2>4
  <2> QED
    BY <2>1, <2>5
<1> QED
  BY <1>1, <1>2

-----------------------------------------------------------------------------
(* One packet for each entity of a set.                                    *)

LEMMA EachDeletion ==
  ASSUME NEW n \in Nat, NEW S \in SUBSET (1..n), NEW T, \A e \in S : Deletion(e) \in T
  PROVE  Each(S, Deletion) \in Seq(T)
<1> DEFINE q == [i \in 1..Cardinality(S) |-> Deletion(Nth(S, i))]
<1>1. Each(S, Deletion) = q
  BY DEF Each
<1>2. Cardinality(S) \in Nat /\ \A i \in 1..Cardinality(S) : Nth(S, i) \in S
  BY NthFacts
<1>3. q \in Seq(T)
  BY <1>2, LiteralSeq
<1> QED
  BY <1>1, <1>3

LEMMA EachCreation ==
  ASSUME NEW n \in Nat, NEW S \in SUBSET (1..n), NEW T, \A e \in S : Creation(e) \in T
  PROVE  Each(S, Creation) \in Seq(T)
<1> DEFINE q == [i \in 1..Cardinality(S) |-> Creation(Nth(S, i))]
<1>1. Each(S, Creation) = q
  BY DEF Each
<1>2. Cardinality(S) \in Nat /\ \A i \in 1..Cardinality(S) : Nth(S, i) \in S
  BY NthFacts
<1>3. q \in Seq(T)
  BY <1>2, LiteralSeq
<1> QED
  BY <1>1, <1>3

LEMMA EachShot ==
  ASSUME NEW n \in Nat, NEW S \in SUBSET (1..n), NEW T, Shot \in T
  PROVE  Each(S, NewShot) \in Seq(T)
<1> DEFINE q == [i \in 1..Cardinality(S) |-> Shot]
<1>1. Each(S, NewShot) = q
  BY DEF Each, NewShot
<1>2. Cardinality(S) \in Nat
  BY NthFacts
<1>3. q \in Seq(T)
  BY <1>2, LiteralSeq
<1> QED
  BY <1>1, <1>3

(* Each ship calls once.                                                   *)
LEMMA EachShield ==
  ASSUME NEW n \in Nat, NEW S \in SUBSET (1..n), NEW T, NEW on \in BOOLEAN, \A e \in S : Shield(e, on) \in T,
         NEW q, q = [i \in 1..Cardinality(S) |-> Shield(Nth(S, i), on)]
  PROVE  /\ q \in Seq(T)
         /\ \A e : e \notin S => NoCall(q, e)
         /\ \A e \in S : LastCall(q, e, on)
<1>1. /\ Cardinality(S) \in Nat
      /\ \A i \in 1..Cardinality(S) : Nth(S, i) \in S
      /\ \A e \in S : \E i \in 1..Cardinality(S) : Nth(S, i) = e
      /\ \A i, j \in 1..Cardinality(S) : Nth(S, i) = Nth(S, j) => i = j
  BY NthFacts
<1> DEFINE k == Cardinality(S)
<1>2. q \in Seq(T) /\ DOMAIN q = 1..k /\ \A i \in 1..k : q[i] = Shield(Nth(S, i), on)
  BY <1>1, LiteralSeq
<1>3. \A i \in 1..k : q[i].kind = "shield" /\ q[i].ent = Nth(S, i) /\ q[i].on = on
  BY <1>2 DEF Shield, Packet
<1>4. \A e : e \notin S => NoCall(q, e)
  BY <1>1, <1>2, <1>3 DEF NoCall, IsCall
<1>5. ASSUME NEW e \in S
      PROVE  LastCall(q, e, on)
  <2>1. PICK i \in 1..k : Nth(S, i) = e
    BY <1>1
  <2>2. ASSUME NEW j \in 1..k, q[j].ent = e
        PROVE  j <= i
    <3>1. j = i
      BY <1>1, <1>3, <2>1, <2>2
    <3> QED
      BY <1>1, <3>1
  <2> QED
    BY <1>2, <1>3, <2>1, <2>2 DEF LastCall, IsCall
<1> QED
  BY <1>2, <1>4, <1>5

LEMMA EachStartShield ==
  ASSUME NEW n \in Nat, NEW S \in SUBSET (1..n), NEW T, \A e \in S : Shield(e, TRUE) \in T
  PROVE  /\ Each(S, StartShield) \in Seq(T)
         /\ \A e : e \notin S => NoCall(Each(S, StartShield), e)
         /\ \A e \in S : LastCall(Each(S, StartShield), e, TRUE)
<1> DEFINE q == [i \in 1..Cardinality(S) |-> Shield(Nth(S, i), TRUE)]
<1>1. Each(S, StartShield) = q
  BY DEF Each, StartShield
<1> HIDE DEF q
<1>2. /\ q \in Seq(T)
      /\ \A e : e \notin S => NoCall(q, e)
      /\ \A e \in S : LastCall(q, e, TRUE)
  BY EachShield DEF q
<1> QED
  BY <1>1, <1>2

LEMMA EachStopShield ==
  ASSUME NEW n \in Nat, NEW S \in SUBSET (1..n), NEW T, \A e \in S : Shield(e, FALSE) \in T
  PROVE  /\ Each(S, StopShield) \in Seq(T)
         /\ \A e : e \notin S => NoCall(Each(S, StopShield), e)
         /\ \A e \in S : LastCall(Each(S, StopShield), e, FALSE)
<1> DEFINE q == [i \in 1..Cardinality(S) |-> Shield(Nth(S, i), FALSE)]
<1>1. Each(S, StopShield) = q
  BY DEF Each, StopShield
<1> HIDE DEF q
<1>2. /\ q \in Seq(T)
      /\ \A e : e \notin S => NoCall(q, e)
      /\ \A e \in S : LastCall(q, e, FALSE)
  BY EachShield DEF q
<1> QED
  BY <1>1, <1>2

-----------------------------------------------------------------------------
(* What is created stays what it was.                                      *)
Grows ==
  /\ born' \in Seq(Infos)
  /\ Len(born) <= Len(born')
  /\ \A e \in IDs : born'[e] = born[e]

LEMMA GrowsIDs ==
  ASSUME Inv, Grows
  PROVE  /\ IDs \subseteq IDs'
         /\ \A e \in IDs : Ship(e)' = Ship(e) /\ \A c \in Conns : ShipOf(e, c)' <=> ShipOf(e, c)
<1>1. Len(born) \in Nat /\ Len(born') \in Nat /\ Len(born) <= Len(born')
  BY DEF Inv, Shape, Grows
<1>2. IDs \subseteq IDs'
  BY <1>1 DEF IDs
<1>3. \A e \in IDs : born'[e] = born[e]
  BY DEF Grows
<1> QED
  BY <1>2, <1>3 DEF Ship, ShipOf

LEMMA HoldsKept ==
  ASSUME Inv, Grows, NEW m \in Machines, ents'[m] = ents[m]
  PROVE  Holds(m)'
<1>1. Holds(m)
  BY DEF Inv
<1>2. /\ IDs \subseteq IDs'
      /\ \A e \in IDs : Ship(e)' = Ship(e)
  BY GrowsIDs
<1> QED
  BY <1>1, <1>2 DEF Holds

(* The part of a client whose replicas do not change.                      *)
LEMMA ViewKept ==
  ASSUME Inv, Grows, NEW c \in Conns,
         link'[c] = link[c], id'[c] = id[c], ents'[c] = ents[c],
         NEW q \in Seq(DownPackets),
         down'[c] = down[c] \/ down'[c] = down[c] \o q,
         \A i \in DOMAIN q : DownFine(c, q[i])',
         \A e \in IDs : ShipOf(e, c) => Silent(q, e),
         \A e \in IDs' : e \notin IDs /\ ShipOf(e, c)' => Once(down'[c], e) /\ (Silent(down'[c], e) \/ Awaited(c, e)'),
         \A e : NoCall(up[c], e) => NoCall(up'[c], e),
         \A e \in IDs : link[c] = "in" /\ ShipOf(e, c) /\ e \in DOMAIN ents'[Host] =>
           /\ e \in DOMAIN ents[Host]
           /\ NoCall(up[c], e) => ents'[Host][e].damaged = ents[Host][e].damaged
           /\ \A on \in BOOLEAN : Told(c, e, on) => Told(c, e, on)'
  PROVE  View(c)' /\ (link'[c] = "in" => Announced(c)' /\ Agree(c)')
<1>1. View(c) /\ (link[c] = "in" => Announced(c) /\ Agree(c))
  BY DEF Inv, Client
<1>2. down[c] \in Seq(DownPackets)
  BY DEF Inv, Shape
<1>3. /\ IDs \subseteq IDs'
      /\ \A e \in IDs : Ship(e)' = Ship(e) /\ (ShipOf(e, c)' <=> ShipOf(e, c)) /\ born'[e] = born[e]
  BY GrowsIDs DEF Grows
<1>4. DOMAIN ents[c] \subseteq IDs /\ \A e \in DOMAIN ents[c] : ents[c][e].damaged \in BOOLEAN
  <2>1. Holds(c)
    BY DEF Inv, Machines
  <2> QED
    BY <2>1 DEF Holds, Flags
<1>5. \A p : DownFine(c, p) => DownFine(c, p)'
  BY <1>3 DEF DownFine
<1>6. View(c)'
  <2>1. link'[c] # "in" => DOMAIN ents'[c] = {}
    BY <1>1 DEF View
  <2>3. ASSUME NEW i \in DOMAIN down'[c]
        PROVE  DownFine(c, down[c][i])'
    <3>1. CASE down'[c] = down[c]
      BY <1>1, <1>5, <3>1 DEF View
    <3>2. CASE down'[c] = down[c] \o q
      <4>1. \A k \in DOMAIN (down[c] \o q) :
              \/ k \in DOMAIN down[c] /\ (down[c] \o q)[k] = down[c][k]
              \/ k - Len(down[c]) \in DOMAIN q /\ (down[c] \o q)[k] = q[k - Len(down[c])]
        BY <1>2, ConcatFacts
      <4>2. CASE i \in DOMAIN down[c] /\ down'[c][i] = down[c][i]
        BY <1>1, <1>5, <4>2 DEF View
      <4>3. CASE i - Len(down[c]) \in DOMAIN q /\ down'[c][i] = q[i - Len(down[c])]
        <5>1. PICK k \in DOMAIN q : k = i - Len(down[c])
          BY <4>3
        <5>2. DownFine(c, q[k])' /\ down'[c][i] = q[k]
          BY <4>3, <5>1
        <5> QED
          BY <5>2 DEF DownFine
      <4> QED
        BY <3>2, <4>1, <4>2, <4>3
    <3> QED
      BY <3>1, <3>2
  <2> QED
    BY <2>1, <2>3 DEF View
<1>7. ASSUME link'[c] = "in"
      PROVE  Announced(c)'
  <2> SUFFICES ASSUME NEW e \in IDs', ShipOf(e, c)'
               PROVE  Once(down'[c], e) /\ (Silent(down'[c], e) \/ Awaited(c, e)')
    BY DEF Announced
  <2>1. CASE e \notin IDs
    BY <2>1
  <2>2. CASE e \in IDs
    <3>1. ShipOf(e, c) /\ Silent(q, e)
      BY <1>3, <2>2
    <3>2. Once(down[c], e) /\ (Silent(down[c], e) \/ Awaited(c, e))
      BY <1>1, <1>7, <2>2, <3>1 DEF Announced
    <3>3. Once(down'[c], e) /\ (Silent(down[c], e) => Silent(down'[c], e))
      <4>1. CASE down'[c] = down[c]
        BY <3>2, <4>1
      <4>2. CASE down'[c] = down[c] \o q
        <5>1. Once(down[c] \o q, e)
          BY <1>2, <3>1, <3>2, SilentOnce, OnceConcat
        <5>2. Silent(down[c], e) => Silent(down[c] \o q, e)
          BY <1>2, <3>1, SilentConcat
        <5> QED
          BY <4>2, <5>1, <5>2
      <4> QED
        BY <4>1, <4>2
    <3>4. Awaited(c, e) => Awaited(c, e)'
      BY <1>7, <2>2, <3>1 DEF Awaited
    <3> QED
      BY <3>2, <3>3, <3>4
  <2> QED
    BY <2>1, <2>2
<1>8. ASSUME link'[c] = "in"
      PROVE  Agree(c)'
  <2> SUFFICES ASSUME NEW e \in DOMAIN ents'[c], e \in DOMAIN ents'[Host], ShipOf(e, c)'
               PROVE  Told(c, e, ents[c][e].damaged)'
    BY DEF Agree
  <2>1. e \in IDs /\ e \in DOMAIN ents[c] /\ ents[c][e].damaged \in BOOLEAN /\ ShipOf(e, c)
    BY <1>3, <1>4
  <2>2. e \in DOMAIN ents[Host]
    BY <1>8, <2>1
  <2>3. Told(c, e, ents[c][e].damaged)
    BY <1>1, <1>8, <2>1, <2>2 DEF Agree
  <2>4. \A on \in BOOLEAN : Told(c, e, on) => Told(c, e, on)'
    BY <1>8, <2>1
  <2> DEFINE now == ents[c][e].damaged
  <2>5. ents'[c][e].damaged = now /\ now \in BOOLEAN
    BY <2>1
  <2>6. (NoCall(up'[c], e) /\ ents'[Host][e].damaged = now) \/ LastCall(up'[c], e, now)
    BY <2>1, <2>3, <2>4 DEF Told
  <2> QED
    BY <2>5, <2>6 DEF Told
<1> QED
  BY <1>6, <1>7, <1>8

LEMMA UpTyped ==
  ASSUME Inv, NEW c \in Conns
  PROVE  /\ up[c] \in Seq(UpPackets)
         /\ \A i \in DOMAIN up[c] : up[c][i] \in UpPackets /\ up[c][i].ent \in Nat
<1>1. up[c] \in Seq(UpPackets)
  BY DEF Inv, Shape
<1>2. \A i \in DOMAIN up[c] : up[c][i] \in UpPackets
  BY <1>1
<1>3. \A p \in UpPackets : p.ent \in Nat
  BY DEF UpPackets
<1> QED
  BY <1>1, <1>2, <1>3

LEMMA QueueKept ==
  ASSUME Inv, Grows, NEW c \in Conns,
         link'[c] = link[c], up'[c] = up[c], c \in served' <=> c \in served
  PROVE  Queue(c)'
<1>1. Queue(c)
  BY DEF Inv, Client
<1>2. /\ IDs \subseteq IDs'
      /\ \A e \in IDs : Ship(e)' = Ship(e)
  BY GrowsIDs
<1>3. up[c] \in Seq(UpPackets) /\ Len(born) \in Nat /\ Len(born') \in Nat /\ Len(born) <= Len(born')
  BY DEF Inv, Shape, Grows
<1>4. \A i \in DOMAIN up[c] : up[c][i].ent \in Nat
  BY UpTyped
<1>5. \A p : p.ent \in Nat /\ UpFine(p) => UpFine(p)'
  BY <1>2, <1>3 DEF UpFine
<1>6. \A i \in DOMAIN up'[c] : UpFine(up[c][i])'
  <2> TAKE i \in DOMAIN up'[c]
  <2>1. UpFine(up[c][i]) /\ up[c][i].ent \in Nat /\ up'[c][i] = up[c][i]
    BY <1>1, <1>4 DEF Queue
  <2> QED
    BY <1>5, <2>1 DEF UpFine
<1>7. Framed(up'[c], link'[c] = "gone", c \in served')
  BY <1>1 DEF Queue, Framed
<1> QED
  BY <1>1, <1>6, <1>7 DEF Queue

LEMMA QueueTail ==
  ASSUME Inv, Grows, NEW c \in Conns, up[c] # <<>>,
         link'[c] = link[c], up'[c] = Tail(up[c]),
         c \in served' \/ (Tail(up[c]) = <<>> /\ c \notin served'),
         Tail(up[c]) = <<>> => (link[c] = "in" <=> c \in served')
  PROVE  Queue(c)'
<1>1. Queue(c)
  BY DEF Inv, Client
<1>2. /\ IDs \subseteq IDs'
      /\ \A e \in IDs : Ship(e)' = Ship(e)
  BY GrowsIDs
<1>3. up[c] \in Seq(UpPackets) /\ Len(born) \in Nat /\ Len(born') \in Nat /\ Len(born) <= Len(born')
  BY DEF Inv, Shape, Grows
<1>4. \A i \in DOMAIN up[c] : up[c][i].ent \in Nat
  BY UpTyped
<1>5. \A p : p.ent \in Nat /\ UpFine(p) => UpFine(p)'
  BY <1>2, <1>3 DEF UpFine
<1>6. \A i \in DOMAIN up'[c] : UpFine(up[c][i])'
  <2> TAKE i \in DOMAIN up'[c]
  <2>1. i + 1 \in DOMAIN up[c] /\ up'[c][i] = up[c][i + 1]
    BY <1>3, TailFacts
  <2>2. UpFine(up[c][i + 1]) /\ up[c][i + 1].ent \in Nat
    BY <1>1, <1>4, <2>1 DEF Queue
  <2> QED
    BY <1>5, <2>1, <2>2 DEF UpFine
<1>7. Framed(up'[c], link'[c] = "gone", c \in served')
  <2> DEFINE gone == link[c] = "gone"
             known == c \in served
  <2>1. Framed(up[c], gone, known)
    BY <1>1 DEF Queue
  <2>2. CASE c \in served'
    <3>1. Framed(Tail(up[c]), gone, TRUE)
      BY <1>3, <2>1, FramedTail
    <3> QED
      BY <2>2, <3>1 DEF Framed
  <2>3. CASE Tail(up[c]) = <<>>
    BY <2>3 DEF Framed
  <2> QED
    BY <2>2, <2>3
<1>8. link[c] # "out"
  BY <1>1 DEF Queue
<1> QED
  BY <1>6, <1>7, <1>8 DEF Queue

(* A client to which, at most, something new is announced.                 *)
LEMMA ClientKept ==
  ASSUME Inv, Grows, NEW c \in Conns,
         link'[c] = link[c], id'[c] = id[c], up'[c] = up[c], ents'[c] = ents[c],
         c \in served' <=> c \in served,
         NEW q \in Seq(DownPackets),
         down'[c] = down[c] \/ down'[c] = down[c] \o q,
         \A i \in DOMAIN q : DownFine(c, q[i])',
         \A e \in IDs : ShipOf(e, c) => Silent(q, e),
         \A e \in IDs' : e \notin IDs => ~ShipOf(e, c)',
         \A e \in IDs : link[c] = "in" /\ ShipOf(e, c) /\ e \in DOMAIN ents'[Host] =>
           e \in DOMAIN ents[Host] /\ ents'[Host][e].damaged = ents[Host][e].damaged
  PROVE  Client(c)'
<1>1. Queue(c)'
  BY QueueKept
<1>2. \A e \in IDs : link[c] = "in" /\ ShipOf(e, c) /\ e \in DOMAIN ents'[Host] =>
        \A on \in BOOLEAN : Told(c, e, on) => Told(c, e, on)'
  BY DEF Told
<1>3. View(c)' /\ (link'[c] = "in" => Announced(c)' /\ Agree(c)')
  <2>1. \A e : NoCall(up[c], e) => NoCall(up'[c], e)
    OBVIOUS
  <2> QED
    BY <1>2, <2>1, ViewKept
<1> QED
  BY <1>1, <1>3 DEF Client

(* A client of which the host has handled a packet.                        *)
LEMMA ClientHandled ==
  ASSUME Inv, Grows, NEW c \in Conns, up[c] # <<>>,
         link'[c] = link[c], id'[c] = id[c], up'[c] = Tail(up[c]), ents'[c] = ents[c],
         c \in served', c \in served, Tail(up[c]) = <<>> => link[c] = "in",
         NEW q \in Seq(DownPackets),
         down'[c] = down[c] \/ down'[c] = down[c] \o q,
         \A i \in DOMAIN q : DownFine(c, q[i])',
         \A e \in IDs : ShipOf(e, c) => Silent(q, e),
         \A e \in IDs' : e \notin IDs => ~ShipOf(e, c)',
         \A e \in IDs : link[c] = "in" /\ ShipOf(e, c) /\ e \in DOMAIN ents'[Host] =>
           /\ e \in DOMAIN ents[Host]
           /\ IsCall(Head(up[c]), e) => ents'[Host][e].damaged = Head(up[c]).on
           /\ ~IsCall(Head(up[c]), e) => ents'[Host][e].damaged = ents[Host][e].damaged
  PROVE  Client(c)'
<1>1. Queue(c)'
  BY QueueTail
<1>2. up[c] \in Seq(UpPackets)
  BY DEF Inv, Shape
<1>3. \A e : NoCall(up[c], e) => NoCall(up'[c], e) /\ ~IsCall(Head(up[c]), e)
  <2>1. Head(up[c]) = up[c][1] /\ 1 \in DOMAIN up[c]
    BY <1>2, TailFacts
  <2>2. \A e : NoCall(up[c], e) => NoCall(Tail(up[c]), e)
    BY <1>2, CallTail
  <2> QED
    BY <2>1, <2>2 DEF NoCall
<1>4. ASSUME NEW e \in IDs, link[c] = "in", ShipOf(e, c), e \in DOMAIN ents'[Host], NEW on \in BOOLEAN, Told(c, e, on)
      PROVE  Told(c, e, on)'
  <2>1. CASE NoCall(up[c], e) /\ ents[Host][e].damaged = on
    BY <1>3, <1>4, <2>1 DEF Told
  <2>2. CASE LastCall(up[c], e, on)
    <3>1. \/ LastCall(Tail(up[c]), e, on)
          \/ NoCall(Tail(up[c]), e) /\ IsCall(Head(up[c]), e) /\ Head(up[c]).on = on
      BY <1>2, <2>2, CallTail
    <3> QED
      BY <1>4, <3>1 DEF Told
  <2> QED
    BY <1>4, <2>1, <2>2 DEF Told
<1>5. View(c)' /\ (link'[c] = "in" => Announced(c)' /\ Agree(c)')
  BY <1>3, <1>4, ViewKept
<1> QED
  BY <1>1, <1>5 DEF Client

-----------------------------------------------------------------------------
(* What the parts of the invariant say of one connection.                  *)

LEMMA ServedActive ==
  ASSUME Inv, NEW c \in served
  PROVE  c \in Conns /\ Active(c) /\ link[c] # "out"
<1>1. c \in Conns /\ link[c] \in {"out", "in", "gone"}
  BY DEF Inv, Shape
<1>2. Queue(c)
  BY <1>1 DEF Inv, Client
<1> QED
  BY <1>1, <1>2 DEF Queue, Active

LEMMA UniqueKept ==
  ASSUME Inv, id' = id, free_ids' = free_ids, \A c \in Conns : Active(c)' => Active(c)
  PROVE  Unique'
<1>1. Unique
  BY DEF Inv
<1> QED
  BY <1>1 DEF Unique

LEMMA OriginKept ==
  ASSUME Inv, Grows,
         \A c \in Conns : link[c] # "out" =>
           /\ link'[c] # "out" /\ id'[c] = id[c]
           /\ Active(c)' => Active(c) /\ (c \in served => c \in served'),
         \A e \in IDs' : e \notin IDs =>
           /\ born'[e].type = "asteroid" => born'[e].owner = 1
           /\ Ship(e)' => ForOne(e)' /\ \A f \in IDs' : Ship(f)' /\ born'[f].for = born'[e].for => f = e
  PROVE  Origin'
<1>1. Origin
  BY DEF Inv
<1>2. /\ IDs \subseteq IDs'
      /\ \A e \in IDs : Ship(e)' = Ship(e) /\ born'[e] = born[e]
  BY GrowsIDs DEF Grows
<1>3. \A e \in IDs' : born'[e].type = "asteroid" => born'[e].owner = 1
  BY <1>1, <1>2 DEF Origin
<1>4. \A e \in IDs' : Ship(e)' => ForOne(e)'
  <2> SUFFICES ASSUME NEW e \in IDs', Ship(e)', e \in IDs
               PROVE  ForOne(e)'
    OBVIOUS
  <2>1. Ship(e) /\ born'[e] = born[e] /\ ForOne(e)
    BY <1>1, <1>2 DEF Origin
  <2> QED
    BY <2>1 DEF ForOne
<1>5. \A e, f \in IDs' : Ship(e)' /\ Ship(f)' /\ born'[e].for = born'[f].for /\ born'[e].for # Host => e = f
  BY <1>1, <1>2 DEF Origin
<1> QED
  BY <1>3, <1>4, <1>5 DEF Origin

LEMMA NewFacts ==
  ASSUME Inv, NEW made \in Infos, New(made)
  PROVE  /\ Grows
         /\ Len(born') = Len(born) + 1
         /\ born'[Len(born) + 1] = made
         /\ IDs' = IDs \cup {Len(born) + 1} /\ Len(born) + 1 \notin IDs
         /\ DOMAIN ents' = Machines
         /\ \A m \in Conns : ents'[m] = ents[m]
         /\ ents'[Host] = [e \in DOMAIN ents[Host] \cup {Len(born) + 1} |->
                             IF e = Len(born) + 1 THEN Fresh ELSE ents[Host][e]]
         /\ Len(born) + 1 \notin DOMAIN ents[Host]
<1>1. born \in Seq(Infos) /\ Len(born) \in Nat
  BY DEF Inv, Shape
<1>2. born' = Append(born, made)
  BY DEF New
<1>3. born' \in Seq(Infos) /\ Len(born') = Len(born) + 1 /\ born'[Len(born) + 1] = made
      /\ \A e \in 1..Len(born) : born'[e] = born[e]
  BY <1>1, <1>2
<1>4. IDs' = IDs \cup {Len(born) + 1} /\ Len(born) + 1 \notin IDs
  BY <1>1, <1>3 DEF IDs
<1>5. Grows
  BY <1>1, <1>3 DEF Grows, IDs
<1>6. DOMAIN ents = Machines /\ Host \in Machines /\ Host \notin Conns /\ Holds(Host)
  BY HostAssumption DEF Inv, Machines
<1>7. ents' = [ents EXCEPT ![Host] = Create(@, {Len(born) + 1})]
  BY DEF New
<1>8. /\ DOMAIN ents' = Machines
      /\ \A m \in Conns : ents'[m] = ents[m]
      /\ ents'[Host] = Create(ents[Host], {Len(born) + 1})
  BY <1>6, <1>7 DEF Machines
<1>9. ents'[Host] = [e \in DOMAIN ents[Host] \cup {Len(born) + 1} |->
                       IF e = Len(born) + 1 THEN Fresh ELSE ents[Host][e]]
  BY <1>8 DEF Create
<1>10. Len(born) + 1 \notin DOMAIN ents[Host]
  BY <1>4, <1>6 DEF Holds
<1> QED
  BY <1>3, <1>4, <1>5, <1>8, <1>9, <1>10

LEMMA NewHolds ==
  ASSUME Inv, NEW made \in Infos, New(made)
  PROVE  \A m \in Machines : Holds(m)'
<1> DEFINE new == Len(born) + 1
<1>1. /\ Grows
      /\ born'[new] = made
      /\ IDs' = IDs \cup {new} /\ new \notin IDs
      /\ \A m \in Conns : ents'[m] = ents[m]
      /\ ents'[Host] = [e \in DOMAIN ents[Host] \cup {new} |-> IF e = new THEN Fresh ELSE ents[Host][e]]
  BY NewFacts
<1>2. \A m \in Conns : Holds(m)'
  BY <1>1, HoldsKept DEF Machines
<1>3. Holds(Host) /\ \A e \in IDs : Ship(e)' = Ship(e)
  BY <1>1, GrowsIDs DEF Inv, Machines
<1>4. Fresh \in Flags /\ ~Fresh.dead
  BY DEF Fresh, Flags
<1> HIDE DEF new
<1>5. Holds(Host)'
  <2>1. DOMAIN ents'[Host] = DOMAIN ents[Host] \cup {new}
    BY <1>1
  <2>2. \A e \in DOMAIN ents'[Host] : ents'[Host][e] = IF e = new THEN Fresh ELSE ents[Host][e]
    BY <1>1
  <2>3. \A e \in DOMAIN ents[Host] : ents[Host][e] \in Flags /\ e \in IDs /\ (ents[Host][e].dead => ~Ship(e))
    BY <1>3 DEF Holds
  <2>4. ents'[Host] = [e \in DOMAIN ents'[Host] |-> ents'[Host][e]]
    BY <1>1
  <2>5. \A e \in DOMAIN ents'[Host] : ents'[Host][e] \in Flags /\ e \in IDs' /\ (ents'[Host][e].dead => ~Ship(e)')
    BY <1>1, <1>3, <1>4, <2>1, <2>2, <2>3
  <2> QED
    BY <2>4, <2>5 DEF Holds
<1> QED
  BY <1>2, <1>5 DEF Machines

LEMMA HandlingFacts ==
  ASSUME Inv, NEW c \in Conns, NEW m, Handling(c, m)
  PROVE  /\ up[c] # <<>> /\ Head(up[c]) = m /\ updating /\ due[c] > 0
         /\ up' \in [Conns -> Seq(UpPackets)] /\ up'[c] = Tail(up[c])
         /\ \A d \in Conns : d # c => up'[d] = up[d] /\ due'[d] = due[d]
         /\ due' \in [Conns -> Nat] /\ due'[c] = due[c] - 1
         /\ \A d \in Conns : due'[d] <= Len(up'[d])
         /\ link[c] # "out" /\ Active(c) /\ id[c] \in 2..next_uid - 1
         /\ m.kind = "connected" <=> c \notin served
         /\ m.kind = "disconnected" <=> link[c] = "gone" /\ Tail(up[c]) = <<>>
         /\ UpFine(m) /\ m \in UpPackets
<1>1. /\ up \in [Conns -> Seq(UpPackets)] /\ due \in [Conns -> Nat]
      /\ \A d \in Conns : due[d] <= Len(up[d]) /\ (due[d] > 0 => updating)
      /\ link \in [Conns -> {"out", "in", "gone"}]
      /\ (id[c] = 0 /\ link[c] = "out") \/ id[c] \in 2..next_uid - 1
  BY DEF Inv, Shape
<1>2. due[c] > 0 /\ Head(up[c]) = m /\ up' = [up EXCEPT ![c] = Tail(@)] /\ due' = [due EXCEPT ![c] = @ - 1]
  BY DEF Handling
<1>3. up[c] \in Seq(UpPackets) /\ Len(up[c]) \in Nat /\ Len(up[c]) > 0 /\ updating
  BY <1>1, <1>2
<1>4. up[c] # <<>>
  BY <1>3
<1>5. Head(up[c]) = up[c][1] /\ 1 \in DOMAIN up[c] /\ Tail(up[c]) \in Seq(UpPackets) /\ Len(Tail(up[c])) = Len(up[c]) - 1
  BY <1>3, <1>4, TailFacts
<1>6. /\ up' \in [Conns -> Seq(UpPackets)] /\ up'[c] = Tail(up[c])
      /\ \A d \in Conns : d # c => up'[d] = up[d] /\ due'[d] = due[d]
      /\ due' \in [Conns -> Nat] /\ due'[c] = due[c] - 1
  BY <1>1, <1>2, <1>5
<1>7. \A d \in Conns : due'[d] <= Len(up'[d])
  BY <1>1, <1>3, <1>5, <1>6
<1>8. Queue(c)
  BY DEF Inv, Client
<1>9. link[c] # "out" /\ Active(c) /\ id[c] \in 2..next_uid - 1
  BY <1>1, <1>4, <1>8 DEF Queue, Active
<1>10. Framed(up[c], link[c] = "gone", c \in served)
  BY <1>8 DEF Queue
<1>11. m.kind = "connected" <=> c \notin served
  BY <1>2, <1>5, <1>10 DEF Framed
<1>12. m.kind = "disconnected" <=> link[c] = "gone" /\ Tail(up[c]) = <<>>
  <2> DEFINE gone == link[c] = "gone"
             known == c \in served
             t == Tail(up[c])
  <2>1. Framed(up[c], gone, known)
    BY <1>10
  <2>2. m.kind = "disconnected" <=> (1 = Len(up[c]) /\ gone)
    BY <1>2, <1>5, <2>1 DEF Framed
  <2>3. t \in Seq(UpPackets) /\ Len(t) = Len(up[c]) - 1
    BY <1>5
  <2> HIDE DEF t
  <2>4. t = <<>> <=> Len(t) = 0
    BY <2>3, EmptySeq
  <2> QED
    BY <2>2, <2>3, <2>4, <1>3 DEF t
<1>13. UpFine(m) /\ m \in UpPackets
  <2>1. m = up[c][1] /\ 1 \in DOMAIN up[c]
    BY <1>2, <1>5
  <2>2. m \in UpPackets
    BY <2>1, UpTyped
  <2> QED
    BY <2>1, <2>2, <1>8 DEF Queue
<1> QED
  BY <1>2, <1>3, <1>4, <1>6, <1>7, <1>9, <1>11, <1>12, <1>13

LEMMA SendFacts ==
  ASSUME Inv, NEW S, NEW q \in Seq(DownPackets), Send(S, q)
  PROVE  /\ down' \in [Conns -> Seq(DownPackets)]
         /\ \A c \in Conns : down'[c] = down[c] \/ (c \in S /\ down'[c] = down[c] \o q)
<1>1. down \in [Conns -> Seq(DownPackets)]
  BY DEF Inv, Shape
<1>2. \A c \in Conns : down'[c] = IF c \in S \cap connected THEN down[c] \o q ELSE down[c]
  BY DEF Send
<1>3. down' = [c \in Conns |-> down'[c]]
  BY DEF Send
<1>4. \A c \in Conns : down[c] \in Seq(DownPackets) /\ down[c] \o q \in Seq(DownPackets)
  BY <1>1
<1>5. \A c \in Conns : down'[c] \in Seq(DownPackets)
  BY <1>2, <1>4
<1>6. \A c \in Conns : down'[c] = down[c] \/ (c \in S /\ down'[c] = down[c] \o q)
  BY <1>2
<1> QED
  BY <1>3, <1>5, <1>6

LEMMA HostKept ==
  ASSUME Inv
  PROVE  /\ Host \in Machines /\ Host \notin Conns /\ Conns \subseteq Machines
         /\ Holds(Host) /\ DOMAIN ents = Machines
         /\ \A e \in DOMAIN ents[Host] : e \in IDs
BY HostAssumption DEF Inv, Machines, Holds

(* Something new that is no ship is announced to everybody.                *)
LEMMA NewThing ==
  ASSUME Inv, NEW made \in Infos, New(made), made.type # "ship", Send(connected, <<Creation(Len(born) + 1)>>)
  PROVE  /\ down' \in [Conns -> Seq(DownPackets)]
         /\ \E q \in Seq(DownPackets) : \A c \in Conns :
              /\ down'[c] = down[c] \/ down'[c] = down[c] \o q
              /\ \A i \in DOMAIN q : DownFine(c, q[i])'
              /\ \A e \in IDs : Silent(q, e)
         /\ \A e \in IDs' : e \notin IDs => ~Ship(e)' /\ born'[e] = made
         /\ \A e \in IDs : e \in DOMAIN ents'[Host] =>
              e \in DOMAIN ents[Host] /\ ents'[Host][e] = ents[Host][e]
<1>1. PICK new : new = Len(born) + 1
  OBVIOUS
<1>2. /\ born'[new] = made /\ IDs' = IDs \cup {new} /\ new \notin IDs
      /\ ents'[Host] = [e \in DOMAIN ents[Host] \cup {new} |-> IF e = new THEN Fresh ELSE ents[Host][e]]
      /\ new \in Nat
  <2>1. Len(born) \in Nat
    BY DEF Inv, Shape
  <2>2. /\ born'[Len(born) + 1] = made
        /\ IDs' = IDs \cup {Len(born) + 1} /\ Len(born) + 1 \notin IDs
        /\ ents'[Host] = [e \in DOMAIN ents[Host] \cup {Len(born) + 1} |->
                            IF e = Len(born) + 1 THEN Fresh ELSE ents[Host][e]]
    BY NewFacts
  <2>3. new \in Nat
    BY <1>1, <2>1
  <2> QED
    BY <1>1, <2>2, <2>3
<1>3. PICK p : p = Creation(new)
  OBVIOUS
<1>4. p \in DownPackets /\ p.kind = "create" /\ p.ent = new
  BY <1>2, <1>3 DEF Creation, Packet, DownPackets
<1>5. PICK q : q = <<p>>
  OBVIOUS
<1>6. q \in Seq(DownPackets) /\ DOMAIN q = {1} /\ q[1] = p
  BY <1>4, <1>5
<1>7. Send(connected, q)
  BY <1>1, <1>3, <1>5
<1>8. /\ down' \in [Conns -> Seq(DownPackets)]
      /\ \A c \in Conns : down'[c] = down[c] \/ down'[c] = down[c] \o q
  BY <1>6, <1>7, SendFacts
<1>9. \A e \in IDs' : e \notin IDs => ~Ship(e)' /\ born'[e] = made
  BY <1>2 DEF Ship
<1>10. \A c \in Conns : \A i \in DOMAIN q : DownFine(c, q[i])'
  BY <1>2, <1>4, <1>6, <1>9 DEF DownFine
<1>11. \A e \in IDs : Silent(q, e)
  BY <1>2, <1>4, <1>6 DEF Silent, Announces
<1>12. \A e \in IDs : e \in DOMAIN ents'[Host] =>
         e \in DOMAIN ents[Host] /\ ents'[Host][e] = ents[Host][e]
  BY <1>2
<1> QED
  BY <1>6, <1>8, <1>9, <1>10, <1>11, <1>12

(* The host's ships when, at most, something new that is no ship came.     *)
LEMMA HostShipsKept ==
  ASSUME Inv, Grows, served' = served, updating' = updating, id' = id,
         DOMAIN ents[Host] \subseteq DOMAIN ents'[Host],
         \A e \in DOMAIN ents'[Host] :
           \/ e \in IDs /\ e \in DOMAIN ents[Host] /\
                 (Ship(e) => ents'[Host][e].remove = ents[Host][e].remove) /\
                 (ents'[Host][e].remove => ents[Host][e].remove \/ updating)
           \/ e \notin IDs /\ ~Ship(e)' /\ ~ents'[Host][e].remove,
         \A c \in Conns : Active(c)' => Active(c) /\ (due[c] = 0 => due'[c] = 0)
  PROVE  HostShips'
<1>1. HostShips
  BY DEF Inv
<1>2. \A e \in IDs : Ship(e)' = Ship(e) /\ born'[e] = born[e] /\ \A c \in Conns : ShipOf(e, c)' <=> ShipOf(e, c)
  BY GrowsIDs DEF Grows
<1>3. served \subseteq Conns /\ DOMAIN ents[Host] \subseteq IDs
  BY HostKept DEF Inv, Shape
<1>4. \A c \in served' : \E e \in DOMAIN ents'[Host] : ShipOf(e, c)'
  <2> TAKE c \in served'
  <2>1. PICK e \in DOMAIN ents[Host] : ShipOf(e, c)
    BY <1>1 DEF HostShips
  <2>2. ShipOf(e, c)'
    BY <1>2, <1>3, <2>1
  <2> QED
    BY <2>1, <2>2
<1>5. \A e \in DOMAIN ents'[Host] : ents'[Host][e].remove => updating'
  BY <1>1 DEF HostShips
<1>6. \A e \in DOMAIN ents'[Host] : Ship(e)' => Kept(e)' \/ Going(e)'
  <2> SUFFICES ASSUME NEW e \in DOMAIN ents'[Host], Ship(e)'
               PROVE  Kept(e)' \/ Going(e)'
    OBVIOUS
  <2>1. e \in IDs /\ e \in DOMAIN ents[Host] /\ Ship(e) /\ born'[e] = born[e] /\ ents'[Host][e].remove = ents[Host][e].remove
    BY <1>2
  <2>2. CASE Kept(e)
    BY <2>1, <2>2 DEF Kept
  <2>3. CASE Going(e)
    BY <2>1, <2>3 DEF Going
  <2> QED
    BY <1>1, <2>1, <2>2, <2>3 DEF HostShips
<1> QED
  BY <1>4, <1>5, <1>6 DEF HostShips

(* What the host does for c while it handles a packet of c is not about an *)
(* ID of which a ship is still marked.                                     *)
LEMMA DueGoing ==
  ASSUME Inv, NEW c \in Conns, due[c] > 0, Active(c), NEW e \in DOMAIN ents[Host], Going(e)
  PROVE  id[c] # born[e].owner
BY DEF Going, Inv, Shape

-----------------------------------------------------------------------------
(* The host's own steps.                                                   *)

LEMMA StartUpdateStep ==
  ASSUME Inv, StartUpdate
  PROVE  Inv'
<1>1. /\ ~updating /\ updating' = TRUE
      /\ link' = link /\ listed' = listed /\ id' = id /\ next_uid' = next_uid /\ free_ids' = free_ids /\ served' = served
      /\ up' = up /\ down' = down /\ ents' = ents /\ born' = born
  BY DEF StartUpdate, connVars
<1>2. due' \in [Conns -> Nat] /\ \A c \in Conns : due'[c] <= Len(up[c])
  <2> DEFINE Lengths == UNION {Pushed(c) : c \in Conns}
  <2>0. \A c \in Conns : Len(up[c]) \in Nat /\ \A n \in Pushed(c) : n \in Nat /\ n <= Len(up[c])
    BY UpTyped DEF Pushed
  <2>1. due' \in [Conns -> Lengths] /\ \A c \in Conns : due'[c] <= Len(up[c])
    BY <2>0 DEF StartUpdate
  <2>2. Lengths \subseteq Nat
    BY <2>0
  <2> HIDE DEF Lengths
  <2> QED
    BY <2>1, <2>2
<1>3. Grows
  BY <1>1 DEF Grows, Inv, Shape
<1>4. Shape'
  BY <1>1, <1>2 DEF Inv, Shape, IDs
<1>5. DOMAIN ents' = Machines /\ \A m \in Machines : Holds(m)'
  BY <1>1, <1>3, HoldsKept DEF Inv
<1>6. Unique'
  BY <1>1, UniqueKept DEF Active
<1>7. Origin'
  <2>1. Origin
    BY DEF Inv
  <2> QED
    BY <1>1, <2>1 DEF Origin, IDs, Ship, ForOne, Active
<1>8. HostShips'
  <2>1. HostShips /\ served \subseteq Conns /\ \A e \in DOMAIN ents[Host] : ~ents[Host][e].remove
    BY <1>1 DEF Inv, HostShips, Shape
  <2> QED
    BY <1>1, <2>1 DEF HostShips, Kept, Going, Ship, ShipOf
<1>9. \A c \in Conns : Client(c)'
  <2> TAKE c \in Conns
  <2> DEFINE q == <<>>
  <2>1. q \in Seq(DownPackets) /\ DOMAIN q = {}
    OBVIOUS
  <2> HIDE DEF q
  <2>2. \A i \in DOMAIN q : DownFine(c, q[i])'
    BY <2>1
  <2>3. \A e \in IDs : Silent(q, e)
    BY <2>1 DEF Silent
  <2>4. \A e \in IDs' : e \notin IDs => ~ShipOf(e, c)'
    BY <1>1 DEF IDs
  <2> QED
    BY <1>1, <1>3, <2>1, <2>2, <2>3, <2>4, ClientKept
<1> QED
  BY <1>4, <1>5, <1>6, <1>7, <1>8, <1>9 DEF Inv

LEMMA SpawnAsteroidStep ==
  ASSUME Inv, SpawnAsteroid
  PROVE  Inv'
<1>1. /\ link' = link /\ listed' = listed /\ id' = id /\ next_uid' = next_uid /\ free_ids' = free_ids /\ served' = served
      /\ up' = up /\ updating' = updating /\ due' = due
  BY DEF SpawnAsteroid, connVars
<1>2. PICK sides \in Sides : New(Made("asteroid", 1, Host, sides))
  BY DEF SpawnAsteroid
<1>3. PICK made : made = Made("asteroid", 1, Host, sides)
  OBVIOUS
<1>4. made \in Infos /\ made.type = "asteroid" /\ made.owner = 1 /\ New(made)
  <2>1. sides \in 0..12
    BY SidesAssumption
  <2> QED
    BY <1>2, <1>3, <2>1 DEF Made, Infos, Machines
<1>5. Send(connected, <<Creation(Len(born) + 1)>>)
  BY DEF SpawnAsteroid
<1>6. /\ Grows /\ born' \in Seq(Infos)
      /\ IDs' = IDs \cup {Len(born) + 1} /\ Len(born) + 1 \notin IDs
      /\ DOMAIN ents' = Machines
      /\ \A m \in Conns : ents'[m] = ents[m]
      /\ ents'[Host] = [e \in DOMAIN ents[Host] \cup {Len(born) + 1} |->
                          IF e = Len(born) + 1 THEN Fresh ELSE ents[Host][e]]
  BY <1>4, NewFacts DEF Grows
<1>7. /\ down' \in [Conns -> Seq(DownPackets)]
      /\ \E q \in Seq(DownPackets) : \A c \in Conns :
           /\ down'[c] = down[c] \/ down'[c] = down[c] \o q
           /\ \A i \in DOMAIN q : DownFine(c, q[i])'
           /\ \A e \in IDs : Silent(q, e)
      /\ \A e \in IDs' : e \notin IDs => ~Ship(e)' /\ born'[e] = made
      /\ \A e \in IDs : e \in DOMAIN ents'[Host] =>
           e \in DOMAIN ents[Host] /\ ents'[Host][e] = ents[Host][e]
  BY <1>4, <1>5, NewThing
<1>8. Shape'
  <2>1. \A e \in IDs' : born'[e].owner \in 1..next_uid - 1
    BY <1>4, <1>6, <1>7, SMTT(40) DEF Inv, Shape, Grows
  <2> QED
    BY <1>1, <1>6, <1>7, <2>1, SMTT(40) DEF Inv, Shape
<1>9. \A m \in Machines : Holds(m)'
  BY <1>4, NewHolds
<1>10. Unique'
  BY <1>1, UniqueKept DEF Active
<1>11. Origin'
  BY <1>1, <1>4, <1>6, <1>7, OriginKept DEF Active
<1>12. HostShips'
  <2>1. ~Fresh.remove
    BY DEF Fresh
  <2>2. \A e \in DOMAIN ents[Host] : e \in IDs
    BY HostKept
  <2> QED
    BY <1>1, <1>6, <1>7, <2>1, <2>2, HostShipsKept DEF Active
<1>13. \A c \in Conns : Client(c)'
  BY <1>1, <1>6, <1>7, ClientKept DEF ShipOf, Ship
<1> QED
  BY <1>6, <1>8, <1>9, <1>10, <1>11, <1>12, <1>13 DEF Inv

-----------------------------------------------------------------------------
(* The host handles a packet.                                              *)

LEMMA HandlingActive ==
  ASSUME Inv, NEW c \in Conns, NEW m, Handling(c, m), link' = link
  PROVE  \A d \in Conns : Active(d)' => Active(d)
BY HandlingFacts DEF Active

(* A packet that is neither the first nor the last of its client.          *)
LEMMA HandlingBetween ==
  ASSUME Inv, NEW c \in Conns, NEW m, Handling(c, m), m.kind \notin {"connected", "disconnected"}
  PROVE  c \in served /\ (Tail(up[c]) = <<>> => link[c] = "in")
<1>1. link[c] \in {"out", "in", "gone"}
  BY DEF Inv, Shape
<1> QED
  BY <1>1, HandlingFacts

(* What the handlers of such packets leave alone.                          *)
LEMMA HandlingRest ==
  ASSUME Inv, NEW c \in Conns, NEW m, Handling(c, m), Grows,
         link' = link, listed' = listed, id' = id, next_uid' = next_uid, free_ids' = free_ids, served' = served,
         updating' = updating, down' \in [Conns -> Seq(DownPackets)],
         \A e \in IDs' : e \notin IDs => ~Ship(e)' /\ born'[e].type # "asteroid" /\ born'[e].owner \in 1..next_uid - 1
  PROVE  Shape' /\ Unique' /\ Origin'
<1>1. /\ up' \in [Conns -> Seq(UpPackets)]
      /\ due' \in [Conns -> Nat]
      /\ \A d \in Conns : due'[d] <= Len(up'[d])
      /\ updating
  BY HandlingFacts
<1>2. \A e \in IDs : born'[e] = born[e]
  BY DEF Grows
<1>3. born' \in Seq(Infos)
  BY DEF Grows
<1>4. \A e \in IDs' : born'[e].owner \in 1..next_uid - 1
  BY <1>2 DEF Inv, Shape
<1>5. Shape'
  BY <1>1, <1>3, <1>4 DEF Inv, Shape
<1>6. \A d \in Conns : Active(d)' => Active(d)
  BY HandlingActive
<1>7. Unique'
  BY <1>6, UniqueKept
<1>8. Origin'
  BY <1>6, OriginKept
<1> QED
  BY <1>5, <1>7, <1>8

LEMMA HandleShotStep ==
  ASSUME Inv, NEW c \in Conns, HandleShot(c)
  PROVE  Inv'
<1>1. /\ link' = link /\ listed' = listed /\ id' = id /\ next_uid' = next_uid /\ free_ids' = free_ids /\ served' = served
      /\ updating' = updating /\ Handling(c, Shot)
      /\ New(Made("bullet", id[c], c, 0)) /\ Send(connected, <<Creation(Len(born) + 1)>>)
  BY DEF HandleShot, connVars
<1>2. Shot.kind = "shot"
  BY DEF Shot, Packet
<1>3. /\ up[c] # <<>> /\ Head(up[c]) = Shot /\ due[c] > 0 /\ up'[c] = Tail(up[c])
      /\ \A d \in Conns : d # c => up'[d] = up[d] /\ due'[d] = due[d]
      /\ id[c] \in 2..next_uid - 1
  BY <1>1, HandlingFacts
<1>4. PICK made : made = Made("bullet", id[c], c, 0)
  OBVIOUS
<1>5. made \in Infos /\ made.type = "bullet" /\ made.owner \in 1..next_uid - 1 /\ New(made)
  <2>1. next_uid \in Nat
    BY DEF Inv, Shape
  <2> QED
    BY <1>1, <1>3, <1>4, <2>1 DEF Made, Infos, Machines
<1>6. /\ Grows
      /\ IDs' = IDs \cup {Len(born) + 1} /\ Len(born) + 1 \notin IDs
      /\ DOMAIN ents' = Machines
      /\ \A m \in Conns : ents'[m] = ents[m]
      /\ ents'[Host] = [e \in DOMAIN ents[Host] \cup {Len(born) + 1} |->
                          IF e = Len(born) + 1 THEN Fresh ELSE ents[Host][e]]
  BY <1>5, NewFacts
<1>7. /\ down' \in [Conns -> Seq(DownPackets)]
      /\ \E q \in Seq(DownPackets) : \A d \in Conns :
           /\ down'[d] = down[d] \/ down'[d] = down[d] \o q
           /\ \A i \in DOMAIN q : DownFine(d, q[i])'
           /\ \A e \in IDs : Silent(q, e)
      /\ \A e \in IDs' : e \notin IDs => ~Ship(e)' /\ born'[e] = made
      /\ \A e \in IDs : e \in DOMAIN ents'[Host] =>
           e \in DOMAIN ents[Host] /\ ents'[Host][e] = ents[Host][e]
  BY <1>1, <1>5, NewThing
<1>8. Shape' /\ Unique' /\ Origin'
  BY <1>1, <1>5, <1>6, <1>7, HandlingRest
<1>9. \A m \in Machines : Holds(m)'
  BY <1>5, NewHolds
<1>10. HostShips'
  <2>1. ~Fresh.remove
    BY DEF Fresh
  <2>2. \A e \in DOMAIN ents[Host] : e \in IDs
    BY HostKept
  <2>3. \A d \in Conns : Active(d)' => Active(d)
    BY <1>1, HandlingActive
  <2>4. \A d \in Conns : Active(d)' => Active(d) /\ (due[d] = 0 => due'[d] = 0)
    BY <1>3, <2>3
  <2>5. DOMAIN ents[Host] \subseteq DOMAIN ents'[Host]
    BY <1>6
  <2>6. \A e \in DOMAIN ents'[Host] :
          \/ e \in IDs /\ e \in DOMAIN ents[Host] /\ ents'[Host][e] = ents[Host][e]
          \/ e \notin IDs /\ ~Ship(e)' /\ ~ents'[Host][e].remove
    BY <1>6, <1>7, <2>1, <2>2
  <2> QED
    BY <1>1, <1>6, <2>4, <2>5, <2>6, HostShipsKept
<1>11. \A d \in Conns : Client(d)'
  <2> TAKE d \in Conns
  <2>1. CASE d # c
    BY <1>1, <1>3, <1>6, <1>7, <2>1, ClientKept DEF ShipOf, Ship
  <2>2. CASE d = c
    <3>1. c \in served /\ (Tail(up[c]) = <<>> => link[c] = "in")
      BY <1>1, <1>2, HandlingBetween
    <3>2. \A e : ~IsCall(Head(up[c]), e)
      BY <1>2, <1>3 DEF IsCall
    <3>3. PICK q \in Seq(DownPackets) :
           /\ down'[c] = down[c] \/ down'[c] = down[c] \o q
           /\ \A i \in DOMAIN q : DownFine(c, q[i])'
           /\ \A e \in IDs : Silent(q, e)
      BY <1>7
    <3>4. \A e \in IDs' : e \notin IDs => ~ShipOf(e, c)'
      BY <1>7 DEF ShipOf, Ship
    <3>5. Client(c)'
      BY <1>1, <1>3, <1>6, <1>7, <3>1, <3>2, <3>3, <3>4, ClientHandled
    <3> QED
      BY <2>2, <3>5
  <2> QED
    BY <2>1, <2>2
<1> QED
  BY <1>6, <1>8, <1>9, <1>10, <1>11 DEF Inv

(* One flag of one entity of the host changes, at most.                    *)
HostChanges(e) ==
  /\ DOMAIN ents' = Machines
  /\ \A m \in Conns : ents'[m] = ents[m]
  /\ ents'[Host] \in [DOMAIN ents[Host] -> Flags]
  /\ \A x \in DOMAIN ents[Host] : ents'[Host][x].dead = ents[Host][x].dead
  /\ \A x \in DOMAIN ents[Host] : x # e => ents'[Host][x] = ents[Host][x]

LEMMA HostChangesHolds ==
  ASSUME Inv, Grows, NEW e, HostChanges(e)
  PROVE  /\ \A m \in Machines : Holds(m)'
         /\ DOMAIN ents'[Host] = DOMAIN ents[Host]
<1>1. \A m \in Conns : Holds(m)'
  BY HoldsKept DEF HostChanges, Machines
<1>2. Holds(Host) /\ \A x \in IDs : x \in IDs' /\ Ship(x)' = Ship(x)
  BY HostKept, GrowsIDs
<1>3. DOMAIN ents'[Host] = DOMAIN ents[Host]
  BY DEF HostChanges
<1>4. ents'[Host] \in [DOMAIN ents'[Host] -> Flags]
  BY <1>3 DEF HostChanges
<1>5. \A x \in DOMAIN ents'[Host] : x \in IDs' /\ (ents'[Host][x].dead => ~Ship(x)')
  BY <1>2, <1>3 DEF HostChanges, Holds
<1>6. Holds(Host)'
  BY <1>4, <1>5 DEF Holds
<1> QED
  BY <1>1, <1>3, <1>6 DEF Machines

LEMMA HandleDeletionStep ==
  ASSUME Inv, NEW c \in Conns, HandleDeletion(c)
  PROVE  Inv'
<1>1. PICK e \in 1..Len(born) :
        /\ Handling(c, Deletion(e))
        /\ IF e \in DOMAIN ents[Host] /\ born[e].owner = id[c]
           THEN /\ ents' = [ents EXCEPT ![Host] = Mark(@, e)]
                /\ Send(connected, <<Deletion(e)>>)
           ELSE UNCHANGED <<ents, down>>
        /\ UNCHANGED <<connVars, free_ids, served, updating, born, acts>>
  BY DEF HandleDeletion
<1>2. /\ link' = link /\ listed' = listed /\ id' = id /\ next_uid' = next_uid /\ free_ids' = free_ids /\ served' = served
      /\ updating' = updating /\ born' = born
  BY <1>1 DEF connVars
<1>3. PICK p : p = Deletion(e)
  OBVIOUS
<1>4. p.kind = "delete" /\ p.ent = e /\ p \in DownPackets /\ Handling(c, p)
  <2>1. e \in Nat
    BY DEF Inv, Shape
  <2> QED
    BY <1>1, <1>3, <2>1 DEF Deletion, Packet, DownPackets
<1>5. /\ up[c] # <<>> /\ Head(up[c]) = p /\ due[c] > 0 /\ updating /\ up'[c] = Tail(up[c])
      /\ \A d \in Conns : d # c => up'[d] = up[d] /\ due'[d] = due[d]
      /\ UpFine(p)
  BY <1>4, HandlingFacts
<1>6. e \in IDs /\ ~Ship(e)
  BY <1>4, <1>5 DEF UpFine
<1>7. Grows
  BY <1>2 DEF Grows, Inv, Shape
<1>8. IDs' = IDs /\ \A x \in IDs : Ship(x)' = Ship(x)
  BY <1>2 DEF IDs, Ship
<1>9. HostChanges(e) /\ \A x \in DOMAIN ents[Host] : ents'[Host][x].damaged = ents[Host][x].damaged
  <2>1. Holds(Host) /\ DOMAIN ents = Machines /\ Host \in Machines /\ Host \notin Conns /\ Conns \subseteq Machines
    BY HostKept
  <2>2. ents[Host] \in [DOMAIN ents[Host] -> Flags]
    BY <2>1 DEF Holds
  <2>3. CASE ents' = [ents EXCEPT ![Host] = Mark(@, e)] /\ e \in DOMAIN ents[Host]
    <3>1. ents'[Host] = [ents[Host] EXCEPT ![e].remove = TRUE] /\ DOMAIN ents' = Machines /\ \A m \in Conns : ents'[m] = ents[m]
      BY <2>1, <2>3 DEF Mark
    <3>2. DOMAIN ents'[Host] = DOMAIN ents[Host] /\ \A x \in DOMAIN ents[Host] : x # e => ents'[Host][x] = ents[Host][x]
      BY <3>1
    <3>3. ents[Host][e] \in Flags /\ ents'[Host][e] = [ents[Host][e] EXCEPT !.remove = TRUE]
      BY <2>2, <2>3, <3>1
    <3>4. /\ ents'[Host][e] \in Flags
          /\ ents'[Host][e].dead = ents[Host][e].dead /\ ents'[Host][e].damaged = ents[Host][e].damaged
      BY <3>3 DEF Flags
    <3>5. ents'[Host] \in [DOMAIN ents[Host] -> Flags]
      <4>1. ents'[Host] = [x \in DOMAIN ents[Host] |-> ents'[Host][x]]
        BY <3>1
      <4>2. \A x \in DOMAIN ents[Host] : ents'[Host][x] \in Flags
        BY <2>2, <3>2, <3>4
      <4> QED
        BY <4>1, <4>2
    <3> QED
      BY <3>1, <3>2, <3>4, <3>5 DEF HostChanges
  <2>4. CASE ents' = ents
    BY <2>1, <2>2, <2>4 DEF HostChanges
  <2> QED
    BY <1>1, <2>3, <2>4
<1>10. PICK q : q = <<p>>
  OBVIOUS
<1>11. q \in Seq(DownPackets) /\ DOMAIN q = {1} /\ q[1] = p
  BY <1>4, <1>10
<1>12. /\ down' \in [Conns -> Seq(DownPackets)]
       /\ \A d \in Conns : down'[d] = down[d] \/ down'[d] = down[d] \o q
  <2>1. CASE Send(connected, <<Deletion(e)>>)
    BY <1>3, <1>10, <1>11, <2>1, SendFacts
  <2>2. CASE down' = down
    BY <2>2 DEF Inv, Shape
  <2> QED
    BY <1>1, <2>1, <2>2
<1>13. Shape' /\ Unique' /\ Origin'
  BY <1>2, <1>4, <1>7, <1>8, <1>12, HandlingRest
<1>14. (\A m \in Machines : Holds(m)') /\ DOMAIN ents'[Host] = DOMAIN ents[Host]
  BY <1>7, <1>9, HostChangesHolds
<1>15. HostShips'
  <2>1. \A d \in Conns : Active(d)' => Active(d) /\ (due[d] = 0 => due'[d] = 0)
    BY <1>2, <1>4, <1>5, HandlingActive
  <2>2. \A x \in DOMAIN ents'[Host] :
          x \in IDs /\ x \in DOMAIN ents[Host] /\ (Ship(x) => ents'[Host][x].remove = ents[Host][x].remove)
    BY <1>6, <1>9, <1>14, HostKept DEF HostChanges
  <2> QED
    BY <1>2, <1>5, <1>7, <1>14, <2>1, <2>2, HostShipsKept
<1>16. ASSUME NEW d \in Conns
       PROVE  Client(d)'
  <2>1. \A i \in DOMAIN q : DownFine(d, q[i])'
    BY <1>4, <1>6, <1>8, <1>11 DEF DownFine
  <2>2. \A x \in IDs : Silent(q, x)
    BY <1>4, <1>11 DEF Silent, Announces
  <2>3. \A x \in IDs' : x \notin IDs => ~ShipOf(x, d)'
    BY <1>8
  <2>4. \A x \in IDs : x \in DOMAIN ents'[Host] =>
          x \in DOMAIN ents[Host] /\ ents'[Host][x].damaged = ents[Host][x].damaged
    BY <1>9, <1>14
  <2>5. ents'[d] = ents[d]
    BY <1>9 DEF HostChanges
  <2>6. CASE d # c
    BY <1>2, <1>5, <1>7, <1>11, <1>12, <2>1, <2>2, <2>3, <2>4, <2>5, <2>6, ClientKept
  <2>7. CASE d = c
    <3>1. c \in served /\ (Tail(up[c]) = <<>> => link[c] = "in")
      BY <1>4, HandlingBetween
    <3>2. \A x : ~IsCall(Head(up[c]), x)
      BY <1>4, <1>5 DEF IsCall
    <3>3. down'[c] = down[c] \/ down'[c] = down[c] \o q
      BY <1>12
    <3>4. Client(c)'
      BY <1>2, <1>5, <1>7, <1>11, <2>1, <2>2, <2>3, <2>4, <2>5, <2>7, <3>1, <3>2, <3>3, ClientHandled
    <3> QED
      BY <2>7, <3>4
  <2> QED
    BY <2>6, <2>7
<1> QED
  BY <1>9, <1>13, <1>14, <1>15, <1>16 DEF Inv, HostChanges

(* Only the holder of an ID has ships with it.                             *)
LEMMA OwnerShip ==
  ASSUME Inv, NEW e \in IDs, NEW d \in Conns, ShipOf(e, d)
  PROVE  /\ born[e].owner = id[d] /\ link[d] # "out" /\ Ship(e)
         /\ \A c \in Conns : Active(c) /\ Active(d) /\ id[c] = born[e].owner => c = d
         /\ Active(d) => d \in served
<1>1. Ship(e) /\ born[e].for = d /\ d # Host
  BY HostKept DEF ShipOf
<1>2. ForOne(e)
  BY <1>1 DEF Inv, Origin
<1>3. Unique
  BY DEF Inv
<1> QED
  BY <1>1, <1>2, <1>3 DEF ForOne, Unique

(* A ship of the host that is not for c is not owned by c either.          *)
LEMMA HostShipOwner ==
  ASSUME Inv, NEW c \in Conns, Active(c), due[c] > 0, NEW e \in DOMAIN ents[Host], Ship(e), born[e].for # c
  PROVE  born[e].owner # id[c]
<1>1. e \in IDs /\ ForOne(e) /\ (Kept(e) \/ Going(e))
  BY HostKept DEF Inv, Origin, HostShips
<1>2. id[c] # 1
  <2>1. (id[c] = 0 /\ link[c] = "out") \/ id[c] \in 2..next_uid - 1
    BY DEF Inv, Shape
  <2> QED
    BY <2>1
<1>3. CASE Going(e)
  BY <1>3, DueGoing
<1>4. CASE Kept(e) /\ born[e].for = Host
  BY <1>1, <1>2, <1>4, HostKept DEF ForOne
<1>5. CASE Kept(e) /\ born[e].for \in served
  <2>1. born[e].for \in Conns /\ Active(born[e].for)
    BY <1>5, ServedActive
  <2>2. born[e].owner = id[born[e].for]
    BY <1>1, <2>1, HostKept DEF ForOne
  <2> QED
    BY <2>1, <2>2 DEF Inv, Unique
<1> QED
  BY <1>1, <1>3, <1>4, <1>5 DEF Kept

LEMMA HandleShieldStep ==
  ASSUME Inv, NEW c \in Conns, HandleShield(c)
  PROVE  Inv'
<1>1. PICK e \in 1..Len(born), on \in BOOLEAN :
        /\ Handling(c, Shield(e, on))
        /\ IF e \in DOMAIN ents[Host] /\ born[e].owner = id[c]
           THEN /\ ents' = [ents EXCEPT ![Host] = Shielded(@, e, on)]
                /\ Send(connected \ {c}, <<Shield(e, on)>>)
           ELSE UNCHANGED <<ents, down>>
        /\ UNCHANGED <<connVars, free_ids, served, updating, born, acts>>
  BY DEF HandleShield
<1> DEFINE counts == e \in DOMAIN ents[Host] /\ born[e].owner = id[c]
<1>2. /\ link' = link /\ listed' = listed /\ id' = id /\ next_uid' = next_uid /\ free_ids' = free_ids /\ served' = served
      /\ updating' = updating /\ born' = born
  BY <1>1 DEF connVars
<1>3. PICK p : p = Shield(e, on)
  OBVIOUS
<1>4. p.kind = "shield" /\ p.ent = e /\ p.on = on /\ p \in DownPackets /\ Handling(c, p)
  <2>1. e \in Nat
    BY DEF Inv, Shape
  <2> QED
    BY <1>1, <1>3, <2>1 DEF Shield, Packet, DownPackets
<1>5. /\ up[c] # <<>> /\ Head(up[c]) = p /\ due[c] > 0 /\ updating /\ up'[c] = Tail(up[c])
      /\ \A d \in Conns : d # c => up'[d] = up[d] /\ due'[d] = due[d]
      /\ Active(c)
  BY <1>4, HandlingFacts
<1>6. e \in IDs
  BY DEF IDs
<1>7. Grows
  BY <1>2 DEF Grows, Inv, Shape
<1>8. IDs' = IDs /\ \A x \in IDs : Ship(x)' = Ship(x)
  BY <1>2 DEF IDs, Ship
<1>9. /\ HostChanges(e)
      /\ \A x \in DOMAIN ents[Host] : ents'[Host][x].remove = ents[Host][x].remove
      /\ counts => ents'[Host][e].damaged = on
      /\ ~counts => ents' = ents
  <2>1. Holds(Host) /\ DOMAIN ents = Machines /\ Host \in Machines /\ Host \notin Conns /\ Conns \subseteq Machines
    BY HostKept
  <2>2. ents[Host] \in [DOMAIN ents[Host] -> Flags]
    BY <2>1 DEF Holds
  <2>3. CASE ents' = [ents EXCEPT ![Host] = Shielded(@, e, on)] /\ counts
    <3>1. ents'[Host] = [ents[Host] EXCEPT ![e].damaged = on] /\ DOMAIN ents' = Machines /\ \A m \in Conns : ents'[m] = ents[m]
      BY <2>1, <2>3 DEF Shielded
    <3>2. DOMAIN ents'[Host] = DOMAIN ents[Host] /\ \A x \in DOMAIN ents[Host] : x # e => ents'[Host][x] = ents[Host][x]
      BY <3>1
    <3>3. ents[Host][e] \in Flags /\ ents'[Host][e] = [ents[Host][e] EXCEPT !.damaged = on]
      BY <2>2, <2>3, <3>1
    <3>4. /\ ents'[Host][e] \in Flags /\ ents'[Host][e].damaged = on
          /\ ents'[Host][e].dead = ents[Host][e].dead /\ ents'[Host][e].remove = ents[Host][e].remove
      BY <3>3 DEF Flags
    <3>5. ents'[Host] \in [DOMAIN ents[Host] -> Flags]
      <4>1. ents'[Host] = [x \in DOMAIN ents[Host] |-> ents'[Host][x]]
        BY <3>1
      <4>2. \A x \in DOMAIN ents[Host] : ents'[Host][x] \in Flags
        BY <2>2, <3>2, <3>4
      <4> QED
        BY <4>1, <4>2
    <3> QED
      BY <2>3, <3>1, <3>2, <3>4, <3>5 DEF HostChanges
  <2>4. CASE ents' = ents /\ ~counts
    BY <2>1, <2>2, <2>4 DEF HostChanges
  <2> QED
    BY <1>1, <2>3, <2>4
<1>10. PICK q : q = <<p>>
  OBVIOUS
<1>11. q \in Seq(DownPackets) /\ DOMAIN q = {1} /\ q[1] = p
  BY <1>4, <1>10
<1>12. /\ down' \in [Conns -> Seq(DownPackets)]
       /\ \A d \in Conns : down'[d] = down[d] \/ (counts /\ d # c /\ down'[d] = down[d] \o q)
  <2>1. CASE Send(connected \ {c}, <<Shield(e, on)>>) /\ counts
    <3>1. Send(connected \ {c}, q)
      BY <1>3, <1>10, <2>1
    <3>2. /\ down' \in [Conns -> Seq(DownPackets)]
          /\ \A d \in Conns : down'[d] = down[d] \/ (d \in connected \ {c} /\ down'[d] = down[d] \o q)
      BY <1>11, <3>1, SendFacts
    <3> QED
      BY <2>1, <3>2
  <2>2. CASE down' = down
    BY <2>2 DEF Inv, Shape
  <2> QED
    BY <1>1, <2>1, <2>2
<1>13. Shape' /\ Unique' /\ Origin'
  BY <1>2, <1>4, <1>7, <1>8, <1>12, HandlingRest
<1>14. (\A m \in Machines : Holds(m)') /\ DOMAIN ents'[Host] = DOMAIN ents[Host]
  BY <1>7, <1>9, HostChangesHolds
<1>15. HostShips'
  <2>1. \A d \in Conns : Active(d)' => Active(d) /\ (due[d] = 0 => due'[d] = 0)
    BY <1>2, <1>4, <1>5, HandlingActive
  <2>2. \A x \in DOMAIN ents'[Host] :
          x \in IDs /\ x \in DOMAIN ents[Host] /\ ents'[Host][x].remove = ents[Host][x].remove
    BY <1>9, <1>14, HostKept
  <2> QED
    BY <1>2, <1>5, <1>7, <1>14, <2>1, <2>2, HostShipsKept
<1>16. ASSUME NEW d \in Conns
       PROVE  Client(d)'
  <2>1. ents'[d] = ents[d] /\ \A x \in DOMAIN ents[Host] : x # e => ents'[Host][x] = ents[Host][x]
    BY <1>9 DEF HostChanges
  <2>2. \A x \in IDs' : x \notin IDs => ~ShipOf(x, d)'
    BY <1>8
  <2>3. <<>> \in Seq(DownPackets) /\ DOMAIN <<>> = {}
    OBVIOUS
  <2>4. \A x \in IDs : Silent(q, x) /\ Silent(<<>>, x)
    BY <1>4, <1>11, <2>3 DEF Silent, Announces
  <2> DEFINE none == <<>>
  <2>5. none \in Seq(DownPackets) /\ (\A i \in DOMAIN none : DownFine(d, none[i])') /\ \A x \in IDs : Silent(none, x)
    BY <2>3, <2>4
  <2> HIDE DEF none
  <2>6. CASE d # c
    <3>1. counts => ~ShipOf(e, d)
      BY <1>5, <2>6, HostShipOwner DEF ShipOf
    <3>2. \A x \in IDs : link[d] = "in" /\ ShipOf(x, d) /\ x \in DOMAIN ents'[Host] =>
            x \in DOMAIN ents[Host] /\ ents'[Host][x].damaged = ents[Host][x].damaged
      BY <1>9, <1>14, <2>1, <3>1
    <3>3. CASE down'[d] = down[d]
      BY <1>2, <1>5, <1>7, <2>1, <2>2, <2>5, <2>6, <3>2, <3>3, ClientKept
    <3>4. CASE counts /\ down'[d] = down[d] \o q
      <4>1. \A i \in DOMAIN q : DownFine(d, q[i])'
        <5>1. ~ShipOf(e, d)'
          BY <1>2, <3>1, <3>4 DEF ShipOf, Ship
        <5> QED
          BY <1>4, <1>6, <1>8, <1>11, <5>1 DEF DownFine
      <4> QED
        BY <1>2, <1>5, <1>7, <1>11, <2>1, <2>2, <2>4, <2>6, <3>2, <3>4, <4>1, ClientKept
    <3> QED
      BY <1>12, <3>3, <3>4
  <2>7. CASE d = c
    <3>1. c \in served /\ (Tail(up[c]) = <<>> => link[c] = "in")
      BY <1>4, HandlingBetween
    <3>2. \A x : IsCall(Head(up[c]), x) <=> x = e
      BY <1>4, <1>5 DEF IsCall
    <3>3. down'[c] = down[c]
      BY <1>12
    <3>4. \A x \in IDs : link[c] = "in" /\ ShipOf(x, c) /\ x \in DOMAIN ents'[Host] =>
            /\ x \in DOMAIN ents[Host]
            /\ x = e => ents'[Host][x].damaged = p.on
            /\ x # e => ents'[Host][x].damaged = ents[Host][x].damaged
      BY <1>4, <1>6, <1>9, <1>14, <2>1, OwnerShip
    <3>5. Client(c)'
      BY <1>2, <1>5, <1>7, <2>1, <2>2, <2>5, <2>7, <3>1, <3>2, <3>3, <3>4, ClientHandled
    <3> QED
      BY <2>7, <3>5
  <2> QED
    BY <2>6, <2>7
<1> QED
  BY <1>9, <1>13, <1>14, <1>15, <1>16 DEF Inv, HostChanges

(* The snapshot, for a client that has no ship yet.                        *)
LEMMA SnapshotFacts ==
  ASSUME Inv, NEW all, all = Reverse(Each(DOMAIN ents[Host], Creation))
  PROVE  /\ all \in Seq(DownPackets)
         /\ \A i \in DOMAIN all : all[i].kind = "create" /\ all[i].ent \in DOMAIN ents[Host]
<1> DEFINE S == DOMAIN ents[Host]
           T == {p \in DownPackets : p.kind = "create" /\ p.ent \in S}
           s == Each(S, Creation)
<1>1. S \in SUBSET (1..Len(born)) /\ Len(born) \in Nat
  BY HostKept DEF Inv, Shape, IDs
<1>2. \A e \in S : Creation(e) \in T
  <2> TAKE e \in S
  <2>1. e \in Nat
    BY <1>1
  <2>2. Creation(e) \in DownPackets /\ Creation(e).kind = "create" /\ Creation(e).ent = e
    BY <2>1 DEF Creation, Packet, DownPackets
  <2> QED
    BY <2>2
<1>3. s \in Seq(T)
  <2> HIDE DEF S, T
  <2> QED
    BY <1>1, <1>2, EachCreation
<1>4. all = Reverse(s)
  OBVIOUS
<1> HIDE DEF s, T
<1>5. all \in Seq(T)
  <2>1. all = [i \in 1..Len(s) |-> s[(Len(s) - i) + 1]] /\ Len(s) \in Nat
    BY <1>3, <1>4 DEF Reverse
  <2>2. \A i \in 1..Len(s) : s[(Len(s) - i) + 1] \in T
    <3> TAKE i \in 1..Len(s)
    <3>1. (Len(s) - i) + 1 \in 1..Len(s)
      BY <2>1
    <3> QED
      BY <1>3, <3>1
  <2>3. \A i \in 1..Len(s) : all[i] \in T
    BY <2>1, <2>2
  <2>4. all = [i \in 1..Len(s) |-> all[i]]
    BY <2>1
  <2> QED
    BY <2>1, <2>3, <2>4, LiteralSeq
<1>6. \A i \in DOMAIN all : all[i] \in T
  BY <1>5
<1>7. T \subseteq DownPackets /\ \A p \in T : p.kind = "create" /\ p.ent \in S
  BY DEF T
<1>8. all \in Seq(DownPackets)
  BY <1>5, <1>7
<1> QED
  BY <1>6, <1>7, <1>8

LEMMA HandleConnectedStep ==
  ASSUME Inv, NEW c \in Conns, HandleConnected(c)
  PROVE  Inv'
<1>1. PICK new, all : new = Len(born) + 1 /\ all = Reverse(Each(DOMAIN ents[Host], Creation))
  OBVIOUS
<1>2. PICK p, q : p = Creation(new) /\ q = <<p>>
  OBVIOUS
<1>3. /\ link' = link /\ listed' = listed /\ id' = id /\ next_uid' = next_uid /\ free_ids' = free_ids /\ served' = served \cup {c}
      /\ updating' = updating /\ Handling(c, Connected)
      /\ New(Made("ship", id[c], c, 0))
      /\ down' = [d \in Conns |->
                    down[d] \o (IF d = c THEN all ELSE <<>>)
                            \o (IF d \in connected THEN q ELSE <<>>)]
  BY <1>1, <1>2 DEF HandleConnected, connVars
<1>4. Connected.kind = "connected"
  BY DEF Connected, Packet
<1>5. /\ up[c] # <<>> /\ Head(up[c]) = Connected /\ due[c] > 0 /\ updating /\ up'[c] = Tail(up[c])
      /\ up' \in [Conns -> Seq(UpPackets)] /\ due' \in [Conns -> Nat] /\ \A d \in Conns : due'[d] <= Len(up'[d])
      /\ \A d \in Conns : d # c => up'[d] = up[d] /\ due'[d] = due[d]
      /\ id[c] \in 2..next_uid - 1 /\ Active(c) /\ link[c] # "out"
  BY <1>3, HandlingFacts
<1>6. c \notin served /\ (Tail(up[c]) = <<>> => link[c] = "in")
  <2>1. link[c] \in {"out", "in", "gone"}
    BY DEF Inv, Shape
  <2> QED
    BY <1>3, <1>4, <2>1, HandlingFacts
<1>7. PICK made : made = Made("ship", id[c], c, 0)
  OBVIOUS
<1>8. /\ made \in Infos /\ made.type = "ship" /\ made.owner = id[c] /\ made.for = c
      /\ made.owner \in 1..next_uid - 1 /\ New(made)
  <2>1. next_uid \in Nat
    BY DEF Inv, Shape
  <2> QED
    BY <1>3, <1>5, <1>7, <2>1 DEF Made, Infos, Machines
<1>9. /\ Grows /\ Len(born) \in Nat
      /\ born'[new] = made
      /\ IDs' = IDs \cup {new} /\ new \notin IDs /\ new \notin DOMAIN ents[Host]
      /\ DOMAIN ents' = Machines
      /\ \A m \in Conns : ents'[m] = ents[m]
      /\ ents'[Host] = [e \in DOMAIN ents[Host] \cup {new} |-> IF e = new THEN Fresh ELSE ents[Host][e]]
  <2>1. Len(born) \in Nat
    BY DEF Inv, Shape
  <2> QED
    BY <1>1, <1>8, <2>1, NewFacts
<1>10. \A e \in IDs : Ship(e)' = Ship(e) /\ born'[e] = born[e] /\ \A d \in Conns : ShipOf(e, d)' <=> ShipOf(e, d)
  BY <1>9, GrowsIDs DEF Grows
<1>11. \A e \in IDs : ~ShipOf(e, c)
  BY <1>5, <1>6, OwnerShip
<1>12. Ship(new)' /\ ShipOf(new, c)' /\ \A d \in Conns : d # c => ~ShipOf(new, d)'
  BY <1>8, <1>9 DEF Ship, ShipOf
<1>13. p \in DownPackets /\ p.kind = "create" /\ p.ent = new /\ q \in Seq(DownPackets) /\ DOMAIN q = {1} /\ q[1] = p
  <2>1. p \in DownPackets /\ p.kind = "create" /\ p.ent = new
    <3>1. new \in Nat
      BY <1>1, <1>9
    <3> QED
      BY <1>2, <3>1 DEF Creation, Packet, DownPackets
  <2> QED
    BY <1>2, <2>1
<1>14. /\ all \in Seq(DownPackets)
       /\ \A i \in DOMAIN all : all[i].kind = "create" /\ all[i].ent \in DOMAIN ents[Host]
  BY <1>1, SnapshotFacts
<1>15. PICK aq : aq = IF c \in connected THEN all \o q ELSE all
  OBVIOUS
<1>16. aq \in Seq(DownPackets)
  BY <1>13, <1>14, <1>15
<1>17. /\ down' \in [Conns -> Seq(DownPackets)]
       /\ \A d \in Conns : d # c => down'[d] = down[d] \/ down'[d] = down[d] \o q
       /\ down'[c] = down[c] \/ down'[c] = down[c] \o aq
  <2>1. ASSUME NEW d \in Conns
        PROVE  /\ down[d] \in Seq(DownPackets) /\ down[d] \o <<>> = down[d]
               /\ down'[d] = (down[d] \o (IF d = c THEN all ELSE <<>>))
                                 \o (IF d \in connected THEN q ELSE <<>>)
    <3>1. down[d] \in Seq(DownPackets)
      BY DEF Inv, Shape
    <3>2. down[d] \o <<>> = down[d]
      BY <3>1, ConcatEmptySeq
    <3> QED
      BY <1>3, <3>1, <3>2
  <2>2. \A d \in Conns : d # c => down'[d] = down[d] \/ down'[d] = down[d] \o q
    BY <2>1
  <2>3. down'[c] = down[c] \/ down'[c] = down[c] \o aq
    <3>0. down[c] \in Seq(DownPackets)
      BY <2>1
    <3>1. (down[c] \o all) \o q = down[c] \o (all \o q)
      <4> DEFINE before == down[c]
      <4>1. before \in Seq(DownPackets)
        BY <3>0
      <4> HIDE DEF before
      <4>2. (before \o all) \o q = before \o (all \o q)
        BY <1>13, <1>14, <4>1, ConcatAssociative
      <4> QED
        BY <4>2 DEF before
    <3>2. down[c] \o all \in Seq(DownPackets) /\ (down[c] \o all) \o <<>> = down[c] \o all
      <4> DEFINE both == down[c] \o all
      <4>1. both \in Seq(DownPackets)
        BY <1>14, <3>0, ConcatProperties
      <4> HIDE DEF both
      <4>2. both \o <<>> = both
        BY <4>1, ConcatEmptySeq
      <4> QED
        BY <4>1, <4>2 DEF both
    <3> QED
      BY <1>15, <2>1, <3>1, <3>2
  <2>4. \A d \in Conns : down[d] \o q \in Seq(DownPackets) /\ down[d] \o aq \in Seq(DownPackets)
    <3> TAKE d \in Conns
    <3>1. down[d] \in Seq(DownPackets)
      BY <2>1
    <3> QED
      BY <1>13, <1>16, <3>1, ConcatProperties
  <2>5. \A d \in Conns : down'[d] \in Seq(DownPackets)
    BY <2>1, <2>2, <2>3, <2>4
  <2>6. down' = [d \in Conns |-> down'[d]]
    BY <1>3
  <2> QED
    BY <2>2, <2>3, <2>5, <2>6
<1>18. Shape'
  <2>1. \A e \in IDs' : born'[e].owner \in 1..next_uid - 1
    BY <1>8, <1>9, <1>10 DEF Inv, Shape
  <2>2. born' \in Seq(Infos)
    BY <1>9 DEF Grows
  <2>3. served' \subseteq Conns
    BY <1>3 DEF Inv, Shape
  <2> QED
    BY <1>3, <1>5, <1>17, <2>1, <2>2, <2>3 DEF Inv, Shape
<1>19. \A m \in Machines : Holds(m)'
  BY <1>8, NewHolds
<1>20. \A d \in Conns : Active(d)' => Active(d)
  BY <1>3, HandlingActive
<1>21. Unique'
  BY <1>3, <1>20, UniqueKept
<1>22. Origin'
  <2>1. ForOne(new)'
    BY <1>3, <1>5, <1>8, <1>9 DEF ForOne
  <2>2. \A f \in IDs' : Ship(f)' /\ born'[f].for = c => f = new
    BY <1>9, <1>10, <1>11 DEF Ship, ShipOf
  <2> QED
    BY <1>3, <1>8, <1>9, <1>20, <2>1, <2>2, OriginKept
<1>23. HostShips'
  <2>1. HostShips /\ \A e \in DOMAIN ents[Host] : e \in IDs /\ e # new
    BY <1>9, HostKept DEF Inv
  <2>2. DOMAIN ents'[Host] = DOMAIN ents[Host] \cup {new} /\ ents'[Host][new] = Fresh
        /\ \A e \in DOMAIN ents[Host] : ents'[Host][e] = ents[Host][e]
    BY <1>9
  <2>3. \A d \in served' : \E e \in DOMAIN ents'[Host] : ShipOf(e, d)'
    <3> TAKE d \in served'
    <3>1. CASE d = c
      BY <1>12, <2>2, <3>1
    <3>2. CASE d \in served
      <4>1. d \in Conns
        BY <3>2, ServedActive
      <4>2. PICK e \in DOMAIN ents[Host] : ShipOf(e, d)
        BY <2>1, <3>2 DEF HostShips
      <4> QED
        BY <1>10, <2>1, <2>2, <4>1, <4>2
    <3> QED
      BY <1>3, <3>1, <3>2
  <2>4. \A e \in DOMAIN ents'[Host] : ents'[Host][e].remove => updating'
    BY <1>3, <1>5
  <2>5. ASSUME NEW e \in DOMAIN ents'[Host], Ship(e)'
        PROVE  Kept(e)' \/ Going(e)'
    <3>1. CASE e = new
      BY <1>3, <1>8, <1>9, <2>2, <3>1 DEF Kept, Fresh
    <3>2. CASE e \in DOMAIN ents[Host] /\ Kept(e)
      BY <1>3, <1>10, <2>1, <2>2, <3>2 DEF Kept
    <3>3. CASE e \in DOMAIN ents[Host] /\ Going(e)
      <4>1. e \in IDs /\ Ship(e) /\ born'[e] = born[e]
        BY <1>10, <2>1, <2>5, <3>3
      <4>2. born[e].for # c
        BY <1>11, <4>1 DEF ShipOf
      <4>3. id[c] # born[e].owner
        BY <1>5, <3>3, DueGoing
      <4> QED
        BY <1>3, <1>5, <1>20, <2>2, <3>3, <4>1, <4>2, <4>3 DEF Going
    <3> QED
      BY <1>10, <2>1, <2>2, <2>5, <3>1, <3>2, <3>3 DEF HostShips
  <2> QED
    BY <2>3, <2>4, <2>5 DEF HostShips
<1>24. \A e \in IDs : e \in DOMAIN ents'[Host] => e \in DOMAIN ents[Host] /\ ents'[Host][e] = ents[Host][e]
  BY <1>9
<1>25. ASSUME NEW d \in Conns, d # c
       PROVE  Client(d)'
  <2>1. \A e \in IDs : Silent(q, e)
    BY <1>9, <1>13 DEF Silent, Announces
  <2>2. \A e \in IDs' : e \notin IDs => ~ShipOf(e, d)'
    BY <1>9, <1>12, <1>25
  <2>3. d \in served' <=> d \in served
    BY <1>3, <1>25
  <2>4. CASE down'[d] = down[d]
    <3> DEFINE none == <<>>
    <3>1. none \in Seq(DownPackets) /\ DOMAIN none = {}
      OBVIOUS
    <3> HIDE DEF none
    <3>2. (\A i \in DOMAIN none : DownFine(d, none[i])') /\ \A e \in IDs : Silent(none, e)
      BY <3>1 DEF Silent
    <3> QED
      BY <1>3, <1>5, <1>9, <1>24, <1>25, <2>2, <2>3, <2>4, <3>1, <3>2, ClientKept
  <2>5. CASE down'[d] = down[d] \o q
    <3>2. \A i \in DOMAIN q : DownFine(d, q[i])'
      BY <1>9, <1>13 DEF DownFine
    <3> QED
      BY <1>3, <1>5, <1>9, <1>13, <1>24, <1>25, <2>1, <2>2, <2>3, <2>5, <3>2, ClientKept
  <2> QED
    BY <1>17, <1>25, <2>4, <2>5
<1>26. Client(c)'
  <2>1. Queue(c)'
    BY <1>3, <1>5, <1>6, <1>9, QueueTail
  <2>2. /\ \A i \in DOMAIN aq : \/ i \in DOMAIN all /\ aq[i] = all[i]
                                \/ aq[i] = p
    BY <1>13, <1>14, <1>15, ConcatFacts
  <2>3. \A i \in DOMAIN all : all[i].ent \in IDs /\ all[i].ent # new
    BY <1>9, <1>14, HostKept
  <2>4. \A i \in DOMAIN aq : DownFine(c, aq[i])'
    <3> TAKE i \in DOMAIN aq
    <3>1. CASE aq[i] = p
      BY <1>8, <1>9, <1>13, <3>1 DEF DownFine
    <3>2. CASE i \in DOMAIN all /\ aq[i] = all[i]
      <4>1. PICK e \in DOMAIN ents[Host] : aq[i].ent = e /\ aq[i].kind = "create" /\ e \in IDs
        BY <1>14, <2>3, <3>2
      <4> QED
        BY <1>9, <4>1 DEF DownFine
    <3> QED
      BY <2>2, <3>1, <3>2
  <2>5. Once(down'[c], new)
    <3>1. View(c) /\ down[c] \in Seq(DownPackets)
      BY DEF Inv, Client, Shape
    <3>2. Silent(down[c], new)
      BY <1>9, <3>1 DEF View, DownFine, Silent, Announces
    <3>3. Silent(all, new)
      BY <2>3 DEF Silent, Announces
    <3>4. Once(q, new)
      BY <1>13 DEF Once
    <3>5. Once(aq, new)
      <4>1. Once(all, new) /\ Once(all \o q, new)
        BY <1>13, <1>14, <3>3, <3>4, SilentOnce, OnceConcat
      <4> QED
        BY <1>15, <4>1
    <3>6. Once(down[c], new) /\ Once(down[c] \o aq, new)
      BY <1>16, <3>1, <3>2, <3>5, SilentOnce, OnceConcat
    <3> QED
      BY <1>17, <3>6
  <2>6. Awaited(c, new)'
    <3>1. new \notin DOMAIN ents'[c]
      <4>1. Holds(c)
        BY DEF Inv, Machines
      <4> QED
        BY <1>9, <4>1 DEF Holds
    <3>2. NoCall(up'[c], new)
      <4>1. \A i \in DOMAIN up[c] : up[c][i].ent <= Len(born) /\ up[c][i].ent \in Nat
        BY UpTyped DEF Inv, Client, Queue, UpFine
      <4>2. \A i \in DOMAIN up[c] : up[c][i].ent # new
        BY <1>1, <1>9, <4>1
      <4>3. NoCall(up[c], new)
        BY <4>2 DEF NoCall, IsCall
      <4>4. up[c] \in Seq(UpPackets)
        BY UpTyped
      <4>5. NoCall(Tail(up[c]), new)
        BY <1>5, <4>3, <4>4, NoCallTail
      <4> QED
        BY <1>5, <4>5
    <3>3. new \in DOMAIN ents'[Host] => ~ents'[Host][new].damaged
      BY <1>9 DEF Fresh
    <3> QED
      BY <3>1, <3>2, <3>3 DEF Awaited
  <2>7. \A e : NoCall(up[c], e) => NoCall(up'[c], e)
    <3>1. up[c] \in Seq(UpPackets)
      BY UpTyped
    <3> QED
      BY <1>5, <3>1, NoCallTail
  <2>8. View(c)' /\ (link'[c] = "in" => Announced(c)' /\ Agree(c)')
    <3>1. \A e \in IDs' : e \notin IDs /\ ShipOf(e, c)' => Once(down'[c], e) /\ (Silent(down'[c], e) \/ Awaited(c, e)')
      <4> SUFFICES ASSUME NEW e \in IDs', e \notin IDs
                   PROVE  Once(down'[c], e) /\ Awaited(c, e)'
        OBVIOUS
      <4>1. e = new
        BY <1>9
      <4> QED
        BY <2>5, <2>6, <4>1
    <3> QED
      BY <1>3, <1>9, <1>11, <1>16, <1>17, <2>4, <2>7, <3>1, ViewKept
  <2> QED
    BY <2>1, <2>8 DEF Client
<1> QED
  BY <1>9, <1>18, <1>19, <1>21, <1>22, <1>23, <1>25, <1>26 DEF Inv

(* Game finds the ship of the one who left, and no other.                  *)
LEMMA FoundShip ==
  ASSUME Inv, NEW c \in served, due[c] > 0
  PROVE  \E s \in DOMAIN ents[Host] : ShipOf(s, c) /\ FirstOf(NamedPlayer(id[c])) = {s}
<1>1. c \in Conns /\ Active(c) /\ link[c] # "out"
  BY ServedActive
<1>2. PICK s \in DOMAIN ents[Host] : ShipOf(s, c)
  BY DEF Inv, HostShips
<1>3. s \in IDs /\ Ship(s) /\ born[s].owner = id[c] /\ s \in Nat
  <2>1. s \in IDs
    BY HostKept
  <2> QED
    BY <1>1, <1>2, <2>1, OwnerShip DEF IDs
<1>4. ASSUME NEW f \in DOMAIN ents[Host], Ship(f), born[f].owner = id[c]
      PROVE  f = s
  <2>1. f \in IDs
    BY HostKept
  <2>2. born[f].for = c
    BY <1>1, <1>4, HostShipOwner
  <2> QED
    BY <1>1, <1>2, <1>3, <1>4, <2>1, <2>2, HostKept DEF Inv, Origin, ShipOf
<1>5. NamedPlayer(id[c]) = {s}
  BY <1>2, <1>3, <1>4 DEF NamedPlayer, OfType, Ship
<1>6. FirstOf({s}) = {s}
  BY <1>3 DEF FirstOf
<1> QED
  BY <1>2, <1>5, <1>6

LEMMA HandleDisconnectedStep ==
  ASSUME Inv, NEW c \in Conns, HandleDisconnected(c)
  PROVE  Inv'
<1>1. PICK ship : ship = FirstOf(NamedPlayer(id[c]))
  OBVIOUS
<1>2. /\ link' = link /\ listed' = listed /\ id' = id /\ next_uid' = next_uid /\ free_ids' = Append(free_ids, id[c])
      /\ served' = served \ {c} /\ updating' = updating /\ born' = born /\ Handling(c, Disconnected)
      /\ ents' = [ents EXCEPT ![Host] = [e \in DOMAIN @ |->
                    IF e \in ship THEN [@[e] EXCEPT !.remove = TRUE] ELSE @[e]]]
      /\ Send(connected, Each(ship, Deletion))
  BY <1>1 DEF HandleDisconnected, connVars
<1>3. Disconnected.kind = "disconnected" /\ \A e : ~IsCall(Disconnected, e)
  BY DEF Disconnected, Packet, IsCall
<1>4. /\ up[c] # <<>> /\ Head(up[c]) = Disconnected /\ due[c] > 0 /\ updating /\ up'[c] = Tail(up[c])
      /\ up' \in [Conns -> Seq(UpPackets)] /\ due' \in [Conns -> Nat] /\ \A d \in Conns : due'[d] <= Len(up'[d])
      /\ \A d \in Conns : d # c => up'[d] = up[d] /\ due'[d] = due[d]
      /\ id[c] \in 2..next_uid - 1 /\ Active(c)
  BY <1>2, HandlingFacts
<1>5. c \in served /\ link[c] = "gone" /\ Tail(up[c]) = <<>>
  BY <1>2, <1>3, HandlingFacts
<1>6. PICK s \in DOMAIN ents[Host] : ShipOf(s, c) /\ ship = {s}
  BY <1>1, <1>4, <1>5, FoundShip
<1>7. /\ s \in IDs /\ s \in Nat /\ Ship(s) /\ born[s].owner = id[c] /\ born[s].for = c
      /\ Host \notin Conns /\ DOMAIN ents = Machines /\ Conns \subseteq Machines /\ Host \in Machines
  <2>1. s \in IDs /\ s \in Nat
    BY HostKept DEF IDs
  <2> QED
    BY <1>6, <2>1, OwnerShip, HostKept DEF ShipOf
<1>8. Grows /\ IDs' = IDs /\ \A x : Ship(x)' = Ship(x) /\ \A d : ShipOf(x, d)' <=> ShipOf(x, d)
  BY <1>2 DEF Grows, Inv, Shape, IDs, Ship, ShipOf
<1>9. /\ HostChanges(s) /\ ents'[Host][s].remove
      /\ \A x \in DOMAIN ents[Host] : ents'[Host][x].damaged = ents[Host][x].damaged
  <2>1. ents[Host] \in [DOMAIN ents[Host] -> Flags]
    BY HostKept DEF Holds
  <2>2. DOMAIN ents' = Machines /\ \A m \in Conns : ents'[m] = ents[m]
    BY <1>2, <1>7
  <2>3. ents'[Host] = [e \in DOMAIN ents[Host] |->
                         IF e = s THEN [ents[Host][e] EXCEPT !.remove = TRUE] ELSE ents[Host][e]]
    BY <1>2, <1>6, <1>7
  <2>4. \A x \in DOMAIN ents[Host] : x # s => ents'[Host][x] = ents[Host][x]
    BY <2>3
  <2>5. ents'[Host][s] = [ents[Host][s] EXCEPT !.remove = TRUE] /\ ents[Host][s] \in Flags
    BY <2>1, <2>3
  <2>6. /\ ents'[Host][s] \in Flags /\ ents'[Host][s].remove
        /\ ents'[Host][s].dead = ents[Host][s].dead /\ ents'[Host][s].damaged = ents[Host][s].damaged
    BY <2>5 DEF Flags
  <2>7. ents'[Host] \in [DOMAIN ents[Host] -> Flags]
    <3>1. ents'[Host] = [x \in DOMAIN ents[Host] |-> ents'[Host][x]]
      BY <2>3
    <3>2. \A x \in DOMAIN ents[Host] : ents'[Host][x] \in Flags
      BY <2>1, <2>4, <2>6
    <3> QED
      BY <3>1, <3>2
  <2> QED
    BY <2>2, <2>4, <2>6, <2>7 DEF HostChanges
<1>10. (\A m \in Machines : Holds(m)') /\ DOMAIN ents'[Host] = DOMAIN ents[Host]
  BY <1>8, <1>9, HostChangesHolds
<1>11. PICK q : q = Each(ship, Deletion)
  OBVIOUS
<1>12. q \in Seq(DownPackets) /\ \A i \in DOMAIN q : q[i].kind = "delete" /\ q[i].ent \in IDs
  <2> DEFINE T == {p \in DownPackets : p.kind = "delete" /\ p.ent \in IDs}
  <2>1. \A e \in ship : Deletion(e) \in T
    BY <1>6, <1>7 DEF Deletion, Packet, DownPackets
  <2>2. ship \in SUBSET (1..Len(born)) /\ Len(born) \in Nat
    BY <1>6, <1>7 DEF IDs, Inv, Shape
  <2> HIDE DEF T
  <2>3. q \in Seq(T)
    BY <1>11, <2>1, <2>2, EachDeletion
  <2>4. T \subseteq DownPackets /\ \A p \in T : p.kind = "delete" /\ p.ent \in IDs
    BY DEF T
  <2> QED
    BY <2>3, <2>4
<1>13. /\ down' \in [Conns -> Seq(DownPackets)]
       /\ \A d \in Conns : down'[d] = down[d] \/ down'[d] = down[d] \o q
  BY <1>2, <1>11, <1>12, SendFacts
<1>14. free_ids \in Seq(Nat) /\ free_ids' \in Seq(Nat) /\ Len(free_ids') = Len(free_ids) + 1
       /\ free_ids'[Len(free_ids) + 1] = id[c] /\ \A i \in 1..Len(free_ids) : free_ids'[i] = free_ids[i]
       /\ next_uid \in Nat
  BY <1>2, <1>4 DEF Inv, Shape
<1>15. Shape'
  <2>1. \A i \in 1..Len(free_ids') : free_ids'[i] \in 2..next_uid - 1
    <3>1. \A i \in 1..Len(free_ids) : free_ids[i] \in 2..next_uid - 1
      BY DEF Inv, Shape
    <3>2. \A i \in 1..Len(free_ids') : i \in 1..Len(free_ids) \/ i = Len(free_ids) + 1
      BY <1>14
    <3> QED
      BY <1>4, <1>14, <3>1, <3>2
  <2>2. served' \subseteq Conns
    BY <1>2 DEF Inv, Shape
  <2> QED
    BY <1>2, <1>4, <1>8, <1>13, <1>14, <2>1, <2>2 DEF Inv, Shape, Grows
<1>16. ~Active(c)' /\ \A d \in Conns : Active(d)' => Active(d) /\ d # c
  BY <1>2, <1>4, <1>5 DEF Active
<1>17. Unique'
  <2>1. Unique
    BY DEF Inv
  <2>2. \A d \in Conns : Active(d)' => id[d] # id[c]
    BY <1>4, <1>16, <2>1 DEF Unique
  <2>3. \A i \in 1..Len(free_ids) : free_ids[i] # id[c]
    BY <1>4, <2>1 DEF Unique
  <2>4. \A i \in 1..Len(free_ids') : \/ i \in 1..Len(free_ids) /\ free_ids'[i] = free_ids[i]
                                     \/ i = Len(free_ids) + 1 /\ free_ids'[i] = id[c]
    BY <1>14
  <2>5. \A i, j \in 1..Len(free_ids') : free_ids'[i] = free_ids'[j] => i = j
    BY <2>1, <2>3, <2>4 DEF Unique
  <2>6. \A d, f \in Conns : Active(d)' /\ Active(f)' /\ id'[d] = id'[f] => d = f
    BY <1>2, <1>16, <2>1 DEF Unique
  <2>7. \A d \in Conns : Active(d)' => \A i \in 1..Len(free_ids') : free_ids'[i] # id'[d]
    <3> SUFFICES ASSUME NEW d \in Conns, Active(d)', NEW i \in 1..Len(free_ids')
                 PROVE  free_ids'[i] # id[d]
      BY <1>2
    <3>1. Active(d) /\ id[d] # id[c]
      BY <1>16, <2>2
    <3>2. \A j \in 1..Len(free_ids) : free_ids[j] # id[d]
      BY <2>1, <3>1 DEF Unique
    <3> QED
      BY <2>4, <3>1, <3>2
  <2> QED
    BY <2>5, <2>6, <2>7 DEF Unique
<1>18. Origin'
  BY <1>2, <1>8, <1>16, OriginKept
<1>19. HostShips'
  <2>1. HostShips /\ \A e \in DOMAIN ents[Host] : e \in IDs
    BY HostKept DEF Inv
  <2>2. \A x \in DOMAIN ents[Host] : x # s => ents'[Host][x] = ents[Host][x]
    BY <1>9 DEF HostChanges
  <2>3. \A d \in served' : \E e \in DOMAIN ents'[Host] : ShipOf(e, d)'
    BY <1>2, <1>8, <1>10, <2>1 DEF HostShips
  <2>4. \A e \in DOMAIN ents'[Host] : ents'[Host][e].remove => updating'
    BY <1>2, <1>4
  <2>5. ASSUME NEW e \in DOMAIN ents'[Host], Ship(e)'
        PROVE  Kept(e)' \/ Going(e)'
    <3>1. CASE e = s
      <4>1. \A d \in Conns : Active(d)' => id[d] # born[s].owner
        BY <1>4, <1>7, <1>16 DEF Inv, Unique
      <4>2. born'[s].for = c /\ born'[s].for # Host /\ born'[s].for \notin served' /\ born'[s].owner = born[s].owner
        BY <1>2, <1>7
      <4> QED
        BY <1>2, <1>9, <3>1, <4>1, <4>2 DEF Going
    <3>2. CASE e # s
      <4>1. e \in DOMAIN ents[Host] /\ Ship(e) /\ e \in IDs /\ ents'[Host][e] = ents[Host][e] /\ born'[e] = born[e]
        BY <1>2, <1>8, <1>10, <2>1, <2>2, <2>5, <3>2
      <4>2. born[e].for # c
        BY <1>7, <3>2, <4>1 DEF Inv, Origin
      <4>3. CASE Kept(e)
        BY <1>2, <4>1, <4>2, <4>3 DEF Kept
      <4>4. CASE Going(e)
        BY <1>2, <1>4, <1>16, <4>1, <4>4 DEF Going
      <4> QED
        BY <2>1, <4>1, <4>3, <4>4 DEF HostShips
    <3> QED
      BY <3>1, <3>2
  <2> QED
    BY <2>3, <2>4, <2>5 DEF HostShips
<1>20. ASSUME NEW d \in Conns
       PROVE  Client(d)'
  <2>1. \A i \in DOMAIN q : DownFine(d, q[i])'
    BY <1>8, <1>12 DEF DownFine
  <2>2. \A x \in IDs : Silent(q, x)
    BY <1>12 DEF Silent, Announces
  <2>3. \A x \in IDs' : x \in IDs
    BY <1>8
  <2>4. \A x \in IDs : x \in DOMAIN ents'[Host] =>
          x \in DOMAIN ents[Host] /\ ents'[Host][x].damaged = ents[Host][x].damaged
    BY <1>9, <1>10
  <2>5. ents'[d] = ents[d]
    BY <1>9 DEF HostChanges
  <2>6. CASE d # c
    <3>1. d \in served' <=> d \in served
      BY <1>2, <2>6
    <3> QED
      BY <1>2, <1>4, <1>8, <1>12, <1>13, <2>1, <2>2, <2>3, <2>4, <2>5, <2>6, <3>1, ClientKept
  <2>7. CASE d = c
    <3>1. Queue(c)'
      BY <1>2, <1>4, <1>5, <1>8, QueueTail
    <3>2. \A e : NoCall(up[c], e) => NoCall(up'[c], e)
      <4>1. up[c] \in Seq(UpPackets)
        BY UpTyped
      <4> QED
        BY <1>4, <4>1, NoCallTail
    <3>3. View(c)' /\ (link'[c] = "in" => Announced(c)' /\ Agree(c)')
      BY <1>2, <1>5, <1>8, <1>12, <1>13, <2>1, <2>2, <2>3, <2>5, <2>7, <3>2, ViewKept
    <3> QED
      BY <2>7, <3>1, <3>3 DEF Client
  <2> QED
    BY <2>6, <2>7
<1> QED
  BY <1>9, <1>10, <1>15, <1>17, <1>18, <1>19, <1>20 DEF Inv, HostChanges

-----------------------------------------------------------------------------
(* Connections.                                                            *)

(* Nothing is announced to, and nothing changes for, the other clients.    *)
LEMMA OtherClient ==
  ASSUME Inv, NEW d \in Conns, born' = born, served' = served, ents'[Host] = ents[Host],
         link'[d] = link[d], id'[d] = id[d], up'[d] = up[d], ents'[d] = ents[d], down'[d] = down[d]
  PROVE  Client(d)'
<1> DEFINE none == <<>>
<1>1. none \in Seq(DownPackets) /\ DOMAIN none = {}
  OBVIOUS
<1> HIDE DEF none
<1>2. (\A i \in DOMAIN none : DownFine(d, none[i])') /\ \A e \in IDs : Silent(none, e)
  BY <1>1 DEF Silent
<1>3. Grows /\ IDs' = IDs
  BY DEF Grows, Inv, Shape, IDs
<1> QED
  BY <1>1, <1>2, <1>3, ClientKept

(* Nor for one that is gone, for whose ID nothing is queued any more.      *)
LEMMA GoneClient ==
  ASSUME Inv, NEW d \in Conns, born' = born, served' = served, link[d] # "in", down'[d] = <<>>,
         link'[d] = link[d], up'[d] = up[d], ents'[d] = ents[d]
  PROVE  Client(d)'
<1>1. Grows
  BY DEF Grows, Inv, Shape
<1>2. Queue(d)'
  BY <1>1, QueueKept
<1>3. DOMAIN ents[d] = {}
  BY DEF Inv, Client, View
<1>4. DOMAIN <<>> = {}
  OBVIOUS
<1>5. View(d)'
  BY <1>3, <1>4 DEF View
<1> QED
  BY <1>2, <1>5 DEF Client

(* The ID that a new client gets is nobody's.                              *)
LEMMA NewID ==
  ASSUME Inv, NEW c \in Conns, Join(c)
  PROVE  /\ next_uid' \in Nat /\ next_uid' >= next_uid
         /\ id' = [id EXCEPT ![c] = id'[c]] /\ id'[c] \in 2..next_uid' - 1
         /\ free_ids' \in Seq(Nat) /\ \A i \in 1..Len(free_ids') : free_ids'[i] \in 2..next_uid' - 1
         /\ \A d \in Conns : Active(d) => id[d] # id'[c]
         /\ \A d \in Conns : Active(d) => \A i \in 1..Len(free_ids') : free_ids'[i] # id[d]
         /\ \A i \in 1..Len(free_ids') : free_ids'[i] # id'[c]
         /\ \A i, j \in 1..Len(free_ids') : free_ids'[i] = free_ids'[j] => i = j
<1>1. /\ next_uid \in Nat /\ next_uid >= 2 /\ id \in [Conns -> Nat] /\ free_ids \in Seq(Nat)
      /\ \A d \in Conns : (id[d] = 0 /\ link[d] = "out") \/ id[d] \in 2..next_uid - 1
      /\ \A i \in 1..Len(free_ids) : free_ids[i] \in 2..next_uid - 1
  BY DEF Inv, Shape
<1>2. /\ \A d \in Conns : Active(d) => id[d] \in 2..next_uid - 1
      /\ \A d \in Conns : Active(d) => \A i \in 1..Len(free_ids) : free_ids[i] # id[d]
      /\ \A i, j \in 1..Len(free_ids) : free_ids[i] = free_ids[j] => i = j
  BY <1>1 DEF Inv, Unique, Active
<1>3. CASE free_ids = <<>>
  <2>1. id' = [id EXCEPT ![c] = next_uid] /\ next_uid' = next_uid + 1 /\ free_ids' = free_ids
    BY <1>3 DEF Join
  <2>2. id'[c] = next_uid
    BY <1>1, <2>1
  <2>3. 1..Len(free_ids') = {}
    BY <1>3, <2>1
  <2>4. next_uid' \in Nat /\ next_uid' >= next_uid /\ id'[c] \in 2..next_uid' - 1
    BY <1>1, <2>1, <2>2
  <2>5. \A d \in Conns : Active(d) => id[d] # next_uid
    BY <1>1, <1>2
  <2> QED
    BY <1>1, <2>1, <2>2, <2>3, <2>4, <2>5
<1>4. CASE free_ids # <<>>
  <2>1. id' = [id EXCEPT ![c] = Head(free_ids)] /\ next_uid' = next_uid /\ free_ids' = Tail(free_ids)
    BY <1>4 DEF Join
  <2>2. /\ Head(free_ids) = free_ids[1] /\ 1 \in 1..Len(free_ids) /\ free_ids' \in Seq(Nat)
        /\ \A i \in 1..Len(free_ids') : i + 1 \in 1..Len(free_ids) /\ free_ids'[i] = free_ids[i + 1] /\ i \in Nat /\ i > 0
    <3>1. DOMAIN Tail(free_ids) = 1..Len(Tail(free_ids))
      BY <1>1, <1>4, TailFacts
    <3> QED
      BY <1>1, <1>4, <2>1, <3>1, TailFacts
  <2>3. id'[c] = free_ids[1] /\ id'[c] \in 2..next_uid - 1
    BY <1>1, <2>1, <2>2
  <2>4. \A d \in Conns : Active(d) => id[d] # id'[c]
    BY <1>2, <2>2, <2>3
  <2>5. \A i \in 1..Len(free_ids') : free_ids'[i] \in 2..next_uid - 1 /\ free_ids'[i] # id'[c]
    <3> TAKE i \in 1..Len(free_ids')
    <3>1. i + 1 # 1
      BY <2>2
    <3> QED
      BY <1>1, <1>2, <2>2, <2>3, <3>1
  <2>6. \A d \in Conns : Active(d) => \A i \in 1..Len(free_ids') : free_ids'[i] # id[d]
    BY <1>2, <2>2
  <2>7. \A i, j \in 1..Len(free_ids') : free_ids'[i] = free_ids'[j] => i = j
    <3> SUFFICES ASSUME NEW i \in 1..Len(free_ids'), NEW j \in 1..Len(free_ids'), free_ids'[i] = free_ids'[j]
                 PROVE  i = j
      OBVIOUS
    <3>1. i + 1 = j + 1
      BY <1>2, <2>2
    <3> QED
      BY <2>2, <3>1
  <2> QED
    BY <1>1, <2>1, <2>2, <2>3, <2>4, <2>5, <2>6, <2>7
<1> QED
  BY <1>3, <1>4

LEMMA JoinStep ==
  ASSUME Inv, NEW c \in Conns, Join(c)
  PROVE  Inv'
<1>1. /\ link[c] = "out" /\ link' = [link EXCEPT ![c] = "in"] /\ up' = [up EXCEPT ![c] = <<Connected>>]
      /\ served' = served /\ listed' = listed /\ updating' = updating /\ due' = due /\ ents' = ents
      /\ born' = born
  BY DEF Join
<1>2. /\ link \in [Conns -> {"out", "in", "gone"}] /\ up \in [Conns -> Seq(UpPackets)]
      /\ Client(c) /\ Queue(c) /\ View(c) /\ id \in [Conns -> Nat] /\ next_uid \in Nat
  BY DEF Inv, Shape, Client
<1>3. up[c] = <<>> /\ c \notin served /\ DOMAIN ents[c] = {} /\ due[c] = 0 /\ ~Active(c)
  <2>1. up[c] = <<>> /\ c \notin served /\ DOMAIN ents[c] = {}
    BY <1>1, <1>2 DEF Queue, View
  <2>2. due[c] \in Nat /\ due[c] <= Len(up[c]) /\ Len(<<>>) = 0
    BY DEF Inv, Shape
  <2>3. due[c] = 0
    BY <2>1, <2>2
  <2> QED
    BY <1>1, <2>1, <2>3 DEF Active
<1>4. Grows /\ IDs' = IDs /\ \A e : Ship(e)' = Ship(e) /\ \A d : ShipOf(e, d)' <=> ShipOf(e, d)
  BY <1>1 DEF Grows, Inv, Shape, IDs, Ship, ShipOf
<1>5. /\ link'[c] = "in" /\ up'[c] = <<Connected>>
      /\ \A d \in Conns : d # c => link'[d] = link[d] /\ up'[d] = up[d] /\ id'[d] = id[d]
  <2>1. id' = [id EXCEPT ![c] = id'[c]]
    BY NewID
  <2> QED
    BY <1>1, <1>2, <2>1
<1>6. Connected \in UpPackets /\ Connected.kind = "connected" /\ Connected.ent = 0
  BY DEF Connected, Packet, UpPackets
<1>7. /\ <<Connected>> \in Seq(UpPackets) /\ Len(<<Connected>>) = 1 /\ DOMAIN <<Connected>> = {1}
      /\ <<Connected>>[1] = Connected
  BY <1>6
<1>8. \A e \in IDs : ~ShipOf(e, c)
  BY <1>1, HostKept DEF Inv, Origin, ForOne, ShipOf
<1>9. Active(c)' /\ \A d \in Conns : d # c => (Active(d)' <=> Active(d))
  BY <1>5 DEF Active
<1>17. /\ down' \in [Conns -> Seq(DownPackets)]
       /\ \A i \in DOMAIN down'[c] : down'[c][i].ent \in IDs
       /\ \A d \in Conns : d # c => down'[d] = down[d] \/ (link[d] = "gone" /\ down'[d] = <<>>)
  <2>1. PICK k : /\ down' = [d \in Conns |-> IF d = c THEN Unsent(k)
                                            ELSE IF link[d] = "gone" /\ id[d] = k THEN <<>> ELSE down[d]]
    BY DEF Join
  <2>2. \A d \in Conns : down[d] \in Seq(DownPackets) /\ \A i \in DOMAIN down[d] : down[d][i].ent \in IDs
    BY DEF Inv, Shape, Client, View, DownFine
  <2>3. Unsent(k) = <<>> \/ \E d \in Conns : Unsent(k) = down[d]
    BY DEF Unsent
  <2>4. <<>> \in Seq(DownPackets) /\ DOMAIN <<>> = {}
    OBVIOUS
  <2>5. Unsent(k) \in Seq(DownPackets) /\ \A i \in DOMAIN Unsent(k) : Unsent(k)[i].ent \in IDs
    BY <2>2, <2>3, <2>4
  <2> QED
    BY <2>1, <2>2, <2>4, <2>5
<1>10. Shape'
  <2>1. link' \in [Conns -> {"out", "in", "gone"}] /\ up' \in [Conns -> Seq(UpPackets)]
    BY <1>1, <1>2, <1>7
  <2>2. next_uid' \in Nat /\ next_uid' >= 2 /\ next_uid' >= next_uid
    BY NewID DEF Inv, Shape
  <2>3. id' \in [Conns -> Nat]
    <3>1. id' = [id EXCEPT ![c] = id'[c]] /\ id'[c] \in Nat
      BY NewID, <2>2
    <3> QED
      BY <1>2, <3>1
  <2>4. \A d \in Conns : (id'[d] = 0 /\ link'[d] = "out") \/ id'[d] \in 2..next_uid' - 1
    <3> TAKE d \in Conns
    <3>1. CASE d = c
      BY <3>1, NewID
    <3>2. CASE d # c
      <4>1. (id[d] = 0 /\ link[d] = "out") \/ id[d] \in 2..next_uid - 1
        BY DEF Inv, Shape
      <4> QED
        BY <1>2, <1>5, <2>2, <3>2, <4>1
    <3> QED
      BY <3>1, <3>2
  <2>5. \A d \in Conns : due'[d] <= Len(up'[d]) /\ (due'[d] > 0 => updating')
    <3> TAKE d \in Conns
    <3>1. due[d] <= Len(up[d]) /\ (due[d] > 0 => updating)
      BY DEF Inv, Shape
    <3> QED
      BY <1>1, <1>3, <1>5, <1>7, <3>1
  <2>6. \A e \in IDs : born[e].owner \in 1..next_uid' - 1
    <3> TAKE e \in IDs
    <3>1. born[e].owner \in 1..next_uid - 1
      BY DEF Inv, Shape
    <3> QED
      BY <1>2, <2>2, <3>1
  <2>7. free_ids' \in Seq(Nat) /\ \A i \in 1..Len(free_ids') : free_ids'[i] \in 2..next_uid' - 1
    BY NewID
  <2> QED
    BY <1>1, <1>4, <1>17, <2>1, <2>2, <2>3, <2>4, <2>5, <2>6, <2>7 DEF Inv, Shape, Grows
<1>11. Unique'
  <2>1. Unique
    BY DEF Inv
  <2>2. \A d, f \in Conns : Active(d)' /\ Active(f)' /\ id'[d] = id'[f] => d = f
    <3> TAKE d, f \in Conns
    <3>1. d # c /\ f # c => (Active(d)' /\ Active(f)' /\ id'[d] = id'[f] => d = f)
      BY <1>5, <1>9, <2>1 DEF Unique
    <3>2. d # c => (Active(d)' => id'[d] # id'[c])
      BY <1>5, <1>9, NewID
    <3>3. f # c => (Active(f)' => id'[f] # id'[c])
      BY <1>5, <1>9, NewID
    <3> QED
      BY <3>1, <3>2, <3>3
  <2>3. \A d \in Conns : Active(d)' => \A i \in 1..Len(free_ids') : free_ids'[i] # id'[d]
    <3> TAKE d \in Conns
    <3>1. CASE d = c
      BY <3>1, NewID
    <3>2. CASE d # c
      <4>1. id'[d] = id[d] /\ (Active(d)' => Active(d))
        BY <1>5, <1>9, <3>2
      <4> QED
        BY <4>1, NewID
    <3> QED
      BY <3>1, <3>2
  <2>4. \A i, j \in 1..Len(free_ids') : free_ids'[i] = free_ids'[j] => i = j
    BY NewID
  <2> QED
    BY <2>2, <2>3, <2>4 DEF Unique
<1>12. Origin'
  <2>1. \A d \in Conns : link[d] # "out" =>
          /\ link'[d] # "out" /\ id'[d] = id[d]
          /\ Active(d)' => Active(d) /\ (d \in served => d \in served')
    BY <1>1, <1>5, <1>9
  <2> QED
    BY <1>4, <2>1, OriginKept
<1>13. HostShips'
  <2>1. \A e : Kept(e) => Kept(e)'
    BY <1>1 DEF Kept
  <2>2. \A e : Going(e) => Going(e)'
    <3> SUFFICES ASSUME NEW e, Going(e)
                 PROVE  Going(e)'
      OBVIOUS
    <3>1. \A d \in Conns : Active(d)' /\ id'[d] = born[e].owner => d \notin served /\ due[d] = 0
      BY <1>3, <1>5, <1>9 DEF Going
    <3> QED
      BY <1>1, <3>1 DEF Going
  <2> QED
    BY <1>1, <1>4, <2>1, <2>2 DEF HostShips, Inv
<1>14. Client(c)'
  <2>1. Queue(c)'
    <3>1. Framed(up'[c], link'[c] = "gone", c \in served')
      BY <1>1, <1>3, <1>5, <1>6, <1>7 DEF Framed
    <3>2. \A i \in DOMAIN up'[c] : UpFine(up[c][i])'
      <4>1. UpFine(Connected)'
        BY <1>6, <1>4 DEF UpFine, Grows
      <4> QED
        BY <1>5, <1>7, <4>1
    <3>3. up'[c] # <<>>
      BY <1>5
    <3> QED
      BY <1>1, <1>3, <1>5, <3>1, <3>2, <3>3 DEF Queue
  <2>2. View(c)'
    BY <1>1, <1>4, <1>5, <1>8, <1>17 DEF View, DownFine
  <2>3. Announced(c)' /\ Agree(c)'
    BY <1>1, <1>3, <1>4, <1>8 DEF Announced, Agree
  <2> QED
    BY <2>1, <2>2, <2>3 DEF Client
<1>15. \A d \in Conns : d # c => Client(d)'
  BY <1>1, <1>5, <1>17, OtherClient, GoneClient
<1>16. DOMAIN ents' = Machines /\ \A m \in Machines : Holds(m)'
  BY <1>1, <1>4, HostKept, HoldsKept
<1> QED
  BY <1>10, <1>11, <1>12, <1>13, <1>14, <1>15, <1>16 DEF Inv

LEMMA LeaveStep ==
  ASSUME Inv, NEW c \in Conns, Leave(c)
  PROVE  Inv'
<1>1. /\ link[c] = "in" /\ link' = [link EXCEPT ![c] = "gone"]
      /\ ents' = [ents EXCEPT ![c] = <<>>]
      /\ listed' = listed /\ id' = id /\ next_uid' = next_uid /\ free_ids' = free_ids /\ served' = served
      /\ updating' = updating /\ due' = due /\ born' = born
  BY DEF Leave
<1>2. PICK k \in due[c]..Len(up[c]) :
        /\ c \notin served => k > 0
        /\ up' = [up EXCEPT ![c] = Append(SubSeq(@, 1, k), Disconnected)]
  BY DEF Leave
<1>3. PICK u : u = up[c]
  OBVIOUS
<1>4. PICK v : v = Append(SubSeq(u, 1, k), Disconnected)
  OBVIOUS
<1>5. /\ link \in [Conns -> {"out", "in", "gone"}] /\ up \in [Conns -> Seq(UpPackets)] /\ down \in [Conns -> Seq(DownPackets)]
      /\ due \in [Conns -> Nat] /\ due[c] \in Nat /\ due[c] <= Len(u) /\ u \in Seq(UpPackets) /\ Len(u) \in Nat /\ k \in Nat
      /\ due[c] <= k /\ k <= Len(u)
      /\ Host \notin Conns /\ Host \in Machines /\ Conns \subseteq Machines /\ DOMAIN ents = Machines
  <2>1. /\ link \in [Conns -> {"out", "in", "gone"}] /\ up \in [Conns -> Seq(UpPackets)] /\ down \in [Conns -> Seq(DownPackets)]
        /\ due \in [Conns -> Nat] /\ due[c] \in Nat /\ due[c] <= Len(up[c])
    BY DEF Inv, Shape
  <2>2. u \in Seq(UpPackets) /\ Len(u) \in Nat
    BY <1>3, <2>1
  <2> QED
    BY <1>2, <1>3, <2>1, <2>2, HostKept
<1>18. /\ down' \in [Conns -> Seq(DownPackets)]
       /\ \A i \in DOMAIN down'[c] : DownFine(c, down'[c][i])
       /\ \A d \in Conns : d # c => down'[d] = down[d]
  <2>1. PICK q : q = down[c]
    OBVIOUS
  <2>2. PICK j \in 1..Len(down[c]) + 1 : down' = [down EXCEPT ![c] = SubSeq(@, j, Len(@))]
    BY DEF Leave
  <2>3. q \in Seq(DownPackets) /\ Len(q) \in Nat /\ j \in 1..Len(q) + 1 /\ down' = [down EXCEPT ![c] = SubSeq(q, j, Len(q))]
    BY <1>5, <2>1, <2>2
  <2>4. PICK s : s = SubSeq(q, j, Len(q))
    OBVIOUS
  <2>5. s \in Seq(DownPackets) /\ Len(s) = Len(q) - j + 1 /\ \A i \in 1..Len(s) : s[i] = q[i + j - 1]
    BY <2>3, <2>4
  <2>6. \A i \in DOMAIN s : i + j - 1 \in DOMAIN q /\ s[i] = q[i + j - 1]
    BY <2>3, <2>5
  <2>7. \A i \in DOMAIN q : DownFine(c, q[i])
    BY <2>1 DEF Inv, Client, View
  <2>8. \A i \in DOMAIN s : DownFine(c, s[i])
    <3> TAKE i \in DOMAIN s
    <3>1. PICK x \in DOMAIN q : s[i] = q[x]
      BY <2>6
    <3>2. DownFine(c, q[x])
      BY <2>7
    <3> QED
      BY <3>1, <3>2 DEF DownFine
  <2>9. down'[c] = s /\ down' = [down EXCEPT ![c] = s]
    BY <1>5, <2>3, <2>4
  <2> QED
    BY <1>5, <2>5, <2>8, <2>9
<1>6. Disconnected \in UpPackets /\ Disconnected.kind = "disconnected" /\ Disconnected.ent = 0
  BY DEF Disconnected, Packet, UpPackets
<1>7. /\ v \in Seq(UpPackets) /\ Len(v) = k + 1 /\ v[k + 1] = Disconnected /\ \A i \in 1..k : v[i] = u[i]
      /\ DOMAIN v = 1..k + 1 /\ DOMAIN u = 1..Len(u) /\ v # <<>>
  <2> DEFINE s == SubSeq(u, 1, k)
  <2>1. s \in Seq(UpPackets) /\ Len(s) = k /\ \A i \in 1..k : s[i] = u[i]
    BY <1>5
  <2> HIDE DEF s
  <2>2. Append(s, Disconnected) \in Seq(UpPackets) /\ Len(Append(s, Disconnected)) = k + 1
    BY <1>5, <1>6, <2>1
  <2>3. Append(s, Disconnected)[k + 1] = Disconnected /\ \A i \in 1..k : Append(s, Disconnected)[i] = s[i]
    BY <1>5, <1>6, <2>1
  <2>4. v = Append(s, Disconnected)
    BY <1>4 DEF s
  <2>5. v \in Seq(UpPackets) /\ Len(v) = k + 1
    BY <2>2, <2>4
  <2>6. v[k + 1] = Disconnected /\ \A i \in 1..k : v[i] = u[i]
    BY <2>1, <2>3, <2>4
  <2>7. DOMAIN v = 1..k + 1 /\ DOMAIN u = 1..Len(u)
    BY <1>5, <2>5
  <2>8. v # <<>>
    BY <1>5, <2>5
  <2> QED
    BY <2>5, <2>6, <2>7, <2>8
<1>8. /\ link'[c] = "gone" /\ up'[c] = v /\ ents'[c] = <<>>
      /\ up' \in [Conns -> Seq(UpPackets)] /\ ents'[Host] = ents[Host] /\ DOMAIN ents' = Machines
      /\ \A d \in Conns : d # c => link'[d] = link[d] /\ up'[d] = up[d] /\ down'[d] = down[d] /\ ents'[d] = ents[d]
  <2>1. up' = [up EXCEPT ![c] = v]
    BY <1>2, <1>3, <1>4, <1>5
  <2> QED
    BY <1>1, <1>5, <1>7, <1>18, <2>1
<1>9. Grows /\ IDs' = IDs /\ \A e : Ship(e)' = Ship(e) /\ \A d : ShipOf(e, d)' <=> ShipOf(e, d)
  BY <1>1 DEF Grows, Inv, Shape, IDs, Ship, ShipOf
<1>10. \A d \in Conns : Active(d)' <=> Active(d)
  BY <1>1, <1>7, <1>8 DEF Active
<1>11. Shape'
  <2>1. link' \in [Conns -> {"out", "in", "gone"}]
    BY <1>1, <1>5
  <2>2. down' \in [Conns -> Seq(DownPackets)]
    BY <1>18
  <2>3. \A d \in Conns : (id'[d] = 0 /\ link'[d] = "out") \/ id'[d] \in 2..next_uid' - 1
    <3> TAKE d \in Conns
    <3>1. (id[d] = 0 /\ link[d] = "out") \/ id[d] \in 2..next_uid - 1
      BY DEF Inv, Shape
    <3> QED
      BY <1>1, <1>8, <3>1
  <2>4. \A d \in Conns : due'[d] <= Len(up'[d]) /\ (due'[d] > 0 => updating')
    <3> TAKE d \in Conns
    <3>1. due[d] <= Len(up[d]) /\ (due[d] > 0 => updating)
      BY DEF Inv, Shape
    <3>2. d = c => due[d] <= Len(up'[d])
      BY <1>5, <1>7, <1>8
    <3> QED
      BY <1>1, <1>8, <3>1, <3>2
  <2> QED
    BY <1>1, <1>8, <1>9, <2>1, <2>2, <2>3, <2>4 DEF Inv, Shape, Grows
<1>12. Unique'
  BY <1>1, <1>10, UniqueKept
<1>13. Origin'
  <2>1. \A d \in Conns : link[d] # "out" => link'[d] # "out"
    BY <1>8
  <2> QED
    BY <1>1, <1>9, <1>10, <2>1, OriginKept
<1>14. HostShips'
  <2>1. \A e : Kept(e) => Kept(e)'
    BY <1>1, <1>8 DEF Kept
  <2>2. \A e : Going(e) => Going(e)'
    BY <1>1, <1>8, <1>10 DEF Going
  <2> QED
    BY <1>1, <1>8, <1>9, <2>1, <2>2 DEF HostShips, Inv
<1>15. Client(c)'
  <2>1. Framed(v, TRUE, c \in served)
    <3>1. Framed(u, FALSE, c \in served)
      BY <1>1, <1>3 DEF Inv, Client, Queue
    <3>2. \A i \in 1..k : (v[i].kind = "connected" <=> (i = 1 /\ c \notin served)) /\ v[i].kind # "disconnected"
      <4>1. \A i \in 1..k : i \in DOMAIN u /\ v[i] = u[i]
        BY <1>5, <1>7
      <4>2. \A i \in DOMAIN u : (u[i].kind = "connected" <=> (i = 1 /\ c \notin served)) /\ u[i].kind # "disconnected"
        BY <3>1 DEF Framed
      <4> QED
        BY <4>1, <4>2
    <3>3. \A i \in 1..k + 1 : i \in 1..k \/ i = k + 1
      BY <1>5
    <3>4. k + 1 = 1 => c \in served
      BY <1>2, <1>5
    <3>5. \A i \in 1..k : i # k + 1
      BY <1>5
    <3>6. \A i \in 1..k + 1 : v[i].kind = "connected" <=> (i = 1 /\ c \notin served)
      BY <1>6, <1>7, <3>2, <3>3, <3>4
    <3>7. \A i \in 1..k + 1 : v[i].kind = "disconnected" <=> i = k + 1
      BY <1>6, <1>7, <3>2, <3>3, <3>5
    <3> QED
      BY <1>7, <3>6, <3>7 DEF Framed
  <2>2. \A i \in DOMAIN v : UpFine(v[i])
    <3>1. \A i \in DOMAIN u : UpFine(u[i])
      BY <1>3 DEF Inv, Client, Queue
    <3>2. UpFine(Disconnected)
      BY <1>6 DEF UpFine, Inv, Shape
    <3>3. \A i \in 1..k + 1 : i = k + 1 \/ (i \in 1..k /\ i \in 1..Len(u))
      BY <1>5
    <3> QED
      BY <1>7, <3>1, <3>2, <3>3
  <2>3. \A p : UpFine(p) => UpFine(p)'
    BY <1>1, <1>9 DEF UpFine
  <2>4. Queue(c)'
    <3>1. Framed(up'[c], link'[c] = "gone", c \in served')
      BY <1>1, <1>8, <2>1
    <3>2. \A i \in DOMAIN up'[c] : UpFine(up[c][i])'
      BY <1>8, <2>2, <2>3
    <3> QED
      BY <1>7, <1>8, <3>1, <3>2 DEF Queue
  <2>5. View(c)'
    <3>1. DOMAIN <<>> = {}
      OBVIOUS
    <3>2. \A p : DownFine(c, p) => DownFine(c, p)'
      BY <1>9 DEF DownFine
    <3> QED
      BY <1>8, <1>18, <3>1, <3>2 DEF View
  <2> QED
    BY <1>8, <2>4, <2>5 DEF Client
<1>16. \A d \in Conns : d # c => Client(d)'
  BY <1>1, <1>8, OtherClient
<1>17. \A m \in Machines : Holds(m)'
  <2> TAKE m \in Machines
  <2>1. CASE m = c
    <3>1. DOMAIN <<>> = {} /\ <<>> = [x \in {} |-> <<>>[x]]
      OBVIOUS
    <3>2. <<>> \in [{} -> Flags]
      BY <3>1
    <3> QED
      BY <1>8, <2>1, <3>1, <3>2 DEF Holds
  <2>2. CASE m # c
    BY <1>8, <1>9, <2>2, HoldsKept DEF Machines
  <2> QED
    BY <2>1, <2>2
<1> QED
  BY <1>8, <1>11, <1>12, <1>13, <1>14, <1>15, <1>16, <1>17 DEF Inv

-----------------------------------------------------------------------------
(* A client's replicas.                                                    *)

Flagged(f) == f \in [DOMAIN f -> Flags]

LEMMA ApplyFacts ==
  ASSUME NEW f, Flagged(f), NEW p \in DownPackets, NEW g, g = Apply(f, p)
  PROVE  /\ Flagged(g)
         /\ DOMAIN g = DOMAIN f \cup (IF p.kind = "create" THEN {p.ent} ELSE {})
         /\ \A x \in DOMAIN g :
              \/ p.kind = "create" /\ x = p.ent /\ g[x] = Fresh
              \/ /\ x \in DOMAIN f /\ g[x].dead = f[x].dead
                 /\ g[x].damaged = f[x].damaged \/ (p.kind = "shield" /\ x = p.ent)
<1>1. Fresh \in Flags
  BY DEF Fresh, Flags
<1> USE DEF Flagged
<1>2. p.kind \in {"create", "delete", "shield"} /\ p.on \in BOOLEAN
  BY DEF DownPackets
<1>3. CASE p.kind = "create"
  <2>1. g = [x \in DOMAIN f \cup {p.ent} |-> IF x = p.ent THEN Fresh ELSE f[x]]
    BY <1>3 DEF Apply, Create
  <2>2. \A x \in DOMAIN f \cup {p.ent} : g[x] \in Flags
    BY <1>1, <2>1
  <2> QED
    BY <1>3, <2>1, <2>2
<1>4. CASE p.kind = "delete" \/ p.kind = "shield"
  <2>1. \/ g = f
        \/ p.ent \in DOMAIN f /\ g = [f EXCEPT ![p.ent].remove = TRUE]
        \/ p.ent \in DOMAIN f /\ p.kind = "shield" /\ g = [f EXCEPT ![p.ent].damaged = p.on]
    BY <1>4 DEF Apply, Mark, Shielded
  <2>2. CASE g = f
    BY <1>4, <2>2
  <2>3. CASE p.ent \in DOMAIN f /\ g = [f EXCEPT ![p.ent].remove = TRUE]
    <3>1. f[p.ent] \in Flags
      BY <2>3
    <3>2. /\ DOMAIN g = DOMAIN f /\ g = [x \in DOMAIN f |-> g[x]]
          /\ g[p.ent] = [f[p.ent] EXCEPT !.remove = TRUE]
          /\ \A x \in DOMAIN f : x # p.ent => g[x] = f[x]
      BY <2>3
    <3>3. g[p.ent] \in Flags /\ g[p.ent].dead = f[p.ent].dead /\ g[p.ent].damaged = f[p.ent].damaged
      BY <3>1, <3>2 DEF Flags
    <3>4. \A x \in DOMAIN f : g[x] \in Flags
      BY <3>2, <3>3
    <3> QED
      BY <1>4, <3>2, <3>3, <3>4
  <2>4. CASE p.ent \in DOMAIN f /\ p.kind = "shield" /\ g = [f EXCEPT ![p.ent].damaged = p.on]
    <3>1. f[p.ent] \in Flags
      BY <2>4
    <3>2. /\ DOMAIN g = DOMAIN f /\ g = [x \in DOMAIN f |-> g[x]]
          /\ g[p.ent] = [f[p.ent] EXCEPT !.damaged = p.on]
          /\ \A x \in DOMAIN f : x # p.ent => g[x] = f[x]
      BY <2>4
    <3>3. g[p.ent] \in Flags /\ g[p.ent].dead = f[p.ent].dead
      BY <1>2, <3>1, <3>2 DEF Flags
    <3>4. \A x \in DOMAIN f : g[x] \in Flags
      BY <3>2, <3>3
    <3> QED
      BY <1>4, <2>4, <3>2, <3>3, <3>4
  <2> QED
    BY <2>1, <2>2, <2>3, <2>4
<1> QED
  BY <1>2, <1>3, <1>4

LEMMA ClientHandleStep ==
  ASSUME Inv, NEW c \in Conns, ClientHandle(c)
  PROVE  Inv'
<1>1. /\ link[c] = "in" /\ down[c] # <<>> /\ down' = [down EXCEPT ![c] = Tail(@)]
      /\ ents' = [ents EXCEPT ![c] = Apply(@, Head(down[c]))]
      /\ link' = link /\ listed' = listed /\ id' = id /\ next_uid' = next_uid /\ free_ids' = free_ids /\ served' = served
      /\ up' = up /\ updating' = updating /\ due' = due /\ born' = born
  BY DEF ClientHandle, connVars
<1>2. PICK q : q = down[c]
  OBVIOUS
<1>3. PICK p : p = Head(q)
  OBVIOUS
<1>4. /\ down \in [Conns -> Seq(DownPackets)] /\ q \in Seq(DownPackets) /\ q # <<>>
      /\ Host \notin Conns /\ Host \in Machines /\ Conns \subseteq Machines /\ DOMAIN ents = Machines
      /\ Holds(c) /\ Client(c) /\ Queue(c) /\ View(c)
  <2>1. down \in [Conns -> Seq(DownPackets)] /\ Client(c)
    BY DEF Inv, Shape
  <2>2. q \in Seq(DownPackets)
    BY <1>2, <2>1
  <2>3. Holds(c)
    BY HostKept DEF Inv
  <2> QED
    BY <1>1, <1>2, <2>1, <2>2, <2>3, HostKept DEF Client
<1>5. /\ p \in DownPackets /\ p = q[1] /\ 1 \in DOMAIN q /\ Tail(q) \in Seq(DownPackets)
      /\ \A i \in DOMAIN Tail(q) : i + 1 \in DOMAIN q /\ Tail(q)[i] = q[i + 1]
  BY <1>3, <1>4, TailFacts
<1>6. link[c] = "in" /\ DownFine(c, p) /\ \A i \in DOMAIN q : DownFine(c, q[i])
  BY <1>1, <1>2, <1>4, <1>5 DEF View
<1>7. /\ down'[c] = Tail(q) /\ down' \in [Conns -> Seq(DownPackets)] /\ ents'[c] = Apply(ents[c], p)
      /\ ents'[Host] = ents[Host] /\ DOMAIN ents' = Machines
      /\ \A d \in Conns : d # c => down'[d] = down[d] /\ ents'[d] = ents[d]
  BY <1>1, <1>2, <1>3, <1>4, <1>5
<1>8. Grows /\ IDs' = IDs /\ \A e : Ship(e)' = Ship(e) /\ \A d : ShipOf(e, d)' <=> ShipOf(e, d)
  BY <1>1 DEF Grows, Inv, Shape, IDs, Ship, ShipOf
<1>9. PICK f, g : f = ents[c] /\ g = ents'[c]
  OBVIOUS
<1>10. /\ Flagged(g)
       /\ DOMAIN g = DOMAIN f \cup (IF p.kind = "create" THEN {p.ent} ELSE {})
       /\ \A x \in DOMAIN g :
            \/ p.kind = "create" /\ x = p.ent /\ g[x] = Fresh
            \/ /\ x \in DOMAIN f /\ g[x].dead = f[x].dead
               /\ g[x].damaged = f[x].damaged \/ (p.kind = "shield" /\ x = p.ent)
  <2>1. Flagged(f)
    BY <1>4, <1>9 DEF Holds, Flagged
  <2>2. g = Apply(f, p)
    BY <1>7, <1>9
  <2>3. p \in DownPackets
    BY <1>5
  <2> QED
    BY <2>1, <2>2, <2>3, ApplyFacts
<1>11. Shape'
  BY <1>1, <1>7, <1>8 DEF Inv, Shape
<1>12. \A d : Active(d)' <=> Active(d)
  BY <1>1 DEF Active
<1>13. Unique'
  BY <1>1, <1>12, UniqueKept
<1>14. Origin'
  BY <1>1, <1>8, <1>12, OriginKept
<1>15. HostShips'
  <2>1. \A e : Kept(e) => Kept(e)'
    BY <1>1, <1>7 DEF Kept
  <2>2. \A e : Going(e) => Going(e)'
    BY <1>1, <1>7, <1>12 DEF Going
  <2> QED
    BY <1>1, <1>7, <1>8, <2>1, <2>2 DEF HostShips, Inv
<1>16. \A m \in Machines : Holds(m)'
  <2> TAKE m \in Machines
  <2>1. CASE m = c
    <3>1. DOMAIN f \subseteq IDs /\ \A e \in DOMAIN f : f[e].dead => ~Ship(e)
      BY <1>4, <1>9 DEF Holds
    <3>2. DOMAIN g \subseteq IDs
      BY <1>6, <1>10, <3>1 DEF DownFine
    <3>3. \A e \in DOMAIN g : g[e].dead => ~Ship(e)
      BY <1>10, <3>1 DEF Fresh
    <3>4. ents'[m] \in [DOMAIN ents'[m] -> Flags]
      BY <1>9, <1>10, <2>1 DEF Flagged
    <3>5. \A e \in DOMAIN ents'[m] : ents'[m][e].dead => ~Ship(e)'
      BY <1>8, <1>9, <2>1, <3>3
    <3>6. DOMAIN ents'[m] \subseteq IDs'
      BY <1>8, <1>9, <2>1, <3>2
    <3> QED
      BY <3>4, <3>5, <3>6 DEF Holds
  <2>2. CASE m # c
    BY <1>7, <1>8, <2>2, HoldsKept DEF Machines
  <2> QED
    BY <2>1, <2>2
<1>17. \A d \in Conns : d # c => Client(d)'
  BY <1>1, <1>7, OtherClient
<1>18. View(c)'
  <2>2. \A x : DownFine(c, x)' <=> DownFine(c, x)
    BY <1>1, <1>8 DEF DownFine
  <2>3. \A i \in DOMAIN down'[c] : DownFine(c, down[c][i])'
    <3>1. \A i \in DOMAIN Tail(q) : DownFine(c, Tail(q)[i])
      BY <1>5, <1>6
    <3> QED
      BY <1>7, <2>2, <3>1
  <2> QED
    BY <1>1, <1>6, <2>3 DEF View
<1>19. Announced(c) /\ Agree(c)
  BY <1>4, <1>6 DEF Client
<1>20. Announced(c)'
  <2> SUFFICES ASSUME NEW e \in IDs, ShipOf(e, c)
               PROVE  Once(down'[c], e) /\ (Silent(down'[c], e) \/ Awaited(c, e)')
    BY <1>8 DEF Announced
  <2>1. Once(q, e) /\ (Silent(q, e) \/ Awaited(c, e))
    BY <1>2, <1>19 DEF Announced
  <2>2. Once(Tail(q), e) /\ (Silent(q, e) => Silent(Tail(q), e)) /\ (Announces(p, e) => Silent(Tail(q), e))
    BY <1>3, <1>4, <2>1, OnceTail
  <2>3. Awaited(c, e) /\ ~Announces(p, e) => Awaited(c, e)'
    BY <1>1, <1>7, <1>9, <1>10 DEF Awaited, Announces
  <2> QED
    BY <1>7, <2>1, <2>2, <2>3
<1>21. Agree(c)'
  <2> SUFFICES ASSUME NEW e \in DOMAIN g, e \in DOMAIN ents[Host], ShipOf(e, c)
               PROVE  Told(c, e, g[e].damaged)
    <3>1. \A e, on : Told(c, e, on)' <=> Told(c, e, on)
      BY <1>1, <1>7 DEF Told
    <3>2. \A e \in DOMAIN g : Told(c, e, ents[c][e].damaged)' <=> Told(c, e, g[e].damaged)
      BY <1>9, <3>1
    <3> QED
      BY <1>7, <1>8, <1>9, <3>2 DEF Agree
  <2>1. CASE e \in DOMAIN f /\ g[e].damaged = f[e].damaged
    BY <1>9, <1>19, <2>1 DEF Agree
  <2>2. CASE p.kind = "create" /\ e = p.ent /\ g[e] = Fresh
    <3>1. e \in IDs
      BY HostKept
    <3>2. ~Silent(q, e)
      BY <1>5, <2>2 DEF Silent, Announces
    <3>3. Awaited(c, e)
      BY <1>2, <1>19, <3>1, <3>2 DEF Announced
    <3>4. ents[Host][e].damaged = FALSE
      <4>1. ents[Host][e] \in Flags
        BY HostKept DEF Holds
      <4>2. ents[Host][e].damaged \in BOOLEAN
        BY <4>1 DEF Flags
      <4> QED
        BY <3>3, <4>2 DEF Awaited
    <3>5. g[e].damaged = FALSE
      BY <2>2 DEF Fresh
    <3> QED
      BY <3>3, <3>4, <3>5 DEF Awaited, Told
  <2>3. ~(p.kind = "shield" /\ e = p.ent)
    BY <1>6 DEF DownFine
  <2> QED
    BY <1>10, <2>1, <2>2, <2>3
<1>22. Queue(c)'
  BY <1>1, <1>8, QueueKept
<1>23. Client(c)'
  BY <1>18, <1>20, <1>21, <1>22 DEF Client
<1> QED
  BY <1>7, <1>11, <1>13, <1>14, <1>15, <1>16, <1>17, <1>23 DEF Inv

-----------------------------------------------------------------------------
(* A frame.                                                                *)

(* Whom a machine lets collide, shoot and calm down: what is its own, and  *)
(* ships only that are not hit and that flash, respectively.               *)
LEMMA FrameSets ==
  ASSUME Inv, NEW m \in Machines, NEW h \in Collisions(m), NEW i \in Inputs(m)
  PROVE  /\ \A e \in DOMAIN ents[m] : e \in IDs /\ e \in Nat
         /\ \A e \in h.rocks \cup h.bullets \cup i.warped : e \in DOMAIN ents[m] /\ ~Ship(e)
         /\ \A e \in h.rocks : born[e].type = "asteroid" /\ IsOwner(m, e)
         /\ \A e \in h.ships \cup i.shooting \cup i.calm :
              e \in DOMAIN ents[m] /\ Ship(e) /\ IsOwner(m, e)
         /\ \A e \in h.ships : e \notin i.calm
<1>1. \A e \in DOMAIN ents[m] : e \in IDs /\ e \in Nat
  <2>1. Holds(m)
    BY DEF Inv
  <2> QED
    BY <2>1 DEF Holds, IDs
<1>2. /\ h.rocks \subseteq Own(m, "asteroid") /\ h.bullets \subseteq Living(m)
      /\ h.ships \subseteq Exposed(m) \cap Own(m, "ship")
  BY DEF Collisions
<1>3. /\ i.warped \subseteq Own(m, "bullet") /\ i.shooting \subseteq Own(m, "ship")
      /\ i.calm \subseteq Own(m, "ship") \ Exposed(m)
  BY DEF Inputs
<1>4. \A type : \A e \in Own(m, type) : e \in DOMAIN ents[m] /\ born[e].type = type /\ IsOwner(m, e)
  BY DEF Own, OfType
<1>5. Living(m) \subseteq Own(m, "bullet")
  BY DEF Living
<1>6. \A e : born[e].type \in {"asteroid", "bullet"} => ~Ship(e)
  BY DEF Ship
<1> QED
  BY <1>1, <1>2, <1>3, <1>4, <1>5, <1>6 DEF Ship

(* What the frame makes of the replicas.                                   *)
PlayedAs(m, h, i, played) ==
  /\ Flagged(played) /\ DOMAIN played = DOMAIN ents[m]
  /\ \A e \in DOMAIN played :
       /\ played[e].remove = ents[m][e].remove
       /\ played[e].dead => ~Ship(e)
       /\ e \in i.calm => played[e].damaged = FALSE
       /\ e \in h.ships => played[e].damaged = TRUE
       /\ e \notin i.calm /\ e \notin h.ships => played[e].damaged = ents[m][e].damaged
  /\ \A e \in Dead(m, played) : e \in DOMAIN ents[m] /\ ~Ship(e)

LEMMA PlayedFacts ==
  ASSUME Inv, NEW m \in Machines, NEW h \in Collisions(m), NEW i \in Inputs(m)
  PROVE  PlayedAs(m, h, i, Played(m, h, i))
<1> DEFINE played == Played(m, h, i)
<1>1. Holds(m)
  BY DEF Inv
<1>2. ents[m] \in [DOMAIN ents[m] -> Flags]
  BY <1>1 DEF Holds
<1>3. /\ played = [e \in DOMAIN ents[m] |-> played[e]] /\ DOMAIN played = DOMAIN ents[m]
      /\ \A e \in DOMAIN played : played[e] =
           [ents[m][e] EXCEPT !.damaged = (@ \/ e \in h.ships) /\ e \notin i.calm,
                              !.dead = @ \/ e \in h.rocks \cup h.bullets \cup i.warped]
  BY DEF Played
<1> HIDE DEF played
<1>4. ASSUME NEW e \in DOMAIN played
      PROVE  /\ played[e] \in Flags
             /\ played[e].remove = ents[m][e].remove
             /\ played[e].dead => ~Ship(e)
             /\ e \in i.calm => played[e].damaged = FALSE
             /\ e \in h.ships => played[e].damaged = TRUE
             /\ e \notin i.calm /\ e \notin h.ships => played[e].damaged = ents[m][e].damaged
  <2>1. ents[m][e] \in Flags
    BY <1>2, <1>3
  <2>2. PICK r : r = ents[m][e]
    OBVIOUS
  <2>3. /\ r.damaged \in BOOLEAN /\ r.dead \in BOOLEAN /\ r.remove \in BOOLEAN
        /\ r = [damaged |-> r.damaged, dead |-> r.dead, remove |-> r.remove]
    BY <2>1, <2>2 DEF Flags
  <2>4. played[e] = [r EXCEPT !.damaged = (@ \/ e \in h.ships) /\ e \notin i.calm,
                              !.dead = @ \/ e \in h.rocks \cup h.bullets \cup i.warped]
    BY <1>3, <2>2
  <2>5. /\ played[e].damaged = ((r.damaged \/ e \in h.ships) /\ e \notin i.calm)
        /\ played[e].dead = (r.dead \/ e \in h.rocks \cup h.bullets \cup i.warped)
        /\ played[e].remove = r.remove
        /\ played[e] \in Flags
    BY <2>3, <2>4 DEF Flags
  <2>6. played[e].dead => ~Ship(e)
    <3>1. r.dead => ~Ship(e)
      BY <1>1, <1>3, <2>2 DEF Holds
    <3>2. e \in h.rocks \cup h.bullets \cup i.warped => ~Ship(e)
      BY FrameSets
    <3> QED
      BY <2>5, <3>1, <3>2
  <2>7. e \in h.ships => e \notin i.calm
    BY FrameSets
  <2>8. e \in i.calm => played[e].damaged = FALSE
    BY <2>5
  <2>9. e \in h.ships => played[e].damaged = TRUE
    BY <2>5, <2>7
  <2>10. e \notin i.calm /\ e \notin h.ships => played[e].damaged = r.damaged
    BY <2>3, <2>5
  <2> QED
    BY <2>2, <2>5, <2>6, <2>8, <2>9, <2>10
<1>5. \A e \in Dead(m, played) : e \in DOMAIN ents[m] /\ ~Ship(e)
  BY <1>3, <1>4 DEF Dead
<1>6. Flagged(played)
  BY <1>3, <1>4 DEF Flagged
<1> QED
  BY <1>3, <1>4, <1>5, <1>6 DEF PlayedAs, played

(* What is left at the end of the frame.                                   *)
LEMMA SweptFacts ==
  ASSUME NEW f, Flagged(f), NEW g, g = Swept(f)
  PROVE  /\ Flagged(g)
         /\ \A e : e \in DOMAIN g <=> e \in DOMAIN f /\ ~f[e].remove
         /\ \A e \in DOMAIN g : g[e] = f[e]
<1>1. g = [e \in {x \in DOMAIN f : ~f[x].remove} |-> f[e]]
  BY DEF Swept
<1>2. f \in [DOMAIN f -> Flags]
  BY DEF Flagged
<1> QED
  BY <1>1, <1>2 DEF Flagged

(* What a client's frame sends: the last call for a ship says what its     *)
(* flag has become.                                                        *)
FrameSends(q, A, B, C, D, E) ==
  q = Each(A, Deletion) \o Each(B, StartShield) \o Each(C, NewShot)
        \o Each(D, StopShield) \o Each(E, Deletion)

FrameCalls(q, B, D) ==
  /\ \A e : e \notin B \cup D => NoCall(q, e)
  /\ \A e \in D : LastCall(q, e, FALSE)
  /\ \A e \in B : e \notin D => LastCall(q, e, TRUE)

LEMMA SentFacts ==
  ASSUME NEW n \in Nat, NEW A \in SUBSET (1..n), NEW B \in SUBSET (1..n), NEW C \in SUBSET (1..n),
         NEW D \in SUBSET (1..n), NEW E \in SUBSET (1..n), NEW T,
         \A e \in A \cup E : Deletion(e) \in T,
         \A e \in B : Shield(e, TRUE) \in T, \A e \in D : Shield(e, FALSE) \in T, Shot \in T,
         NEW sent, FrameSends(sent, A, B, C, D, E)
  PROVE  sent \in Seq(T) /\ FrameCalls(sent, B, D)
<1>1. PICK a, b : a = Each(A, Deletion) /\ b = Each(B, StartShield)
  OBVIOUS
<1>2. PICK s, d : s = Each(C, NewShot) /\ d = Each(D, StopShield)
  OBVIOUS
<1>3. PICK z : z = Each(E, Deletion)
  OBVIOUS
<1>4. ASSUME NEW S \in SUBSET (1..n), \A e \in S : Deletion(e) \in T, NEW q, q = Each(S, Deletion)
      PROVE  q \in Seq(T) /\ \A e : NoCall(q, e)
  <2> DEFINE U == {p \in T : p.kind = "delete"}
  <2>1. \A e \in S : Deletion(e) \in U
    BY <1>4 DEF Deletion, Packet
  <2>2. U \subseteq T /\ \A p \in U : \A e : ~IsCall(p, e)
    BY DEF IsCall
  <2> HIDE DEF U
  <2>3. q \in Seq(U)
    BY <1>4, <2>1, EachDeletion
  <2> QED
    BY <2>2, <2>3 DEF NoCall
<1>5. s \in Seq(T) /\ \A e : NoCall(s, e)
  <2> DEFINE U == {p \in T : p.kind = "shot"}
  <2>1. Shot \in U
    BY DEF Shot, Packet
  <2>2. U \subseteq T /\ \A p \in U : \A e : ~IsCall(p, e)
    BY DEF IsCall
  <2> HIDE DEF U
  <2>3. s \in Seq(U)
    BY <1>2, <2>1, EachShot
  <2> QED
    BY <2>2, <2>3 DEF NoCall
<1>6. a \in Seq(T) /\ z \in Seq(T) /\ \A e : NoCall(a, e) /\ NoCall(z, e)
  BY <1>1, <1>3, <1>4
<1>7. /\ b \in Seq(T)
      /\ \A e : e \notin B => NoCall(b, e)
      /\ \A e \in B : LastCall(b, e, TRUE)
  BY <1>1, EachStartShield
<1>8. /\ d \in Seq(T)
      /\ \A e : e \notin D => NoCall(d, e)
      /\ \A e \in D : LastCall(d, e, FALSE)
  BY <1>2, EachStopShield
<1>9. PICK ab : ab = a \o b
  OBVIOUS
<1>10. PICK abs : abs = ab \o s
  OBVIOUS
<1>11. PICK absd : absd = abs \o d
  OBVIOUS
<1>12. ab \in Seq(T) /\ abs \in Seq(T) /\ absd \in Seq(T) /\ sent = absd \o z /\ sent \in Seq(T)
  BY <1>1, <1>2, <1>3, <1>5, <1>6, <1>7, <1>8, <1>9, <1>10, <1>11 DEF FrameSends
<1>13. ASSUME NEW e, e \notin B \cup D
       PROVE  NoCall(sent, e)
  <2>1. NoCall(ab, e)
    BY <1>6, <1>7, <1>9, <1>13, NoCallConcat
  <2>2. NoCall(abs, e)
    BY <1>5, <1>10, <1>12, <2>1, NoCallConcat
  <2>3. NoCall(absd, e)
    BY <1>8, <1>11, <1>12, <1>13, <2>2, NoCallConcat
  <2> QED
    BY <1>6, <1>12, <2>3, NoCallConcat
<1>14. ASSUME NEW e \in D
       PROVE  LastCall(sent, e, FALSE)
  <2>1. LastCall(absd, e, FALSE)
    BY <1>8, <1>11, <1>12, LastCallConcat
  <2> QED
    BY <1>6, <1>12, <2>1, LastCallConcat
<1>15. ASSUME NEW e \in B, e \notin D
       PROVE  LastCall(sent, e, TRUE)
  <2>1. LastCall(ab, e, TRUE)
    BY <1>6, <1>7, <1>9, <1>12, LastCallConcat
  <2>2. LastCall(abs, e, TRUE)
    BY <1>5, <1>10, <1>12, <2>1, LastCallConcat
  <2>3. LastCall(absd, e, TRUE)
    BY <1>8, <1>11, <1>12, <1>15, <2>2, LastCallConcat
  <2> QED
    BY <1>6, <1>12, <2>3, LastCallConcat
<1> QED
  BY <1>12, <1>13, <1>14, <1>15 DEF FrameCalls

LEMMA ClientFrameStep ==
  ASSUME Inv, NEW c \in Conns, ClientFrame(c)
  PROVE  Inv'
<1>1. PICK h \in Collisions(c), i \in Inputs(c) :
        LET played == Played(c, h, i)
            sent == Each(h.bullets, Deletion) \o Each(h.ships, StartShield)
                      \o Each(i.shooting, NewShot) \o Each(i.calm, StopShield)
                      \o Each(Dead(c, played), Deletion)
        IN /\ up' = [up EXCEPT ![c] = @ \o sent]
           /\ ents' = [ents EXCEPT ![c] = Swept(played)]
  BY DEF ClientFrame
<1>2. PICK played : played = Played(c, h, i)
  OBVIOUS
<1>3. PICK sent : sent = Each(h.bullets, Deletion) \o Each(h.ships, StartShield)
                           \o Each(i.shooting, NewShot) \o Each(i.calm, StopShield)
                           \o Each(Dead(c, played), Deletion)
  OBVIOUS
<1>4. /\ link[c] = "in" /\ up' = [up EXCEPT ![c] = @ \o sent] /\ ents' = [ents EXCEPT ![c] = Swept(played)]
      /\ link' = link /\ listed' = listed /\ id' = id /\ next_uid' = next_uid /\ free_ids' = free_ids /\ served' = served
      /\ down' = down /\ updating' = updating /\ due' = due /\ born' = born
  BY <1>1, <1>2, <1>3 DEF ClientFrame, connVars
<1>5. /\ up \in [Conns -> Seq(UpPackets)] /\ Len(born) \in Nat /\ Client(c) /\ Queue(c) /\ View(c)
      /\ Announced(c) /\ Agree(c) /\ Holds(c)
      /\ Host \notin Conns /\ Host \in Machines /\ c \in Machines /\ Conns \subseteq Machines /\ DOMAIN ents = Machines
  <2>1. up \in [Conns -> Seq(UpPackets)] /\ Len(born) \in Nat /\ Client(c)
    BY DEF Inv, Shape
  <2>2. Holds(c)
    BY HostKept DEF Inv
  <2> QED
    BY <1>4, <2>1, <2>2, HostKept DEF Client
<1>6. PICK g : g = Swept(played)
  OBVIOUS
<1>7. /\ Flagged(played) /\ DOMAIN played = DOMAIN ents[c]
      /\ \A e \in DOMAIN played :
           /\ played[e].remove = ents[c][e].remove
           /\ played[e].dead => ~Ship(e)
           /\ e \in i.calm => played[e].damaged = FALSE
           /\ e \in h.ships => played[e].damaged = TRUE
           /\ e \notin i.calm /\ e \notin h.ships => played[e].damaged = ents[c][e].damaged
      /\ \A e \in Dead(c, played) : e \in DOMAIN ents[c] /\ ~Ship(e)
  <2>1. PlayedAs(c, h, i, played)
    BY <1>2, <1>5, PlayedFacts
  <2> QED
    BY <2>1 DEF PlayedAs
<1>8. /\ Flagged(g) /\ \A e \in DOMAIN g : e \in DOMAIN ents[c] /\ e \in DOMAIN played /\ g[e] = played[e]
  BY <1>6, <1>7, SweptFacts
<1>9. /\ \A e \in DOMAIN ents[c] : e \in IDs /\ e \in Nat
      /\ \A e \in h.bullets : e \in DOMAIN ents[c] /\ ~Ship(e)
      /\ \A e \in h.ships \cup i.shooting \cup i.calm : e \in DOMAIN ents[c] /\ Ship(e)
      /\ \A e \in h.ships : e \notin i.calm
  BY <1>5, FrameSets
<1> DEFINE T == {p \in UpPackets : p.kind \notin {"connected", "disconnected"} /\ UpFine(p)}
<1>10. /\ T \subseteq UpPackets /\ \A p \in T : p.kind # "connected" /\ p.kind # "disconnected" /\ UpFine(p)
  OBVIOUS
<1>11. ASSUME NEW e \in IDs
       PROVE  /\ ~Ship(e) => Deletion(e) \in T
              /\ Shield(e, TRUE) \in T /\ Shield(e, FALSE) \in T
  <2>1. e \in Nat /\ e <= Len(born)
    BY <1>5 DEF IDs
  <2>2. /\ Deletion(e) \in UpPackets /\ Deletion(e).kind = "delete" /\ Deletion(e).ent = e
        /\ Shield(e, TRUE) \in UpPackets /\ Shield(e, TRUE).kind = "shield" /\ Shield(e, TRUE).ent = e
        /\ Shield(e, FALSE) \in UpPackets /\ Shield(e, FALSE).kind = "shield" /\ Shield(e, FALSE).ent = e
    BY <2>1 DEF Deletion, Shield, Packet, UpPackets
  <2> QED
    BY <2>1, <2>2 DEF UpFine
<1>12. Shot \in T
  <2>1. Shot \in UpPackets /\ Shot.kind = "shot" /\ Shot.ent = 0
    BY DEF Shot, Packet, UpPackets
  <2> QED
    BY <1>5, <2>1 DEF UpFine
<1> HIDE DEF T
<1>13. /\ sent \in Seq(T)
       /\ \A e : e \notin h.ships \cup i.calm => NoCall(sent, e)
       /\ \A e \in i.calm : LastCall(sent, e, FALSE)
       /\ \A e \in h.ships : e \notin i.calm => LastCall(sent, e, TRUE)
  <2>1. PICK A, B : A = h.bullets /\ B = h.ships
    OBVIOUS
  <2>2. PICK C, D : C = i.shooting /\ D = i.calm
    OBVIOUS
  <2>3. PICK E : E = Dead(c, played)
    OBVIOUS
  <2>4. A \in SUBSET IDs /\ B \in SUBSET IDs /\ C \in SUBSET IDs /\ D \in SUBSET IDs /\ E \in SUBSET IDs
    BY <1>7, <1>9, <2>1, <2>2, <2>3
  <2>5. /\ \A e \in A \cup E : Deletion(e) \in T
        /\ \A e \in B : Shield(e, TRUE) \in T
        /\ \A e \in D : Shield(e, FALSE) \in T
    <3>1. \A e \in A \cup E : e \in IDs /\ ~Ship(e)
      BY <1>7, <1>9, <2>1, <2>3
    <3> QED
      BY <1>11, <2>4, <3>1
  <2>6. FrameSends(sent, A, B, C, D, E)
    BY <1>3, <2>1, <2>2, <2>3 DEF FrameSends
  <2>7. sent \in Seq(T) /\ FrameCalls(sent, B, D)
    <3>1. Len(born) \in Nat /\ IDs = 1..Len(born)
      BY <1>5 DEF IDs
    <3> QED
      BY <1>12, <2>4, <2>5, <2>6, <3>1, SentFacts
  <2> QED
    BY <2>1, <2>2, <2>7 DEF FrameCalls
<1>14. PICK u, v : u = up[c] /\ v = u \o sent
  OBVIOUS
<1>15. u \in Seq(UpPackets) /\ sent \in Seq(UpPackets) /\ v \in Seq(UpPackets) /\ Len(v) >= Len(u) /\ Len(u) \in Nat
  <2>1. u \in Seq(UpPackets) /\ sent \in Seq(UpPackets)
    BY <1>5, <1>10, <1>13, <1>14
  <2> QED
    BY <1>14, <2>1
<1>16. /\ up'[c] = v /\ up' \in [Conns -> Seq(UpPackets)] /\ ents'[c] = g /\ ents'[Host] = ents[Host] /\ DOMAIN ents' = Machines
       /\ \A d \in Conns : d # c => up'[d] = up[d] /\ ents'[d] = ents[d]
  <2>1. up' = [up EXCEPT ![c] = v]
    BY <1>4, <1>5, <1>14
  <2> QED
    BY <1>4, <1>5, <1>6, <1>15, <2>1
<1>17. Grows /\ IDs' = IDs /\ \A e : Ship(e)' = Ship(e) /\ \A d : ShipOf(e, d)' <=> ShipOf(e, d)
  BY <1>4 DEF Grows, Inv, Shape, IDs, Ship, ShipOf
<1>18. \A d \in Conns : Active(d)' <=> Active(d)
  BY <1>4, <1>16 DEF Active
<1>19. Shape'
  <2>1. \A d \in Conns : due'[d] <= Len(up'[d]) /\ (due'[d] > 0 => updating')
    <3> TAKE d \in Conns
    <3>1. due[d] \in Nat /\ due[d] <= Len(up[d]) /\ (due[d] > 0 => updating)
      BY DEF Inv, Shape
    <3>2. d = c => due[d] <= Len(v)
      BY <1>14, <1>15, <3>1
    <3> QED
      BY <1>4, <1>16, <3>1, <3>2
  <2> QED
    BY <1>4, <1>16, <1>17, <2>1 DEF Inv, Shape, Grows
<1>20. Unique'
  BY <1>4, <1>18, UniqueKept
<1>21. Origin'
  BY <1>4, <1>17, <1>18, OriginKept
<1>22. HostShips'
  <2>1. \A e : Kept(e) => Kept(e)'
    BY <1>4, <1>16 DEF Kept
  <2>2. \A e : Going(e) => Going(e)'
    BY <1>4, <1>16, <1>18 DEF Going
  <2> QED
    BY <1>4, <1>16, <1>17, <2>1, <2>2 DEF HostShips, Inv
<1>23. \A m \in Machines : Holds(m)'
  <2> TAKE m \in Machines
  <2>1. CASE m = c
    <3>1. ents'[m] \in [DOMAIN ents'[m] -> Flags]
      BY <1>8, <1>16, <2>1 DEF Flagged
    <3>2. DOMAIN ents'[m] \subseteq IDs'
      BY <1>8, <1>9, <1>16, <1>17, <2>1
    <3>3. \A e \in DOMAIN ents'[m] : ents'[m][e].dead => ~Ship(e)'
      BY <1>7, <1>8, <1>16, <1>17, <2>1
    <3> QED
      BY <3>1, <3>2, <3>3 DEF Holds
  <2>2. CASE m # c
    BY <1>16, <1>17, <2>2, HoldsKept DEF Machines
  <2> QED
    BY <2>1, <2>2
<1>24. \A d \in Conns : d # c => Client(d)'
  BY <1>4, <1>16, OtherClient
<1>25. Queue(c)'
  <2>1. Framed(u, link[c] = "gone", c \in served) /\ (u = <<>> => c \in served) /\ \A k \in DOMAIN u : UpFine(u[k])
    BY <1>4, <1>5, <1>14 DEF Queue
  <2>2. /\ \A k \in DOMAIN v : \/ k \in DOMAIN u /\ v[k] = u[k]
                               \/ k \notin DOMAIN u /\ v[k] \in T /\ k > Len(u)
        /\ DOMAIN u = 1..Len(u) /\ \A k \in DOMAIN v : k \in Nat
    <3>1. \A k \in DOMAIN v : \/ k \in DOMAIN u /\ v[k] = u[k]
                              \/ k - Len(u) \in DOMAIN sent /\ k > Len(u) /\ v[k] = sent[k - Len(u)]
      BY <1>14, <1>15, ConcatFacts
    <3>2. \A k \in DOMAIN sent : sent[k] \in T
      BY <1>13
    <3>3. DOMAIN u = 1..Len(u) /\ \A k \in DOMAIN v : k \in Nat
      BY <1>15
    <3>4. \A k \in Nat : k > Len(u) => k \notin DOMAIN u
      BY <1>15, <3>3
    <3> QED
      BY <3>1, <3>2, <3>3, <3>4
  <2>3. ASSUME NEW k \in DOMAIN v
        PROVE  /\ v[k].kind = "connected" <=> (k = 1 /\ c \notin served)
               /\ v[k].kind # "disconnected" /\ UpFine(v[k])
    <3>1. CASE k \in DOMAIN u /\ v[k] = u[k]
      BY <1>4, <2>1, <3>1 DEF Framed
    <3>2. CASE k \notin DOMAIN u /\ v[k] \in T /\ k > Len(u)
      <4>1. k = 1 => u = <<>>
        BY <1>15, <3>2
      <4> QED
        BY <1>10, <2>1, <3>2, <4>1
    <3> QED
      BY <2>2, <3>1, <3>2
  <2>4. \A p : UpFine(p) => UpFine(p)'
    BY <1>4, <1>17 DEF UpFine
  <2>5. Framed(up'[c], link'[c] = "gone", c \in served')
    BY <1>4, <1>16, <2>3 DEF Framed
  <2>6. \A k \in DOMAIN up'[c] : UpFine(up[c][k])'
    BY <1>16, <2>3, <2>4
  <2>7. v = <<>> => u = <<>>
    BY <1>15
  <2> QED
    BY <1>4, <1>16, <2>1, <2>5, <2>6, <2>7 DEF Queue
<1>26. View(c)'
  <2>1. \A p : DownFine(c, p) => DownFine(c, p)'
    BY <1>4, <1>17 DEF DownFine
  <2>2. \A k \in DOMAIN down'[c] : DownFine(c, down[c][k])'
    BY <1>4, <1>5, <2>1 DEF View
  <2> QED
    BY <1>4, <2>2 DEF View
<1>27. Announced(c)'
  <2> SUFFICES ASSUME NEW e \in IDs, ShipOf(e, c)
               PROVE  Once(down'[c], e) /\ (Silent(down'[c], e) \/ Awaited(c, e)')
    BY <1>17 DEF Announced
  <2>1. Once(down[c], e) /\ (Silent(down[c], e) \/ Awaited(c, e))
    BY <1>5 DEF Announced
  <2>2. ASSUME Awaited(c, e)
        PROVE  Awaited(c, e)'
    <3>1. e \notin DOMAIN ents[c] /\ NoCall(u, e)
      BY <1>14, <2>2 DEF Awaited
    <3>2. NoCall(sent, e)
      BY <1>9, <1>13, <3>1
    <3>3. NoCall(v, e)
      BY <1>14, <1>15, <3>1, <3>2, NoCallConcat
    <3> QED
      BY <1>8, <1>16, <2>2, <3>1, <3>3 DEF Awaited
  <2> QED
    BY <1>4, <2>1, <2>2
<1>28. Agree(c)'
  <2> SUFFICES ASSUME NEW e \in DOMAIN g, e \in DOMAIN ents[Host], ShipOf(e, c)
               PROVE  Told(c, e, ents[c][e].damaged)'
    BY <1>16, <1>17 DEF Agree
  <2>1. e \in DOMAIN ents[c] /\ g[e] = played[e] /\ e \in DOMAIN played
    BY <1>8
  <2>2. PICK on : on = g[e].damaged
    OBVIOUS
  <2>3. (NoCall(v, e) /\ ents[Host][e].damaged = on) \/ LastCall(v, e, on)
    <3>1. CASE e \in i.calm
      <4>1. on = FALSE
        BY <1>7, <2>1, <2>2, <3>1
      <4>2. LastCall(sent, e, on)
        BY <1>13, <3>1, <4>1
      <4> QED
        BY <1>14, <1>15, <4>2, LastCallConcat
    <3>2. CASE e \in h.ships
      <4>1. on = TRUE
        BY <1>7, <2>1, <2>2, <3>2
      <4>2. LastCall(sent, e, on)
        BY <1>9, <1>13, <3>2, <4>1
      <4> QED
        BY <1>14, <1>15, <4>2, LastCallConcat
    <3>3. CASE e \notin i.calm /\ e \notin h.ships
      <4>1. on = ents[c][e].damaged
        BY <1>7, <2>1, <2>2, <3>3
      <4>2. (NoCall(u, e) /\ ents[Host][e].damaged = on) \/ LastCall(u, e, on)
        BY <1>5, <1>14, <2>1, <4>1 DEF Agree, Told
      <4>3. NoCall(sent, e)
        BY <1>13, <3>3
      <4> QED
        BY <1>14, <1>15, <4>2, <4>3, NoCallConcat, LastCallConcat
    <3> QED
      BY <3>1, <3>2, <3>3
  <2>4. ents'[c][e].damaged = on
    BY <1>16, <2>2
  <2> QED
    BY <1>16, <2>3, <2>4 DEF Told
<1>29. Client(c)'
  BY <1>25, <1>26, <1>27, <1>28 DEF Client
<1> QED
  BY <1>16, <1>19, <1>20, <1>21, <1>22, <1>23, <1>24, <1>29 DEF Inv

-----------------------------------------------------------------------------
(* The host's frame: what it creates, and what it announces.               *)

PiecesOf(broken) ==
  [j \in 1..Cardinality(broken) |->
     <<Made("asteroid", 1, Host, born[Nth(broken, j)].sides - 2),
       Made("asteroid", 1, Host, born[Nth(broken, j)].sides - 2)>>]

ShotsOf(ships) == [j \in 1..Cardinality(ships) |-> Made("bullet", 1, Host, 0)]

FirstPiece(broken, e) == Len(born) + 1 + 2 * Cardinality({x \in broken : x < e})

SplitOf(broken, e) ==
  (IF e \in broken THEN <<Creation(FirstPiece(broken, e)), Creation(FirstPiece(broken, e) + 1)>> ELSE <<>>)
    \o <<Deletion(e)>>

SplitsOf(rocks, broken) == [j \in 1..Cardinality(rocks) |-> SplitOf(broken, Nth(rocks, j))]

NewOf(made) == Len(born) + 1..Len(born) + Len(made)

Marked(f, dead) == [e \in DOMAIN f |-> [f[e] EXCEPT !.remove = @ \/ e \in dead]]

FrameAnnounces(h, i, broken, made, dead) ==
  FlattenSeq(SplitsOf(h.rocks, broken)) \o Each(h.bullets, Deletion)
    \o Each(h.ships, StartShield) \o Each({e \in NewOf(made) : made[e - Len(born)].type = "bullet"}, Creation)
    \o Each(i.calm, StopShield) \o Each(dead, Deletion)

FrameBreaks(h) == {e \in h.rocks : CanSplit(born[e].sides)}

FrameMakes(h, i) == FlattenSeq(PiecesOf(FrameBreaks(h))) \o ShotsOf(i.shooting)

LEMMA HostFrameForm ==
  ASSUME HostFrame
  PROVE  \E h \in Collisions(Host), i \in Inputs(Host) :
           /\ born' = born \o FrameMakes(h, i)
           /\ ents' = [ents EXCEPT ![Host] =
                Create(Swept(Marked(Played(Host, h, i), Dead(Host, Played(Host, h, i)))), NewOf(FrameMakes(h, i)))]
           /\ Send(connected, FrameAnnounces(h, i, FrameBreaks(h), FrameMakes(h, i), Dead(Host, Played(Host, h, i))))
BY ZenonT(60) DEF HostFrame, Each, FrameMakes, FrameBreaks, PiecesOf, ShotsOf, FrameAnnounces, SplitsOf, SplitOf,
                FirstPiece, NewOf, Marked

HostInfos == {x \in Infos : x.type \in {"asteroid", "bullet"} /\ x.owner = 1 /\ x.for = Host}

(* Two pieces of each asteroid that breaks, and bullets.                   *)
LEMMA FrameMakesFacts ==
  ASSUME Inv, NEW h \in Collisions(Host), NEW i \in Inputs(Host)
  PROVE  /\ FrameMakes(h, i) \in Seq(HostInfos)
         /\ Len(FrameMakes(h, i)) >= 2 * Cardinality(FrameBreaks(h))
<1>1. PICK broken, ships : broken = FrameBreaks(h) /\ ships = i.shooting
  OBVIOUS
<1>2. Len(born) \in Nat /\ IDs = 1..Len(born) /\ Host \in Machines /\ \A e \in IDs : born[e] \in Infos
  <2>1. born \in Seq(Infos)
    BY DEF Inv, Shape
  <2>2. Len(born) \in Nat /\ \A e \in 1..Len(born) : born[e] \in Infos
    BY <2>1
  <2> QED
    BY <2>2, HostKept DEF IDs
<1>3. broken \in SUBSET (1..Len(born)) /\ ships \in SUBSET (1..Len(born)) /\ \A e \in broken : CanSplit(born[e].sides)
  BY <1>1, <1>2, FrameSets DEF FrameBreaks
<1>4. /\ Cardinality(broken) \in Nat /\ \A j \in 1..Cardinality(broken) : Nth(broken, j) \in broken
      /\ Cardinality(ships) \in Nat
  BY <1>2, <1>3, NthFacts
<1>5. ASSUME NEW e \in broken
      PROVE  Made("asteroid", 1, Host, born[e].sides - 2) \in HostInfos
  <2>1. born[e] \in Infos
    BY <1>2, <1>3
  <2>2. born[e].sides \in 0..12
    BY <2>1 DEF Infos
  <2>3. born[e].sides - 2 \in 0..12
    BY <1>3, <2>2 DEF CanSplit
  <2> QED
    BY <1>2, <2>3 DEF Made, HostInfos, Infos
<1>6. Made("bullet", 1, Host, 0) \in HostInfos
  BY <1>2 DEF Made, HostInfos, Infos
<1> DEFINE P == PiecesOf(broken)
           S == ShotsOf(ships)
<1>7. P \in Seq(Seq(HostInfos)) /\ Len(P) = Cardinality(broken) /\ \A j \in 1..Len(P) : Len(P[j]) = 2
  <2>1. ASSUME NEW x \in HostInfos
        PROVE  <<x, x>> \in Seq(HostInfos) /\ Len(<<x, x>>) = 2
    OBVIOUS
  <2>2. \A j \in 1..Cardinality(broken) : P[j] \in Seq(HostInfos) /\ Len(P[j]) = 2
    <3> TAKE j \in 1..Cardinality(broken)
    <3>1. PICK x : x = Made("asteroid", 1, Host, born[Nth(broken, j)].sides - 2)
      OBVIOUS
    <3>2. x \in HostInfos
      BY <1>4, <1>5, <3>1
    <3>3. P[j] = <<x, x>>
      BY <3>1 DEF PiecesOf
    <3> QED
      BY <2>1, <3>2, <3>3
  <2>3. P = [j \in 1..Cardinality(broken) |-> P[j]]
    BY DEF PiecesOf
  <2> HIDE DEF P
  <2>4. P \in Seq(Seq(HostInfos)) /\ Len(P) = Cardinality(broken)
    BY <1>4, <2>2, <2>3, LiteralSeq
  <2> QED
    BY <2>2, <2>4
<1>8. S \in Seq(HostInfos)
  <2>1. S = [j \in 1..Cardinality(ships) |-> S[j]] /\ \A j \in 1..Cardinality(ships) : S[j] \in HostInfos
    BY <1>6 DEF ShotsOf
  <2> HIDE DEF S
  <2> QED
    BY <1>4, <2>1, LiteralSeq
<1> HIDE DEF P, S
<1>9. PICK F : F = FlattenSeq(P)
  OBVIOUS
<1>10. F \in Seq(HostInfos) /\ Len(F) = 2 * Cardinality(broken)
  BY <1>7, <1>9, FlattenTyped, FlattenPairs
<1>11. FrameMakes(h, i) = F \o S
  BY <1>1, <1>9 DEF FrameMakes, P, S
<1>12. F \o S \in Seq(HostInfos) /\ Len(F \o S) = Len(F) + Len(S) /\ Len(S) \in Nat /\ Len(F) \in Nat
  BY <1>8, <1>10
<1> QED
  BY <1>1, <1>4, <1>10, <1>11, <1>12

(* What is announced: creations of what is new, calls for the host's ships.*)
HostPackets(m) ==
  {p \in DownPackets :
     /\ p.ent \in 1..m
     /\ p.kind = "create" => p.ent \notin IDs
     /\ p.kind = "shield" => p.ent \in IDs /\ born[p.ent].owner = 1}

LEMMA FrameAnnouncesFacts ==
  ASSUME Inv, NEW h \in Collisions(Host), NEW i \in Inputs(Host),
         NEW made, made = FrameMakes(h, i), NEW dead \in SUBSET (DOMAIN ents[Host])
  PROVE  FrameAnnounces(h, i, FrameBreaks(h), made, dead) \in Seq(HostPackets(Len(born) + Len(made)))
<1>1. PICK n, m, broken : n = Len(born) /\ m = n + Len(made) /\ broken = FrameBreaks(h)
  OBVIOUS
<1>2. PICK T : T = HostPackets(m)
  OBVIOUS
<1>3. /\ n \in Nat /\ IDs = 1..n /\ Host \in Machines /\ Len(made) \in Nat /\ m \in Nat /\ m >= n
      /\ Len(made) >= 2 * Cardinality(broken)
  <2>1. n \in Nat /\ IDs = 1..n /\ Host \in Machines
    BY <1>1, HostKept DEF Inv, Shape, IDs
  <2>2. made \in Seq(HostInfos) /\ Len(made) >= 2 * Cardinality(broken)
    BY <1>1, FrameMakesFacts
  <2>3. Len(made) \in Nat
    BY <2>2
  <2> QED
    BY <1>1, <2>1, <2>2, <2>3
<1>4. /\ h.rocks \in SUBSET (1..n) /\ h.bullets \in SUBSET (1..n) /\ h.ships \in SUBSET (1..n)
      /\ i.calm \in SUBSET (1..n) /\ dead \in SUBSET (1..n) /\ broken \in SUBSET (1..n)
      /\ \A e \in h.ships \cup i.calm : born[e].owner = 1
  <2>1. \A e \in DOMAIN ents[Host] : e \in 1..n
    BY <1>3, FrameSets
  <2>2. broken \subseteq h.rocks
    BY <1>1 DEF FrameBreaks
  <2>3. \A e : IsOwner(Host, e) => born[e].owner = 1
    BY DEF IsOwner, ID
  <2> QED
    BY <1>3, <2>1, <2>2, <2>3, FrameSets
<1>5. ASSUME NEW e \in 1..n
      PROVE  /\ Deletion(e) \in T
             /\ born[e].owner = 1 => Shield(e, TRUE) \in T /\ Shield(e, FALSE) \in T
  <2>1. e \in Nat /\ e \in 1..m
    BY <1>3
  <2>2. /\ Deletion(e) \in DownPackets /\ Deletion(e).kind = "delete" /\ Deletion(e).ent = e
        /\ Shield(e, TRUE) \in DownPackets /\ Shield(e, TRUE).kind = "shield" /\ Shield(e, TRUE).ent = e
        /\ Shield(e, FALSE) \in DownPackets /\ Shield(e, FALSE).kind = "shield" /\ Shield(e, FALSE).ent = e
    BY <2>1 DEF Deletion, Shield, Packet, DownPackets
  <2> QED
    BY <1>2, <1>3, <2>1, <2>2 DEF HostPackets
<1>6. ASSUME NEW e \in n + 1..m
      PROVE  Creation(e) \in T
  <2>1. e \in Nat /\ e \in 1..m /\ e \notin 1..n
    BY <1>3
  <2>2. Creation(e) \in DownPackets /\ Creation(e).kind = "create" /\ Creation(e).ent = e
    BY <2>1 DEF Creation, Packet, DownPackets
  <2> QED
    BY <1>2, <1>3, <2>1, <2>2 DEF HostPackets
<1>7. ASSUME NEW e \in h.rocks
      PROVE  SplitOf(broken, e) \in Seq(T)
  <2>1. e \in 1..n
    BY <1>4
  <2>2. PICK d : d = Deletion(e)
    OBVIOUS
  <2>3. d \in T
    BY <1>5, <2>1, <2>2
  <2>4. CASE e \in broken
    <3>1. PICK f : f = FirstPiece(broken, e)
      OBVIOUS
    <3>2. Cardinality({x \in broken : x < e}) \in 0..(Cardinality(broken) - 1) /\ Cardinality(broken) \in Nat
      BY <1>3, <1>4, <2>4, NthFacts
    <3>3. f = n + 1 + 2 * Cardinality({x \in broken : x < e})
      BY <1>1, <3>1 DEF FirstPiece
    <3>4. f \in n + 1..m /\ f + 1 \in n + 1..m
      <4>1. PICK k, b : k = Cardinality({x \in broken : x < e}) /\ b = Cardinality(broken)
        OBVIOUS
      <4>2. k \in Nat /\ b \in Nat /\ k + 1 <= b /\ f = n + 1 + 2 * k /\ Len(made) >= 2 * b /\ m = n + Len(made)
        BY <1>1, <1>3, <3>2, <3>3, <4>1
      <4> QED
        BY <1>3, <4>2
    <3>5. PICK p, q : p = Creation(f) /\ q = Creation(f + 1)
      OBVIOUS
    <3>6. p \in T /\ q \in T
      BY <1>6, <3>4, <3>5
    <3>7. SplitOf(broken, e) = <<p, q>> \o <<d>>
      BY <2>2, <2>4, <3>1, <3>5 DEF SplitOf
    <3> QED
      BY <2>3, <3>6, <3>7
  <2>5. CASE e \notin broken
    <3>1. SplitOf(broken, e) = <<>> \o <<d>>
      BY <2>2, <2>5 DEF SplitOf
    <3> QED
      BY <2>3, <3>1
  <2> QED
    BY <2>4, <2>5
<1>8. PICK splits : splits = FlattenSeq(SplitsOf(h.rocks, broken))
  OBVIOUS
<1>9. splits \in Seq(T)
  <2> DEFINE R == SplitsOf(h.rocks, broken)
  <2>1. Cardinality(h.rocks) \in Nat /\ \A j \in 1..Cardinality(h.rocks) : Nth(h.rocks, j) \in h.rocks
    BY <1>3, <1>4, NthFacts
  <2>2. /\ R = [j \in 1..Cardinality(h.rocks) |-> R[j]]
        /\ \A j \in 1..Cardinality(h.rocks) : R[j] \in Seq(T)
    BY <1>7, <2>1 DEF SplitsOf
  <2> HIDE DEF R
  <2>3. R \in Seq(Seq(T))
    BY <2>1, <2>2, LiteralSeq
  <2>4. FlattenSeq(R) \in Seq(T)
    BY <2>3, FlattenTyped
  <2> QED
    BY <1>8, <2>4 DEF R
<1>10. PICK shots : shots = {e \in NewOf(made) : made[e - Len(born)].type = "bullet"}
  OBVIOUS
<1>11. PICK b, s : b = Each(h.bullets, Deletion) /\ s = Each(h.ships, StartShield)
  OBVIOUS
<1>12. PICK c, k : c = Each(shots, Creation) /\ k = Each(i.calm, StopShield)
  OBVIOUS
<1>13. PICK d : d = Each(dead, Deletion)
  OBVIOUS
<1>14. b \in Seq(T) /\ d \in Seq(T)
  BY <1>3, <1>4, <1>5, <1>11, <1>13, EachDeletion
<1>15. s \in Seq(T)
  BY <1>3, <1>4, <1>5, <1>11, EachStartShield
<1>16. k \in Seq(T)
  BY <1>3, <1>4, <1>5, <1>12, EachStopShield
<1>17. c \in Seq(T)
  <2>1. \A e \in shots : e \in n + 1..m
    BY <1>1, <1>10 DEF NewOf
  <2>2. shots \in SUBSET (1..m)
    BY <1>3, <2>1
  <2> QED
    BY <1>3, <1>6, <1>12, <2>1, <2>2, EachCreation
<1>18. FrameAnnounces(h, i, FrameBreaks(h), made, dead) = splits \o b \o s \o c \o k \o d
  BY <1>1, <1>8, <1>10, <1>11, <1>12, <1>13 DEF FrameAnnounces
<1>19. splits \o b \o s \o c \o k \o d \in Seq(T)
  BY <1>9, <1>14, <1>15, <1>16, <1>17
<1> QED
  BY <1>1, <1>2, <1>18, <1>19

(* The host's replicas at the end of its frame: no ship goes but one that  *)
(* was marked, and nothing is marked any more.                             *)
LEMMA FrameReplicas ==
  ASSUME Inv, NEW h \in Collisions(Host), NEW i \in Inputs(Host),
         NEW made \in Seq(HostInfos), NEW played, played = Played(Host, h, i),
         NEW g, g = Create(Swept(Marked(played, Dead(Host, played))), NewOf(made))
  PROVE  /\ Flagged(g)
         /\ \A e \in DOMAIN g : ~g[e].remove
         /\ \A e \in DOMAIN g : \/ e \in NewOf(made) /\ g[e] = Fresh
                                \/ e \in DOMAIN ents[Host] /\ e \notin NewOf(made) /\ g[e].dead = played[e].dead
                                     /\ g[e].damaged = played[e].damaged
         /\ \A e \in DOMAIN ents[Host] : Ship(e) => (e \in DOMAIN g <=> ~ents[Host][e].remove)
<1>1. PICK dead : dead = Dead(Host, played)
  OBVIOUS
<1>2. PICK f, s : f = Marked(played, dead) /\ s = Swept(f)
  OBVIOUS
<1>3. /\ Flagged(played) /\ DOMAIN played = DOMAIN ents[Host]
      /\ \A e \in DOMAIN played : played[e].remove = ents[Host][e].remove
      /\ \A e \in dead : ~Ship(e)
  <2>1. PlayedAs(Host, h, i, played)
    BY HostKept, PlayedFacts
  <2> QED
    BY <1>1, <2>1 DEF PlayedAs
<1>4. /\ DOMAIN f = DOMAIN played /\ f = [e \in DOMAIN played |-> f[e]]
      /\ \A e \in DOMAIN played : f[e] = [played[e] EXCEPT !.remove = @ \/ e \in dead]
  BY <1>2 DEF Marked
<1>5. ASSUME NEW e \in DOMAIN played
      PROVE  /\ f[e] \in Flags /\ f[e].dead = played[e].dead /\ f[e].damaged = played[e].damaged
             /\ f[e].remove = (played[e].remove \/ e \in dead)
  <2>1. PICK r : r = played[e]
    OBVIOUS
  <2>2. r \in Flags /\ f[e] = [r EXCEPT !.remove = @ \/ e \in dead]
    BY <1>3, <1>4, <2>1 DEF Flagged
  <2> QED
    BY <2>1, <2>2 DEF Flags
<1>6. Flagged(f)
  BY <1>4, <1>5 DEF Flagged
<1>7. /\ Flagged(s) /\ \A e : e \in DOMAIN s <=> e \in DOMAIN f /\ ~f[e].remove
      /\ \A e \in DOMAIN s : s[e] = f[e]
  BY <1>2, <1>6, SweptFacts
<1>8. /\ DOMAIN g = DOMAIN s \cup NewOf(made)
      /\ g = [e \in DOMAIN s \cup NewOf(made) |-> IF e \in NewOf(made) THEN Fresh ELSE s[e]]
  BY <1>1, <1>2 DEF Create
<1>9. Fresh \in Flags /\ ~Fresh.remove
  BY DEF Fresh, Flags
<1>10. Flagged(g)
  BY <1>7, <1>8, <1>9 DEF Flagged
<1>11. \A e \in DOMAIN g : ~g[e].remove
  BY <1>7, <1>8, <1>9
<1>12. \A e \in DOMAIN g : \/ e \in NewOf(made) /\ g[e] = Fresh
                           \/ e \in DOMAIN ents[Host] /\ e \notin NewOf(made) /\ g[e].dead = played[e].dead
                                /\ g[e].damaged = played[e].damaged
  <2> TAKE e \in DOMAIN g
  <2>1. CASE e \in NewOf(made)
    BY <1>8, <2>1
  <2>2. CASE e \notin NewOf(made)
    <3>1. e \in DOMAIN s /\ g[e] = s[e]
      BY <1>8, <2>2
    <3>2. e \in DOMAIN played /\ s[e] = f[e]
      BY <1>4, <1>7, <3>1
    <3> QED
      BY <1>3, <1>5, <2>2, <3>1, <3>2
  <2> QED
    BY <2>1, <2>2
<1>13. ASSUME NEW e \in DOMAIN ents[Host], Ship(e)
       PROVE  e \in DOMAIN g <=> ~ents[Host][e].remove
  <2>1. e \notin NewOf(made)
    <3>1. e \in 1..Len(born) /\ Len(born) \in Nat
      BY HostKept DEF IDs, Inv, Shape
    <3> QED
      BY <3>1 DEF NewOf
  <2>2. e \notin dead /\ e \in DOMAIN played
    BY <1>3, <1>13
  <2>3. f[e].remove = ents[Host][e].remove
    <3>1. ents[Host][e].remove \in BOOLEAN
      BY HostKept DEF Holds, Flags
    <3> QED
      BY <1>3, <1>5, <2>2, <3>1
  <2> QED
    BY <1>4, <1>7, <1>8, <2>1, <2>2, <2>3
<1> QED
  BY <1>10, <1>11, <1>12, <1>13

LEMMA HostFrameStep ==
  ASSUME Inv, HostFrame
  PROVE  Inv'
<1>1. PICK h \in Collisions(Host), i \in Inputs(Host) :
        /\ born' = born \o FrameMakes(h, i)
        /\ ents' = [ents EXCEPT ![Host] =
             Create(Swept(Marked(Played(Host, h, i), Dead(Host, Played(Host, h, i)))), NewOf(FrameMakes(h, i)))]
        /\ Send(connected, FrameAnnounces(h, i, FrameBreaks(h), FrameMakes(h, i), Dead(Host, Played(Host, h, i))))
  BY HostFrameForm
<1>2. PICK made, played : made = FrameMakes(h, i) /\ played = Played(Host, h, i)
  OBVIOUS
<1>3. PICK dead : dead = Dead(Host, played)
  OBVIOUS
<1>4. PICK g, q : /\ g = Create(Swept(Marked(played, dead)), NewOf(made))
                  /\ q = FrameAnnounces(h, i, FrameBreaks(h), made, dead)
  OBVIOUS
<1>5. /\ link' = link /\ listed' = listed /\ id' = id /\ next_uid' = next_uid /\ free_ids' = free_ids /\ served' = served
      /\ up' = up /\ due' = due /\ updating' = FALSE /\ \A c \in Conns : due[c] = 0
  BY DEF HostFrame, Handled, connVars
<1>6. /\ Host \notin Conns /\ Host \in Machines /\ Conns \subseteq Machines /\ DOMAIN ents = Machines
      /\ born \in Seq(Infos) /\ Len(born) \in Nat /\ IDs = 1..Len(born)
      /\ \A e \in DOMAIN ents[Host] : e \in IDs
      /\ next_uid \in Nat /\ next_uid >= 2
  BY HostKept DEF Inv, Shape, IDs
<1>7. made \in Seq(HostInfos) /\ made \in Seq(Infos)
  <2>1. made \in Seq(HostInfos) /\ HostInfos \subseteq Infos
    BY <1>2, FrameMakesFacts DEF HostInfos
  <2> QED
    BY <2>1
<1>8. born' = born \o made /\ ents' = [ents EXCEPT ![Host] = g] /\ Send(connected, q)
  BY <1>1, <1>2, <1>3, <1>4
<1>9. /\ PlayedAs(Host, h, i, played)
      /\ dead \in SUBSET (DOMAIN ents[Host])
  <2>1. PlayedAs(Host, h, i, played)
    BY <1>2, <1>6, PlayedFacts
  <2> QED
    BY <1>3, <2>1 DEF PlayedAs
<1>10. /\ Flagged(g)
       /\ \A e \in DOMAIN g : ~g[e].remove
       /\ \A e \in DOMAIN g : \/ e \in NewOf(made) /\ g[e] = Fresh
                              \/ e \in DOMAIN ents[Host] /\ e \notin NewOf(made) /\ g[e].dead = played[e].dead
                                   /\ g[e].damaged = played[e].damaged
       /\ \A e \in DOMAIN ents[Host] : Ship(e) => (e \in DOMAIN g <=> ~ents[Host][e].remove)
  BY <1>2, <1>3, <1>4, <1>7, FrameReplicas
<1>11. /\ ents'[Host] = g /\ DOMAIN ents' = Machines /\ \A m \in Conns : ents'[m] = ents[m]
  BY <1>6, <1>8
<1>12. /\ Grows /\ Len(born') = Len(born) + Len(made) /\ Len(made) \in Nat
       /\ IDs' = IDs \cup NewOf(made) /\ \A e \in NewOf(made) : e \notin IDs
       /\ \A e \in NewOf(made) : born'[e] \in HostInfos
  <2>1. /\ born' \in Seq(Infos) /\ Len(born') = Len(born) + Len(made) /\ Len(made) \in Nat
        /\ \A e \in 1..Len(born) : born'[e] = born[e]
    BY <1>6, <1>7, <1>8
  <2>2. \A e \in Len(born) + 1..Len(born) + Len(made) : born'[e] = made[e - Len(born)] /\ e - Len(born) \in 1..Len(made)
    BY <1>6, <1>7, <1>8
  <2>3. \A e \in 1..Len(made) : made[e] \in HostInfos
    BY <1>7
  <2>4. /\ 1..Len(born') = 1..Len(born) \cup (Len(born) + 1..Len(born) + Len(made))
        /\ \A e \in Len(born) + 1..Len(born) + Len(made) : e \notin 1..Len(born)
    BY <1>6, <2>1
  <2>5. Grows /\ IDs' = 1..Len(born')
    BY <1>6, <2>1 DEF Grows, IDs
  <2>6. \A e \in NewOf(made) : born'[e] \in HostInfos
    BY <2>2, <2>3 DEF NewOf
  <2>7. IDs' = IDs \cup NewOf(made) /\ \A e \in NewOf(made) : e \notin IDs
    BY <1>6, <2>4, <2>5 DEF NewOf
  <2> QED
    BY <2>1, <2>5, <2>6, <2>7
<1>13. /\ \A e \in NewOf(made) : ~Ship(e)' /\ born'[e].owner = 1 /\ born'[e].for = Host
       /\ \A e \in IDs : born'[e] = born[e] /\ (Ship(e)' <=> Ship(e)) /\ \A d : ShipOf(e, d)' <=> ShipOf(e, d)
  BY <1>12 DEF HostInfos, Grows, Ship, ShipOf
<1>14. q \in Seq(HostPackets(Len(born'))) /\ q \in Seq(DownPackets)
  <2>1. q \in Seq(HostPackets(Len(born')))
    BY <1>2, <1>4, <1>9, <1>12, FrameAnnouncesFacts
  <2>2. HostPackets(Len(born')) \subseteq DownPackets
    BY DEF HostPackets
  <2> QED
    BY <2>1, <2>2
<1>15. \A k \in DOMAIN q :
         /\ q[k].ent \in IDs'
         /\ q[k].kind = "create" => q[k].ent \notin IDs
         /\ q[k].kind = "shield" => q[k].ent \in IDs /\ born[q[k].ent].owner = 1
  <2>1. \A p \in HostPackets(Len(born')) :
          /\ p.ent \in IDs'
          /\ p.kind = "create" => p.ent \notin IDs
          /\ p.kind = "shield" => p.ent \in IDs /\ born[p.ent].owner = 1
    BY DEF HostPackets, IDs
  <2>2. \A k \in DOMAIN q : q[k] \in HostPackets(Len(born'))
    BY <1>14
  <2> QED
    BY <2>1, <2>2
<1>16. /\ down' \in [Conns -> Seq(DownPackets)]
       /\ \A c \in Conns : down'[c] = down[c] \/ down'[c] = down[c] \o q
  BY <1>8, <1>14, SendFacts
<1>17. Shape'
  <2>1. \A e \in IDs' : born'[e].owner \in 1..next_uid - 1
    <3>1. \A e \in IDs : born[e].owner \in 1..next_uid - 1
      BY DEF Inv, Shape
    <3>2. 1 \in 1..next_uid - 1
      BY <1>6
    <3> QED
      BY <1>12, <1>13, <3>1, <3>2
  <2>2. \A c \in Conns : due'[c] <= Len(up'[c]) /\ (due'[c] > 0 => updating')
    BY <1>5 DEF Inv, Shape
  <2>3. updating' \in BOOLEAN
    BY <1>5
  <2> QED
    BY <1>5, <1>12, <1>16, <2>1, <2>2, <2>3 DEF Inv, Shape, Grows
<1>18. \A c \in Conns : Active(c)' <=> Active(c)
  BY <1>5 DEF Active
<1>19. Unique'
  BY <1>5, <1>18, UniqueKept
<1>20. Origin'
  <2>1. \A e \in IDs' : e \notin IDs => born'[e].owner = 1 /\ ~Ship(e)'
    BY <1>12, <1>13
  <2> QED
    BY <1>5, <1>12, <1>18, <2>1, OriginKept
<1>21. \A e \in DOMAIN g : e \in IDs => e \in DOMAIN ents[Host] /\ g[e].damaged = played[e].damaged /\ g[e].dead = played[e].dead
  BY <1>10, <1>12
<1>22. HostShips'
  <2>1. HostShips
    BY DEF Inv
  <2>2. \A c \in served' : \E e \in DOMAIN ents'[Host] : ShipOf(e, c)'
    <3> SUFFICES ASSUME NEW c \in served
                 PROVE  \E e \in DOMAIN g : ShipOf(e, c)'
      BY <1>5, <1>11
    <3>1. PICK e \in DOMAIN ents[Host] : ShipOf(e, c)
      BY <2>1 DEF HostShips
    <3>2. Ship(e) /\ born[e].for = c /\ e \in IDs
      BY <1>6, <3>1 DEF ShipOf
    <3>3. ~ents[Host][e].remove
      BY <2>1, <3>2 DEF HostShips, Kept, Going
    <3> QED
      BY <1>10, <1>13, <3>1, <3>2, <3>3
  <2>3. \A e \in DOMAIN ents'[Host] : ~ents'[Host][e].remove
    BY <1>10, <1>11
  <2>4. ASSUME NEW e \in DOMAIN ents'[Host], Ship(e)'
        PROVE  Kept(e)'
    <3>1. e \in IDs
      BY <1>6, <1>10, <1>11, <1>13, <2>4
    <3>2. e \in DOMAIN ents[Host] /\ Ship(e)
      BY <1>11, <1>13, <1>21, <2>4, <3>1
    <3>3. ~ents[Host][e].remove
      BY <1>10, <1>11, <3>2
    <3>4. born[e].for \in served \cup {Host}
      BY <2>1, <3>2, <3>3 DEF HostShips, Kept, Going
    <3> QED
      BY <1>5, <1>13, <2>3, <3>1, <3>4 DEF Kept
  <2> QED
    BY <2>2, <2>3, <2>4 DEF HostShips
<1>23. \A m \in Machines : Holds(m)'
  <2> TAKE m \in Machines
  <2>1. CASE m = Host
    <3>1. ents'[m] \in [DOMAIN ents'[m] -> Flags]
      BY <1>10, <1>11, <2>1 DEF Flagged
    <3>2. DOMAIN ents'[m] \subseteq IDs'
      BY <1>6, <1>10, <1>11, <1>12, <2>1
    <3>3. \A e \in DOMAIN g : g[e].dead => ~Ship(e)'
      <4> TAKE e \in DOMAIN g
      <4>1. CASE e \in NewOf(made)
        BY <1>13, <4>1
      <4>2. CASE e \in DOMAIN ents[Host] /\ g[e].dead = played[e].dead
        BY <1>6, <1>9, <1>13, <4>2 DEF PlayedAs
      <4> QED
        BY <1>10, <4>1, <4>2
    <3> QED
      BY <1>11, <2>1, <3>1, <3>2, <3>3 DEF Holds
  <2>2. CASE m # Host
    BY <1>11, <1>12, <2>2, HoldsKept DEF Machines
  <2> QED
    BY <2>1, <2>2
<1>24. ASSUME NEW c \in Conns
       PROVE  Client(c)'
  <2>1. ASSUME NEW e \in IDs, born[e].owner = 1
        PROVE  ~ShipOf(e, c)
    <3>1. Origin /\ Shape
      BY DEF Inv
    <3>2. link[c] # "out" => id[c] \in 2..next_uid - 1
      BY <3>1 DEF Shape
    <3>3. ShipOf(e, c) => id[c] = 1 /\ link[c] # "out"
      BY <1>6, <2>1, <3>1 DEF Origin, ForOne, ShipOf
    <3> QED
      BY <1>6, <3>2, <3>3
  <2>2. \A k \in DOMAIN q : DownFine(c, q[k])'
    <3> TAKE k \in DOMAIN q
    <3>1. q[k].kind = "create" => ~Ship(q[k].ent)'
      BY <1>12, <1>13, <1>15
    <3>2. q[k].kind = "shield" => ~ShipOf(q[k].ent, c)'
      BY <1>13, <1>15, <2>1
    <3> QED
      BY <1>15, <3>1, <3>2 DEF DownFine
  <2>3. \A e \in IDs : Silent(q, e)
    BY <1>15 DEF Silent, Announces
  <2>4. \A e \in IDs' : e \notin IDs => ~ShipOf(e, c)'
    BY <1>12, <1>13 DEF ShipOf
  <2>5. ASSUME NEW e \in IDs, ShipOf(e, c), e \in DOMAIN g
        PROVE  e \in DOMAIN ents[Host] /\ g[e].damaged = ents[Host][e].damaged
    <3>1. e \in DOMAIN ents[Host] /\ g[e].damaged = played[e].damaged
      BY <1>21, <2>5
    <3>2. ~IsOwner(Host, e)
      BY <2>1, <2>5 DEF IsOwner, ID
    <3>3. e \notin h.ships /\ e \notin i.calm
      BY <1>6, <3>2, FrameSets
    <3> QED
      BY <1>9, <3>1, <3>3 DEF PlayedAs
  <2>6. \A e \in IDs : link[c] = "in" /\ ShipOf(e, c) /\ e \in DOMAIN ents'[Host] =>
          e \in DOMAIN ents[Host] /\ ents'[Host][e].damaged = ents[Host][e].damaged
    BY <1>11, <2>5
  <2> QED
    BY <1>5, <1>11, <1>12, <1>14, <1>16, <2>2, <2>3, <2>4, <2>6, ClientKept
<1> QED
  BY <1>11, <1>17, <1>19, <1>20, <1>22, <1>23, <1>24 DEF Inv

-----------------------------------------------------------------------------
(* The invariant.                                                          *)

LEMMA InitInv ==
  ASSUME Init
  PROVE  Inv
<1>1. PICK sides \in Sides : born = <<Made("ship", 1, Host, 0), Made("asteroid", 1, Host, sides)>>
  BY DEF Init
<1>2. /\ link = [c \in Conns |-> "out"] /\ listed = [c \in Conns |-> "not"] /\ id = [c \in Conns |-> 0] /\ next_uid = 2 /\ free_ids = <<>>
      /\ served = {} /\ up = [c \in Conns |-> <<>>] /\ down = [c \in Conns |-> <<>>] /\ updating = FALSE
      /\ due = [c \in Conns |-> 0]
      /\ ents = [m \in Machines |-> IF m = Host THEN Create(<<>>, {1, 2}) ELSE <<>>]
  BY DEF Init
<1>3. PICK ship, rock : ship = Made("ship", 1, Host, 0) /\ rock = Made("asteroid", 1, Host, sides)
  OBVIOUS
<1>4. /\ ship \in Infos /\ ship.type = "ship" /\ ship.owner = 1 /\ ship.for = Host
      /\ rock \in Infos /\ rock.type = "asteroid" /\ rock.owner = 1 /\ rock.for = Host
  <2>1. sides \in 0..12 /\ Host \in Machines
    BY SidesAssumption DEF Machines
  <2> QED
    BY <1>3, <2>1 DEF Made, Infos
<1>5. /\ born \in Seq(Infos) /\ Len(born) = 2 /\ IDs = {1, 2} /\ born[1] = ship /\ born[2] = rock
      /\ Host \notin Conns /\ Host \in Machines /\ Conns \subseteq Machines
  <2>1. born = <<ship, rock>>
    BY <1>1, <1>3
  <2>2. Len(born) = 2 /\ born[1] = ship /\ born[2] = rock /\ born \in Seq(Infos)
    BY <1>4, <2>1
  <2>3. 1..2 = {1, 2}
    OBVIOUS
  <2> QED
    BY <2>2, <2>3, HostAssumption DEF IDs, Machines
<1>6. Ship(1) /\ ~Ship(2) /\ \A c \in Conns : \A e \in IDs : ~ShipOf(e, c)
  BY <1>4, <1>5 DEF Ship, ShipOf
<1>7. /\ DOMAIN ents = Machines /\ ents[Host] = [e \in {1, 2} |-> Fresh] /\ DOMAIN ents[Host] = {1, 2}
      /\ \A c \in Conns : ents[c] = <<>> /\ DOMAIN ents[c] = {}
  <2>1. DOMAIN <<>> = {}
    OBVIOUS
  <2>2. Create(<<>>, {1, 2}) = [e \in {1, 2} |-> Fresh]
    BY <2>1 DEF Create
  <2> QED
    BY <1>2, <1>5, <2>1, <2>2
<1>8. Fresh \in Flags /\ ~Fresh.dead /\ ~Fresh.remove
  BY DEF Fresh, Flags
<1>9. <<>> \in Seq(UpPackets) /\ <<>> \in Seq(DownPackets) /\ <<>> \in Seq(Nat) /\ Len(<<>>) = 0 /\ DOMAIN <<>> = {}
      /\ 1..0 = {}
  OBVIOUS
<1>10. Shape
  <2>1. \A c \in Conns : id[c] = 0 /\ link[c] = "out" /\ due[c] = 0 /\ Len(up[c]) = 0
    BY <1>2, <1>9
  <2>2. \A e \in IDs : born[e].owner \in 1..next_uid - 1
    <3>1. \A e \in IDs : born[e].owner = 1
      BY <1>4, <1>5
    <3>2. 1 \in 1..next_uid - 1
      BY <1>2
    <3> QED
      BY <3>1, <3>2
  <2>3. up \in [Conns -> Seq(UpPackets)] /\ down \in [Conns -> Seq(DownPackets)] /\ due \in [Conns -> Nat]
    BY <1>2, <1>9
  <2>4. \A i \in 1..Len(free_ids) : free_ids[i] \in 2..next_uid - 1
    BY <1>2, <1>9
  <2>5. link \in [Conns -> {"out", "in", "gone"}] /\ listed \in [Conns -> {"not", "yes", "erased"}] /\ id \in [Conns -> Nat]
    BY <1>2
  <2>6. next_uid \in Nat /\ next_uid >= 2 /\ updating \in BOOLEAN
    <3>1. next_uid \in Nat /\ next_uid >= 2
      <4>1. next_uid = 2
        BY <1>2
      <4> QED
        BY <4>1
    <3>2. updating \in BOOLEAN
      BY <1>2
    <3> QED
      BY <3>1, <3>2
  <2>7. free_ids \in Seq(Nat) /\ served \subseteq Conns
    BY <1>2, <1>9
  <2> QED
    BY <1>5, <2>1, <2>2, <2>3, <2>4, <2>5, <2>6, <2>7 DEF Shape
<1>11. \A m \in Machines : Holds(m)
  <2>1. Holds(Host)
    BY <1>5, <1>7, <1>8 DEF Holds
  <2>2. ASSUME NEW c \in Conns
        PROVE  Holds(c)
    <3>1. <<>> \in [{} -> Flags]
      <4>1. <<>> = [x \in {} |-> <<>>[x]]
        OBVIOUS
      <4> QED
        BY <4>1
    <3> QED
      BY <1>7, <3>1 DEF Holds
  <2> QED
    BY <2>1, <2>2 DEF Machines
<1>12. \A c \in Conns : ~Active(c)
  BY <1>2 DEF Active
<1>13. Unique
  BY <1>2, <1>9, <1>12 DEF Unique
<1>14. Origin
  <2>1. \A e \in IDs : born[e].owner = 1 /\ born[e].for = Host
    BY <1>4, <1>5
  <2>2. \A e \in IDs : ForOne(e)
    BY <2>1 DEF ForOne
  <2> QED
    BY <2>1, <2>2 DEF Origin
<1>15. HostShips
  BY <1>2, <1>4, <1>5, <1>6, <1>7, <1>8, SMTT(40) DEF HostShips, Kept
<1>16. \A c \in Conns : Client(c)
  <2> TAKE c \in Conns
  <2>1. Queue(c)
    BY <1>2, <1>9 DEF Queue, Framed
  <2>2. View(c)
    BY <1>2, <1>7, <1>9 DEF View
  <2>3. link[c] # "in"
    BY <1>2
  <2> QED
    BY <2>1, <2>2, <2>3 DEF Client
<1> QED
  BY <1>7, <1>10, <1>11, <1>13, <1>14, <1>15, <1>16 DEF Inv

(* What is listed, and what is queued for those who are gone, may change.  *)
LEMMA QuietStep ==
  ASSUME Inv,
         link' = link, id' = id, next_uid' = next_uid, free_ids' = free_ids, served' = served, up' = up,
         updating' = updating, due' = due, ents' = ents, born' = born,
         listed' \in [Conns -> {"not", "yes", "erased"}],
         down' \in [Conns -> Seq(DownPackets)],
         \A c \in Conns : down'[c] = down[c] \/ (link[c] = "gone" /\ down'[c] = <<>>)
  PROVE  Inv'
<1>1. Grows
  BY DEF Grows, Inv, Shape
<1>2. Shape'
  BY <1>1 DEF Inv, Shape, IDs
<1>3. \A m \in Machines : Holds(m)'
  BY <1>1, HoldsKept
<1>4. Unique' /\ Origin'
  BY DEF Inv, Unique, Active, Origin, ForOne, Ship, IDs
<1>5. HostShips'
  BY DEF Inv, HostShips, Kept, Going, Active, Ship, ShipOf
<1>6. \A c \in Conns : Client(c)'
  BY OtherClient, GoneClient
<1> QED
  BY <1>2, <1>3, <1>4, <1>5, <1>6 DEF Inv

LEMMA FlushStep ==
  ASSUME Inv, Flush
  PROVE  Inv'
<1>1. /\ link' = link /\ listed' = listed /\ id' = id /\ next_uid' = next_uid /\ free_ids' = free_ids /\ served' = served
      /\ up' = up /\ updating' = updating /\ due' = due /\ ents' = ents /\ born' = born
      /\ down' = [c \in Conns |-> IF link[c] = "gone" THEN <<>> ELSE down[c]]
  BY DEF Flush, connVars
<1>2. \A c \in Conns : down[c] \in Seq(DownPackets) /\ <<>> \in Seq(DownPackets)
  BY DEF Inv, Shape
<1>3. down' \in [Conns -> Seq(DownPackets)]
  BY <1>1, <1>2
<1>4. listed' \in [Conns -> {"not", "yes", "erased"}]
  BY <1>1 DEF Inv, Shape
<1> QED
  BY <1>1, <1>3, <1>4, QuietStep

LEMMA ListStep ==
  ASSUME Inv, NEW c \in Conns, List(c)
  PROVE  Inv'
<1>1. /\ link' = link /\ id' = id /\ next_uid' = next_uid /\ free_ids' = free_ids /\ served' = served
      /\ up' = up /\ updating' = updating /\ due' = due /\ ents' = ents /\ born' = born /\ down' = down
      /\ listed' = [listed EXCEPT ![c] = "yes"] \/ listed' = [listed EXCEPT ![c] = "erased"]
  BY DEF List
<1>2. listed' \in [Conns -> {"not", "yes", "erased"}] /\ down \in [Conns -> Seq(DownPackets)]
  BY <1>1 DEF Inv, Shape
<1> QED
  BY <1>1, <1>2, QuietStep

LEMMA StutterInv ==
  ASSUME Inv, UNCHANGED vars
  PROVE  Inv'
<1>1. /\ link' = link /\ listed' = listed /\ id' = id /\ next_uid' = next_uid /\ free_ids' = free_ids /\ served' = served
      /\ up' = up /\ down' = down /\ updating' = updating /\ due' = due /\ ents' = ents /\ born' = born
  BY DEF vars
<1>2. listed \in [Conns -> {"not", "yes", "erased"}] /\ down \in [Conns -> Seq(DownPackets)]
  BY DEF Inv, Shape
<1> QED
  BY <1>1, <1>2, QuietStep

LEMMA NextInv ==
  ASSUME Inv, [Next]_vars
  PROVE  Inv'
<1>1. CASE UNCHANGED vars
  BY <1>1, StutterInv
<1>2. CASE StartUpdate
  BY <1>2, StartUpdateStep
<1>3. CASE SpawnAsteroid
  BY <1>3, SpawnAsteroidStep
<1>4. CASE HostFrame
  BY <1>4, HostFrameStep
<1>5. CASE Flush \/ \E c \in Conns : Join(c) \/ Leave(c) \/ List(c)
  BY <1>5, JoinStep, LeaveStep, FlushStep, ListStep
<1>6. CASE \E c \in Conns : HostHandle(c)
  BY <1>6, HandleConnectedStep, HandleDisconnectedStep, HandleShotStep, HandleDeletionStep, HandleShieldStep
     DEF HostHandle
<1>7. CASE \E c \in Conns : ClientHandle(c) \/ ClientFrame(c)
  BY <1>7, ClientHandleStep, ClientFrameStep
<1> QED
  BY <1>1, <1>2, <1>3, <1>4, <1>5, <1>6, <1>7 DEF Next

(* Connections keep their IDs to themselves, each served one has its one   *)
(* ship on the host, and what is under way is consistent with both sides.  *)
THEOREM InvTheorem == Spec => []Inv
<1>1. Init => Inv
  BY InitInv
<1>2. Inv /\ [Next]_vars => Inv'
  BY NextInv
<1> QED
  BY <1>1, <1>2, PTL DEF Spec

-----------------------------------------------------------------------------
(* What the runs check.                                                    *)

LEMMA InvType ==
  ASSUME Inv
  PROVE  TypeOK
<1>1. Shape /\ next_uid \in Nat /\ Len(born) \in Nat /\ IDs = 1..Len(born) /\ born \in Seq(Infos)
  BY DEF Inv, Shape, IDs
<1>2. /\ link \in [Conns -> {"out", "in", "gone"}] /\ listed \in [Conns -> {"not", "yes", "erased"}]
      /\ updating \in BOOLEAN
  BY <1>1 DEF Shape
<1>3. id \in [Conns -> {0} \cup 2..next_uid - 1]
  <2>1. id = [c \in Conns |-> id[c]] /\ \A c \in Conns : id[c] \in {0} \cup 2..next_uid - 1
    BY <1>1 DEF Shape
  <2> QED
    BY <2>1
<1>4. free_ids \in Seq(2..next_uid - 1)
  <2>1. /\ Len(free_ids) \in Nat /\ free_ids = [i \in 1..Len(free_ids) |-> free_ids[i]]
        /\ \A i \in 1..Len(free_ids) : free_ids[i] \in 2..next_uid - 1
    BY <1>1 DEF Shape
  <2> QED
    BY <2>1, LiteralSeq
<1>5. served \subseteq {c \in Conns : link[c] # "out"}
  BY ServedActive
<1>6. up \in [Conns -> Seq(Packets({"connected", "disconnected", "shot", "delete", "shield"}))]
  <2>1. up = [c \in Conns |-> up[c]]
    BY <1>1 DEF Shape
  <2>2. ASSUME NEW c \in Conns
        PROVE  up[c] \in Seq(Packets({"connected", "disconnected", "shot", "delete", "shield"}))
    <3>1. /\ Len(up[c]) \in Nat /\ DOMAIN up[c] = 1..Len(up[c]) /\ up[c] = [i \in 1..Len(up[c]) |-> up[c][i]]
          /\ \A i \in 1..Len(up[c]) : up[c][i] \in UpPackets
      BY UpTyped
    <3>2. \A i \in 1..Len(up[c]) : UpFine(up[c][i])
      BY <3>1 DEF Inv, Client, Queue
    <3>3. ASSUME NEW p \in UpPackets, UpFine(p)
          PROVE  p \in Packets({"connected", "disconnected", "shot", "delete", "shield"})
      <4>1. p.ent \in 0..Len(born)
        BY <1>1, <3>3 DEF UpFine, UpPackets
      <4> QED
        BY <4>1 DEF UpPackets, Packets
    <3>4. \A i \in 1..Len(up[c]) : up[c][i] \in Packets({"connected", "disconnected", "shot", "delete", "shield"})
      BY <3>1, <3>2, <3>3
    <3> QED
      BY <3>1, <3>4, LiteralSeq
  <2> QED
    BY <2>1, <2>2
<1>7. down \in [Conns -> Seq(Packets({"create", "delete", "shield"}))]
  <2>1. down = [c \in Conns |-> down[c]] /\ \A c \in Conns : down[c] \in Seq(DownPackets)
    BY <1>1 DEF Shape
  <2>2. ASSUME NEW c \in Conns
        PROVE  down[c] \in Seq(Packets({"create", "delete", "shield"}))
    <3>1. /\ Len(down[c]) \in Nat /\ DOMAIN down[c] = 1..Len(down[c])
          /\ down[c] = [i \in 1..Len(down[c]) |-> down[c][i]]
          /\ \A i \in 1..Len(down[c]) : down[c][i] \in DownPackets
      BY <2>1
    <3>2. \A i \in 1..Len(down[c]) : down[c][i].ent \in IDs
      BY <3>1 DEF Inv, Client, View, DownFine
    <3>3. ASSUME NEW p \in DownPackets, p.ent \in IDs
          PROVE  p \in Packets({"create", "delete", "shield"})
      <4>1. p.ent \in 0..Len(born)
        BY <1>1, <3>3
      <4> QED
        BY <4>1 DEF DownPackets, Packets
    <3>4. \A i \in 1..Len(down[c]) : down[c][i] \in Packets({"create", "delete", "shield"})
      BY <3>1, <3>2, <3>3
    <3> QED
      BY <3>1, <3>4, LiteralSeq
  <2> QED
    BY <2>1, <2>2
<1>8. \A c \in Conns : due[c] \in 0..Len(up[c])
  <2> TAKE c \in Conns
  <2>1. due[c] \in Nat /\ due[c] <= Len(up[c]) /\ Len(up[c]) \in Nat
    BY <1>1, UpTyped DEF Shape
  <2> QED
    BY <2>1
<1>9. \A e \in 1..Len(born) : born[e] \in
        [type : {"ship", "asteroid", "bullet"}, owner : 1..next_uid - 1, for : Machines, sides : 0..12]
  <2> TAKE e \in 1..Len(born)
  <2>1. born[e] \in Infos /\ born[e].owner \in 1..next_uid - 1
    BY <1>1 DEF Shape
  <2> QED
    BY <2>1 DEF Infos
<1>10. \A m \in Machines :
         /\ DOMAIN ents[m] \subseteq 1..Len(born)
         /\ \A e \in DOMAIN ents[m] : ents[m][e] \in [damaged : BOOLEAN, dead : BOOLEAN, remove : BOOLEAN]
  BY <1>1 DEF Inv, Holds, Flags
<1> QED
  BY <1>2, <1>3, <1>4, <1>5, <1>6, <1>7, <1>8, <1>9, <1>10 DEF TypeOK

LEMMA InvOneShip ==
  ASSUME Inv
  PROVE  OneShip
<1> SUFFICES ASSUME NEW k \in 2..next_uid - 1
             PROVE  Cardinality(Ships(k)) = Cardinality({c \in served : id[c] = k})
  BY DEF OneShip
<1>1. HostShips /\ Origin /\ Unique /\ Host \notin Conns /\ k # 1 /\ \A e \in DOMAIN ents[Host] : e \in IDs
  BY HostKept DEF Inv, Shape
<1>2. ASSUME NEW e \in Ships(k)
      PROVE  /\ e \in DOMAIN ents[Host] /\ e \in IDs /\ Ship(e)
             /\ born[e].for \in served /\ id[born[e].for] = k
  <2>1. e \in DOMAIN ents[Host] /\ Ship(e) /\ born[e].owner = k /\ ~ents[Host][e].remove /\ e \in IDs
    BY <1>1 DEF Ships, OfType, Ship
  <2>2. born[e].for \in served \cup {Host} /\ ForOne(e)
    BY <1>1, <2>1 DEF HostShips, Kept, Going, Origin
  <2> QED
    BY <1>1, <2>1, <2>2 DEF ForOne, Inv, Shape
<1>3. ASSUME NEW c \in served, id[c] = k
      PROVE  \E e \in Ships(k) : born[e].for = c
  <2>1. PICK e \in DOMAIN ents[Host] : ShipOf(e, c)
    BY <1>1 DEF HostShips
  <2>2. e \in IDs /\ Ship(e) /\ born[e].for = c /\ c \in Conns
    BY <1>1, <2>1, ServedActive DEF ShipOf
  <2>3. ~ents[Host][e].remove /\ born[e].owner = k
    BY <1>1, <1>3, <2>1, <2>2 DEF HostShips, Kept, Going, Origin, ForOne
  <2> QED
    BY <2>1, <2>2, <2>3 DEF Ships, OfType, Ship
<1>4. CASE \E c \in served : id[c] = k
  <2>1. PICK c \in served : id[c] = k
    BY <1>4
  <2>2. \A d \in served : id[d] = k => d = c
    BY <1>1, <2>1, ServedActive DEF Unique
  <2>3. PICK e \in Ships(k) : born[e].for = c
    BY <1>3, <2>1
  <2>4. ASSUME NEW f \in Ships(k)
        PROVE  f = e
    <3>1. born[f].for = c /\ c # Host
      BY <1>1, <1>2, <2>2, ServedActive, <2>1
    <3> QED
      BY <1>1, <1>2, <2>3, <3>1 DEF Origin
  <2>5. Ships(k) = {e} /\ {d \in served : id[d] = k} = {c}
    BY <2>1, <2>2, <2>3, <2>4
  <2> QED
    BY <2>5, FS_Singleton
<1>5. CASE ~\E c \in served : id[c] = k
  <2>1. Ships(k) = {} /\ {c \in served : id[c] = k} = {}
    BY <1>2, <1>5
  <2> QED
    BY <2>1
<1> QED
  BY <1>4, <1>5

(* While a client is served, the host's ship with its ID is its own.       *)
LEMMA ServedShip ==
  ASSUME Inv, NEW c \in served, NEW e \in DOMAIN ents[Host], Ship(e), born[e].owner = id[c]
  PROVE  c \in Conns /\ ShipOf(e, c)
<1>1. c \in Conns /\ Active(c) /\ link[c] # "out" /\ e \in IDs /\ ForOne(e) /\ (Kept(e) \/ Going(e))
  BY ServedActive, HostKept DEF Inv, Origin, HostShips
<1>2. id[c] # 1
  <2>1. id[c] \in 2..next_uid - 1
    BY <1>1 DEF Inv, Shape
  <2> QED
    BY <2>1
<1>3. ~Going(e)
  BY <1>1 DEF Going
<1>4. born[e].for \in served /\ born[e].owner = id[born[e].for]
  <2>1. born[e].for # Host
    BY <1>1, <1>2, HostKept DEF ForOne
  <2>2. born[e].for \in served
    BY <1>1, <1>3, <2>1 DEF Kept
  <2> QED
    BY <1>1, <2>1, <2>2 DEF ForOne
<1>5. born[e].for = c
  BY <1>1, <1>4, ServedActive DEF Inv, Unique
<1> QED
  BY <1>1, <1>5 DEF ShipOf

LEMMA InvShipsNotAdopted ==
  ASSUME Inv
  PROVE  ShipsNotAdopted
<1> SUFFICES ASSUME NEW c \in served, NEW e \in OfType(Host, "ship"), IsOwner(c, e)
             PROVE  born[e].for = c
  BY DEF ShipsNotAdopted
<1>1. c # Host
  BY ServedActive, HostKept
<1>2. e \in DOMAIN ents[Host] /\ Ship(e) /\ born[e].owner = id[c]
  BY <1>1 DEF OfType, Ship, IsOwner, ID
<1> QED
  BY <1>2, ServedShip DEF ShipOf

LEMMA InvShieldsAgree ==
  ASSUME Inv
  PROVE  ShieldsAgree
<1> SUFFICES ASSUME NEW c \in served \ {d \in Conns : link[d] = "gone"},
                    NEW e \in Own(c, "ship") \cap DOMAIN ents[Host]
             PROVE  Settled(c, e) = ents[c][e].damaged
  BY DEF ShieldsAgree
<1>1. c \in Conns /\ link[c] = "in" /\ e \in DOMAIN ents[c] /\ ShipOf(e, c)
  <2>1. c \in Conns /\ c # Host /\ link[c] = "in"
    BY ServedActive, HostKept DEF Inv, Shape
  <2>2. e \in DOMAIN ents[c] /\ Ship(e) /\ born[e].owner = id[c]
    BY <2>1 DEF Own, OfType, IsOwner, ID, Ship
  <2> QED
    BY <2>1, <2>2, ServedShip
<1>2. PICK on : on = ents[c][e].damaged
  OBVIOUS
<1>3. (NoCall(up[c], e) /\ ents[Host][e].damaged = on) \/ LastCall(up[c], e, on)
  BY <1>1, <1>2 DEF Inv, Client, Agree, Told
<1>4. \A i \in DOMAIN up[c] : i \in Int
  <2>1. up[c] \in Seq(UpPackets)
    BY <1>1, UpTyped
  <2> QED
    BY <2>1
<1>5. Calls(c, e) = {i \in DOMAIN up[c] : IsCall(up[c][i], e)}
  BY DEF Calls, IsCall
<1>6. CASE NoCall(up[c], e) /\ ents[Host][e].damaged = on
  <2>1. Calls(c, e) = {}
    BY <1>5, <1>6 DEF NoCall
  <2> QED
    BY <1>2, <1>6, <2>1 DEF Settled
<1>7. CASE LastCall(up[c], e, on)
  <2>1. PICK i \in Calls(c, e) : up[c][i].on = on /\ \A j \in Calls(c, e) : j <= i
    BY <1>5, <1>7 DEF LastCall
  <2>2. \A j \in Calls(c, e) : j \in Int
    BY <1>4, <1>5
  <2>3. \A j \in Calls(c, e) : i >= j
    BY <2>1, <2>2
  <2>4. \A j \in Calls(c, e) : (\A x \in Calls(c, e) : j >= x) => j = i
    BY <2>1, <2>2
  <2>5. Max(Calls(c, e)) = i
    BY <2>1, <2>3, <2>4 DEF Max
  <2>6. Calls(c, e) # {}
    BY <2>1
  <2> QED
    BY <1>2, <2>1, <2>5, <2>6 DEF Settled
<1> QED
  BY <1>3, <1>6, <1>7

(* Every packet, flag and entity of the demo is of its kind, whatever the  *)
(* clients that come and go, and no packet names what was never created    *)
(* (Game.cpp 107-154, Scenegraph.cpp 50-278, 365-488).                     *)
THEOREM TypeCorrect == Spec => []TypeOK
  BY InvTheorem, InvType, PTL

(* Through every reuse of an ID, the host has one ship for each client it  *)
(* serves and none for an ID that nobody holds: what Game finds by the name*)
(* of a player is what it had created for that connection (Game.cpp        *)
(* 140-154, ServerHost.cpp 64-72, 182-197).                                *)
THEOREM OneShipTheorem == Spec => []OneShip
  BY InvTheorem, InvOneShip, PTL

(* While the host serves a client that has the ID of a player who left, it *)
(* has no ship of that player, not even a marked one: no snapshot shows it *)
(* to the client, and no call about it is obeyed, for any number of clients*)
(* and frames, whatever is left in the queue under that ID (Game.cpp       *)
(* 140-154, Scenegraph.cpp 430-456, Server.cpp 5-29).                      *)
THEOREM ShipsNotAdoptedTheorem == Spec => []ShipsNotAdopted
  BY InvTheorem, InvShipsNotAdopted, PTL

(* Host and owner agree on which ships are invincible, but for the calls of*)
(* startInvincible and stopInvincible that are under way (Player.cpp       *)
(* 177-180, 236-263, Scenegraph.cpp 74-142, 214-241).                      *)
THEOREM ShieldsAgreeTheorem == Spec => []ShieldsAgree
  BY InvTheorem, InvShieldsAgree, PTL

=============================================================================
