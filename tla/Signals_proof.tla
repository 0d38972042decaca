---------------------------- MODULE Signals_proof ----------------------------
(***************************************************************************)
(* For any signals, holders and number of calls of connect: no function    *)
(* stays connected that a ManagedConnection was to disconnect, and none is *)
(* lost or reported twice.                                                 *)
(*                                                                         *)
(* The argument.  Every operation drops at most one connection (Erase and  *)
(* Count with the same reference), which takes one ID from one vector and  *)
(* reports it if it was there, so the IDs connected and the IDs reported   *)
(* stay a partition of those given out.  An ID is in handed and in its     *)
(* vector only while a ManagedConnection holds it, since whatever such a   *)
(* holder lets go of it drops, unless another one has it from then on.  A  *)
(* new ID is in no holder's hands yet (Handed), which is why connecting to *)
(* a Connection does not disturb this.                                     *)
(***************************************************************************)
EXTENDS Signals, SequenceInduction, TLAPS

(* No ID is handed over that was not given out.                            *)
Handed == \A s \in Signal : handed[s] \subseteq 1..slot_id_counter[s]

IInv == TypeOK /\ Handed /\ NoOrphans /\ Accounted

(* A reference to an ID that was given out, or to nothing.                 *)
Known(ref) ==
  /\ ref \in [dc : Signal \cup {None}, slot_id : 0..MaxConnects]
  /\ ref.dc \in Signal => ref.slot_id \in 1..slot_id_counter[ref.dc]

LEMMA NothingKnown == Known(Nothing) /\ ~Valid(Nothing)
  BY HolderAssumption, BoundAssumption DEF Known, Valid, Nothing, Reference

LEMMA HoldsKnown ==
  ASSUME TypeOK, NEW h \in Holders
  PROVE  Known(holds[h]) /\ Known(Drops(h)) /\ (h \in Managed => Drops(h) = holds[h])
<1>1. Known(holds[h])
  BY DEF TypeOK, Known
<1> QED BY <1>1, NothingKnown DEF Drops

LEMMA ValidAlive ==
  ASSUME TypeOK, NEW ref, Known(ref)
  PROVE  /\ Valid(ref) <=> ref.dc \in alive
         /\ Valid(ref) => ref.dc \in Signal /\ ref.slot_id \in 1..slot_id_counter[ref.dc] /\ ref.slot_id \in IDs
  BY HolderAssumption, BoundAssumption DEF TypeOK, Known, Valid, Lock, IDs

-----------------------------------------------------------------------------
(* The vectors.                                                            *)

Vectors(v) == v \in [Signal -> Seq(IDs)] /\ \A s \in Signal : InOrder(v[s])

LEMMA SeqOfIDs ==
  ASSUME NEW q \in Seq(IDs)
  PROVE  q \in Seq(Nat)
<1>1. Len(q) \in Nat /\ q = [i \in 1..Len(q) |-> q[i]]
  OBVIOUS
<1>2. \A i \in 1..Len(q) : q[i] \in Nat
  <2>1. \A i \in 1..Len(q) : q[i] \in IDs
    OBVIOUS
  <2>2. IDs \subseteq Nat
    BY BoundAssumption DEF IDs
  <2> QED BY <2>1, <2>2
<1>3. [i \in 1..Len(q) |-> q[i]] \in Seq(Nat)
  BY <1>1, <1>2
<1> QED BY <1>1, <1>3

(* The ID of ref is not in the vectors w, which hold all else that v does. *)
Without(v, w, ref) ==
  \A s \in Signal :
    /\ ToSet(w[s]) = IF Valid(ref) /\ s = ref.dc THEN ToSet(v[s]) \ {ref.slot_id} ELSE ToSet(v[s])
    /\ v[s] = <<>> => w[s] = <<>>

LEMMA SlotsAreVectors == ASSUME TypeOK PROVE Vectors(slots)
  BY DEF TypeOK, Vectors, Called

LEMMA Erased ==
  ASSUME TypeOK, NEW ref, Known(ref), NEW v, Vectors(v)
  PROVE  Vectors(Erase(v, ref)) /\ Without(v, Erase(v, ref), ref)
<1>1. CASE ~Valid(ref)
  BY <1>1 DEF Erase, Without
<1>2. CASE Valid(ref)
  <2> DEFINE s == ref.dc
             f == Filter(v[s], ToSet(v[s]) \ {ref.slot_id})
  <2>1. s \in Signal
    BY <1>2, ValidAlive
  <2>2. v[s] \in Seq(IDs) /\ InOrder(v[s])
    BY <2>1 DEF Vectors
  <2>3. f \in Seq(IDs) /\ Range(f) = Range(v[s]) \cap (ToSet(v[s]) \ {ref.slot_id})
    <3> DEFINE q == v[s]
               S == ToSet(v[s]) \ {ref.slot_id}
    <3>1. q \in Seq(IDs)
      BY <2>2
    <3> HIDE DEF q, S
    <3>2. Filter(q, S) \in Seq(IDs) /\ Range(Filter(q, S)) = Range(q) \cap S
      BY <3>1, FilterType
    <3> QED BY <3>2 DEF q, S
  <2>4. ToSet(f) = ToSet(v[s]) \ {ref.slot_id}
    BY <2>3 DEF ToSet, Range
  <2>5. InOrder(f)
    <3>1. v[s] \in Seq(Nat)
      BY <2>2, SeqOfIDs
    <3>2. Increasing(v[s])
      BY <2>2 DEF InOrder, Increasing
    <3>3. Increasing(f)
      BY <3>1, <3>2, FilterIncreasing
    <3> QED BY <3>3 DEF InOrder, Increasing
  <2>6. v[s] = <<>> => f = <<>>
    BY FilterNil
  <2>7. Erase(v, ref) = [v EXCEPT ![s] = f]
    BY <1>2 DEF Erase
  <2> HIDE DEF f
  <2>8. v \in [Signal -> Seq(IDs)] /\ \A r \in Signal : InOrder(v[r])
    BY DEF Vectors
  <2>9. \A r \in Signal : Erase(v, ref)[r] = IF r = s THEN f ELSE v[r]
    BY <2>7, <2>8
  <2>10. Erase(v, ref) \in [Signal -> Seq(IDs)]
    BY <2>3, <2>7, <2>8
  <2>11. Vectors(Erase(v, ref))
    BY <2>5, <2>8, <2>9, <2>10 DEF Vectors
  <2>12. Without(v, Erase(v, ref), ref)
    BY <2>4, <2>6, <2>9, <1>2 DEF Without
  <2> QED BY <2>11, <2>12
<1> QED BY <1>1, <1>2

(* The ID is reported in u if it was connected.                            *)
Reports(u, ref) ==
  /\ u \in [Signal -> Seq(IDs)]
  /\ \A s \in Signal :
       \/ s = ref.dc /\ Disconnects(ref) /\ u[s] = Append(undone[s], ref.slot_id)
       \/ ~(s = ref.dc /\ Disconnects(ref)) /\ u[s] = undone[s]

LEMMA Counted ==
  ASSUME TypeOK, NEW ref, Known(ref)
  PROVE  Reports(Count(ref), ref)
<1>1. undone \in [Signal -> Seq(IDs)]
  BY DEF TypeOK
<1>2. CASE ~Disconnects(ref)
  BY <1>1, <1>2 DEF Count, Reports
<1>3. CASE Disconnects(ref)
  <2>1. ref.dc \in Signal /\ ref.slot_id \in IDs
    BY <1>3, ValidAlive DEF Disconnects
  <2> DEFINE t == Append(undone[ref.dc], ref.slot_id)
  <2>2. t \in Seq(IDs)
    BY <2>1, <1>1
  <2>3. Count(ref) = [undone EXCEPT ![ref.dc] = t]
    BY <1>3 DEF Count
  <2> HIDE DEF t
  <2>4. Count(ref) \in [Signal -> Seq(IDs)]
    BY <2>2, <2>3, <1>1
  <2>5. \A s \in Signal : Count(ref)[s] = IF s = ref.dc THEN t ELSE undone[s]
    BY <2>3, <1>1
  <2> QED BY <2>4, <2>5, <1>3 DEF Reports, t
<1> QED BY <1>2, <1>3

LEMMA DisconnectsIs ==
  ASSUME TypeOK, NEW ref, Known(ref)
  PROVE  Disconnects(ref) <=> Valid(ref) /\ ref.slot_id \in ToSet(slots[ref.dc])
<1>1. CASE Valid(ref)
  <2>1. ref.dc \in Signal
    BY <1>1, ValidAlive
  <2>2. slots[ref.dc] \in Seq(IDs)
    BY <2>1 DEF TypeOK
  <2>3. DOMAIN slots[ref.dc] = 1..Len(slots[ref.dc])
    BY <2>2
  <2> QED BY <2>3, <1>1 DEF Disconnects, Contains, ToSet
<1>2. CASE ~Valid(ref)
  BY <1>2 DEF Disconnects
<1> QED BY <1>1, <1>2

-----------------------------------------------------------------------------
(* What is connected and what was reported.                                *)

Parted(v, u, n, s) ==
  /\ IsInjective(u[s])
  /\ ToSet(v[s]) \cap ToSet(u[s]) = {}
  /\ s \in alive => ToSet(v[s]) \cup ToSet(u[s]) = 1..n[s]

LEMMA AccountedIs ==
  Accounted <=> \A s \in Signal : Parted(slots, undone, slot_id_counter, s)
  BY DEF Accounted, Parted

LEMMA InjectiveAppend ==
  ASSUME NEW T, NEW q \in Seq(T), NEW x \in T, IsInjective(q), x \notin ToSet(q)
  PROVE  IsInjective(Append(q, x)) /\ ToSet(Append(q, x)) = ToSet(q) \cup {x}
<1>1. /\ DOMAIN q = 1..Len(q) /\ Len(q) \in Nat
      /\ DOMAIN Append(q, x) = 1..(Len(q) + 1)
      /\ Append(q, x)[Len(q) + 1] = x
      /\ \A i \in DOMAIN q : Append(q, x)[i] = q[i]
  OBVIOUS
<1> QED BY <1>1 DEF IsInjective, ToSet

(* Dropping a connection keeps the partition: what leaves the vector is    *)
(* reported.  v is what the vectors hold when it is dropped.               *)
LEMMA DroppedParted ==
  ASSUME TypeOK, NEW ref, Known(ref), NEW v, NEW w, NEW u, NEW n,
         \A s \in Signal : Parted(v, undone, n, s),
         Without(v, w, ref), Reports(u, ref),
         Disconnects(ref) <=> Valid(ref) /\ ref.slot_id \in ToSet(v[ref.dc])
  PROVE  \A s \in Signal : Parted(w, u, n, s)
<1> SUFFICES ASSUME NEW s \in Signal PROVE Parted(w, u, n, s)
  OBVIOUS
<1>1. undone[s] \in Seq(IDs)
  BY DEF TypeOK
<1>2. IsInjective(undone[s]) /\ ToSet(v[s]) \cap ToSet(undone[s]) = {}
      /\ (s \in alive => ToSet(v[s]) \cup ToSet(undone[s]) = 1..n[s])
  BY DEF Parted
<1>3. CASE s = ref.dc /\ Disconnects(ref)
  <2>1. u[s] = Append(undone[s], ref.slot_id) /\ ref.slot_id \in ToSet(v[s]) /\ ref.slot_id \in IDs
    BY <1>3, ValidAlive DEF Reports
  <2>2. IsInjective(u[s]) /\ ToSet(u[s]) = ToSet(undone[s]) \cup {ref.slot_id}
    BY <2>1, <1>1, <1>2, InjectiveAppend
  <2>3. ToSet(w[s]) = ToSet(v[s]) \ {ref.slot_id}
    BY <1>3 DEF Without
  <2> QED BY <2>1, <2>2, <2>3, <1>2 DEF Parted
<1>4. CASE ~(s = ref.dc /\ Disconnects(ref))
  <2>1. u[s] = undone[s]
    BY <1>4 DEF Reports
  <2>2. ToSet(w[s]) = ToSet(v[s])
    BY <1>4 DEF Without
  <2> QED BY <2>1, <2>2, <1>2 DEF Parted
<1> QED BY <1>3, <1>4

(* connect() appends an ID that is larger than any before.                 *)
WithNew(s) == [slots EXCEPT ![s] = Append(@, NewID(s))]
OneMore(s) == [slot_id_counter EXCEPT ![s] = @ + 1]

LEMMA Connected ==
  ASSUME TypeOK, Accounted, NEW s \in alive, slot_id_counter[s] < MaxConnects,
         NEW v, v = WithNew(s), NEW n, n = OneMore(s)
  PROVE  /\ NewID(s) \in IDs /\ n \in [Signal -> 0..MaxConnects] /\ Vectors(v)
         /\ n[s] = NewID(s) /\ 1..n[s] = 1..slot_id_counter[s] \cup {NewID(s)}
         /\ \A r \in Signal : r # s => v[r] = slots[r] /\ n[r] = slot_id_counter[r]
         /\ v[s] \in Seq(IDs) /\ ToSet(v[s]) = ToSet(slots[s]) \cup {NewID(s)}
         /\ \A r \in Signal : Parted(v, undone, n, r) /\ ToSet(v[r]) \subseteq 1..n[r]
<1>1. /\ s \in Signal /\ slot_id_counter \in [Signal -> 0..MaxConnects]
      /\ slots \in [Signal -> Seq(IDs)]
      /\ \A r \in Signal : InOrder(slots[r]) /\ ToSet(slots[r]) \subseteq 1..slot_id_counter[r]
  BY DEF TypeOK, Called
<1> DEFINE k == slot_id_counter[s]
<1>2. k \in Nat /\ k + 1 \in 0..MaxConnects /\ NewID(s) = k + 1 /\ k + 1 \in IDs
  BY <1>1, BoundAssumption DEF NewID, IDs
<1>3. n \in [Signal -> 0..MaxConnects] /\ n[s] = k + 1 /\ \A r \in Signal : r # s => n[r] = slot_id_counter[r]
  BY <1>1, <1>2 DEF OneMore
<1>4. 1..(k + 1) = 1..k \cup {k + 1}
  BY <1>2
<1> DEFINE t == Append(slots[s], k + 1)
<1>5. slots[s] \in Seq(IDs) /\ slots[s] \in Seq(Nat) /\ t \in Seq(IDs)
  <2>1. slots[s] \in Seq(IDs)
    BY <1>1
  <2>2. slots[s] \in Seq(Nat)
    BY <2>1, SeqOfIDs
  <2>3. t \in Seq(IDs)
    BY <2>1, <1>2
  <2> QED BY <2>1, <2>2, <2>3
<1>6. v = [slots EXCEPT ![s] = t]
  BY <1>2 DEF WithNew
<1>7. ToSet(t) = ToSet(slots[s]) \cup {k + 1}
  <2> DEFINE q == slots[s]
             x == k + 1
  <2>1. q \in Seq(IDs) /\ x \in IDs
    BY <1>2, <1>5
  <2> HIDE DEF q, x
  <2>2. Range(Append(q, x)) = Range(q) \cup {x}
    BY <2>1, RangeAppend
  <2> QED BY <2>2 DEF ToSet, Range, q, x
<1>8. InOrder(t)
  <2>1. Increasing(slots[s])
    BY <1>1 DEF InOrder, Increasing
  <2>2. \A i \in Range(slots[s]) : i < k + 1
    <3>1. Range(slots[s]) \subseteq 1..k
      BY <1>1 DEF Range, ToSet
    <3> QED BY <3>1, <1>2
  <2> DEFINE q == slots[s]
             x == k + 1
  <2>3. q \in Seq(Nat) /\ x \in Nat /\ Increasing(q) /\ \A i \in Range(q) : i < x
    BY <2>1, <2>2, <1>2, <1>5
  <2> HIDE DEF q, x
  <2>4. Increasing(Append(q, x))
    BY <2>3, IncreasingAppend
  <2> QED BY <2>4 DEF q, x, InOrder, Increasing
<1> HIDE DEF t
<1>9. v[s] = t /\ v \in [Signal -> Seq(IDs)] /\ \A r \in Signal : r # s => v[r] = slots[r]
  BY <1>1, <1>5, <1>6
<1>10. Vectors(v)
  BY <1>1, <1>8, <1>9 DEF Vectors
<1>11. \A r \in Signal : Parted(slots, undone, slot_id_counter, r)
  BY AccountedIs
<1>12. Parted(v, undone, n, s)
  <2>1. ToSet(slots[s]) \cup ToSet(undone[s]) = 1..k /\ ToSet(slots[s]) \cap ToSet(undone[s]) = {}
        /\ IsInjective(undone[s])
    BY <1>1, <1>11 DEF Parted
  <2>2. k + 1 \notin 1..k
    BY <1>2
  <2> QED BY <2>1, <2>2, <1>3, <1>4, <1>7, <1>9 DEF Parted
<1>13. ASSUME NEW r \in Signal PROVE Parted(v, undone, n, r) /\ ToSet(v[r]) \subseteq 1..n[r]
  <2>1. CASE r = s
    BY <2>1, <1>1, <1>3, <1>4, <1>7, <1>9, <1>12
  <2>2. CASE r # s
    BY <2>2, <1>1, <1>3, <1>9, <1>11 DEF Parted
  <2> QED BY <2>1, <2>2
<1> QED BY <1>2, <1>3, <1>4, <1>7, <1>9, <1>10, <1>13, <1>5

-----------------------------------------------------------------------------
(* The steps.  Two halves of TypeOK and Handed.                            *)

SignalsOK ==
  /\ alive \subseteq Signal
  /\ slot_id_counter \in [Signal -> 0..MaxConnects]
  /\ slots \in [Signal -> Seq(IDs)]
  /\ undone \in [Signal -> Seq(IDs)]
  /\ \A s \in Signal : s \notin alive => slots[s] = <<>>
  /\ \A s \in Signal : InOrder(slots[s]) /\ ToSet(slots[s]) \subseteq 1..slot_id_counter[s]

HoldersOK ==
  /\ handed \in [Signal -> SUBSET IDs]
  /\ holds \in [Holders -> [dc : Signal \cup {None}, slot_id : 0..MaxConnects]]
  /\ \A h \in Holders :
       holds[h].dc \in Signal => holds[h].slot_id \in 1..slot_id_counter[holds[h].dc]
  /\ Handed

LEMMA Halves == TypeOK /\ Handed <=> SignalsOK /\ HoldersOK
  BY DEF TypeOK, SignalsOK, HoldersOK, Called

(* What remains is connected, to a signal that lives, and was not dropped. *)
Remains(w, v, ref) ==
  \A s \in Signal : \A id \in ToSet(w[s]) :
    id \in ToSet(v[s]) /\ s \in alive /\ ref # Reference(s, id)

(* A connection is dropped, after a new one may have been made.            *)
LEMMA DropStep ==
  ASSUME TypeOK, NEW ref, Known(ref), NEW v, NEW n, Vectors(v),
         n \in [Signal -> 0..MaxConnects],
         \A s \in Signal : Parted(v, undone, n, s) /\ ToSet(v[s]) \subseteq 1..n[s],
         \A s \in Signal : s \notin alive => v[s] = <<>>,
         Disconnects(ref) <=> Valid(ref) /\ ref.slot_id \in ToSet(v[ref.dc]),
         slots' = Erase(v, ref), undone' = Count(ref), slot_id_counter' = n, alive' = alive
  PROVE  SignalsOK' /\ Accounted' /\ Remains(slots', v, ref)
<1>1. Vectors(slots') /\ Without(v, slots', ref)
  BY Erased
<1>2. Reports(undone', ref)
  BY Counted
<1>3. \A s \in Signal : Parted(slots', undone', n, s)
  BY <1>1, <1>2, DroppedParted
<1>4. Accounted'
  BY <1>3 DEF Accounted, Parted
<1>5. \A s \in Signal : ToSet(slots'[s]) \subseteq ToSet(v[s]) /\ (v[s] = <<>> => slots'[s] = <<>>)
  BY <1>1 DEF Without
<1>6. SignalsOK'
  <2>1. slots' \in [Signal -> Seq(IDs)] /\ \A s \in Signal : InOrder(slots'[s])
    BY <1>1 DEF Vectors
  <2>2. undone' \in [Signal -> Seq(IDs)]
    BY <1>2 DEF Reports
  <2>3. alive' \subseteq Signal
    BY DEF TypeOK
  <2> QED BY <2>1, <2>2, <2>3, <1>5 DEF SignalsOK
<1>7. Remains(slots', v, ref)
  <2> SUFFICES ASSUME NEW s \in Signal, NEW id \in ToSet(slots'[s])
               PROVE  id \in ToSet(v[s]) /\ s \in alive /\ ref # Reference(s, id)
    BY DEF Remains
  <2>1. id \in ToSet(v[s])
    BY <1>5
  <2>2. s \in alive
    BY <1>5 DEF ToSet
  <2>3. ref = Reference(s, id) => Valid(ref) /\ s = ref.dc /\ id = ref.slot_id
    BY <2>2, ValidAlive DEF Reference
  <2> QED BY <2>1, <2>2, <2>3, <1>1 DEF Without
<1> QED BY <1>4, <1>6, <1>7

LEMMA DropOnlyStep ==
  ASSUME TypeOK, Accounted, NEW ref, Known(ref),
         slots' = Erase(slots, ref), undone' = Count(ref),
         slot_id_counter' = slot_id_counter, alive' = alive
  PROVE  SignalsOK' /\ Accounted' /\ Remains(slots', slots, ref)
<1>1. Vectors(slots) /\ \A s \in Signal : Parted(slots, undone, slot_id_counter, s)
  BY SlotsAreVectors, AccountedIs
<1>2. /\ slot_id_counter \in [Signal -> 0..MaxConnects]
      /\ \A s \in Signal : ToSet(slots[s]) \subseteq 1..slot_id_counter[s] /\ (s \notin alive => slots[s] = <<>>)
  BY DEF TypeOK
<1>3. Disconnects(ref) <=> Valid(ref) /\ ref.slot_id \in ToSet(slots[ref.dc])
  BY DisconnectsIs
<1> DEFINE v == slots
           n == slot_id_counter
<1>4. /\ Vectors(v) /\ n \in [Signal -> 0..MaxConnects]
      /\ \A s \in Signal : Parted(v, undone, n, s) /\ ToSet(v[s]) \subseteq 1..n[s]
      /\ \A s \in Signal : s \notin alive => v[s] = <<>>
      /\ Disconnects(ref) <=> Valid(ref) /\ ref.slot_id \in ToSet(v[ref.dc])
      /\ slots' = Erase(v, ref) /\ slot_id_counter' = n
  BY <1>1, <1>2, <1>3
<1> HIDE DEF v, n
<1> QED BY <1>4, DropStep DEF v

(* What a ManagedConnection was given.                                     *)
LEMMA GivenOK ==
  ASSUME TypeOK, NEW h, NEW ref, Valid(ref) => ref.dc \in Signal /\ ref.slot_id \in IDs
  PROVE  /\ Given(h, ref) \in [Signal -> SUBSET IDs]
         /\ \A s \in Signal : \A id \in Given(h, ref)[s] :
              id \in handed[s] \/ (h \in Managed /\ ref.dc = s /\ ref.slot_id = id)
<1>1. handed \in [Signal -> SUBSET IDs]
  BY DEF TypeOK
<1>2. CASE ~(h \in Managed /\ Valid(ref))
  BY <1>1, <1>2 DEF Given
<1>3. CASE h \in Managed /\ Valid(ref)
  <2> DEFINE S == handed[ref.dc] \cup {ref.slot_id}
  <2>1. S \in SUBSET IDs
    BY <1>1, <1>3
  <2>2. Given(h, ref) = [handed EXCEPT ![ref.dc] = S]
    BY <1>3 DEF Given
  <2>3. \A id \in S : id \in handed[ref.dc] \/ id = ref.slot_id
    OBVIOUS
  <2> HIDE DEF S
  <2> QED BY <2>1, <2>2, <2>3, <1>1, <1>3
<1> QED BY <1>2, <1>3

LEMMA Gathered ==
  ASSUME SignalsOK', HoldersOK', Accounted', NoOrphans'
  PROVE  IInv'
  BY DEF IInv, TypeOK, SignalsOK, HoldersOK, Called

LEMMA KnownIs ==
  ASSUME NEW ref, Known(ref)
  PROVE  /\ ref.dc \in Signal \cup {None} /\ ref.slot_id \in 0..MaxConnects
         /\ \A s, id : ref = Reference(s, id) <=> ref.dc = s /\ ref.slot_id = id
         /\ Known(MovedFrom(ref))
<1>1. ref = [dc |-> ref.dc, slot_id |-> ref.slot_id]
  BY DEF Known
<1>2. Known(MovedFrom(ref))
  BY HolderAssumption DEF Known, MovedFrom, Reference
<1>3. \A s, id : ref = Reference(s, id) <=> ref.dc = s /\ ref.slot_id = id
  BY <1>1 DEF Reference
<1> QED BY <1>2, <1>3 DEF Known

(* The holders after a step that connects nothing.                         *)
LEMMA HeldOK ==
  ASSUME TypeOK, Handed, slot_id_counter' = slot_id_counter,
         holds' = [h \in Holders |-> holds'[h]],
         \A h \in Holders : Known(holds'[h]),
         handed' \in [Signal -> SUBSET IDs],
         \A s \in Signal : \A id \in handed'[s] :
           id \in handed[s] \/ \E h \in Holders : holds'[h] = Reference(s, id)
  PROVE  HoldersOK'
<1>1. \A h \in Holders : /\ holds'[h] \in [dc : Signal \cup {None}, slot_id : 0..MaxConnects]
                         /\ holds'[h].dc \in Signal => holds'[h].slot_id \in 1..slot_id_counter[holds'[h].dc]
  BY DEF Known
<1>2. holds' \in [Holders -> [dc : Signal \cup {None}, slot_id : 0..MaxConnects]]
  BY <1>1
<1>3. ASSUME NEW s \in Signal, NEW id \in handed'[s] PROVE id \in 1..slot_id_counter[s]
  <2>1. CASE id \in handed[s]
    BY <2>1 DEF Handed
  <2>2. CASE \E h \in Holders : holds'[h] = Reference(s, id)
    BY <2>2, <1>1 DEF Reference
  <2> QED BY <2>1, <2>2
<1> QED BY <1>1, <1>2, <1>3 DEF HoldersOK, Handed

(* Who holds what is still connected did not drop it.                      *)
LEMMA StillHeld ==
  ASSUME NoOrphans, NEW ref, Remains(slots', slots, ref),
         NEW s \in Signal, NEW id \in ToSet(slots'[s]), id \in handed[s]
  PROVE  \E m \in Managed : holds[m] = Reference(s, id) /\ holds[m] # ref
<1>1. id \in ToSet(slots[s]) /\ ref # Reference(s, id)
  BY DEF Remains
<1>2. PICK m \in Managed : holds[m] = Reference(s, id)
  BY <1>1 DEF NoOrphans, Called
<1> QED BY <1>1, <1>2

LEMMA MoveAssignStep ==
  ASSUME IInv, NEW h \in Holders, NEW g \in Holders, MoveAssign(h, g)
  PROVE  IInv'
<1>1. /\ TypeOK /\ Handed /\ NoOrphans /\ Accounted
      /\ Known(holds[g]) /\ Known(Drops(h)) /\ (h \in Managed => Drops(h) = holds[h])
  BY HoldsKnown DEF IInv
<1>2. /\ slots' = Erase(slots, Drops(h)) /\ undone' = Count(Drops(h))
      /\ handed' = Given(h, holds[g]) /\ alive' = alive /\ slot_id_counter' = slot_id_counter
      /\ h # g /\ ({h, g} \subseteq Plain \/ {h, g} \subseteq Managed)
      /\ holds' = [holds EXCEPT ![h] = holds[g], ![g] = MovedFrom(holds[g])]
  BY DEF MoveAssign
<1>3. SignalsOK' /\ Accounted' /\ Remains(slots', slots, Drops(h))
  BY <1>1, <1>2, DropOnlyStep
<1>4. holds \in [Holders -> [dc : Signal \cup {None}, slot_id : 0..MaxConnects]]
  BY <1>1 DEF TypeOK
<1>5. /\ holds' = [x \in Holders |-> holds'[x]]
      /\ holds'[h] = holds[g] /\ holds'[g] = MovedFrom(holds[g])
      /\ \A x \in Holders : x # h /\ x # g => holds'[x] = holds[x]
  BY <1>2, <1>4
<1>6. \A x \in Holders : Known(holds'[x])
  BY <1>1, <1>5, KnownIs, HoldsKnown
<1>7. /\ handed' \in [Signal -> SUBSET IDs]
      /\ \A s \in Signal : \A id \in handed'[s] :
           id \in handed[s] \/ (h \in Managed /\ holds'[h] = Reference(s, id))
  <2>1. Valid(holds[g]) => holds[g].dc \in Signal /\ holds[g].slot_id \in IDs
    BY <1>1, ValidAlive
  <2> QED BY <2>1, <1>1, <1>2, <1>5, GivenOK, KnownIs
<1>8. HoldersOK'
  BY <1>1, <1>2, <1>5, <1>6, <1>7, HeldOK
<1>9. NoOrphans'
  <2> SUFFICES ASSUME NEW s \in Signal, NEW id \in ToSet(slots'[s]), id \in handed'[s]
               PROVE  \E m \in Managed : holds'[m] = Reference(s, id)
    BY DEF NoOrphans, Called
  <2>1. CASE id \in handed[s]
    <3>1. PICK m \in Managed : holds[m] = Reference(s, id) /\ holds[m] # Drops(h)
      BY <2>1, <1>1, <1>3, StillHeld
    <3>2. m # h
      BY <3>1, <1>1
    <3>3. CASE m = g
      BY <3>1, <3>3, <1>2, <1>5, HolderAssumption
    <3>4. CASE m # g
      BY <3>1, <3>2, <3>4, <1>5 DEF Holders
    <3> QED BY <3>3, <3>4
  <2>2. CASE id \notin handed[s]
    BY <2>2, <1>7
  <2> QED BY <2>1, <2>2
<1> QED BY <1>3, <1>8, <1>9, Gathered

LEMMA CopyStep ==
  ASSUME IInv, NEW h \in Holders, NEW g \in Holders, Copy(h, g)
  PROVE  IInv'
<1>1. /\ TypeOK /\ Handed /\ NoOrphans /\ Accounted /\ Known(holds[g])
  BY HoldsKnown DEF IInv
<1>2. /\ h # g /\ holds[h] = Nothing /\ holds' = [holds EXCEPT ![h] = holds[g]]
      /\ handed' = Given(h, holds[g]) /\ UNCHANGED <<alive, slot_id_counter, slots, undone>>
  BY DEF Copy
<1>3. SignalsOK' /\ Accounted'
  BY <1>1, <1>2 DEF SignalsOK, TypeOK, Accounted, Called
<1>4. holds \in [Holders -> [dc : Signal \cup {None}, slot_id : 0..MaxConnects]]
  BY <1>1 DEF TypeOK
<1>5. /\ holds' = [x \in Holders |-> holds'[x]] /\ holds'[h] = holds[g]
      /\ \A x \in Holders : x # h => holds'[x] = holds[x]
  BY <1>2, <1>4
<1>6. \A x \in Holders : Known(holds'[x])
  BY <1>1, <1>5, HoldsKnown
<1>7. /\ handed' \in [Signal -> SUBSET IDs]
      /\ \A s \in Signal : \A id \in handed'[s] :
           id \in handed[s] \/ (h \in Managed /\ holds'[h] = Reference(s, id))
  <2>1. Valid(holds[g]) => holds[g].dc \in Signal /\ holds[g].slot_id \in IDs
    BY <1>1, ValidAlive
  <2> QED BY <2>1, <1>1, <1>2, <1>5, GivenOK, KnownIs
<1>8. HoldersOK'
  BY <1>1, <1>2, <1>5, <1>6, <1>7, HeldOK
<1>9. NoOrphans'
  <2> SUFFICES ASSUME NEW s \in Signal, NEW id \in ToSet(slots'[s]), id \in handed'[s]
               PROVE  \E m \in Managed : holds'[m] = Reference(s, id)
    BY DEF NoOrphans, Called
  <2>1. CASE id \in handed[s]
    <3>1. PICK m \in Managed : holds[m] = Reference(s, id)
      BY <2>1, <1>1, <1>2 DEF NoOrphans, Called
    \* what is connected is no part of an empty holder
    <3>2. s # None
      BY HolderAssumption
    <3>3. m # h
      BY <3>1, <3>2, <1>2 DEF Nothing, Reference
    <3> QED BY <3>1, <3>3, <1>5 DEF Holders
  <2>2. CASE id \notin handed[s]
    BY <2>2, <1>7
  <2> QED BY <2>1, <2>2
<1> QED BY <1>3, <1>8, <1>9, Gathered

LEMMA ManageStep ==
  ASSUME IInv, NEW m \in Managed, NEW p \in Plain, Manage(m, p)
  PROVE  IInv'
<1> DEFINE dropped == IF Same(holds[m], holds[p]) THEN holds[p] ELSE Drops(m)
<1>1. /\ TypeOK /\ Handed /\ NoOrphans /\ Accounted /\ m \in Holders /\ p \in Holders /\ m # p
      /\ Known(holds[m]) /\ Known(holds[p]) /\ Drops(m) = holds[m]
  BY HoldsKnown, HolderAssumption DEF IInv, Holders
<1>2. /\ slots' = Erase(slots, dropped) /\ undone' = Count(dropped)
      /\ handed' = Given(m, holds[p]) /\ alive' = alive /\ slot_id_counter' = slot_id_counter
      /\ holds' = [holds EXCEPT ![m] = IF Same(@, holds[p]) THEN @ ELSE holds[p]]
  BY DEF Manage
<1>3. Known(dropped) /\ (Same(holds[m], holds[p]) => dropped = holds[p]) /\ (~Same(holds[m], holds[p]) => dropped = holds[m])
  BY <1>1
<1> HIDE DEF dropped
<1>4. SignalsOK' /\ Accounted' /\ Remains(slots', slots, dropped)
  BY <1>1, <1>2, <1>3, DropOnlyStep
<1>5. holds \in [Holders -> [dc : Signal \cup {None}, slot_id : 0..MaxConnects]]
  BY <1>1 DEF TypeOK
<1>6. /\ holds' = [x \in Holders |-> holds'[x]]
      /\ holds'[m] = IF Same(holds[m], holds[p]) THEN holds[m] ELSE holds[p]
      /\ \A x \in Holders : x # m => holds'[x] = holds[x]
  BY <1>1, <1>2, <1>5
<1>7. \A x \in Holders : Known(holds'[x])
  BY <1>1, <1>6, HoldsKnown
<1>8. /\ handed' \in [Signal -> SUBSET IDs]
      /\ \A s \in Signal : \A id \in handed'[s] : id \in handed[s] \/ holds[p] = Reference(s, id)
  <2>1. Valid(holds[p]) => holds[p].dc \in Signal /\ holds[p].slot_id \in IDs
    BY <1>1, ValidAlive
  <2> QED BY <2>1, <1>1, <1>2, GivenOK, KnownIs
<1>9. HoldersOK'
  <2>1. \A s \in Signal : \A id \in handed'[s] :
          id \in handed[s] \/ \E x \in Holders : holds'[x] = Reference(s, id)
    BY <1>1, <1>6, <1>8
  <2> QED BY <2>1, <1>1, <1>2, <1>6, <1>7, <1>8, HeldOK
<1>10. NoOrphans'
  <2> SUFFICES ASSUME NEW s \in Signal, NEW id \in ToSet(slots'[s]), id \in handed'[s]
               PROVE  \E x \in Managed : holds'[x] = Reference(s, id)
    BY DEF NoOrphans, Called
  <2>1. CASE id \in handed[s]
    <3>1. PICK x \in Managed : holds[x] = Reference(s, id) /\ holds[x] # dropped
      BY <2>1, <1>1, <1>4, StillHeld
    <3>2. holds'[x] = holds[x]
      BY <3>1, <1>3, <1>6 DEF Holders
    <3> QED BY <3>1, <3>2
  <2>2. CASE id \notin handed[s]
    <3>1. holds[p] = Reference(s, id)
      BY <2>2, <1>8
    <3>2. dropped # Reference(s, id)
      BY <1>4 DEF Remains
    <3> QED BY <3>1, <3>2, <1>3, <1>6
  <2> QED BY <2>1, <2>2
<1> QED BY <1>4, <1>9, <1>10, Gathered

LEMMA DisconnectStep ==
  ASSUME IInv, NEW h \in Holders, Disconnect(h)
  PROVE  IInv'
<1>1. TypeOK /\ Handed /\ NoOrphans /\ Accounted /\ Known(holds[h])
  BY HoldsKnown DEF IInv
<1>2. /\ slots' = Erase(slots, holds[h]) /\ undone' = Count(holds[h]) /\ handed' = handed
      /\ alive' = alive /\ slot_id_counter' = slot_id_counter
      /\ holds' = [holds EXCEPT ![h] = Reset(@)]
  BY DEF Disconnect
<1>3. SignalsOK' /\ Accounted' /\ Remains(slots', slots, holds[h])
  BY <1>1, <1>2, DropOnlyStep
<1>4. /\ holds' = [x \in Holders |-> holds'[x]] /\ holds'[h] = Reset(holds[h])
      /\ \A x \in Holders : x # h => holds'[x] = holds[x]
  BY <1>1, <1>2 DEF TypeOK
<1>5. \A x \in Holders : Known(holds'[x])
  BY <1>1, <1>4, HoldsKnown, NothingKnown DEF Reset
<1>6. HoldersOK'
  BY <1>1, <1>2, <1>4, <1>5, HeldOK DEF TypeOK
<1>7. NoOrphans'
  <2> SUFFICES ASSUME NEW s \in Signal, NEW id \in ToSet(slots'[s]), id \in handed[s]
               PROVE  \E m \in Managed : holds'[m] = Reference(s, id)
    BY <1>2 DEF NoOrphans, Called
  <2>1. PICK m \in Managed : holds[m] = Reference(s, id) /\ holds[m] # holds[h]
    BY <1>1, <1>3, StillHeld
  <2> QED BY <2>1, <1>4 DEF Holders
<1> QED BY <1>3, <1>6, <1>7, Gathered

LEMMA DestroyStep ==
  ASSUME IInv, NEW h \in Holders, Destroy(h)
  PROVE  IInv'
<1>1. /\ TypeOK /\ Handed /\ NoOrphans /\ Accounted
      /\ Known(Drops(h)) /\ (h \in Managed => Drops(h) = holds[h])
  BY HoldsKnown DEF IInv
<1>2. /\ slots' = Erase(slots, Drops(h)) /\ undone' = Count(Drops(h)) /\ handed' = handed
      /\ alive' = alive /\ slot_id_counter' = slot_id_counter
      /\ holds' = [holds EXCEPT ![h] = Nothing]
  BY DEF Destroy
<1>3. SignalsOK' /\ Accounted' /\ Remains(slots', slots, Drops(h))
  BY <1>1, <1>2, DropOnlyStep
<1>4. /\ holds' = [x \in Holders |-> holds'[x]] /\ holds'[h] = Nothing
      /\ \A x \in Holders : x # h => holds'[x] = holds[x]
  BY <1>1, <1>2 DEF TypeOK
<1>5. \A x \in Holders : Known(holds'[x])
  BY <1>1, <1>4, HoldsKnown, NothingKnown
<1>6. HoldersOK'
  BY <1>1, <1>2, <1>4, <1>5, HeldOK DEF TypeOK
<1>7. NoOrphans'
  <2> SUFFICES ASSUME NEW s \in Signal, NEW id \in ToSet(slots'[s]), id \in handed[s]
               PROVE  \E m \in Managed : holds'[m] = Reference(s, id)
    BY <1>2 DEF NoOrphans, Called
  <2>1. PICK m \in Managed : holds[m] = Reference(s, id) /\ holds[m] # Drops(h)
    BY <1>1, <1>3, StillHeld
  <2> QED BY <2>1, <1>1, <1>4 DEF Holders
<1> QED BY <1>3, <1>6, <1>7, Gathered

LEMMA DestroySignalStep ==
  ASSUME IInv, NEW s \in Signal, DestroySignal(s)
  PROVE  IInv'
<1>1. TypeOK /\ Handed /\ NoOrphans /\ Accounted
  BY DEF IInv
<1>2. /\ alive' = alive \ {s} /\ slots' = [slots EXCEPT ![s] = <<>>] /\ slot_id_counter' = slot_id_counter
      /\ holds' = holds /\ handed' = handed /\ undone' = undone
  BY DEF DestroySignal
<1>3. ToSet(<<>>) = {} /\ InOrder(<<>>) /\ <<>> \in Seq(IDs)
  BY DEF ToSet, InOrder
<1>4. slots \in [Signal -> Seq(IDs)]
  BY <1>1 DEF TypeOK
<1>5. slots' \in [Signal -> Seq(IDs)] /\ slots'[s] = <<>> /\ \A r \in Signal : r # s => slots'[r] = slots[r]
  BY <1>2, <1>3, <1>4
<1>6. SignalsOK'
  BY <1>1, <1>2, <1>3, <1>5 DEF TypeOK, SignalsOK, Called
<1>7. HoldersOK'
  BY <1>1, <1>2 DEF TypeOK, HoldersOK, Handed
<1>8. Accounted'
  BY <1>1, <1>2, <1>3, <1>5 DEF Accounted
<1>9. NoOrphans'
  <2> SUFFICES ASSUME NEW r \in Signal, NEW id \in ToSet(slots'[r]), id \in handed[r]
               PROVE  \E m \in Managed : holds[m] = Reference(r, id)
    BY <1>2 DEF NoOrphans, Called
  <2>1. id \in ToSet(slots[r])
    BY <1>3, <1>5
  <2> QED BY <2>1, <1>1 DEF NoOrphans, Called
<1> QED BY <1>6, <1>7, <1>8, <1>9, Gathered

LEMMA ConnectStep ==
  ASSUME IInv, NEW s \in Signal, NEW h \in Holders, Connect(s, h)
  PROVE  IInv'
<1> DEFINE ref == Reference(s, NewID(s))
           v == WithNew(s)
           n == OneMore(s)
<1>1. /\ TypeOK /\ Handed /\ NoOrphans /\ Accounted
      /\ Known(Drops(h)) /\ (h \in Managed => Drops(h) = holds[h])
  BY HoldsKnown DEF IInv
<1>2. /\ s \in alive /\ slot_id_counter[s] < MaxConnects
      /\ slots' = Erase(v, Drops(h)) /\ undone' = Count(Drops(h)) /\ slot_id_counter' = n
      /\ handed' = Given(h, ref) /\ alive' = alive /\ holds' = [holds EXCEPT ![h] = ref]
  BY DEF Connect, WithNew, OneMore
<1>3. v = WithNew(s) /\ n = OneMore(s)
  OBVIOUS
<1> HIDE DEF v, n
<1>4. /\ NewID(s) \in IDs /\ n \in [Signal -> 0..MaxConnects] /\ Vectors(v)
      /\ n[s] = NewID(s) /\ 1..n[s] = 1..slot_id_counter[s] \cup {NewID(s)}
      /\ \A r \in Signal : r # s => v[r] = slots[r] /\ n[r] = slot_id_counter[r]
      /\ ToSet(v[s]) = ToSet(slots[s]) \cup {NewID(s)}
      /\ \A r \in Signal : Parted(v, undone, n, r) /\ ToSet(v[r]) \subseteq 1..n[r]
  BY <1>1, <1>2, <1>3, Connected
<1>5. NewID(s) \notin 1..slot_id_counter[s] /\ NewID(s) \in 1..n[s]
  <2>1. slot_id_counter[s] \in Nat
    BY <1>1, BoundAssumption DEF TypeOK
  <2> QED BY <2>1, <1>4 DEF NewID
<1>6. \A r \in Signal : r \notin alive => v[r] = <<>>
  BY <1>1, <1>2, <1>4 DEF TypeOK
<1>7. Disconnects(Drops(h)) <=> Valid(Drops(h)) /\ Drops(h).slot_id \in ToSet(v[Drops(h).dc])
  BY <1>1, <1>4, <1>5, DisconnectsIs, ValidAlive
<1>8. SignalsOK' /\ Accounted' /\ Remains(slots', v, Drops(h))
  BY <1>1, <1>2, <1>4, <1>6, <1>7, DropStep
<1>9. /\ ref \in [dc : Signal \cup {None}, slot_id : 0..MaxConnects]
      /\ ref.dc = s /\ ref.slot_id = NewID(s)
  BY <1>4, BoundAssumption DEF Reference, IDs
<1>10. /\ holds' \in [Holders -> [dc : Signal \cup {None}, slot_id : 0..MaxConnects]]
       /\ holds'[h] = ref /\ \A x \in Holders : x # h => holds'[x] = holds[x]
  <2>1. holds \in [Holders -> [dc : Signal \cup {None}, slot_id : 0..MaxConnects]]
    BY <1>1 DEF TypeOK
  <2> HIDE DEF ref
  <2> QED BY <2>1, <1>2, <1>9
<1>11. /\ handed' \in [Signal -> SUBSET IDs]
       /\ \A r \in Signal : \A id \in handed'[r] :
            id \in handed[r] \/ (h \in Managed /\ r = s /\ id = NewID(s))
  <2> HIDE DEF ref
  <2>1. ref.dc \in Signal /\ ref.slot_id \in IDs
    BY <1>4, <1>9
  <2> QED BY <2>1, <1>1, <1>2, <1>9, GivenOK
<1>12. \A r \in Signal : 1..slot_id_counter[r] \subseteq 1..n[r]
  BY <1>4
<1>13. HoldersOK'
  <2>1. \A x \in Holders : holds'[x].dc \in Signal => holds'[x].slot_id \in 1..n[holds'[x].dc]
    <3> SUFFICES ASSUME NEW x \in Holders, holds'[x].dc \in Signal
                 PROVE  holds'[x].slot_id \in 1..n[holds'[x].dc]
      OBVIOUS
    <3>1. CASE x = h
      BY <3>1, <1>5, <1>9, <1>10
    <3>2. CASE x # h
      <4>1. holds'[x] = holds[x] /\ holds[x].slot_id \in 1..slot_id_counter[holds[x].dc]
        BY <3>2, <1>1, <1>10 DEF TypeOK
      <4> QED BY <4>1, <1>12
    <3> QED BY <3>1, <3>2
  <2>2. \A r \in Signal : handed'[r] \subseteq 1..n[r]
    BY <1>1, <1>5, <1>11, <1>12 DEF Handed
  <2> QED BY <2>1, <2>2, <1>2, <1>10, <1>11 DEF HoldersOK, Handed
<1>14. NoOrphans'
  <2> SUFFICES ASSUME NEW r \in Signal, NEW id \in ToSet(slots'[r]), id \in handed'[r]
               PROVE  \E m \in Managed : holds'[m] = Reference(r, id)
    BY DEF NoOrphans, Called
  <2>1. id \in ToSet(v[r]) /\ Drops(h) # Reference(r, id)
    BY <1>8 DEF Remains
  <2>2. CASE id \in handed[r]
    \* it was given out before, so it is not the new one
    <3>1. id \in ToSet(slots[r])
      BY <2>1, <2>2, <1>1, <1>4, <1>5 DEF Handed
    <3>2. PICK m \in Managed : holds[m] = Reference(r, id)
      BY <3>1, <2>2, <1>1 DEF NoOrphans, Called
    <3>3. m # h
      BY <3>2, <2>1, <1>1
    <3> QED BY <3>2, <3>3, <1>10 DEF Holders
  <2>3. CASE id \notin handed[r]
    BY <2>3, <1>10, <1>11
  <2> QED BY <2>2, <2>3
<1> QED BY <1>8, <1>13, <1>14, Gathered

-----------------------------------------------------------------------------
LEMMA InitInvariant == Init => IInv
<1> SUFFICES ASSUME Init PROVE IInv
  OBVIOUS
<1>1. /\ alive = Signal /\ slot_id_counter = [s \in Signal |-> 0]
      /\ slots = [s \in Signal |-> <<>>] /\ holds = [h \in Holders |-> Nothing]
      /\ handed = [s \in Signal |-> {}] /\ undone = [s \in Signal |-> <<>>]
  BY DEF Init
<1>2. ToSet(<<>>) = {} /\ InOrder(<<>>) /\ IsInjective(<<>>) /\ <<>> \in Seq(IDs)
  BY DEF ToSet, InOrder, IsInjective
<1>3. slots \in [Signal -> Seq(IDs)] /\ undone \in [Signal -> Seq(IDs)]
  BY <1>1, <1>2
<1>4. 0 \in 0..MaxConnects /\ 1..0 = {}
  BY BoundAssumption
<1>5. slot_id_counter \in [Signal -> 0..MaxConnects] /\ handed \in [Signal -> SUBSET IDs]
  BY <1>1, <1>4
<1>6. Nothing \in [dc : Signal \cup {None}, slot_id : 0..MaxConnects] /\ Nothing.dc \notin Signal
  BY <1>4, HolderAssumption DEF Nothing, Reference
<1>7. holds \in [Holders -> [dc : Signal \cup {None}, slot_id : 0..MaxConnects]]
  BY <1>1, <1>6
<1>8. \A h \in Holders : holds[h].dc \notin Signal
  BY <1>1, <1>6
<1>9. \A s \in Signal : slots[s] = <<>> /\ undone[s] = <<>> /\ handed[s] = {} /\ slot_id_counter[s] = 0
  BY <1>1
<1>10. \A s \in Signal : InOrder(Called(s)) /\ ToSet(slots[s]) \subseteq 1..slot_id_counter[s]
  BY <1>2, <1>9 DEF Called
<1>11. TypeOK
  BY <1>1, <1>3, <1>5, <1>7, <1>8, <1>10 DEF TypeOK
<1>12. Accounted
  BY <1>2, <1>4, <1>9 DEF Accounted
<1>13. NoOrphans /\ Handed
  BY <1>9 DEF NoOrphans, Handed
<1> QED BY <1>11, <1>12, <1>13 DEF IInv

LEMMA NextInvariant == IInv /\ [Next]_vars => IInv'
<1> SUFFICES ASSUME IInv, [Next]_vars PROVE IInv'
  OBVIOUS
<1>1. ASSUME NEW s \in Signal, DestroySignal(s) PROVE IInv'
  BY <1>1, DestroySignalStep
<1>2. ASSUME NEW s \in Signal, NEW h \in Holders, Connect(s, h) PROVE IInv'
  BY <1>2, ConnectStep
<1>3. ASSUME NEW h \in Holders, Disconnect(h) \/ Destroy(h) PROVE IInv'
  BY <1>3, DisconnectStep, DestroyStep
<1>4. ASSUME NEW h \in Holders, NEW g \in Holders, MoveAssign(h, g) \/ Copy(h, g) PROVE IInv'
  BY <1>4, MoveAssignStep, CopyStep
<1>5. ASSUME NEW m \in Managed, NEW p \in Plain, Manage(m, p) PROVE IInv'
  BY <1>5, ManageStep
<1>6. CASE UNCHANGED vars
  BY <1>6 DEF IInv, TypeOK, Handed, NoOrphans, Accounted, Called, vars
<1> QED BY <1>1, <1>2, <1>3, <1>4, <1>5, <1>6 DEF Next

(* The vectors stay in the order of connection, and no holder and no       *)
(* vector ever has an ID that connect did not give out (Signal.hpp, the    *)
(* counter of connect; Connection.cpp, what a copy, a move and the end of  *)
(* a connection leave behind).                                             *)
THEOREM TypeCorrect == Spec => []TypeOK
<1>1. IInv => TypeOK
  BY DEF IInv
<1> QED BY InitInvariant, NextInvariant, <1>1, PTL DEF Spec

(* What a ManagedConnection was given is only called while one holds it:   *)
(* no assignment, move, copy or destruction of ManagedConnection, in any   *)
(* order, leaves a function behind in a signal (Connection.cpp).           *)
THEOREM NoOrphansTheorem == Spec => []NoOrphans
<1>1. IInv => NoOrphans
  BY DEF IInv
<1> QED BY InitInvariant, NextInvariant, <1>1, PTL DEF Spec

(* Of the functions given to a living signal each is connected or was      *)
(* reported as disconnected once, and never both: disconnect() answers     *)
(* true to one of the copies of a Connection at most (Signal.hpp,          *)
(* disconnect and its erase_if; Connection.cpp, disconnect).               *)
THEOREM AccountedTheorem == Spec => []Accounted
<1>1. IInv => Accounted
  BY DEF IInv
<1> QED BY InitInvariant, NextInvariant, <1>1, PTL DEF Spec

=============================================================================
