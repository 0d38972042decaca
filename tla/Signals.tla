------------------------------- MODULE Signals ------------------------------
(***************************************************************************)
(* Signal, Connection and ManagedConnection.  Functions are known by the   *)
(* slot ID that connect() gives them.  A holder is a variable of type      *)
(* Connection (Plain) or ManagedConnection (Managed); destroying it and    *)
(* constructing another in its place makes it Nothing again.               *)
(*                                                                         *)
(* Nobody connects to or disconnects from a signal, or destroys it, while  *)
(* it is emitting (emit iterates the vector that would change): the game   *)
(* connects outside of handlers, and entities are destroyed at the end of  *)
(* a frame.  So emit is one step.                                          *)
(***************************************************************************)
EXTENDS Naturals, Sequences, FiniteSets, SequencesExt, SequenceFilter

CONSTANTS
  Signal,      \* the signals
  Plain,       \* variables of type Connection
  Managed,     \* variables of type ManagedConnection
  None,        \* the empty weak_ptr
  MaxConnects  \* bound: calls of connect of each signal

ASSUME HolderAssumption == Plain \cap Managed = {} /\ None \notin Signal
ASSUME BoundAssumption == MaxConnects \in Nat

VARIABLES
  alive,            \* the signals not destroyed: their Disconnectors live
  slot_id_counter,
  slots,            \* slots[s]: the IDs in the vector
  holds,            \* holds[h]: dc and slot_id of each holder
  handed,           \* history: handed[s]: IDs that a ManagedConnection was given
  undone            \* history: undone[s]: IDs for which disconnect() returned true, in order

vars == <<alive, slot_id_counter, slots, holds, handed, undone>>

Holders == Plain \cup Managed

Reference(s, id) == [dc |-> s, slot_id |-> id]

Nothing == Reference(None, 0)

-----------------------------------------------------------------------------
(* dc.lock(): None once the signal is gone.                                *)
Lock(ref) == IF ref.dc \in alive THEN ref.dc ELSE None

(* operator bool.                                                          *)
Valid(ref) == ref.slot_id # 0 /\ Lock(ref) # None

(* operator ==.                                                            *)
Same(a, b) == a.slot_id = b.slot_id /\ Lock(a) = Lock(b)

(* What disconnect() answers.                                              *)
Disconnects(ref) == Valid(ref) /\ Contains(slots[ref.dc], ref.slot_id)

(* Faulty: whatever the signal connected later goes too.                   *)
EraseLater(vectors, ref) ==
  IF Valid(ref)
  THEN [vectors EXCEPT ![ref.dc] = Filter(@, {id \in ToSet(@) : id < ref.slot_id})] ELSE vectors

(* Signal::disconnect: erase_if.                                           *)
Erase(vectors, ref) ==
  IF Valid(ref) THEN [vectors EXCEPT ![ref.dc] = Filter(@, ToSet(@) \ {ref.slot_id})] ELSE vectors

(* The answer `true` is noted.                                             *)
Count(ref) == IF Disconnects(ref) THEN [undone EXCEPT ![ref.dc] = Append(@, ref.slot_id)] ELSE undone

(* Faulty: only the ID is reset.                                           *)
ResetID(ref) == IF Disconnects(ref) THEN Reference(ref.dc, 0) ELSE ref

(* The object that the call was made on is reset if a slot went.           *)
Reset(ref) == IF Disconnects(ref) THEN Nothing ELSE ref

(* A weak_ptr that was moved from is empty; the slot_id stays.             *)
MovedFrom(ref) == Reference(None, ref.slot_id)

(* Faulty: what was managed before stays connected.                        *)
DropNothing(h) == Nothing

(* What assigning to h disconnects.                                        *)
Drops(h) == IF h \in Managed THEN holds[h] ELSE Nothing

Given(h, ref) ==
  IF h \in Managed /\ Valid(ref) THEN [handed EXCEPT ![ref.dc] = @ \cup {ref.slot_id}] ELSE handed

(* emit calls every function in the vector, in its order.                  *)
Called(s) == slots[s]

Init ==
  /\ alive = Signal
  /\ slot_id_counter = [s \in Signal |-> 0]
  /\ slots = [s \in Signal |-> <<>>]
  /\ holds = [h \in Holders |-> Nothing]
  /\ handed = [s \in Signal |-> {}]
  /\ undone = [s \in Signal |-> <<>>]

-----------------------------------------------------------------------------
NewID(s) == slot_id_counter[s] + 1

(* `h = s.connect(f)`: the temporary is moved from, so its end changes     *)
(* nothing; a ManagedConnection drops what it held.                        *)
Connect(s, h) ==
  LET ref == Reference(s, NewID(s)) IN
    /\ s \in alive
    /\ slot_id_counter[s] < MaxConnects
    /\ slot_id_counter' = [slot_id_counter EXCEPT ![s] = @ + 1]
    /\ slots' = Erase([slots EXCEPT ![s] = Append(@, NewID(s))], Drops(h))
    /\ undone' = Count(Drops(h))
    /\ holds' = [holds EXCEPT ![h] = ref]
    /\ handed' = Given(h, ref)
    /\ UNCHANGED alive

(* `h = std::move(g)` of two Connections or two ManagedConnections.        *)
MoveAssign(h, g) ==
  /\ h # g
  /\ {h, g} \subseteq Plain \/ {h, g} \subseteq Managed
  /\ ~(h \in Managed /\ Same(holds[h], holds[g]))
  /\ slots' = Erase(slots, Drops(h))
  /\ undone' = Count(Drops(h))
  /\ holds' = [holds EXCEPT ![h] = holds[g], ![g] = MovedFrom(holds[g])]
  /\ handed' = Given(h, holds[g])
  /\ UNCHANGED <<alive, slot_id_counter>>

(* A new Connection or ManagedConnection is copied from g.  A              *)
(* ManagedConnection has no move constructor: `ManagedConnection           *)
(* h(std::move(g))` copies too.                                            *)
Copy(h, g) ==
  /\ h # g
  /\ holds[h] = Nothing
  /\ holds' = [holds EXCEPT ![h] = holds[g]]
  /\ handed' = Given(h, holds[g])
  /\ UNCHANGED <<alive, slot_id_counter, slots, undone>>

(* `m = p`: a temporary ManagedConnection is moved from, or, when m has the*)
(* same connection already, disconnects it at its end.                     *)
Manage(m, p) ==
  LET dropped == IF Same(holds[m], holds[p]) THEN holds[p] ELSE Drops(m) IN
    /\ slots' = Erase(slots, dropped)
    /\ undone' = Count(dropped)
    /\ holds' = [holds EXCEPT ![m] = IF Same(@, holds[p]) THEN @ ELSE holds[p]]
    /\ handed' = Given(m, holds[p])
    /\ UNCHANGED <<alive, slot_id_counter>>

Disconnect(h) ==
  /\ holds[h].slot_id # 0
  /\ slots' = Erase(slots, holds[h])
  /\ undone' = Count(holds[h])
  /\ holds' = [holds EXCEPT ![h] = Reset(@)]
  /\ UNCHANGED <<alive, slot_id_counter, handed>>

(* The end of a holder, a new one in its place.                            *)
Destroy(h) ==
  /\ holds[h] # Nothing
  /\ slots' = Erase(slots, Drops(h))
  /\ undone' = Count(Drops(h))
  /\ holds' = [holds EXCEPT ![h] = Nothing]
  /\ UNCHANGED <<alive, slot_id_counter, handed>>

DestroySignal(s) ==
  /\ s \in alive
  /\ alive' = alive \ {s}
  /\ slots' = [slots EXCEPT ![s] = <<>>]
  /\ UNCHANGED <<slot_id_counter, holds, handed, undone>>

Next ==
  \/ \E s \in Signal : DestroySignal(s) \/ \E h \in Holders : Connect(s, h)
  \/ \E h \in Holders : Disconnect(h) \/ Destroy(h)
  \/ \E h, g \in Holders : MoveAssign(h, g) \/ Copy(h, g)
  \/ \E m \in Managed, p \in Plain : Manage(m, p)

Spec == Init /\ [][Next]_vars

-----------------------------------------------------------------------------
(* Properties.                                                             *)

IDs == 1..MaxConnects

InOrder(seq) == \A i, j \in 1..Len(seq) : i < j => seq[i] < seq[j]

(* The shape of the state: a vector keeps the order of connection, and no  *)
(* holder knows an ID that was not given out.                              *)
TypeOK ==
  /\ alive \subseteq Signal
  /\ slot_id_counter \in [Signal -> 0..MaxConnects]
  /\ slots \in [Signal -> Seq(IDs)]
  /\ undone \in [Signal -> Seq(IDs)]
  /\ handed \in [Signal -> SUBSET IDs]
  /\ holds \in [Holders -> [dc : Signal \cup {None}, slot_id : 0..MaxConnects]]
  /\ \A s \in Signal : s \notin alive => slots[s] = <<>>
  /\ \A s \in Signal : InOrder(Called(s)) /\ ToSet(slots[s]) \subseteq 1..slot_id_counter[s]
  /\ \A h \in Holders :
       holds[h].dc \in Signal => holds[h].slot_id \in 1..slot_id_counter[holds[h].dc]

(* A function that was put under a ManagedConnection (an entity's handler, *)
(* Scenegraph's) is only called while some ManagedConnection holds it: no  *)
(* assignment, copy, move or destruction leaves it behind in the signal,   *)
(* to be called on an object that is gone.                                 *)
NoOrphans ==
  \A s \in Signal : \A id \in handed[s] \cap ToSet(Called(s)) :
    \E m \in Managed : holds[m] = Reference(s, id)

(* Every function is connected, or was disconnected with the answer true,  *)
(* exactly once, whatever copies of its Connection there are: none is lost *)
(* because another one left, and none is reported twice.                   *)
Accounted ==
  \A s \in Signal :
    /\ IsInjective(undone[s])
    /\ ToSet(slots[s]) \cap ToSet(undone[s]) = {}
    /\ s \in alive => ToSet(slots[s]) \cup ToSet(undone[s]) = 1..slot_id_counter[s]

=============================================================================
