---------------------------- MODULE Packet_proof ----------------------------
(***************************************************************************)
(* The proof that a packet is read as it was written, for any widths and   *)
(* any number of values.                                                   *)
(*                                                                         *)
(* The argument.  Writer and reader go through the same heads: where they  *)
(* are after a value follows from where they were and from its kind and    *)
(* width (After).  So there is one sequence of heads, `at`, for the values *)
(* of a packet: the writer is at its end, and a reader that has read k     *)
(* values is at at[k + 1] (InStep).  The bits of a value lie between two   *)
(* heads and stay there, since the next value begins where it ends or      *)
(* later, and in the buffer, since each write grows it that far (Kept).    *)
(***************************************************************************)
EXTENDS Packet, SequenceInduction

Heads == [bytes : Nat \ {0}, bits : 0..8]

(* How many bits a value has.                                              *)
BitCount(item) == IF item.kind = "bits" THEN item.width ELSE 8 * item.width

Values ==
  {item \in [kind : {"bits", "bytes"}, width : Nat \ {0}, value : SUBSET Nat] :
     RoomForMaximum => item.value \subseteq 0..(BitCount(item) - 1)}

(* The bits that a value occupies, and the head after it.                  *)
From(head, item) == IF item.kind = "bits" THEN Position(head) ELSE 8 * head.bytes

Span(head, item) ==
  IF item.kind = "bits" THEN Run(Position(head), item.width) ELSE 8 * item.width

End(head, item) == From(head, item) + Span(head, item)

After(head, item) ==
  IF item.kind = "bits" THEN AfterBits(End(head, item)) ELSE AfterBytes(head.bytes + item.width)

-----------------------------------------------------------------------------
(* The inductive invariant.                                                *)

Shape ==
  /\ size \in Nat /\ beyond \in Nat
  /\ \A i \in ones : i \in Nat /\ i < 8 * size
  /\ written \in Heads /\ read \in Heads
  /\ items \in Seq(Values) /\ got \in Seq(SUBSET Nat)
  /\ Len(got) <= Len(items)
  /\ place \in Places

Layout(at) ==
  /\ at \in [1..(Len(items) + 1) -> Heads]
  /\ at[1] = AfterBytes(HeaderSize)
  /\ \A i \in 1..Len(items) : at[i + 1] = After(at[i], items[i])

(* The bits of value i.                                                    *)
Held(head, item) ==
  \A j \in 0..(Span(head, item) - 1) : From(head, item) + j \in ones <=> j \in item.value

Kept(at) ==
  \A i \in 1..Len(items) :
    /\ End(at[i], items[i]) <= 8 * size
    /\ End(at[i], items[i]) <= Position(at[Len(items) + 1])
    /\ Held(at[i], items[i])

InStep(at) ==
  /\ place # "received" => written = at[Len(items) + 1]
  /\ place = "written" \/ Len(got) < Len(items) => read = at[Len(got) + 1]

Buffered == items # <<>> => Position(written) <= 8 * size

Inv ==
  /\ Shape
  /\ Buffered /\ NearBuffer
  /\ RoomForMaximum => RoundTrip
  /\ \E at : Layout(at) /\ Kept(at) /\ InStep(at)

-----------------------------------------------------------------------------
(* Heads and runs of bits.                                                 *)

LEMMA HeadFacts ==
  ASSUME NEW head \in Heads
  PROVE  /\ Position(head) \in Nat
         /\ Position(head) <= 8 * head.bytes
         /\ 8 * head.bytes <= Position(head) + 8
BY DEF Heads, Position

LEMMA AfterBitsFacts ==
  ASSUME NEW p \in Nat
  PROVE  AfterBits(p) \in Heads /\ Position(AfterBits(p)) = p
<1>1. p \div 8 \in Nat /\ p % 8 \in 0..7 /\ 8 * (p \div 8) + (p % 8) = p
  OBVIOUS
<1> DEFINE d == p \div 8
           r == p % 8
<1> HIDE DEF d, r
<1>2. [bytes |-> d + 1, bits |-> r] \in Heads
  BY <1>1 DEF Heads, d, r
<1>3. 8 * ((d + 1) - 1) + r = p
  BY <1>1 DEF d, r
<1> QED
  BY <1>2, <1>3 DEF AfterBits, Position, d, r

LEMMA AfterBytesFacts ==
  ASSUME NEW n \in Nat \ {0}
  PROVE  AfterBytes(n) \in Heads /\ AfterBytes(n).bytes = n /\ Position(AfterBytes(n)) = 8 * n
BY DEF Heads, Position, AfterBytes

LEMMA RunFacts ==
  ASSUME NEW s \in Nat, NEW n \in Nat \ {0}
  PROVE  /\ Run(s, n) \in Nat /\ n <= Run(s, n)
         /\ Needed(s, n) \in Nat
         /\ s + Run(s, n) <= 8 * Needed(s, n)
         /\ 8 * Needed(s, n) < s + Run(s, n) + 8
<1> DEFINE d == s \div 8
           r == s % 8
           x == n + 7 - (8 - r)
           c == x \div 8
<1>1. d \in Nat /\ r \in 0..7 /\ s = 8 * d + r
  OBVIOUS
<1>2. x \in Nat
  BY <1>1
<1>3. c \in Nat /\ 8 * c <= x /\ x < 8 * c + 8
  <2> HIDE DEF x
  <2> QED
    BY <1>2
<1> HIDE DEF d, r, c
<1>4. n + 7 - Room(s) = x
  BY DEF Room, r
<1>5. Needed(s, n) = d + 1 + c
  BY <1>4 DEF Needed, d, c
<1>6. Run(s, n) = IF 8 - r < 8 /\ n < 8 - r THEN 8 - r ELSE n
  BY DEF Run, Room, r
<1>7. CASE 8 - r < 8 /\ n < 8 - r
  <2>1. c = 0
    BY <1>1, <1>3, <1>7
  <2> QED
    BY <1>1, <1>5, <1>6, <1>7, <2>1
<1>8. CASE ~(8 - r < 8 /\ n < 8 - r)
  BY <1>1, <1>3, <1>5, <1>6, <1>8
<1> QED
  BY <1>7, <1>8

(* A value lies after the head it is written at and before the next.       *)
LEMMA ValueFacts ==
  ASSUME NEW head \in Heads, NEW item \in Values
  PROVE  /\ From(head, item) \in Nat
         /\ Span(head, item) \in Nat
         /\ Position(head) <= From(head, item)
         /\ BitCount(item) <= Span(head, item)
         /\ After(head, item) \in Heads
         /\ Position(After(head, item)) = End(head, item)
<1>1. item.kind \in {"bits", "bytes"} /\ item.width \in Nat \ {0}
  BY DEF Values
<1>2. Position(head) \in Nat /\ Position(head) <= 8 * head.bytes /\ head.bytes \in Nat \ {0}
  BY HeadFacts DEF Heads
<1>3. CASE item.kind = "bits"
  <2>1. Run(Position(head), item.width) \in Nat /\ item.width <= Run(Position(head), item.width)
    BY <1>1, <1>2, RunFacts
  <2>2. End(head, item) \in Nat
    BY <1>2, <1>3, <2>1 DEF End, From, Span
  <2>3. /\ AfterBits(End(head, item)) \in Heads
        /\ Position(AfterBits(End(head, item))) = End(head, item)
    BY <2>2, AfterBitsFacts
  <2> QED
    BY <1>2, <1>3, <2>1, <2>3 DEF From, Span, After, BitCount
<1>4. CASE item.kind = "bytes"
  <2>1. head.bytes + item.width \in Nat \ {0}
    BY <1>1, <1>2
  <2>2. /\ AfterBytes(head.bytes + item.width) \in Heads
        /\ Position(AfterBytes(head.bytes + item.width)) = 8 * (head.bytes + item.width)
    BY <2>1, AfterBytesFacts
  <2> QED
    BY <1>1, <1>2, <1>4, <2>2 DEF From, Span, End, After, BitCount
<1> QED
  BY <1>1, <1>3, <1>4

-----------------------------------------------------------------------------
(* Writing.                                                                *)

Written(item) ==
  /\ CanWrite
  /\ size' \in Nat /\ size <= size' /\ End(written, item) <= 8 * size'
  /\ ones' = Replace(From(written, item), Span(written, item), item.value)
  /\ written' = After(written, item)
  /\ items' = Append(items, item)
  /\ UNCHANGED <<read, got, place, beyond>>

(* The next value goes after the others and leaves their bits as they are. *)
LEMMA WrittenKeepsInv ==
  ASSUME Inv, NEW item \in Values, Written(item)
  PROVE  Inv'
<1>1. Shape /\ Buffered /\ NearBuffer /\ (RoomForMaximum => RoundTrip)
  BY DEF Inv
<1>2. PICK at : Layout(at) /\ Kept(at) /\ InStep(at)
  BY DEF Inv
<1> DEFINE n == Len(items)
           f == From(written, item)
           w == Span(written, item)
           next == After(written, item)
<1>3. /\ items \in Seq(Values) /\ n \in Nat /\ got \in Seq(SUBSET Nat)
      /\ size \in Nat /\ written \in Heads /\ place = "written"
      /\ Len(got) \in 0..n
  BY <1>1 DEF Shape, Written, CanWrite
<1>4. /\ f \in Nat /\ w \in Nat /\ next \in Heads
      /\ Position(written) <= f /\ Position(next) = f + w /\ f + w = End(written, item)
      /\ BitCount(item) <= w
  BY <1>3, ValueFacts DEF End
<1>5. /\ at \in [1..(n + 1) -> Heads] /\ at[n + 1] = written
  BY <1>2, <1>3 DEF Layout, InStep
<1>6. /\ Len(items') = n + 1
      /\ items' \in Seq(Values)
      /\ items'[n + 1] = item
      /\ \A i \in 1..n : items'[i] = items[i]
  <2>1. items' = Append(items, item)
    BY DEF Written
  <2> QED
    BY <1>3, <2>1
<1>7. \A i \in ones' : i \in Nat /\ i < 8 * size'
  <2> SUFFICES ASSUME NEW i \in ones'
               PROVE  i \in Nat /\ i < 8 * size'
    OBVIOUS
  <2>1. size' \in Nat /\ size <= size' /\ f + w <= 8 * size'
    BY <1>4 DEF Written
  <2>2. ones' = (ones \ (f..(f + w - 1))) \cup {f + j : j \in item.value \cap 0..(w - 1)}
    BY DEF Written, Replace
  <2>3. CASE i \in ones
    BY <1>1, <1>3, <2>1, <2>3 DEF Shape
  <2>4. CASE i \notin ones
    <3>1. PICK j \in 0..(w - 1) : i = f + j
      BY <2>2, <2>4
    <3> QED
      BY <1>4, <2>1, <3>1
  <2> QED
    BY <2>3, <2>4
<1>8. Shape'
  <2>1. size' \in Nat /\ written' \in Heads
    BY <1>4 DEF Written
  <2>2. Len(got') <= Len(items')
    BY <1>3, <1>6 DEF Written
  <2> QED
    BY <1>1, <1>6, <1>7, <2>1, <2>2 DEF Shape, Written
<1>9. Buffered'
  BY <1>4 DEF Buffered, Written
<1>10. ASSUME RoomForMaximum
       PROVE  RoundTrip'
  <2>1. got' = got
    BY DEF Written
  <2> SUFFICES ASSUME NEW i \in 1..Len(got)
               PROVE  got[i] = items'[i].value
    BY <2>1 DEF RoundTrip
  <2>2. i \in 1..n
    BY <1>3
  <2> QED
    BY <1>1, <1>6, <1>10, <2>2 DEF RoundTrip
<1>11. NearBuffer'
  BY <1>1 DEF NearBuffer, Written
<1>12. PICK new :
          /\ new \in [1..(n + 2) -> Heads]
          /\ \A i \in 1..(n + 1) : new[i] = at[i]
          /\ new[n + 2] = next
  <2> DEFINE longer == [i \in 1..(n + 2) |-> IF i <= n + 1 THEN at[i] ELSE next]
  <2>1. /\ longer \in [1..(n + 2) -> Heads]
        /\ \A i \in 1..(n + 1) : longer[i] = at[i]
        /\ longer[n + 2] = next
    BY <1>3, <1>4, <1>5
  <2> QED
    BY <2>1
<1>13. Layout(new)'
  <2>1. new[1] = AfterBytes(HeaderSize)
    BY <1>2, <1>3, <1>12 DEF Layout
  <2>2. ASSUME NEW i \in 1..(n + 1)
        PROVE  new[i + 1] = After(new[i], items'[i])
    <3>1. CASE i \in 1..n
      <4>1. at[i + 1] = After(at[i], items[i])
        BY <1>2, <3>1 DEF Layout
      <4>2. new[i + 1] = at[i + 1] /\ new[i] = at[i]
        BY <1>3, <1>12, <3>1
      <4> QED
        BY <1>6, <3>1, <4>1, <4>2
    <3>2. CASE i = n + 1
      <4>1. new[i + 1] = next /\ new[i] = written
        BY <1>3, <1>5, <1>12, <3>2
      <4> QED
        BY <1>6, <3>2, <4>1
    <3> QED
      BY <1>3, <3>1, <3>2
  <2>3. new \in [1..(n + 1 + 1) -> Heads]
    BY <1>3, <1>12
  <2> QED
    BY <1>6, <2>1, <2>2, <2>3 DEF Layout
<1>14. ASSUME NEW i \in 1..n
       PROVE  /\ End(at[i], items[i]) <= 8 * size'
              /\ End(at[i], items[i]) <= f + w
              /\ Held(at[i], items[i])'
  <2> DEFINE g == From(at[i], items[i])
             v == Span(at[i], items[i])
  <2>1. at[i] \in Heads /\ items[i] \in Values
    BY <1>3, <1>5
  <2>2. g \in Nat /\ v \in Nat /\ g + v = End(at[i], items[i])
    BY <2>1, ValueFacts DEF End
  <2>3. g + v <= 8 * size /\ g + v <= Position(written) /\ Held(at[i], items[i])
    BY <1>2, <1>5, <2>2 DEF Kept
  <2>4. Position(written) \in Nat /\ g + v <= f
    BY <1>3, <1>4, <2>2, <2>3, HeadFacts
  <2>5. size' \in Nat /\ size <= size'
    BY DEF Written
  <2>6. ASSUME NEW j \in 0..(v - 1)
        PROVE  g + j \in ones' <=> g + j \in ones
    <3>1. g + j \in Nat /\ g + j < f
      BY <2>2, <2>4, <1>4
    <3>2. ones' = (ones \ (f..(f + w - 1))) \cup {f + k : k \in item.value \cap 0..(w - 1)}
      BY DEF Written, Replace
    <3>3. g + j \notin f..(f + w - 1)
      BY <1>4, <3>1
    <3>4. \A k \in 0..(w - 1) : g + j # f + k
      BY <1>4, <3>1
    <3> QED
      BY <3>2, <3>3, <3>4
  <2>7. \A j \in 0..(v - 1) : g + j \in ones' <=> j \in items[i].value
    <3>1. \A j \in 0..(v - 1) : g + j \in ones <=> j \in items[i].value
      BY <2>3 DEF Held
    <3> QED
      BY <2>6, <3>1
  <2>8. Held(at[i], items[i])' <=> \A j \in 0..(v - 1) : g + j \in ones' <=> j \in items'[i].value
    BY <1>6 DEF Held
  <2>9. items'[i] = items[i]
    BY <1>6
  <2> QED
    BY <1>3, <1>4, <2>2, <2>3, <2>4, <2>5, <2>7, <2>8, <2>9
<1>15. \A j \in 0..(w - 1) : f + j \in ones' <=> j \in item.value
  <2> DEFINE bits == item.value
  <2>2. ones' = (ones \ (f..(f + w - 1))) \cup {f + k : k \in bits \cap 0..(w - 1)}
    BY DEF Written, Replace
  <2> HIDE DEF bits
  <2> SUFFICES ASSUME NEW j \in 0..(w - 1)
               PROVE  f + j \in ones' <=> j \in bits
    BY DEF bits
  <2>3. f + j \in f..(f + w - 1)
    BY <1>4
  <2>4. \A k \in 0..(w - 1) : f + j = f + k => j = k
    BY <1>4
  <2> QED
    BY <2>2, <2>3, <2>4
<1>16. Kept(new)'
  <2> DEFINE Fine(i) ==
        /\ End(new[i], items'[i]) <= 8 * size'
        /\ End(new[i], items'[i]) <= f + w
        /\ \A j \in 0..(Span(new[i], items'[i]) - 1) :
             From(new[i], items'[i]) + j \in ones' <=> j \in items'[i].value
  <2>1. ASSUME NEW i \in 1..n
        PROVE  Fine(i)
    <3>1. new[i] = at[i] /\ items'[i] = items[i]
      BY <1>3, <1>6, <1>12
    <3>2. \A j \in 0..(Span(at[i], items'[i]) - 1) :
            From(at[i], items'[i]) + j \in ones' <=> j \in items'[i].value
      BY <1>14 DEF Held
    <3> QED
      BY <1>14, <3>1, <3>2
  <2>2. Fine(n + 1)
    <3>1. new[n + 1] = written /\ items'[n + 1] = item
      <4>1. new[n + 1] = at[n + 1]
        BY <1>3, <1>12
      <4> QED
        BY <1>5, <1>6, <4>1
    <3>2. End(written, item) <= 8 * size' /\ End(written, item) <= f + w
      BY <1>4 DEF Written
    <3> QED
      BY <1>15, <3>1, <3>2
  <2>3. \A i \in 1..(n + 1) : Fine(i)
    <3> HIDE DEF Fine
    <3> QED
      BY <1>3, <2>1, <2>2
  <2>4. Position(new[n + 1 + 1]) = f + w
    BY <1>3, <1>4, <1>12
  <2> QED
    BY <1>6, <2>3, <2>4 DEF Kept, Held
<1>17. InStep(new)'
  <2>1. written' = new[n + 1 + 1]
    BY <1>3, <1>12 DEF Written
  <2>2. read = at[Len(got) + 1]
    BY <1>2, <1>3 DEF InStep
  <2>3. Len(got) + 1 \in 1..(n + 1)
    BY <1>3
  <2>4. read' = new[Len(got') + 1]
    BY <1>12, <2>2, <2>3 DEF Written
  <2> QED
    BY <1>6, <2>1, <2>4 DEF InStep
<1> QED
  BY <1>8, <1>9, <1>10, <1>11, <1>13, <1>16, <1>17 DEF Inv

-----------------------------------------------------------------------------
(* The bits of a compressed float.                                         *)

Power(k) == 2^k

LEMMA Doubles == \A k \in 0..30 : Power(k) \in Nat /\ Power(k + 1) = 2 * Power(k)
<1> DEFINE D(k) == Power(k) \in Nat /\ Power(k + 1) = 2 * Power(k)
<1>1. /\ D(0) /\ D(1) /\ D(2) /\ D(3) /\ D(4) /\ D(5) /\ D(6) /\ D(7)
      /\ D(8) /\ D(9) /\ D(10) /\ D(11) /\ D(12) /\ D(13) /\ D(14) /\ D(15)
      /\ D(16) /\ D(17) /\ D(18) /\ D(19) /\ D(20) /\ D(21) /\ D(22) /\ D(23)
      /\ D(24) /\ D(25) /\ D(26) /\ D(27) /\ D(28) /\ D(29) /\ D(30)
  BY SMT DEF Power
<1>2. 0..30 = {0, 1, 2, 3, 4, 5, 6, 7, 8, 9, 10, 11, 12, 13, 14, 15, 16, 17, 18, 19,
               20, 21, 22, 23, 24, 25, 26, 27, 28, 29, 30}
  OBVIOUS
<1> HIDE DEF D
<1>3. \A k \in 0..30 : D(k)
  BY <1>1, <1>2
<1> QED
  BY <1>3 DEF D

LEMMA PowerIsNat == \A k \in 0..31 : Power(k) \in Nat
<1>1. Power(31) \in Nat
  BY SMT DEF Power
<1>2. \A k \in 0..30 : Power(k) \in Nat
  BY Doubles
<1> QED
  BY <1>1, <1>2

LEMMA PowersGrow ==
  ASSUME NEW k \in 0..31
  PROVE  \A i \in k..31 : Power(k) <= Power(i)
<1> DEFINE T == {i \in k..31 : ~(Power(k) <= Power(i))}
<1> SUFFICES ASSUME T # {}
             PROVE  FALSE
  OBVIOUS
<1>1. PICK i \in T : \A j \in T : i <= j
  <2>1. T \subseteq Nat
    OBVIOUS
  <2> QED
    BY <2>1, Least
<1>2. Power(k) \in Nat /\ i \in k..31
  BY PowerIsNat
<1>3. i # k
  BY <1>2
<1> DEFINE j == i - 1
<1>4. j \in k..31 /\ j \in 0..30 /\ j + 1 = i /\ ~(i <= j)
  BY <1>2, <1>3
<1>5. j \notin T
  BY <1>1, <1>4
<1> HIDE DEF j
<1>6. Power(j) \in Nat /\ Power(j + 1) = 2 * Power(j)
  BY <1>4, Doubles
<1>7. Power(k) <= Power(j)
  BY <1>4, <1>5
<1> QED
  BY <1>2, <1>4, <1>6, <1>7

(* What fits k bits has no others.                                         *)
LEMMA BinaryFits ==
  ASSUME NEW k \in 0..31, NEW v \in Nat, v < Power(k)
  PROVE  Binary(v) \subseteq 0..(k - 1)
<1>1. Binary(v) = {i \in 0..30 : (v \div Power(i)) % 2 = 1}
  BY Zenon DEF Binary, Power
<1> SUFFICES ASSUME NEW i \in 0..30, i >= k
             PROVE  (v \div Power(i)) % 2 # 1
  BY <1>1
<1> DEFINE power == Power(i)
<1>2. power \in Nat /\ v < power
  BY PowerIsNat, PowersGrow
<1> HIDE DEF power
<1>3. v \div power = 0
  BY <1>2
<1> QED
  BY <1>3 DEF power

LEMMA BitsRequiredFacts ==
  ASSUME NEW steps \in Steps
  PROVE  /\ BitsRequired(steps) \in 1..31
         /\ RoomForMaximum => steps < Power(BitsRequired(steps))
<1>1. steps \in Nat /\ 2 <= steps /\ steps < Power(31)
  BY StepsAssumption, SMT DEF Power
<1>2. RoomForMaximum => \A k \in 0..30 : Power(k) # steps
  BY Zenon DEF RoomForMaximum, Power
<1> DEFINE T == {k \in 0..31 : Power(k) >= steps}
<1>3. 31 \in T
  BY <1>1, PowerIsNat
<1>4. PICK k \in T : \A j \in T : k <= j
  <2>1. T \subseteq Nat /\ T # {}
    BY <1>3
  <2> QED
    BY <2>1, Least
<1>5. \A j \in 0..(k - 1) : Power(j) < steps
  <2> SUFFICES ASSUME NEW j \in 0..(k - 1)
               PROVE  Power(j) < steps
    OBVIOUS
  <2>1. j \in 0..31 /\ j \notin T /\ Power(j) \in Nat
    BY <1>4, PowerIsNat
  <2> QED
    BY <1>1, <2>1
<1> DEFINE bits == BitsRequired(steps)
<1>6. bits = CHOOSE b \in 0..31 : Power(b) >= steps /\ \A j \in 0..(b - 1) : Power(j) < steps
  BY Zenon DEF BitsRequired, Power
<1> HIDE DEF bits
<1>7. bits \in 0..31 /\ Power(bits) >= steps
  BY <1>4, <1>5, <1>6
<1>8. bits # 0
  <2> SUFFICES ASSUME bits = 0
               PROVE  FALSE
    OBVIOUS
  <2>1. Power(0) = 1
    BY SMT DEF Power
  <2> QED
    BY <1>1, <1>7, <2>1
<1>9. RoomForMaximum => Power(bits) # steps
  <2>1. CASE bits \in 0..30
    BY <1>2, <2>1
  <2>2. CASE bits = 31
    BY <1>1, <2>2
  <2> QED
    BY <1>7, <2>1, <2>2
<1>10. bits \in 1..31 /\ (RoomForMaximum => steps < Power(bits))
  BY <1>1, <1>7, <1>8, <1>9, PowerIsNat
<1> QED
  BY <1>10 DEF bits

-----------------------------------------------------------------------------
(* The steps.                                                              *)

LEMMA InitInv == Init => Inv
<1> SUFFICES ASSUME Init
             PROVE  Inv
  OBVIOUS
<1> DEFINE start == AfterBytes(HeaderSize)
<1>1. start \in Heads
  BY SizesAssumption, AfterBytesFacts
<1> HIDE DEF start
<1> DEFINE at == [i \in 1..1 |-> start]
<1>2. items = <<>> /\ got = <<>> /\ Len(items) = 0 /\ Len(got) = 0
  BY DEF Init
<1>3. Layout(at) /\ Kept(at) /\ InStep(at)
  BY <1>1, <1>2 DEF Init, Layout, Kept, InStep, start
<1>4. Shape
  BY <1>1, <1>2, SizesAssumption DEF Init, Shape, Places, start
<1> QED
  BY <1>2, <1>3, <1>4 DEF Init, Inv, Buffered, RoundTrip, NearBuffer

LEMMA WriteBitsKeepsInv ==
  ASSUME Inv, NEW n \in Nat \ {0}, NEW value \in SUBSET Nat, WriteBits(n, value),
         RoomForMaximum => value \subseteq 0..(n - 1)
  PROVE  Inv'
<1> DEFINE item == Item("bits", n, value)
           start == Position(written)
<1>1. written \in Heads /\ size \in Nat
  BY DEF Inv, Shape
<1>2. start \in Nat
  BY <1>1, HeadFacts
<1>3. /\ item.kind = "bits" /\ item.width = n /\ item.value = value
      /\ item \in Values
  <2>1. item \in [kind : {"bits", "bytes"}, width : Nat \ {0}, value : SUBSET Nat]
    BY DEF Item
  <2>2. BitCount(item) = n /\ item.value = value
    BY DEF Item, BitCount
  <2>3. item \in Values
    <3> HIDE DEF item
    <3> QED
      BY <2>1, <2>2 DEF Values
  <2> QED
    BY <2>3 DEF Item
<1>4. From(written, item) = start /\ Span(written, item) = Run(start, n)
  BY <1>3 DEF From, Span
<1>5. /\ Needed(start, n) \in Nat /\ Run(start, n) \in Nat
      /\ start + Run(start, n) <= 8 * Needed(start, n)
  BY <1>2, RunFacts
<1>6. size' = IF Needed(start, n) > size THEN Needed(start, n) ELSE size
  BY DEF WriteBits
<1>7. size' \in Nat /\ size <= size' /\ start + Run(start, n) <= 8 * size'
  <2> HIDE DEF start
  <2> QED
    BY <1>1, <1>2, <1>5, <1>6
<1>8. Written(item)
  <2>1. End(written, item) = start + Run(start, n)
    BY <1>4 DEF End
  <2>2. After(written, item) = AfterBits(start + Run(start, n))
    BY <1>3, <2>1 DEF After
  <2> QED
    BY <1>3, <1>4, <1>7, <2>1, <2>2 DEF Written, WriteBits
<1> QED
  BY <1>3, <1>8, WrittenKeepsInv

LEMMA SerializeKeepsInv ==
  ASSUME Inv, NEW n \in Nat \ {0}, NEW value \in SUBSET (0..(8 * n - 1)), Serialize(n, value)
  PROVE  Inv'
<1> DEFINE item == Item("bytes", n, value)
           end == written.bytes + n
<1>1. written \in Heads /\ size \in Nat /\ written.bytes \in Nat
  BY DEF Inv, Shape, Heads
<1>2. /\ item.kind = "bytes" /\ item.width = n /\ item.value = value
      /\ item \in Values
  <2>1. item \in [kind : {"bits", "bytes"}, width : Nat \ {0}, value : SUBSET Nat]
    BY DEF Item
  <2>2. BitCount(item) = 8 * n /\ item.value = value
    BY DEF Item, BitCount
  <2>3. item \in Values
    <3> HIDE DEF item
    <3> QED
      BY <2>1, <2>2 DEF Values
  <2> QED
    BY <2>3 DEF Item
<1>3. From(written, item) = 8 * written.bytes /\ Span(written, item) = 8 * n
  BY <1>2 DEF From, Span
<1>4. size' = IF end > size THEN 2 * end ELSE size
  BY DEF Serialize
<1>5. size' \in Nat /\ size <= size' /\ 8 * written.bytes + 8 * n <= 8 * size'
  BY <1>1, <1>4
<1>6. Written(item)
  <2>1. End(written, item) = 8 * written.bytes + 8 * n
    BY <1>3 DEF End
  <2>2. After(written, item) = AfterBytes(end)
    BY <1>2 DEF After
  <2> QED
    BY <1>2, <1>3, <1>5, <2>1, <2>2 DEF Written, Serialize
<1> QED
  BY <1>2, <1>6, WrittenKeepsInv

LEMMA WriteKeepsInv ==
  ASSUME Inv, Write
  PROVE  Inv'
<1>1. ASSUME NEW n \in Widths, NEW value \in Patterns(n), WriteBits(n, value)
      PROVE  Inv'
  <2>1. n \in Nat \ {0} /\ value \in SUBSET (0..(n - 1))
    BY <1>1, WidthsAssumption DEF Patterns
  <2> QED
    BY <1>1, <2>1, WriteBitsKeepsInv
<1>2. ASSUME NEW steps \in Steps, NEW value \in 0..steps, WriteCompressedFloat(steps, value)
      PROVE  Inv'
  <2> DEFINE k == BitsRequired(steps)
  <2>1. k \in 1..31 /\ (RoomForMaximum => steps < Power(k)) /\ steps \in Nat
    BY BitsRequiredFacts, StepsAssumption, SMT
  <2>2. WriteBits(k, Binary(value))
    BY <1>2 DEF WriteCompressedFloat
  <2> HIDE DEF k
  <2>3. value \in Nat /\ (RoomForMaximum => value < Power(k)) /\ k \in 0..31
    BY <2>1, PowerIsNat
  <2>4. RoomForMaximum => Binary(value) \subseteq 0..(k - 1)
    BY <2>3, BinaryFits
  <2>5. Binary(value) \in SUBSET Nat
    BY DEF Binary
  <2> QED
    BY <2>1, <2>2, <2>4, <2>5, WriteBitsKeepsInv
<1>3. ASSUME NEW n \in Sizes, NEW value \in Patterns(8 * n), Serialize(n, value)
      PROVE  Inv'
  <2>1. n \in Nat \ {0} /\ value \in SUBSET (0..(8 * n - 1))
    BY <1>3, SizesAssumption DEF Patterns
  <2> QED
    BY <1>3, <2>1, SerializeKeepsInv
<1> QED
  BY <1>1, <1>2, <1>3 DEF Write

(* An access that goes one byte past the elements at most.                 *)
LEMMA TouchFacts ==
  ASSUME Inv, NEW end \in Nat, end <= size + 1, Touch(end, size)
  PROVE  beyond' \in Nat /\ beyond' <= 1
<1>1. Memory(size) \in Nat /\ size <= Memory(size)
  BY ReservedAssumption DEF Inv, Shape, Memory
<1> QED
  BY <1>1 DEF Inv, Shape, NearBuffer, Touch

(* The header stays in what is reserved.                                   *)
LEMMA HeaderFits ==
  ASSUME Inv, place = "written", Touch(HeaderSize, 0)
  PROVE  beyond' = beyond
<1>1. HeaderSize <= Memory(0) /\ Memory(0) \in Nat
  BY ReservedAssumption, SizesAssumption DEF Memory
<1> QED
  BY <1>1, SizesAssumption DEF Touch

LEMMA ClearKeepsInv ==
  ASSUME Inv, Clear
  PROVE  Inv'
<1> DEFINE start == AfterBytes(HeaderSize)
<1>1. start \in Heads
  BY SizesAssumption, AfterBytesFacts
<1>2. /\ ones' = {} /\ size' = 0 /\ written' = start /\ read' = start
      /\ items' = <<>> /\ got' = <<>> /\ place' = "written" /\ beyond' = beyond
  BY HeaderFits DEF Clear
<1> HIDE DEF start
<1>3. Len(items') = 0 /\ Len(got') = 0
  BY <1>2
<1>4. PICK at : at = [i \in 1..1 |-> AfterBytes(HeaderSize)]
  OBVIOUS
<1>5. at \in [1..1 -> Heads] /\ at[1] = start /\ start = AfterBytes(HeaderSize)
  BY <1>1, <1>4 DEF start
<1>6. Layout(at)' /\ Kept(at)' /\ InStep(at)'
  BY <1>2, <1>3, <1>5 DEF Layout, Kept, InStep
<1>7. beyond \in Nat /\ beyond <= 1
  BY DEF Inv, Shape, NearBuffer
<1>8. Shape'
  <2>1. items' \in Seq(Values) /\ got' \in Seq(SUBSET Nat) /\ Len(got') <= Len(items')
    BY <1>2, <1>3
  <2>2. written' \in Heads /\ read' \in Heads /\ size' \in Nat /\ beyond' \in Nat
    BY <1>1, <1>2, <1>7
  <2> QED
    BY <1>2, <2>1, <2>2 DEF Shape, Places
<1> QED
  BY <1>2, <1>3, <1>6, <1>7, <1>8 DEF Inv, Buffered, RoundTrip, NearBuffer

LEMMA SendLocalKeepsInv ==
  ASSUME Inv, SendLocal
  PROVE  Inv'
<1>1. PICK at : Layout(at) /\ Kept(at) /\ InStep(at)
  BY DEF Inv
<1>2. /\ ones' = ones /\ size' = size /\ written' = written /\ read' = read
      /\ items' = items /\ got' = got /\ beyond' = beyond
      /\ place = "written" /\ place' = "local"
  BY DEF SendLocal
<1>3. Layout(at)' /\ Kept(at)'
  BY <1>1, <1>2 DEF Layout, Kept, Held
<1>4. InStep(at)'
  BY <1>1, <1>2 DEF InStep
<1>5. Shape'
  BY <1>2 DEF Inv, Shape, Places
<1>6. Buffered' /\ (RoomForMaximum => RoundTrip') /\ NearBuffer'
  BY <1>2 DEF Inv, Buffered, RoundTrip, NearBuffer
<1> QED
  BY <1>3, <1>4, <1>5, <1>6 DEF Inv

(* What follows the buffer follows the values too.                         *)
LEMMA SendRemoteKeepsInv ==
  ASSUME Inv, SendRemote
  PROVE  Inv'
<1>1. PICK at : Layout(at) /\ Kept(at) /\ InStep(at)
  BY DEF Inv
<1> DEFINE b == written.bytes
           n == Len(items)
           start == AfterBytes(HeaderSize)
<1>2. /\ b \in Nat \ {0} /\ written \in Heads /\ size \in Nat /\ n \in Nat
      /\ Position(written) \in Nat /\ Position(written) <= 8 * b /\ 8 * b <= Position(written) + 8
      /\ Position(written) <= 8 * size
      /\ items \in Seq(Values)
  <2>1. written \in Heads /\ size \in Nat /\ items \in Seq(Values) /\ items # <<>>
    BY DEF Inv, Shape, SendRemote
  <2>2. Position(written) <= 8 * size
    BY <2>1 DEF Inv, Buffered
  <2> QED
    BY <2>1, <2>2, HeadFacts DEF Heads
<1>3. /\ place = "written" /\ place' = "received"
      /\ size' = b /\ written' = AfterBytes(b) /\ read' = start
      /\ got' = <<>> /\ items' = items /\ Touch(b, size)
  BY DEF SendRemote
<1>4. PICK junk \in {{}, 8 * size..8 * b} : ones' = {i \in ones \cup junk : i < 8 * b}
  BY DEF SendRemote
<1>5. /\ AfterBytes(b) \in Heads /\ Position(AfterBytes(b)) = 8 * b
      /\ start \in Heads
  BY <1>2, SizesAssumption, AfterBytesFacts
<1>6. at \in [1..(n + 1) -> Heads] /\ at[1] = start /\ at[n + 1] = written
  BY <1>1, <1>3 DEF Layout, InStep
<1>7. beyond' \in Nat /\ beyond' <= 1
  BY <1>2, <1>3, TouchFacts
<1> HIDE DEF start
<1>8. Shape'
  <2>1. \A i \in ones' : i \in Nat /\ i < 8 * size'
    <3> SUFFICES ASSUME NEW i \in ones'
                 PROVE  i \in Nat /\ i < 8 * size'
      OBVIOUS
    <3>1. i < 8 * b /\ (i \in ones \/ i \in 8 * size..8 * b)
      BY <1>4
    <3>2. i \in ones => i \in Nat
      BY DEF Inv, Shape
    <3> QED
      BY <1>2, <1>3, <3>1, <3>2
  <2>2. got' \in Seq(SUBSET Nat) /\ Len(got') <= Len(items')
    BY <1>2, <1>3
  <2>3. written' \in Heads /\ read' \in Heads /\ size' \in Nat
    BY <1>2, <1>3, <1>5
  <2> QED
    BY <1>2, <1>3, <1>7, <2>1, <2>2, <2>3 DEF Shape, Places
<1>9. Buffered' /\ RoundTrip' /\ NearBuffer'
  BY <1>2, <1>3, <1>5, <1>7 DEF Buffered, RoundTrip, NearBuffer
<1>10. Layout(at)'
  BY <1>1, <1>3 DEF Layout
<1>11. Kept(at)'
  <2> DEFINE Fine(i) ==
        /\ End(at[i], items[i]) <= 8 * b
        /\ End(at[i], items[i]) <= Position(written)
        /\ \A j \in 0..(Span(at[i], items[i]) - 1) :
             From(at[i], items[i]) + j \in ones' <=> j \in items[i].value
  <2>1. ASSUME NEW i \in 1..n
        PROVE  Fine(i)
    <3> DEFINE g == From(at[i], items[i])
               v == Span(at[i], items[i])
    <3>1. at[i] \in Heads /\ items[i] \in Values
      BY <1>2, <1>6
    <3>2. g \in Nat /\ v \in Nat /\ g + v = End(at[i], items[i])
      BY <3>1, ValueFacts DEF End
    <3>3. g + v <= Position(written) /\ \A j \in 0..(v - 1) : g + j \in ones <=> j \in items[i].value
      BY <1>1, <1>6, <3>2 DEF Kept, Held
    <3> HIDE DEF g, v
    <3>4. ASSUME NEW j \in 0..(v - 1)
          PROVE  g + j \in ones' <=> g + j \in ones
      <4>1. g + j \in Nat /\ g + j < 8 * b /\ g + j < 8 * size
        BY <1>2, <3>2, <3>3
      <4>2. g + j \notin 8 * size..8 * b
        BY <1>2, <4>1
      <4> QED
        BY <1>4, <4>1, <4>2
    <3>5. \A j \in 0..(v - 1) : g + j \in ones' <=> j \in items[i].value
      BY <3>3, <3>4
    <3>6. g + v <= 8 * b
      BY <1>2, <3>2, <3>3
    <3> QED
      BY <3>2, <3>3, <3>5, <3>6 DEF g, v
  <2> HIDE DEF Fine
  <2>2. \A i \in 1..n : Fine(i)
    BY <2>1
  <2> QED
    BY <1>3, <1>6, <2>2 DEF Kept, Held, Fine
<1>12. InStep(at)'
  BY <1>3, <1>6 DEF InStep
<1> QED
  BY <1>8, <1>9, <1>10, <1>11, <1>12 DEF Inv

(* The reader is at the next value, which is in the buffer as it was       *)
(* written.                                                                *)
LEMMA NextItemFacts ==
  ASSUME Inv, Len(got) < Len(items)
  PROVE  /\ NextItem \in Values /\ read \in Heads /\ size \in Nat
         /\ End(read, NextItem) <= 8 * size
         /\ \A j \in 0..(Span(read, NextItem) - 1) :
              From(read, NextItem) + j \in ones <=> j \in NextItem.value
<1>1. PICK at : Layout(at) /\ Kept(at) /\ InStep(at)
  BY DEF Inv
<1>2. items \in Seq(Values) /\ got \in Seq(SUBSET Nat) /\ read \in Heads /\ size \in Nat
  BY DEF Inv, Shape
<1> DEFINE k == Len(got) + 1
<1>3. k \in 1..Len(items)
  BY <1>2
<1>4. read = at[k]
  BY <1>1 DEF InStep
<1>5. /\ End(at[k], items[k]) <= 8 * size
      /\ \A j \in 0..(Span(at[k], items[k]) - 1) :
           From(at[k], items[k]) + j \in ones <=> j \in items[k].value
  BY <1>1, <1>3 DEF Kept, Held
<1>6. NextItem = items[k] /\ items[k] \in Values
  BY <1>2, <1>3 DEF NextItem
<1> HIDE DEF k
<1> QED
  BY <1>2, <1>4, <1>5, <1>6

(* What a reader of the value finds.                                       *)
LEMMA ReadsValue ==
  ASSUME Inv, Len(got) < Len(items)
  PROVE  /\ Bits(From(read, NextItem), Span(read, NextItem)) \in SUBSET Nat
         /\ RoomForMaximum => Bits(From(read, NextItem), Span(read, NextItem)) = NextItem.value
<1> DEFINE f == From(read, NextItem)
           w == Span(read, NextItem)
           value == NextItem.value
<1>1. NextItem \in Values /\ read \in Heads
  BY NextItemFacts
<1>2. w \in Nat /\ BitCount(NextItem) <= w
  BY <1>1, ValueFacts
<1>3. /\ RoomForMaximum => value \subseteq 0..(BitCount(NextItem) - 1)
      /\ BitCount(NextItem) \in Nat
  BY <1>1 DEF Values, BitCount
<1>4. \A j \in 0..(w - 1) : f + j \in ones <=> j \in value
  BY NextItemFacts
<1>5. RoomForMaximum => value \subseteq 0..(w - 1)
  <2> HIDE DEF w, value
  <2> QED
    BY <1>2, <1>3
<1> HIDE DEF f, w, value
<1>6. Bits(f, w) \in SUBSET Nat /\ (RoomForMaximum => Bits(f, w) = value)
  BY <1>2, <1>4, <1>5 DEF Bits
<1> QED
  BY <1>6 DEF f, w, value

LEMMA ReadKeepsInv ==
  ASSUME Inv, Len(got) < Len(items), NEW value \in SUBSET Nat,
         RoomForMaximum => value = NextItem.value,
         read' = After(read, NextItem),
         got' = Append(got, value),
         beyond' \in Nat, beyond' <= 1,
         UNCHANGED <<ones, size, written, items, place>>
  PROVE  Inv'
<1>1. PICK at : Layout(at) /\ Kept(at) /\ InStep(at)
  BY DEF Inv
<1> DEFINE k == Len(got)
<1>2. /\ items \in Seq(Values) /\ got \in Seq(SUBSET Nat) /\ read \in Heads
      /\ k \in Nat /\ k + 1 \in 1..Len(items)
  BY DEF Inv, Shape
<1>3. NextItem = items[k + 1] /\ NextItem \in Values
  BY <1>2 DEF NextItem, Values
<1>4. /\ got' \in Seq(SUBSET Nat) /\ Len(got') = k + 1
      /\ got'[k + 1] = value /\ \A i \in 1..k : got'[i] = got[i]
  <2> DEFINE T == SUBSET Nat
  <2> HIDE DEF T
  <2>1. got' = Append(got, value)
    OBVIOUS
  <2>2. got \in Seq(T) /\ value \in T
    BY <1>2 DEF T
  <2>3. /\ got' \in Seq(T) /\ Len(got') = k + 1
        /\ got'[k + 1] = value /\ \A i \in 1..k : got'[i] = got[i]
    BY <2>1, <2>2
  <2> QED
    BY <2>3 DEF T
<1>5. read' \in Heads
  BY <1>2, <1>3, ValueFacts
<1>6. Shape'
  BY <1>2, <1>4, <1>5 DEF Inv, Shape
<1>7. ASSUME RoomForMaximum
      PROVE  RoundTrip'
  <2> SUFFICES ASSUME NEW i \in 1..(k + 1)
               PROVE  got'[i] = items[i].value
    BY <1>4 DEF RoundTrip
  <2>1. CASE i \in 1..k
    BY <1>4, <1>7, <2>1 DEF Inv, RoundTrip
  <2>2. CASE i = k + 1
    BY <1>3, <1>4, <1>7, <2>2
  <2> QED
    BY <1>2, <2>1, <2>2
<1>8. Buffered' /\ NearBuffer'
  BY DEF Inv, Buffered, NearBuffer
<1>9. Layout(at)' /\ Kept(at)'
  BY <1>1 DEF Layout, Kept, Held
<1>10. InStep(at)'
  <2>1. read = at[k + 1]
    BY <1>1 DEF InStep
  <2>2. at[k + 1 + 1] = After(at[k + 1], items[k + 1])
    BY <1>1, <1>2 DEF Layout
  <2>3. read' = at[Len(got') + 1]
    BY <1>3, <1>4, <2>1, <2>2
  <2> QED
    BY <1>1, <2>3 DEF InStep
<1> QED
  BY <1>6, <1>7, <1>8, <1>9, <1>10 DEF Inv

LEMMA ReadNextKeepsInv ==
  ASSUME Inv, ReadNext
  PROVE  Inv'
<1> DEFINE item == NextItem
           n == item.width
           start == Position(read)
<1>1. Len(got) < Len(items)
  BY DEF ReadNext
<1>2. item \in Values /\ read \in Heads /\ size \in Nat
  BY <1>1, NextItemFacts
<1>3. n \in Nat \ {0} /\ start \in Nat /\ read.bytes \in Nat
  BY <1>2, HeadFacts DEF Values, Heads
<1> DEFINE value == Bits(From(read, item), Span(read, item))
<1>4. value \in SUBSET Nat /\ (RoomForMaximum => value = item.value)
  BY <1>1, ReadsValue
<1>5. CASE item.kind = "bits" /\ ReadBits(n, TRUE)
  <2>1. From(read, item) = start /\ Span(read, item) = Run(start, n)
    BY <1>5 DEF From, Span
  <2>2. read' = After(read, item)
    BY <1>5, <2>1 DEF ReadBits, After, End
  <2>3. got' = Append(got, value)
    BY <1>5, <2>1 DEF ReadBits
  <2>4. beyond' \in Nat /\ beyond' <= 1
    <3>1. Needed(start, n) \in Nat
      BY <1>3, RunFacts
    <3>2. Needed(start, n) <= size + 1 /\ Touch(Needed(start, n), size)
      BY <1>2, <1>5, <3>1 DEF ReadBits, CanReadBits
    <3> QED
      BY <3>1, <3>2, TouchFacts
  <2>5. UNCHANGED <<ones, size, written, items, place>>
    BY <1>5 DEF ReadBits
  <2> QED
    BY <1>1, <1>4, <2>2, <2>3, <2>4, <2>5, ReadKeepsInv
<1>6. CASE item.kind = "bytes" /\ Deserialize(n, TRUE)
  <2>1. From(read, item) = 8 * read.bytes /\ Span(read, item) = 8 * n
    BY <1>6 DEF From, Span
  <2>2. read' = After(read, item)
    BY <1>6 DEF Deserialize, After
  <2>3. got' = Append(got, value)
    BY <1>6, <2>1 DEF Deserialize
  <2>4. beyond' \in Nat /\ beyond' <= 1
    <3>1. read.bytes + n \in Nat /\ read.bytes + n <= size + 1 /\ Touch(read.bytes + n, size)
      BY <1>2, <1>3, <1>6 DEF Deserialize, CanDeserialize
    <3> QED
      BY <3>1, TouchFacts
  <2>5. UNCHANGED <<ones, size, written, items, place>>
    BY <1>6 DEF Deserialize
  <2> QED
    BY <1>1, <1>4, <2>2, <2>3, <2>4, <2>5, ReadKeepsInv
<1> QED
  BY <1>5, <1>6 DEF ReadNext

(* A reader that goes on has read everything: where it is does not matter. *)
LEMMA AstrayKeepsInv ==
  ASSUME Inv, place # "written", Len(got) = Len(items), read' \in Heads,
         beyond' \in Nat, beyond' <= 1,
         UNCHANGED <<ones, size, written, items, got, place>>
  PROVE  Inv'
<1>1. PICK at : Layout(at) /\ Kept(at) /\ InStep(at)
  BY DEF Inv
<1>2. Len(got) \in Nat
  BY DEF Inv, Shape
<1>3. Shape'
  BY DEF Inv, Shape
<1>4. Buffered' /\ (RoomForMaximum => RoundTrip') /\ NearBuffer'
  BY DEF Inv, Buffered, RoundTrip, NearBuffer
<1>5. Layout(at)' /\ Kept(at)' /\ InStep(at)'
  BY <1>1, <1>2 DEF Layout, Kept, Held, InStep
<1> QED
  BY <1>3, <1>4, <1>5 DEF Inv

LEMMA ReadMoreKeepsInv ==
  ASSUME Inv, ReadMore
  PROVE  Inv'
<1>1. read \in Heads /\ size \in Nat /\ read.bytes \in Nat
  BY DEF Inv, Shape, Heads
<1>2. place # "written" /\ Len(got) = Len(items)
  BY DEF ReadMore
<1>3. ASSUME NEW n \in Widths, ReadBits(n, FALSE)
      PROVE  Inv'
  <2> DEFINE start == Position(read)
  <2>1. start \in Nat /\ n \in Nat \ {0}
    BY <1>1, HeadFacts, WidthsAssumption
  <2>2. Run(start, n) \in Nat /\ Needed(start, n) \in Nat
    BY <2>1, RunFacts
  <2>3. read' \in Heads
    <3>1. read' = AfterBits(start + Run(start, n)) /\ start + Run(start, n) \in Nat
      BY <1>3, <2>1, <2>2 DEF ReadBits
    <3> QED
      BY <3>1, AfterBitsFacts
  <2>4. beyond' \in Nat /\ beyond' <= 1
    <3>1. Needed(start, n) <= size + 1 /\ Touch(Needed(start, n), size)
      BY <1>1, <1>3, <2>2 DEF ReadBits, CanReadBits
    <3> QED
      BY <2>2, <3>1, TouchFacts
  <2>5. UNCHANGED <<ones, size, written, items, got, place>>
    BY <1>3 DEF ReadBits
  <2> QED
    BY <1>2, <2>3, <2>4, <2>5, AstrayKeepsInv
<1>4. ASSUME NEW n \in Sizes, Deserialize(n, FALSE)
      PROVE  Inv'
  <2>1. n \in Nat \ {0} /\ read.bytes + n \in Nat \ {0}
    BY <1>1, SizesAssumption
  <2>2. read' \in Heads
    BY <1>4, <2>1, AfterBytesFacts DEF Deserialize
  <2>3. beyond' \in Nat /\ beyond' <= 1
    <3>1. read.bytes + n <= size + 1 /\ Touch(read.bytes + n, size)
      BY <1>1, <1>4, <2>1 DEF Deserialize, CanDeserialize
    <3> QED
      BY <2>1, <3>1, TouchFacts
  <2>4. UNCHANGED <<ones, size, written, items, got, place>>
    BY <1>4 DEF Deserialize
  <2> QED
    BY <1>2, <2>2, <2>3, <2>4, AstrayKeepsInv
<1> QED
  BY <1>3, <1>4 DEF ReadMore

LEMMA ResetKeepsInv ==
  ASSUME Inv, ResetReadPosition
  PROVE  Inv'
<1>1. PICK at : Layout(at) /\ Kept(at) /\ InStep(at)
  BY DEF Inv
<1>2. /\ read' = AfterBytes(HeaderSize) /\ got' = <<>>
      /\ UNCHANGED <<ones, size, written, items, place, beyond>>
  BY DEF ResetReadPosition, Rewind
<1>3. read' \in Heads
  BY <1>2, SizesAssumption, AfterBytesFacts
<1>4. items \in Seq(Values) /\ got' \in Seq(SUBSET Nat) /\ Len(got') = 0
  BY <1>2 DEF Inv, Shape
<1>5. Shape'
  BY <1>2, <1>3, <1>4 DEF Inv, Shape
<1>6. Buffered' /\ RoundTrip' /\ NearBuffer'
  BY <1>2, <1>4 DEF Inv, Buffered, RoundTrip, NearBuffer
<1>7. Layout(at)' /\ Kept(at)'
  BY <1>1, <1>2 DEF Layout, Kept, Held
<1>8. InStep(at)'
  BY <1>1, <1>2, <1>4 DEF Layout, InStep
<1> QED
  BY <1>5, <1>6, <1>7, <1>8 DEF Inv

LEMMA StutterKeepsInv ==
  ASSUME Inv, UNCHANGED vars
  PROVE  Inv'
<1>1. PICK at : Layout(at) /\ Kept(at) /\ InStep(at)
  BY DEF Inv
<1>2. Layout(at)' /\ Kept(at)' /\ InStep(at)'
  BY <1>1 DEF Layout, Kept, Held, InStep, vars
<1>3. Shape' /\ Buffered' /\ (RoomForMaximum => RoundTrip') /\ NearBuffer'
  BY DEF Inv, Shape, Buffered, RoundTrip, NearBuffer, vars
<1> QED
  BY <1>2, <1>3 DEF Inv

(* The invariant holds in every state.                                     *)
THEOREM Invariance == Spec => []Inv
<1>1. Init => Inv
  BY InitInv
<1>2. Inv /\ [Next]_vars => Inv'
  <2> SUFFICES ASSUME Inv, [Next]_vars
               PROVE  Inv'
    OBVIOUS
  <2>1. CASE Write
    BY <2>1, WriteKeepsInv
  <2>2. CASE Clear
    BY <2>2, ClearKeepsInv
  <2>3. CASE SendLocal
    BY <2>3, SendLocalKeepsInv
  <2>4. CASE SendRemote
    BY <2>4, SendRemoteKeepsInv
  <2>5. CASE ReadNext
    BY <2>5, ReadNextKeepsInv
  <2>6. CASE ReadMore
    BY <2>6, ReadMoreKeepsInv
  <2>7. CASE ResetReadPosition
    BY <2>7, ResetKeepsInv
  <2>8. CASE UNCHANGED vars
    BY <2>8, StutterKeepsInv
  <2> QED
    BY <2>1, <2>2, <2>3, <2>4, <2>5, <2>6, <2>7, <2>8 DEF Next
<1> QED
  BY <1>1, <1>2, PTL DEF Spec

-----------------------------------------------------------------------------
(* The properties.                                                         *)

(* Bits are only set in the buffer, and the positions are no more than one *)
(* byte after it.                                                          *)
THEOREM TypeCorrect == Spec => []TypeOK
<1>1. Inv => TypeOK
  <2> SUFFICES ASSUME Inv
               PROVE  TypeOK
    OBVIOUS
  <2>1. Shape /\ Buffered
    BY DEF Inv
  <2>2. written \in [bytes : Nat, bits : 0..8] /\ read \in [bytes : Nat, bits : 0..8]
    BY <2>1 DEF Shape, Heads
  <2>3. \A i \in 1..Len(items) : ItemOK(items[i])
    <3> SUFFICES ASSUME NEW i \in 1..Len(items)
                 PROVE  ItemOK(items[i])
      OBVIOUS
    <3>1. items[i] \in Values
      BY <2>1 DEF Shape
    <3> QED
      BY <3>1 DEF Values, ItemOK
  <2>4. items # <<>> => written.bytes <= size + 1
    <3> SUFFICES ASSUME items # <<>>
                 PROVE  written.bytes <= size + 1
      OBVIOUS
    <3>1. /\ written \in Heads /\ size \in Nat /\ written.bytes \in Nat
          /\ Position(written) <= 8 * size
      BY <2>1 DEF Shape, Buffered, Heads
    <3>2. 8 * written.bytes <= Position(written) + 8 /\ Position(written) \in Nat
      BY <3>1, HeadFacts
    <3> QED
      BY <3>1, <3>2
  <2> QED
    BY <2>1, <2>2, <2>3, <2>4 DEF TypeOK, Shape
<1> QED
  BY <1>1, Invariance, PTL

(* What is written is read back, wherever it falls in its bytes, when the  *)
(* maximum of each range fits its bits.                                    *)
THEOREM ReadsWhatWasWritten ==
  ASSUME RoomForMaximum
  PROVE  Spec => []RoundTrip
<1>1. Inv => RoundTrip
  BY DEF Inv
<1> QED
  BY <1>1, Invariance, PTL

(* No more than one byte after its memory is ever touched.                 *)
THEOREM OneByteBeyond == Spec => []NearBuffer
<1>1. Inv => NearBuffer
  BY DEF Inv
<1> QED
  BY <1>1, Invariance, PTL

(* A reader that asks for what was written is never refused.               *)
THEOREM NeverRefused == Spec => []NeverStuck
<1>1. Inv => NeverStuck
  <2> SUFFICES ASSUME Inv, Len(got) < Len(items)
               PROVE  \/ NextItem.kind = "bits" /\ CanReadBits(Position(read), NextItem.width)
                      \/ NextItem.kind = "bytes" /\ CanDeserialize(NextItem.width)
    BY DEF NeverStuck
  <2> DEFINE item == NextItem
             start == Position(read)
             n == item.width
  <2>1. item \in Values /\ read \in Heads /\ size \in Nat /\ End(read, item) <= 8 * size
    BY NextItemFacts
  <2>2. item.kind \in {"bits", "bytes"} /\ n \in Nat \ {0} /\ start \in Nat /\ read.bytes \in Nat
    BY <2>1, HeadFacts DEF Values, Heads
  <2>3. CASE item.kind = "bits"
    <3>1. Run(start, n) \in Nat /\ Needed(start, n) \in Nat /\ 8 * Needed(start, n) < start + Run(start, n) + 8
      BY <2>2, RunFacts
    <3>2. start + Run(start, n) <= 8 * size
      BY <2>1, <2>3 DEF End, From, Span
    <3>3. CanReadBits(start, n)
      BY <2>1, <2>2, <3>1, <3>2 DEF CanReadBits
    <3> QED
      BY <2>3, <3>3
  <2>4. CASE item.kind = "bytes"
    <3>1. 8 * read.bytes + 8 * n <= 8 * size
      BY <2>1, <2>4 DEF End, From, Span
    <3>2. CanDeserialize(n)
      BY <2>1, <2>2, <3>1 DEF CanDeserialize
    <3> QED
      BY <2>4, <3>2
  <2> QED
    BY <2>2, <2>3, <2>4
<1> QED
  BY <1>1, Invariance, PTL

=============================================================================
