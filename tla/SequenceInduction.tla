-------------------------- MODULE SequenceInduction --------------------------
(***************************************************************************)
(* Induction for proofs about recursive functions on sequences, and what   *)
(* it yields about Filter.  The library's induction theorems speak of an   *)
(* operator; these speak of a set, which the provers can instantiate.      *)
(***************************************************************************)
EXTENDS Integers, Sequences, Functions, SequenceFilter, TLAPS, WellFoundedInduction, SequenceTheorems

(* A set of natural numbers that is not empty has a least element.         *)
LEMMA Least ==
  ASSUME NEW T, T \subseteq Nat, T # {}
  PROVE  \E n \in T : \A m \in T : n <= m
<1> DEFINE R == OpToRel(<, Nat)
<1>1. IsWellFoundedOn(R, Nat)
  BY NatLessThanWellFounded
<1>2. \A m, n \in Nat : m < n => <<m, n>> \in R
  BY DEF OpToRel
<1> HIDE DEF R
<1>3. PICK n \in T : \A m \in T : ~(<<m, n>> \in R)
  BY <1>1, WFMin
<1>4. \A m \in T : n <= m
  <2> TAKE m \in T
  <2>1. ~(m < n)
    BY <1>2, <1>3
  <2> QED BY <2>1
<1> QED BY <1>4

(* Induction: what 0 has, and n + 1 has whenever n has it.                 *)
LEMMA Induction ==
  ASSUME NEW S, 0 \in S, \A n \in Nat : n \in S => n + 1 \in S
  PROVE  Nat \subseteq S
<1> SUFFICES ASSUME Nat \ S # {} PROVE FALSE
  OBVIOUS
<1>1. PICK n \in Nat \ S : \A m \in Nat \ S : n <= m
  BY Least
<1>2. n # 0 /\ n - 1 \in Nat
  BY <1>1
<1>3. n - 1 \in S
  BY <1>1, <1>2
<1> QED BY <1>1, <1>2, <1>3

(* Induction on the length of a sequence, by its last element.             *)
LEMMA AppendInduction ==
  ASSUME NEW T, NEW P, <<>> \in P, \A s \in Seq(T), x \in T : s \in P => Append(s, x) \in P
  PROVE  Seq(T) \subseteq P
<1> DEFINE S == {n \in Nat : \A s \in Seq(T) : Len(s) = n => s \in P}
<1>1. 0 \in S
  <2> SUFFICES ASSUME NEW s \in Seq(T), Len(s) = 0 PROVE s \in P
    OBVIOUS
  <2>1. s = <<>>
    BY EmptySeq
  <2> QED BY <2>1
<1>2. ASSUME NEW n \in Nat, n \in S PROVE n + 1 \in S
  <2> SUFFICES ASSUME NEW s \in Seq(T), Len(s) = n + 1 PROVE s \in P
    OBVIOUS
  <2> DEFINE f == [i \in 1..n |-> s[i]]
             x == s[n + 1]
  <2>1. f \in Seq(T) /\ Len(f) = n /\ x \in T
    OBVIOUS
  <2>2. Append(f, x) = s
    <3>1. Append(f, x) \in Seq(T) /\ Len(Append(f, x)) = n + 1
      BY <2>1
    <3>2. \A i \in 1..(n + 1) : Append(f, x)[i] = s[i]
      BY <2>1
    <3> HIDE DEF f, x
    <3> QED BY <3>1, <3>2, SeqEqual
  <2>3. f \in P
    BY <1>2, <2>1
  <2> HIDE DEF f, x
  <2>4. Append(f, x) \in P
    BY <2>1, <2>3
  <2> QED BY <2>2, <2>4
<1>3. Nat \subseteq S
  BY <1>1, <1>2, Induction
<1> QED BY <1>3
-----------------------------------------------------------------------------
(* Appending and concatenation.                                            *)

LEMMA RangeConcat ==
  ASSUME NEW T, NEW s \in Seq(T), NEW t \in Seq(T)
  PROVE  Range(s \o t) = Range(s) \cup Range(t)
<1>1. /\ DOMAIN s = 1..Len(s) /\ Len(s) \in Nat /\ DOMAIN t = 1..Len(t) /\ Len(t) \in Nat
      /\ DOMAIN (s \o t) = 1..(Len(s) + Len(t))
      /\ \A i \in DOMAIN s : (s \o t)[i] = s[i]
      /\ \A i \in DOMAIN t : (s \o t)[Len(s) + i] = t[i]
  OBVIOUS
<1>2. ASSUME NEW i \in DOMAIN (s \o t) PROVE (s \o t)[i] \in Range(s) \cup Range(t)
  <2>1. CASE i \in DOMAIN s
    BY <2>1, <1>1 DEF Range
  <2>2. CASE i \notin DOMAIN s
    <3>1. i - Len(s) \in DOMAIN t /\ Len(s) + (i - Len(s)) = i
      BY <2>2, <1>1
    <3> QED BY <3>1, <1>1 DEF Range
  <2> QED BY <2>1, <2>2
<1>3. ASSUME NEW i \in DOMAIN s PROVE s[i] \in Range(s \o t)
  <2>1. i \in DOMAIN (s \o t)
    BY <1>1
  <2> QED BY <2>1, <1>1 DEF Range
<1>4. ASSUME NEW i \in DOMAIN t PROVE t[i] \in Range(s \o t)
  <2>1. Len(s) + i \in DOMAIN (s \o t)
    BY <1>1
  <2> QED BY <2>1, <1>1 DEF Range
<1> QED BY <1>2, <1>3, <1>4 DEF Range

LEMMA RangeAppend ==
  ASSUME NEW T, NEW s \in Seq(T), NEW x \in T
  PROVE  Range(Append(s, x)) = Range(s) \cup {x}
<1>1. /\ DOMAIN s = 1..Len(s) /\ Len(s) \in Nat
      /\ DOMAIN Append(s, x) = 1..(Len(s) + 1)
      /\ Append(s, x)[Len(s) + 1] = x
      /\ \A i \in DOMAIN s : Append(s, x)[i] = s[i]
  OBVIOUS
<1> QED BY <1>1 DEF Range

LEMMA RangeEmpty ==
  ASSUME NEW T, NEW s \in Seq(T), Range(s) = {}
  PROVE  s = <<>>
<1>1. SUFFICES ASSUME s # <<>> PROVE FALSE
  OBVIOUS
<1>2. 1 \in DOMAIN s
  BY <1>1
<1>3. s[1] \in Range(s)
  BY <1>2 DEF Range
<1> QED BY <1>3

LEMMA ConcatAppend ==
  ASSUME NEW T, NEW s \in Seq(T), NEW t \in Seq(T), NEW x \in T
  PROVE  s \o Append(t, x) = Append(s \o t, x)
<1>1. Append(t, x) = t \o <<x>> /\ Append(s \o t, x) = (s \o t) \o <<x>> /\ <<x>> \in Seq(T)
  BY ConcatProperties, AppendIsConcat
<1> QED BY <1>1, ConcatAssociative
-----------------------------------------------------------------------------
(* What Filter returns, element by element.                                *)

FilterSteps(s, S, g) ==
  /\ g = [n \in 0..Len(s) |-> g[n]]
  /\ g[0] = <<>>
  /\ \A n \in 1..Len(s) : g[n] = IF s[n] \in S THEN Append(g[n - 1], s[n]) ELSE g[n - 1]

LEMMA FilterStepsExist ==
  ASSUME NEW T, NEW S, NEW s \in Seq(T)
  PROVE  \E g : FilterSteps(s, S, g)
<1> DEFINE Upto(n, g) ==
             /\ g = [k \in 0..n |-> g[k]]
             /\ g[0] = <<>>
             /\ \A k \in 1..n : g[k] = IF s[k] \in S THEN Append(g[k - 1], s[k]) ELSE g[k - 1]
           N == {n \in Nat : \E g : Upto(n, g)}
<1>1. 0 \in N
  <2>1. Upto(0, [k \in 0..0 |-> <<>>])
    OBVIOUS
  <2> QED BY <2>1
<1>2. ASSUME NEW n \in Nat, n \in N PROVE n + 1 \in N
  <2>1. PICK g : Upto(n, g)
    BY <1>2
  <2> DEFINE last == IF s[n + 1] \in S THEN Append(g[n], s[n + 1]) ELSE g[n]
             h == [k \in 0..(n + 1) |-> IF k = n + 1 THEN last ELSE g[k]]
  <2>2. h = [k \in 0..(n + 1) |-> h[k]] /\ h[0] = <<>>
    BY <2>1
  <2>3. ASSUME NEW k \in 1..(n + 1)
        PROVE  h[k] = IF s[k] \in S THEN Append(h[k - 1], s[k]) ELSE h[k - 1]
    <3>1. CASE k = n + 1
      BY <3>1
    <3>2. CASE k \in 1..n
      <4>1. k \in 0..(n + 1) /\ k - 1 \in 0..(n + 1) /\ k # n + 1 /\ k - 1 # n + 1
        BY <3>2
      <4>2. g[k] = IF s[k] \in S THEN Append(g[k - 1], s[k]) ELSE g[k - 1]
        BY <3>2, <2>1
      <4> QED BY <4>1, <4>2
    <3> QED BY <3>1, <3>2
  <2>4. Upto(n + 1, h)
    BY <2>2, <2>3
  <2> HIDE DEF Upto, h
  <2> QED BY <2>4
<1>3. Nat \subseteq N
  BY <1>1, <1>2, Induction
<1>4. Len(s) \in N
  BY <1>3
<1> QED BY <1>4 DEF FilterSteps

LEMMA FilterStepsUnique ==
  ASSUME NEW T, NEW S, NEW s \in Seq(T), NEW g, FilterSteps(s, S, g), NEW h, FilterSteps(s, S, h)
  PROVE  g = h
<1> DEFINE N == {n \in Nat : n <= Len(s) => g[n] = h[n]}
<1>1. 0 \in N
  BY DEF FilterSteps
<1>2. ASSUME NEW n \in Nat, n \in N PROVE n + 1 \in N
  <2> SUFFICES ASSUME n + 1 <= Len(s) PROVE g[n + 1] = h[n + 1]
    OBVIOUS
  <2>1. n + 1 \in 1..Len(s) /\ n <= Len(s) /\ (n + 1) - 1 = n
    OBVIOUS
  <2>2. g[n] = h[n]
    BY <1>2, <2>1
  <2>3. g[n + 1] = IF s[n + 1] \in S THEN Append(g[n], s[n + 1]) ELSE g[n]
    BY <2>1 DEF FilterSteps
  <2>4. h[n + 1] = IF s[n + 1] \in S THEN Append(h[n], s[n + 1]) ELSE h[n]
    BY <2>1 DEF FilterSteps
  <2> QED BY <2>2, <2>3, <2>4
<1>3. Nat \subseteq N
  BY <1>1, <1>2, Induction
<1>4. \A n \in 0..Len(s) : g[n] = h[n]
  BY <1>3
<1>5. g = [n \in 0..Len(s) |-> g[n]] /\ h = [n \in 0..Len(s) |-> h[n]]
  BY DEF FilterSteps
<1> QED BY <1>4, <1>5

LEMMA FilterIs ==
  ASSUME NEW T, NEW S, NEW s \in Seq(T), NEW g, FilterSteps(s, S, g)
  PROVE  Filter(s, S) = g[Len(s)]
<1> DEFINE F(f) == [n \in 0..Len(s) |->
                      IF n = 0 THEN <<>>
                      ELSE IF s[n] \in S THEN Append(f[n - 1], s[n]) ELSE f[n - 1]]
           c == CHOOSE f : f = F(f)
<1>1. g = F(g)
  <2>1. g = [n \in 0..Len(s) |-> g[n]]
    BY DEF FilterSteps
  <2>2. \A n \in 0..Len(s) : g[n] = F(g)[n]
    BY DEF FilterSteps
  <2> QED BY <2>1, <2>2
<1>2. c = F(c)
  BY <1>1
<1>3. Filter(s, S) = c[Len(s)]
  BY DEF Filter
<1> HIDE DEF c
<1>4. FilterSteps(s, S, c)
  <2>1. Len(s) \in Nat
    OBVIOUS
  <2>2. c = [n \in 0..Len(s) |-> c[n]]
    BY <1>2
  <2>3. c[0] = <<>>
    BY <1>2, <2>1
  <2>4. ASSUME NEW n \in 1..Len(s)
        PROVE  c[n] = IF s[n] \in S THEN Append(c[n - 1], s[n]) ELSE c[n - 1]
    <3>1. n \in 0..Len(s) /\ n # 0
      BY <2>1
    <3>2. F(c)[n] = IF s[n] \in S THEN Append(c[n - 1], s[n]) ELSE c[n - 1]
      BY <3>1
    <3> HIDE DEF F
    <3> QED BY <1>2, <3>2
  <2> QED BY <2>2, <2>3, <2>4 DEF FilterSteps
<1>5. c = g
  BY <1>4, FilterStepsUnique
<1> QED BY <1>3, <1>5

LEMMA FilterNil ==
  ASSUME NEW S
  PROVE  Filter(<<>>, S) = <<>>
<1>1. <<>> \in Seq({}) /\ Len(<<>>) = 0
  OBVIOUS
<1>2. PICK g : FilterSteps(<<>>, S, g)
  BY <1>1, FilterStepsExist
<1>3. Filter(<<>>, S) = g[Len(<<>>)]
  BY <1>1, <1>2, FilterIs
<1> QED BY <1>1, <1>2, <1>3 DEF FilterSteps

LEMMA FilterAppend ==
  ASSUME NEW T, NEW S, NEW s \in Seq(T), NEW x \in T
  PROVE  Filter(Append(s, x), S) = IF x \in S THEN Append(Filter(s, S), x) ELSE Filter(s, S)
<1> DEFINE t == Append(s, x)
           n == Len(s)
<1>1. t \in Seq(T) /\ n \in Nat /\ Len(t) = n + 1 /\ t[n + 1] = x /\ \A k \in 1..n : t[k] = s[k]
  OBVIOUS
<1> HIDE DEF t
<1>2. PICK h : FilterSteps(t, S, h)
  BY <1>1, FilterStepsExist
<1> DEFINE g == [k \in 0..n |-> h[k]]
<1>3. FilterSteps(s, S, g)
  <2>1. g[0] = <<>>
    BY <1>1, <1>2 DEF FilterSteps
  <2>2. ASSUME NEW k \in 1..n
        PROVE  g[k] = IF s[k] \in S THEN Append(g[k - 1], s[k]) ELSE g[k - 1]
    <3>1. k \in 1..Len(t) /\ k \in 0..n /\ k - 1 \in 0..n /\ t[k] = s[k]
      BY <1>1
    <3>2. h[k] = IF t[k] \in S THEN Append(h[k - 1], t[k]) ELSE h[k - 1]
      BY <3>1, <1>2 DEF FilterSteps
    <3> QED BY <3>1, <3>2
  <2> QED BY <2>1, <2>2 DEF FilterSteps
<1>4. g[n] = h[n] /\ (n + 1) - 1 = n /\ n + 1 \in 1..Len(t)
  BY <1>1
<1> HIDE DEF g
<1>5. Filter(s, S) = g[n]
  BY <1>3, FilterIs
<1>6. Filter(t, S) = h[n + 1]
  BY <1>1, <1>2, FilterIs
<1>7. h[n + 1] = IF t[n + 1] \in S THEN Append(h[(n + 1) - 1], t[n + 1]) ELSE h[(n + 1) - 1]
  BY <1>2, <1>4 DEF FilterSteps
<1> QED BY <1>1, <1>4, <1>5, <1>6, <1>7 DEF t

LEMMA FilterType ==
  ASSUME NEW T, NEW S, NEW s \in Seq(T)
  PROVE  /\ Filter(s, S) \in Seq(T)
         /\ Range(Filter(s, S)) = Range(s) \cap S
<1> DEFINE P == {q \in Seq(T) : Filter(q, S) \in Seq(T) /\ Range(Filter(q, S)) = Range(q) \cap S}
<1>1. <<>> \in P
  <2>1. <<>> \in Seq(T) /\ Range(<<>>) = {}
    BY DEF Range
  <2> QED BY <2>1, FilterNil
<1>3. ASSUME NEW q \in Seq(T), NEW x \in T, q \in P PROVE Append(q, x) \in P
  <2>1. Append(q, x) \in Seq(T)
    OBVIOUS
  <2>2. Filter(Append(q, x), S) = IF x \in S THEN Append(Filter(q, S), x) ELSE Filter(q, S)
    BY FilterAppend
  <2>3. Filter(q, S) \in Seq(T) /\ Range(Filter(q, S)) = Range(q) \cap S
    BY <1>3
  <2>4. Append(Filter(q, S), x) \in Seq(T)
    BY <2>3
  <2>5. Range(Append(q, x)) = Range(q) \cup {x} /\ Range(Append(Filter(q, S), x)) = Range(Filter(q, S)) \cup {x}
    BY <2>3, RangeAppend
  <2>6. CASE x \in S
    BY <2>1, <2>2, <2>3, <2>4, <2>5, <2>6
  <2>7. CASE x \notin S
    BY <2>1, <2>2, <2>3, <2>5, <2>7
  <2> QED BY <2>6, <2>7
<1> HIDE DEF P
<1>4. Seq(T) \subseteq P
  BY <1>1, <1>3, AppendInduction
<1> QED BY <1>4 DEF P

(* Only what S says of the elements of s matters.                          *)
LEMMA FilterSame ==
  ASSUME NEW T, NEW S, NEW R, NEW s \in Seq(T), \A i \in 1..Len(s) : s[i] \in S <=> s[i] \in R
  PROVE  Filter(s, S) = Filter(s, R)
<1>1. PICK g : FilterSteps(s, S, g)
  BY FilterStepsExist
<1>2. FilterSteps(s, R, g)
  BY <1>1 DEF FilterSteps
<1> QED BY <1>1, <1>2, FilterIs

LEMMA FilterConcat ==
  ASSUME NEW T, NEW S, NEW s \in Seq(T), NEW t \in Seq(T)
  PROVE  Filter(s \o t, S) = Filter(s, S) \o Filter(t, S)
<1> DEFINE P == {q \in Seq(T) : Filter(s \o q, S) = Filter(s, S) \o Filter(q, S)}
<1>1. <<>> \in P
  <2>1. s \o <<>> = s /\ <<>> \in Seq(T)
    BY ConcatEmptySeq
  <2>2. Filter(s, S) \o <<>> = Filter(s, S)
    BY FilterType, ConcatEmptySeq
  <2>3. Filter(<<>>, S) = <<>>
    BY FilterNil
  <2> QED BY <2>1, <2>2, <2>3
<1>3. ASSUME NEW q \in Seq(T), NEW x \in T, q \in P PROVE Append(q, x) \in P
  <2>1. s \o Append(q, x) = Append(s \o q, x) /\ s \o q \in Seq(T) /\ Append(q, x) \in Seq(T)
    BY ConcatAppend, ConcatProperties
  <2>2. Filter(Append(s \o q, x), S) = IF x \in S THEN Append(Filter(s \o q, S), x) ELSE Filter(s \o q, S)
    <3> DEFINE u == s \o q
    <3>1. u \in Seq(T)
      BY <2>1
    <3> HIDE DEF u, P
    <3>2. Filter(Append(u, x), S) = IF x \in S THEN Append(Filter(u, S), x) ELSE Filter(u, S)
      BY <3>1, FilterAppend
    <3> QED BY <3>2 DEF u
  <2>3. Filter(Append(q, x), S) = IF x \in S THEN Append(Filter(q, S), x) ELSE Filter(q, S)
    BY FilterAppend
  <2>4. Filter(s, S) \in Seq(T) /\ Filter(q, S) \in Seq(T)
    BY FilterType
  <2>5. Filter(s, S) \o Append(Filter(q, S), x) = Append(Filter(s, S) \o Filter(q, S), x)
    BY <2>4, ConcatAppend
  <2>6. Filter(s \o q, S) = Filter(s, S) \o Filter(q, S)
    BY <1>3
  <2> QED BY <2>1, <2>2, <2>3, <2>5, <2>6
<1> HIDE DEF P
<1>4. Seq(T) \subseteq P
  BY <1>1, <1>3, AppendInduction
<1> QED BY <1>4 DEF P

(* Filter keeps a sequence of numbers in order.                            *)
Increasing(s) == \A i, j \in 1..Len(s) : i < j => s[i] < s[j]

LEMMA IncreasingAppend ==
  ASSUME NEW s \in Seq(Nat), NEW x \in Nat
  PROVE  Increasing(Append(s, x)) <=> Increasing(s) /\ \A k \in Range(s) : k < x
<1> DEFINE t == Append(s, x)
           n == Len(s)
<1>1. /\ n \in Nat /\ DOMAIN s = 1..n /\ Len(t) = n + 1 /\ t[n + 1] = x
      /\ \A i \in 1..n : t[i] = s[i] /\ s[i] \in Nat
  OBVIOUS
<1> HIDE DEF t
<1>2. ASSUME Increasing(t) PROVE Increasing(s) /\ \A k \in Range(s) : k < x
  <2>1. Increasing(s)
    BY <1>1, <1>2 DEF Increasing
  <2>2. ASSUME NEW i \in DOMAIN s PROVE s[i] < x
    <3>1. i \in 1..(n + 1) /\ n + 1 \in 1..(n + 1) /\ i < n + 1
      BY <1>1
    <3> QED BY <3>1, <1>1, <1>2 DEF Increasing
  <2> QED BY <2>1, <2>2 DEF Range
<1>3. ASSUME Increasing(s), \A k \in Range(s) : k < x PROVE Increasing(t)
  <2> SUFFICES ASSUME NEW i \in 1..(n + 1), NEW j \in 1..(n + 1), i < j PROVE t[i] < t[j]
    BY <1>1 DEF Increasing
  <2>1. i \in 1..n
    BY <1>1
  <2>2. CASE j \in 1..n
    BY <2>1, <2>2, <1>1, <1>3 DEF Increasing
  <2>3. CASE j = n + 1
    <3>1. s[i] \in Range(s)
      BY <2>1, <1>1 DEF Range
    <3>2. t[i] = s[i] /\ t[j] = x
      BY <2>1, <2>3, <1>1
    <3>3. s[i] < x
      BY <3>1, <1>3
    <3> QED BY <3>2, <3>3
  <2> QED BY <2>2, <2>3, <1>1
<1> QED BY <1>2, <1>3 DEF t

LEMMA FilterIncreasing ==
  ASSUME NEW S, NEW s \in Seq(Nat), Increasing(s)
  PROVE  Increasing(Filter(s, S))
<1> DEFINE P == {q \in Seq(Nat) : Increasing(q) => Increasing(Filter(q, S))}
<1>1. <<>> \in P
  <2>1. <<>> \in Seq(Nat) /\ Increasing(<<>>)
    BY DEF Increasing
  <2> QED BY <2>1, FilterNil
<1>2. ASSUME NEW q \in Seq(Nat), NEW x \in Nat, q \in P PROVE Append(q, x) \in P
  <2> SUFFICES ASSUME Increasing(Append(q, x)) PROVE Increasing(Filter(Append(q, x), S))
    OBVIOUS
  <2>1. Increasing(q) /\ \A k \in Range(q) : k < x
    BY IncreasingAppend
  <2>2. Increasing(Filter(q, S))
    BY <2>1, <1>2
  <2>3. Filter(Append(q, x), S) = IF x \in S THEN Append(Filter(q, S), x) ELSE Filter(q, S)
    BY FilterAppend
  <2>4. Filter(q, S) \in Seq(Nat) /\ \A k \in Range(Filter(q, S)) : k < x
    BY <2>1, FilterType
  <2>5. Increasing(Append(Filter(q, S), x))
    BY <2>2, <2>4, IncreasingAppend
  <2> QED BY <2>2, <2>3, <2>5
<1> HIDE DEF P
<1>3. Seq(Nat) \subseteq P
  BY <1>1, <1>2, AppendInduction
<1> QED BY <1>3 DEF P

-----------------------------------------------------------------------------
(* What a sequence makes of x when each element m makes f[<<x, m>>] of it. *)

Accumulated(f, x, s) ==
  LET g[n \in 0..Len(s)] == IF n = 0 THEN x ELSE f[<<g[n - 1], s[n]>>]
  IN g[Len(s)]

AccumulatedSteps(f, x, s, g) ==
  /\ g = [n \in 0..Len(s) |-> g[n]]
  /\ g[0] = x
  /\ \A n \in 1..Len(s) : g[n] = f[<<g[n - 1], s[n]>>]

LEMMA AccumulatedStepsExist ==
  ASSUME NEW T, NEW f, NEW x, NEW s \in Seq(T)
  PROVE  \E g : AccumulatedSteps(f, x, s, g)
<1> DEFINE Upto(n, g) ==
             /\ g = [k \in 0..n |-> g[k]]
             /\ g[0] = x
             /\ \A k \in 1..n : g[k] = f[<<g[k - 1], s[k]>>]
           N == {n \in Nat : \E g : Upto(n, g)}
<1>1. 0 \in N
  <2>1. Upto(0, [k \in 0..0 |-> x])
    OBVIOUS
  <2> QED BY <2>1
<1>2. ASSUME NEW n \in Nat, n \in N PROVE n + 1 \in N
  <2>1. PICK g : Upto(n, g)
    BY <1>2
  <2> DEFINE last == f[<<g[n], s[n + 1]>>]
             h == [k \in 0..(n + 1) |-> IF k = n + 1 THEN last ELSE g[k]]
  <2>2. h = [k \in 0..(n + 1) |-> h[k]] /\ h[0] = x
    BY <2>1
  <2>3. ASSUME NEW k \in 1..(n + 1) PROVE h[k] = f[<<h[k - 1], s[k]>>]
    <3>1. CASE k = n + 1
      <4>1. n \in 0..(n + 1) /\ n # n + 1 /\ n + 1 \in 0..(n + 1) /\ k - 1 = n
        BY <3>1
      <4>2. h[n + 1] = last /\ h[n] = g[n]
        BY <4>1
      <4> HIDE DEF h
      <4> QED BY <3>1, <4>1, <4>2
    <3>2. CASE k \in 1..n
      <4>1. k \in 0..(n + 1) /\ k - 1 \in 0..(n + 1) /\ k # n + 1 /\ k - 1 # n + 1
        BY <3>2
      <4>2. g[k] = f[<<g[k - 1], s[k]>>]
        BY <3>2, <2>1
      <4> QED BY <4>1, <4>2
    <3> QED BY <3>1, <3>2
  <2>4. Upto(n + 1, h)
    BY <2>2, <2>3
  <2> HIDE DEF Upto, h
  <2> QED BY <2>4
<1>3. Nat \subseteq N
  BY <1>1, <1>2, Induction
<1>4. Len(s) \in N
  BY <1>3
<1> QED BY <1>4 DEF AccumulatedSteps

LEMMA AccumulatedStepsUnique ==
  ASSUME NEW T, NEW f, NEW x, NEW s \in Seq(T),
         NEW g, AccumulatedSteps(f, x, s, g), NEW h, AccumulatedSteps(f, x, s, h)
  PROVE  g = h
<1> DEFINE N == {n \in Nat : n <= Len(s) => g[n] = h[n]}
<1>1. 0 \in N
  BY DEF AccumulatedSteps
<1>2. ASSUME NEW n \in Nat, n \in N PROVE n + 1 \in N
  <2> SUFFICES ASSUME n + 1 <= Len(s) PROVE g[n + 1] = h[n + 1]
    OBVIOUS
  <2>1. n + 1 \in 1..Len(s) /\ n <= Len(s) /\ (n + 1) - 1 = n
    OBVIOUS
  <2>2. g[n] = h[n]
    BY <1>2, <2>1
  <2>3. g[n + 1] = f[<<g[n], s[n + 1]>>] /\ h[n + 1] = f[<<h[n], s[n + 1]>>]
    BY <2>1 DEF AccumulatedSteps
  <2> QED BY <2>2, <2>3
<1>3. Nat \subseteq N
  BY <1>1, <1>2, Induction
<1>4. \A n \in 0..Len(s) : g[n] = h[n]
  BY <1>3
<1>5. g = [n \in 0..Len(s) |-> g[n]] /\ h = [n \in 0..Len(s) |-> h[n]]
  BY DEF AccumulatedSteps
<1> QED BY <1>4, <1>5

LEMMA AccumulatedIs ==
  ASSUME NEW T, NEW f, NEW x, NEW s \in Seq(T), NEW g, AccumulatedSteps(f, x, s, g)
  PROVE  Accumulated(f, x, s) = g[Len(s)]
<1> DEFINE F(d) == [n \in 0..Len(s) |-> IF n = 0 THEN x ELSE f[<<d[n - 1], s[n]>>]]
           c == CHOOSE d : d = F(d)
<1>1. g = F(g)
  <2>1. g = [n \in 0..Len(s) |-> g[n]]
    BY DEF AccumulatedSteps
  <2>2. ASSUME NEW n \in 0..Len(s) PROVE g[n] = F(g)[n]
    <3>1. CASE n = 0
      BY <3>1 DEF AccumulatedSteps
    <3>2. CASE n # 0
      <4>1. n \in 1..Len(s)
        BY <3>2
      <4>2. g[n] = f[<<g[n - 1], s[n]>>]
        BY <4>1 DEF AccumulatedSteps
      <4>3. F(g)[n] = f[<<g[n - 1], s[n]>>]
        BY <3>2
      <4> QED BY <4>2, <4>3
    <3> QED BY <3>1, <3>2
  <2> QED BY <2>1, <2>2
<1>2. c = F(c)
  BY <1>1
<1>3. Accumulated(f, x, s) = c[Len(s)]
  BY DEF Accumulated
<1> HIDE DEF c
<1>4. AccumulatedSteps(f, x, s, c)
  <2>1. Len(s) \in Nat
    OBVIOUS
  <2>2. c = [n \in 0..Len(s) |-> c[n]]
    BY <1>2
  <2>3. c[0] = x
    BY <1>2, <2>1
  <2>4. ASSUME NEW n \in 1..Len(s) PROVE c[n] = f[<<c[n - 1], s[n]>>]
    <3>1. n \in 0..Len(s) /\ n # 0
      BY <2>1
    <3>2. F(c)[n] = f[<<c[n - 1], s[n]>>]
      BY <3>1
    <3> HIDE DEF F
    <3> QED BY <1>2, <3>2
  <2> QED BY <2>2, <2>3, <2>4 DEF AccumulatedSteps
<1>5. c = g
  BY <1>4, AccumulatedStepsUnique
<1> QED BY <1>3, <1>5

LEMMA AccumulatedLast ==
  ASSUME NEW T, NEW f, NEW x, NEW s \in Seq(T)
  PROVE  \E g : AccumulatedSteps(f, x, s, g) /\ Accumulated(f, x, s) = g[Len(s)]
<1>1. PICK g : AccumulatedSteps(f, x, s, g)
  BY AccumulatedStepsExist
<1>2. Accumulated(f, x, s) = g[Len(s)]
  BY <1>1, AccumulatedIs
<1> QED BY <1>1, <1>2

LEMMA AccumulatedNone ==
  ASSUME NEW T, NEW f, NEW x, NEW s \in Seq(T)
  PROVE  Len(s) = 0 => Accumulated(f, x, s) = x
<1>1. PICK g : AccumulatedSteps(f, x, s, g) /\ Accumulated(f, x, s) = g[Len(s)]
  BY AccumulatedLast
<1>2. g[0] = x
  BY <1>1 DEF AccumulatedSteps
<1> QED BY <1>1, <1>2

LEMMA AccumulatedNil ==
  ASSUME NEW f, NEW x
  PROVE  Accumulated(f, x, <<>>) = x
<1>1. PICK q : q \in Seq(Nat) /\ q = <<>>
  <2>1. <<>> \in Seq(Nat)
    OBVIOUS
  <2> QED BY <2>1
<1>2. q \in Seq(Nat) /\ Len(q) = 0
  BY <1>1
<1>3. Accumulated(f, x, q) = x
  BY <1>2, AccumulatedNone
<1> QED BY <1>1, <1>3

LEMMA AccumulatedAppend ==
  ASSUME NEW T, NEW f, NEW x, NEW s \in Seq(T), NEW m \in T
  PROVE  Accumulated(f, x, Append(s, m)) = f[<<Accumulated(f, x, s), m>>]
<1> DEFINE t == Append(s, m)
           n == Len(s)
<1>1. t \in Seq(T) /\ n \in Nat /\ Len(t) = n + 1 /\ t[n + 1] = m /\ \A k \in 1..n : t[k] = s[k]
  OBVIOUS
<1> HIDE DEF t
<1>2. PICK h : AccumulatedSteps(f, x, t, h)
  BY <1>1, AccumulatedStepsExist
<1> DEFINE g == [k \in 0..n |-> h[k]]
<1>3. AccumulatedSteps(f, x, s, g)
  <2>1. g[0] = x
    BY <1>1, <1>2 DEF AccumulatedSteps
  <2>2. ASSUME NEW k \in 1..n PROVE g[k] = f[<<g[k - 1], s[k]>>]
    <3>1. k \in 1..Len(t) /\ k \in 0..n /\ k - 1 \in 0..n /\ t[k] = s[k]
      BY <1>1
    <3>2. h[k] = f[<<h[k - 1], t[k]>>]
      BY <3>1, <1>2 DEF AccumulatedSteps
    <3> QED BY <3>1, <3>2
  <2> QED BY <2>1, <2>2 DEF AccumulatedSteps
<1>4. g[n] = h[n] /\ (n + 1) - 1 = n /\ n + 1 \in 1..Len(t)
  BY <1>1
<1> HIDE DEF g
<1>5. Accumulated(f, x, s) = g[n]
  BY <1>3, AccumulatedIs
<1>6. Accumulated(f, x, t) = h[n + 1]
  BY <1>1, <1>2, AccumulatedIs
<1>7. h[n + 1] = f[<<h[(n + 1) - 1], t[n + 1]>>]
  BY <1>2, <1>4 DEF AccumulatedSteps
<1> QED BY <1>1, <1>4, <1>5, <1>6, <1>7 DEF t

LEMMA AccumulatedOne ==
  ASSUME NEW T, NEW f, NEW x, NEW a \in T
  PROVE  Accumulated(f, x, <<a>>) = f[<<x, a>>]
<1>1. PICK q : q \in Seq(T) /\ Len(q) = 0 /\ Append(q, a) = <<a>>
  <2>1. <<>> \in Seq(T) /\ Len(<<>>) = 0 /\ Append(<<>>, a) = <<a>>
    OBVIOUS
  <2> QED BY <2>1
<1>2. q \in Seq(T)
  BY <1>1
<1>3. Accumulated(f, x, q) = x
  BY <1>1, AccumulatedNone
<1>4. Accumulated(f, x, Append(q, a)) = f[<<Accumulated(f, x, q), a>>]
  BY <1>2, AccumulatedAppend
<1> QED BY <1>1, <1>3, <1>4

LEMMA AccumulatedConcat ==
  ASSUME NEW T, NEW f, NEW x, NEW s \in Seq(T), NEW t \in Seq(T)
  PROVE  Accumulated(f, x, s \o t) = Accumulated(f, Accumulated(f, x, s), t)
<1> DEFINE y == Accumulated(f, x, s)
           P == {q \in Seq(T) : Accumulated(f, x, s \o q) = Accumulated(f, y, q)}
<1>1. <<>> \in P
  <2>1. s \o <<>> = s /\ <<>> \in Seq(T)
    BY ConcatEmptySeq
  <2>2. Accumulated(f, y, <<>>) = y
    BY AccumulatedNil
  <2> QED BY <2>1, <2>2
<1>2. ASSUME NEW q \in Seq(T), NEW m \in T, q \in P PROVE Append(q, m) \in P
  <2>1. Append(q, m) \in Seq(T) /\ s \o q \in Seq(T)
    BY ConcatProperties
  <2>2. s \o Append(q, m) = Append(s \o q, m)
    BY ConcatAppend
  <2> DEFINE w == s \o q
  <2>3. w \in Seq(T) /\ Accumulated(f, x, w) = Accumulated(f, y, q)
    BY <2>1, <1>2
  <2> HIDE DEF w, y
  <2>4. Accumulated(f, x, Append(w, m)) = f[<<Accumulated(f, x, w), m>>]
    BY <2>3, AccumulatedAppend
  <2>5. Accumulated(f, y, Append(q, m)) = f[<<Accumulated(f, y, q), m>>]
    BY AccumulatedAppend
  <2>6. Accumulated(f, x, s \o Append(q, m)) = Accumulated(f, y, Append(q, m))
    BY <2>2, <2>3, <2>4, <2>5 DEF w
  <2> QED BY <2>1, <2>6
<1> HIDE DEF P
<1>3. Seq(T) \subseteq P
  BY <1>1, <1>2, AppendInduction
<1> QED BY <1>3 DEF P

(* The first element first.                                                *)
LEMMA AccumulatedHead ==
  ASSUME NEW T, NEW f, NEW x, NEW s \in Seq(T), s # <<>>
  PROVE  Accumulated(f, f[<<x, Head(s)>>], Tail(s)) = Accumulated(f, x, s)
<1> DEFINE a == Head(s)
           t == Tail(s)
<1>1. a \in T /\ t \in Seq(T) /\ <<a>> \in Seq(T) /\ <<a>> \o t = s
  <2>1. a \in T /\ t \in Seq(T) /\ <<a>> \in Seq(T)
    OBVIOUS
  <2>2. <<a>> \o t = s
    BY HeadTailProperties, <2>1
  <2> QED BY <2>1, <2>2
<1> HIDE DEF a, t
<1>2. Accumulated(f, x, <<a>>) = f[<<x, a>>]
  BY <1>1, AccumulatedOne
<1>3. Accumulated(f, x, <<a>> \o t) = Accumulated(f, Accumulated(f, x, <<a>>), t)
  <2> DEFINE u == <<a>>
  <2>1. u \in Seq(T)
    BY <1>1
  <2> HIDE DEF u
  <2>2. Accumulated(f, x, u \o t) = Accumulated(f, Accumulated(f, x, u), t)
    BY <1>1, <2>1, AccumulatedConcat
  <2> QED BY <2>2 DEF u
<1> QED BY <1>1, <1>2, <1>3 DEF a, t

(* A relation that every element keeps is kept by a sequence.              *)
LEMMA AccumulatedRelated ==
  ASSUME NEW T, NEW R, NEW f, NEW g, NEW x, NEW y, <<x, y>> \in R,
         \A a, b : \A m \in T : <<a, b>> \in R => <<f[<<a, m>>], g[<<b, m>>]>> \in R,
         NEW s \in Seq(T)
  PROVE  <<Accumulated(f, x, s), Accumulated(g, y, s)>> \in R
<1> DEFINE P == {q \in Seq(T) : <<Accumulated(f, x, q), Accumulated(g, y, q)>> \in R}
<1>1. <<>> \in P
  <2>1. Accumulated(f, x, <<>>) = x /\ Accumulated(g, y, <<>>) = y
    BY AccumulatedNil
  <2> QED BY <2>1
<1>2. ASSUME NEW q \in Seq(T), NEW m \in T, q \in P PROVE Append(q, m) \in P
  <2>1. Accumulated(f, x, Append(q, m)) = f[<<Accumulated(f, x, q), m>>]
    BY AccumulatedAppend
  <2>2. Accumulated(g, y, Append(q, m)) = g[<<Accumulated(g, y, q), m>>]
    BY AccumulatedAppend
  <2> QED BY <2>1, <2>2, <1>2
<1> HIDE DEF P
<1>3. Seq(T) \subseteq P
  BY <1>1, <1>2, AppendInduction
<1> QED BY <1>3 DEF P

=============================================================================
