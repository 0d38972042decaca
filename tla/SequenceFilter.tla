--------------------------- MODULE SequenceFilter ---------------------------
(***************************************************************************)
(* SelectSeq with a set in place of an operator, and defined where the     *)
(* provers can see it.                                                     *)
(***************************************************************************)
EXTENDS Integers, Sequences

(* The elements of s that are in S, in their order.                        *)
Filter(s, S) ==
  LET f[n \in 0..Len(s)] ==
        IF n = 0 THEN <<>>
        ELSE IF s[n] \in S THEN Append(f[n - 1], s[n]) ELSE f[n - 1]
  IN f[Len(s)]

=============================================================================
