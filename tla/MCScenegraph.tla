---------------------------- MODULE MCScenegraph ----------------------------
(* Instances of Scenegraph for TLC: an entity type with one registered     *)
(* child (as Player and PlayerText in the demos) and one without.          *)
EXTENDS Scenegraph, TLC

CONSTANTS r1, r2

MCRemotes == {r1, r2}
MCOneRemote == {r1}
MCNone == {}
MCTypes == {"player", "text"}
MCFlatTypes == {"text"}
MCChildren == [t \in MCTypes |-> IF t = "player" THEN <<"text">> ELSE <<>>]
MCNoChildren == [t \in MCFlatTypes |-> <<>>]

Symmetry == Permutations({r1, r2})

=============================================================================
