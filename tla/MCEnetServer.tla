---------------------------- MODULE MCEnetServer ----------------------------
(* Instances of EnetServer for TLC.                                        *)
EXTENDS EnetServer, TLC

CONSTANTS c1, c2

MCTwoConns == {c1, c2}
Symmetry == Permutations(MCTwoConns)

=============================================================================
