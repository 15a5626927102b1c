--------------------------- MODULE MCDatagramPath ---------------------------
(***************************************************************************)
(* Instances of DatagramPath for TLC.                                      *)
(***************************************************************************)
EXTENDS DatagramPath, TLC

Symmetry == Permutations(Flows) \cup Permutations(Keys)

NumbersUpTo3 == 1 .. 3

=============================================================================
