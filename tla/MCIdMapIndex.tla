---------------------------- MODULE MCIdMapIndex ----------------------------
(***************************************************************************)
(* Instance of IdMapIndex for TLC.                                         *)
(***************************************************************************)
EXTENDS IdMapIndex, TLC

Symmetry == Permutations(Ids) \cup Permutations(Vectors \ BadVectors)

=============================================================================
