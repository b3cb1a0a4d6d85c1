-------------------------- MODULE MCTurboQuantIndex --------------------------
(***************************************************************************)
(* Instance of TurboQuantIndex for TLC.  The two valid vectors, and the    *)
(* threads, are interchangeable: no definition tells them apart.           *)
(***************************************************************************)
EXTENDS TurboQuantIndex, TLC

Symmetry == Permutations(Vectors \ BadVectors) \cup Permutations(Threads)

=============================================================================
