--------------------------- MODULE MCSearchKernel ---------------------------
(***************************************************************************)
(* Instances of SearchKernel for TLC.                                      *)
(***************************************************************************)
EXTENDS SearchKernel

\* Empty, a whole word, and a tail of one lane in a third block.
SomeLens == {0, 4, 5}

=============================================================================
