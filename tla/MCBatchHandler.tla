--------------------------- MODULE MCBatchHandler ---------------------------
(* Instances of BatchHandler for TLC. *)
EXTENDS BatchHandler, TLC

Symmetry == Permutations(Workers)
=============================================================================
