---------------------------- MODULE MCUploadPool ----------------------------
(* Instances of UploadPool for TLC. *)
EXTENDS UploadPool, TLC

Symmetry ==
  Permutations(Files) \cup Permutations(Threads)
    \cup Permutations(Contents) \cup Permutations(Statuses)
=============================================================================
