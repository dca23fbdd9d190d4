--------------------------- MODULE MCStreamWorker ---------------------------
(* StreamWorker on small instances. *)
EXTENDS StreamWorker, TLC

Symmetry == Permutations(Job)
=============================================================================
