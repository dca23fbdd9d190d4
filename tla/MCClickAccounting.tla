------------------------- MODULE MCClickAccounting -------------------------
(* ClickAccounting on small instances. *)
EXTENDS ClickAccounting, TLC

Symmetry == Permutations(Click)
=============================================================================
