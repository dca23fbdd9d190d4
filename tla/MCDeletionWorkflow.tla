------------------------- MODULE MCDeletionWorkflow -------------------------
(* DeletionWorkflow on small instances. *)
EXTENDS DeletionWorkflow
=============================================================================
