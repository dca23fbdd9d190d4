---------------------------- MODULE MCLinkCache ----------------------------
(* LinkCache on small instances: several writers against one visitor, and    *)
(* two visitors, each in a process of its own.                               *)
EXTENDS LinkCache, TLC

CONSTANTS v1, v2, p1, p2

OneVisitor == v1 :> p1
TwoVisitors == (v1 :> p1) @@ (v2 :> p2)
=============================================================================
