-------------------------- MODULE MCAnalyticsStore --------------------------
(* AnalyticsStore with months of two days. *)
EXTENDS AnalyticsStore
=============================================================================
