---------------------------- MODULE MCCombinedSync -----------------------------
(* CombinedSync for TLC, on the graphs of MCMempoolSync. *)
EXTENDS CombinedSync, MCMempoolSync
================================================================================
