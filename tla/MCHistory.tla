------------------------------- MODULE MCHistory -------------------------------
(* The instances of MCReconciler, with the history of ReconcilerHistory. *)
EXTENDS MCReconciler, ReconcilerHistory
===============================================================================
