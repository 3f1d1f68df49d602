-------------------------- MODULE MCQuotaReconcile --------------------------
(* Instances of QuotaReconcile for TLC. *)
EXTENDS QuotaReconcile, TLC

Symmetry == Permutations(Leases) \cup Permutations(Reconcilers)
=============================================================================
