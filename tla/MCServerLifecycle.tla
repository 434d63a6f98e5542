------------------------- MODULE MCServerLifecycle -------------------------
(* Instances of ServerLifecycle for TLC. *)
EXTENDS ServerLifecycle, TLC

(* Callers are alike, and so are workers; for runs of invariants only. *)
Symmetry == Permutations(Callers) \union Permutations(PoolWorkers)
=============================================================================
