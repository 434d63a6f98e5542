-------------------------- MODULE MCClientNetwork --------------------------
(* Instances of ClientNetwork for TLC. *)
EXTENDS ClientNetwork, TLC

(* Callers are interchangeable, and so are workers.                         *)
Symmetry == Permutations(Callers) \union Permutations(PoolWorkers)

(* Once calls have met that do not mix, the promises about calls are off and *)
(* fewer calls will do.                                                      *)
CONSTANT MaxCrossed       (* bound: starts and attempts once calls crossed   *)
CallsBound == crossed => starts + tried <= MaxCrossed
=============================================================================
