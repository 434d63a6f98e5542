---------------------------- MODULE MCTaskStrand ----------------------------
(* Instances of TaskStrand for TLC: two memories, and the lost task.         *)
EXTENDS TaskStrand, TLC

(* Two callers, or two workers, are interchangeable. *)
Symmetric == Permutations(Callers) \union Permutations(Workers)
=============================================================================
