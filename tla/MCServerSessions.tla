-------------------------- MODULE MCServerSessions --------------------------
(* Instances of ServerSessions for TLC. *)
EXTENDS ServerSessions, TLC

(* The workers of the pool are interchangeable. *)
Symmetric == Permutations(Workers)

CommandsOf == [back \in BOOLEAN |-> IF back THEN 0 ELSE 1]
=============================================================================
