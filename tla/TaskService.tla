---------------------------- MODULE TaskService ----------------------------
(***************************************************************************)
(* What a ThreadPool promises to its users: a task it accepts begins       *)
(* exactly once, on some thread, and the threads retire only after the     *)
(* service has closed and everything accepted has begun.                   *)
(***************************************************************************)
EXTENDS Naturals

CONSTANT Jobs

VARIABLES open, accepted,
          executed,   (* job -> how many times it has begun *)
          retired

vars == <<open, accepted, executed, retired>>

Init == /\ open = TRUE
        /\ accepted = {}
        /\ executed = [j \in Jobs |-> 0]
        /\ retired = FALSE

Accept(j) == /\ open
             /\ j \notin accepted
             /\ accepted' = accepted \union {j}
             /\ UNCHANGED <<open, executed, retired>>

Begin(j) == /\ ~retired
            /\ j \in accepted
            /\ executed[j] = 0
            /\ executed' = [executed EXCEPT ![j] = @ + 1]
            /\ UNCHANGED <<open, accepted, retired>>

Close == /\ open
         /\ open' = FALSE
         /\ UNCHANGED <<accepted, executed, retired>>

Retire == /\ ~open
          /\ \A j \in accepted : executed[j] # 0
          /\ retired' = TRUE
          /\ UNCHANGED <<open, accepted, executed>>

Next == (\E j \in Jobs : Accept(j) \/ Begin(j)) \/ Close \/ Retire

Spec == Init /\ [][Next]_vars
=============================================================================
