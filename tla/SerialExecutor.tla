--------------------------- MODULE SerialExecutor ---------------------------
(***************************************************************************)
(* What a strand promises to the code that uses it (ServerNetworkSystem    *)
(* and its SessionContext): the tasks accepted from one thread begin in    *)
(* the order they were accepted, each exactly once, and, until the pool    *)
(* has refused to run the strand, no task begins before the previous one,  *)
(* whoever submitted it, has returned.  A pool that refuses (closed, or    *)
(* out of memory) leaves the tasks to the threads that submit: from then   *)
(* on they may overlap and nest, but still begin in order and once.        *)
(* Nothing is promised about the order of tasks of different threads.      *)
(***************************************************************************)
EXTENDS Naturals, Sequences

CONSTANTS Threads,   (* the threads that hand tasks to the executor or run them *)
          Numbers    (* the numbers a thread may give to its tasks              *)

VARIABLES waiting,   (* thread -> the numbers of its accepted tasks, oldest first *)
          running,   (* thread -> the tasks <<submitter, number>> it is in the    *)
                     (* middle of, the innermost first                            *)
          refused    (* the pool has refused to run the executor                  *)

vars == <<waiting, running, refused>>

Init == /\ waiting = [t \in Threads |-> <<>>]
        /\ running = [t \in Threads |-> <<>>]
        /\ refused = FALSE

(* A thread numbers its tasks upwards. *)
Accept(t, n) ==
    /\ \A i \in DOMAIN waiting[t] : waiting[t][i] < n
    /\ waiting' = [waiting EXCEPT ![t] = Append(@, n)]
    /\ UNCHANGED <<running, refused>>

Refuse ==
    /\ ~refused
    /\ refused' = TRUE
    /\ UNCHANGED <<waiting, running>>

(* Thread t begins the oldest task of p. *)
Begin(t, p) ==
    /\ waiting[p] # <<>>
    /\ ~refused => \A u \in Threads : running[u] = <<>>
    /\ running' = [running EXCEPT ![t] = <<<<p, Head(waiting[p])>>>> \o @]
    /\ waiting' = [waiting EXCEPT ![p] = Tail(@)]
    /\ UNCHANGED refused

Return(t) ==
    /\ running[t] # <<>>
    /\ running' = [running EXCEPT ![t] = Tail(@)]
    /\ UNCHANGED <<waiting, refused>>

Next == \/ \E t \in Threads, n \in Numbers : Accept(t, n)
        \/ \E t, p \in Threads : Begin(t, p)
        \/ \E t \in Threads : Return(t)
        \/ Refuse

Spec == Init /\ [][Next]_vars
=============================================================================
