----------------------------- MODULE TaskStrand -----------------------------
(***************************************************************************)
(* TaskStrand (include/sculk/protocol/connection/thread/TaskStrand.hpp):   *)
(* a queue of tasks drained by at most one closure handed to a ThreadPool, *)
(* guarded by the flag mDrainScheduled.  One action per atomic access.     *)
(*                                                                         *)
(* mTasks is a moodycamel::ConcurrentQueue: one FIFO per enqueuing thread, *)
(* and try_dequeue may serve them in any order.  A thread may enqueue from *)
(* outside (pc "idle") or from inside a task it is running (pc "run"); in  *)
(* the second case the task waits on the thread's stack until enqueue, and *)
(* the drain enqueue may perform in place, returns.                        *)
(*                                                                         *)
(* The pool is reduced to what submit promises: a drain closure it accepts *)
(* is queued and some worker later calls it; submit returns false once the *)
(* pool is closed, and on an open pool when the worker's queue cannot      *)
(* allocate (ThreadPool!SubmitEnqueueFails).                               *)
(*                                                                         *)
(* mDrainScheduled.store(false, release) is a plain store on x86.  With    *)
(* StoreBuffers it may sit in the thread's store buffer while the thread's *)
(* later loads are performed, until the thread's next read-modify-write.   *)
(***************************************************************************)
EXTENDS Integers, Sequences, FiniteSets

CONSTANTS Callers,       (* threads outside the pool that call enqueue         *)
          Workers,       (* threads of the pool                                *)
          Limits,        (* values setMaxPendingTasks is called with           *)
          Policies,      (* BOOLEAN: a backpressure policy may come and go     *)
          MaxCalls,      (* bound: calls of enqueue by one thread              *)
          MayRefuse,     (* whether the pool may stop, or refuse while open    *)
          StoreBuffers   (* whether plain stores may be delayed (x86-TSO)      *)

ASSUME ThreadsAssumption ==
    /\ IsFiniteSet(Callers) /\ IsFiniteSet(Workers)
    /\ Callers \intersect Workers = {}
(* A limit is a size_t: one is the largest. *)
ASSUME LimitsAssumption ==
    Limits \subseteq Nat /\ \E m \in Limits : \A n \in Limits : n <= m
ASSUME PolicyAssumption  == Policies # {} /\ Policies \subseteq BOOLEAN
ASSUME BoundAssumption   == MaxCalls \in Nat
ASSUME SwitchAssumption  == MayRefuse \in BOOLEAN /\ StoreBuffers \in BOOLEAN

Threads == Callers \union Workers

VARIABLES mTasks,               (* thread -> numbers of its tasks in the queue  *)
          mMaxPendingTasks, mPendingTasks, mDrainScheduled,
          mBackpressurePolicy,  (* TRUE: a policy is set                        *)
          accepting,            (* the pool's mAcceptingSubmissions             *)
          refused,              (* history: the pool has refused a drain        *)
          poolDrains,           (* drain closures queued in the pool            *)
          storeBuffer,          (* thread -> delayed stores of false            *)
          pc,                   (* thread -> next statement                     *)
          pending,              (* thread -> the local of enqueue               *)
          task,                 (* thread -> the local of drain, <<>> when none *)
          stack,                (* thread -> tasks suspended in a nested enqueue*)
          calls                 (* thread -> calls of enqueue so far            *)

locals == <<pending, task, stack, calls>>
config == <<mMaxPendingTasks, mBackpressurePolicy, accepting, refused>>
vars   == <<mTasks, mPendingTasks, mDrainScheduled, poolDrains, storeBuffer, pc,
            locals, config>>

Init ==
    /\ mTasks = [t \in Threads |-> <<>>]
    /\ mMaxPendingTasks \in Limits
    /\ mPendingTasks = 0
    /\ mDrainScheduled = FALSE
    /\ mBackpressurePolicy \in Policies
    /\ accepting = TRUE
    /\ refused = FALSE
    /\ poolDrains = 0
    /\ storeBuffer = [t \in Threads |-> 0]
    /\ pc = [t \in Threads |-> "idle"]
    /\ pending = [t \in Threads |-> 0]
    /\ task = [t \in Threads |-> <<>>]
    /\ stack = [t \in Threads |-> <<>>]
    /\ calls = [t \in Threads |-> 0]

-----------------------------------------------------------------------------
At(t, l)  == pc[t] = l
Goto(t, l) == pc' = [pc EXCEPT ![t] = l]

(* A read-modify-write waits for the thread's delayed stores. *)
Fenced(t) == storeBuffer[t] = 0

(* The call of enqueue, or of drain, returns: to the suspended task that    *)
(* called enqueue, or out of the strand.                                    *)
Return(t) ==
    IF stack[t] = <<>>
    THEN /\ Goto(t, "idle")
         /\ task' = [task EXCEPT ![t] = <<>>]
         /\ UNCHANGED stack
    ELSE /\ Goto(t, "run")
         /\ task' = [task EXCEPT ![t] = Head(stack[t])]
         /\ stack' = [stack EXCEPT ![t] = Tail(@)]

StoreFlag(t) ==
    IF StoreBuffers
    THEN /\ storeBuffer' = [storeBuffer EXCEPT ![t] = @ + 1]
         /\ UNCHANGED mDrainScheduled
    ELSE /\ mDrainScheduled' = FALSE
         /\ UNCHANGED storeBuffer

-----------------------------------------------------------------------------
(* The definitions named <action>_<bug> are not part of the machine: each is *)
(* a plausible mistake in the action of that name, used to show that a      *)
(* property notices it.                                                     *)

(* fetch_add's old value is compared with the limit. *)
EnqueueCount_OldValue(t) ==
    /\ pc[t] \in {"idle", "run"}
    /\ Fenced(t)
    /\ calls[t] < MaxCalls
    /\ calls' = [calls EXCEPT ![t] = @ + 1]
    /\ mPendingTasks' = mPendingTasks + 1
    /\ pending' = [pending EXCEPT ![t] = mPendingTasks]
    /\ stack' = IF At(t, "run") THEN [stack EXCEPT ![t] = <<task[t]>> \o @] ELSE stack
    /\ Goto(t, "limit")
    /\ UNCHANGED <<mTasks, mDrainScheduled, poolDrains, storeBuffer, task, config>>

(* enqueue: the pending counter is raised first ...                        *)
EnqueueCount(t) ==
    /\ pc[t] \in {"idle", "run"}
    /\ Fenced(t)
    /\ calls[t] < MaxCalls
    /\ calls' = [calls EXCEPT ![t] = @ + 1]
    /\ mPendingTasks' = mPendingTasks + 1
    /\ pending' = [pending EXCEPT ![t] = mPendingTasks + 1]
    /\ stack' = IF At(t, "run") THEN [stack EXCEPT ![t] = <<task[t]>> \o @] ELSE stack
    /\ Goto(t, "limit")
    /\ UNCHANGED <<mTasks, mDrainScheduled, poolDrains, storeBuffer, task, config>>

(* ... then compared with the limit of the moment (the local is dead from   *)
(* there on and is reset) ...                                              *)
EnqueueLimit(t) ==
    /\ At(t, "limit")
    /\ Goto(t, IF pending[t] > mMaxPendingTasks THEN "policy" ELSE "push")
    /\ pending' = [pending EXCEPT ![t] = 0]
    /\ UNCHANGED <<mTasks, mPendingTasks, mDrainScheduled, poolDrains, storeBuffer,
                   task, stack, calls, config>>

(* ... and above it the policy, if any, makes the caller sleep and go on.  *)
EnqueuePolicy(t) ==
    /\ At(t, "policy")
    /\ IF mBackpressurePolicy
       THEN Goto(t, "push") /\ UNCHANGED <<mPendingTasks, task, stack>>
       ELSE mPendingTasks' = mPendingTasks - 1 /\ Return(t)
    /\ UNCHANGED <<mTasks, mDrainScheduled, poolDrains, storeBuffer, pending, calls, config>>

EnqueuePush(t) ==
    /\ At(t, "push")
    /\ mTasks' = [mTasks EXCEPT ![t] = Append(@, calls[t])]
    /\ Goto(t, "schedule")
    /\ UNCHANGED <<mPendingTasks, mDrainScheduled, poolDrains, storeBuffer, locals, config>>

(* The failed call stays counted. *)
EnqueuePushFails_StaysCounted(t) ==
    /\ At(t, "push")
    /\ Return(t)
    /\ UNCHANGED <<mTasks, mPendingTasks, mDrainScheduled, poolDrains, storeBuffer,
                   pending, calls, config>>

(* The queue cannot allocate a block: the call is undone.                  *)
EnqueuePushFails(t) ==
    /\ At(t, "push")
    /\ mPendingTasks' = mPendingTasks - 1
    /\ Return(t)
    /\ UNCHANGED <<mTasks, mDrainScheduled, poolDrains, storeBuffer, pending, calls, config>>

-----------------------------------------------------------------------------
(* The flag is set without looking at its old value. *)
ScheduleExchange_NoTest(t) ==
    /\ At(t, "schedule")
    /\ Fenced(t)
    /\ mDrainScheduled' = TRUE
    /\ Goto(t, "submit")
    /\ UNCHANGED <<mTasks, mPendingTasks, poolDrains, storeBuffer, locals, config>>

(* scheduleDrain *)
ScheduleExchange(t) ==
    /\ At(t, "schedule")
    /\ Fenced(t)
    /\ mDrainScheduled' = TRUE
    /\ IF mDrainScheduled
       THEN Return(t)
       ELSE Goto(t, "submit") /\ UNCHANGED <<task, stack>>
    /\ UNCHANGED <<mTasks, mPendingTasks, poolDrains, storeBuffer, pending, calls, config>>

(* A refused closure is forgotten. *)
ScheduleSubmit_NoFallback(t) ==
    /\ At(t, "submit")
    /\ Return(t)
    /\ \/ accepting /\ poolDrains' = poolDrains + 1 /\ UNCHANGED refused
       \/ (accepting => MayRefuse) /\ refused' = TRUE /\ UNCHANGED poolDrains
    /\ UNCHANGED <<mTasks, mPendingTasks, mDrainScheduled, storeBuffer, pending, calls,
                   mMaxPendingTasks, mBackpressurePolicy, accepting>>

(* The pool queues the closure, or refuses it, which an open pool may too.  *)
ScheduleSubmit(t) ==
    /\ At(t, "submit")
    /\ \/ /\ accepting
          /\ poolDrains' = poolDrains + 1
          /\ Return(t)
          /\ UNCHANGED refused
       \/ /\ accepting => MayRefuse
          /\ refused' = TRUE
          /\ Goto(t, "unflag")
          /\ UNCHANGED <<poolDrains, task, stack>>
    /\ UNCHANGED <<mTasks, mPendingTasks, mDrainScheduled, storeBuffer, pending, calls,
                   mMaxPendingTasks, mBackpressurePolicy, accepting>>

(* After a refusal the flag is given up and this thread drains in place. *)
ScheduleUnflag(t) ==
    /\ At(t, "unflag")
    /\ StoreFlag(t)
    /\ Goto(t, "dequeue")
    /\ UNCHANGED <<mTasks, mPendingTasks, poolDrains, locals, config>>

(* A worker drains without having been handed a closure. *)
WorkerTake_NoGuard(w) ==
    /\ At(w, "idle")
    /\ Fenced(w)
    /\ poolDrains' = poolDrains - 1
    /\ Goto(w, "dequeue")
    /\ UNCHANGED <<mTasks, mPendingTasks, mDrainScheduled, storeBuffer, locals, config>>

(* A worker takes the drain closure off the pool and calls it. *)
WorkerTake(w) ==
    /\ At(w, "idle")
    /\ Fenced(w)
    /\ poolDrains > 0
    /\ poolDrains' = poolDrains - 1
    /\ Goto(w, "dequeue")
    /\ UNCHANGED <<mTasks, mPendingTasks, mDrainScheduled, storeBuffer, locals, config>>

-----------------------------------------------------------------------------
(* drain: the inner loop *)
QueueEmpty == \A p \in Threads : mTasks[p] = <<>>

DrainDequeue(t, p) ==
    /\ At(t, "dequeue")
    /\ Fenced(t)
    /\ mTasks[p] # <<>>
    /\ mTasks' = [mTasks EXCEPT ![p] = Tail(@)]
    /\ task' = [task EXCEPT ![t] = <<p, Head(mTasks[p])>>]
    /\ Goto(t, "run")
    /\ UNCHANGED <<mPendingTasks, mDrainScheduled, poolDrains, storeBuffer,
                   pending, stack, calls, config>>

DrainNone(t) ==
    /\ At(t, "dequeue")
    /\ QueueEmpty
    /\ Goto(t, "clear")
    /\ UNCHANGED <<mTasks, mPendingTasks, mDrainScheduled, poolDrains, storeBuffer,
                   locals, config>>

(* The task returns and is counted off. *)
DrainFinish(t) ==
    /\ At(t, "run")
    /\ Fenced(t)
    /\ mPendingTasks' = mPendingTasks - 1
    /\ task' = [task EXCEPT ![t] = <<>>]
    /\ Goto(t, "dequeue")
    /\ UNCHANGED <<mTasks, mDrainScheduled, poolDrains, storeBuffer,
                   pending, stack, calls, config>>

(* drain: giving up the flag, looking once more, taking it back *)
DrainClear(t) ==
    /\ At(t, "clear")
    /\ StoreFlag(t)
    /\ Goto(t, "size")
    /\ UNCHANGED <<mTasks, mPendingTasks, poolDrains, locals, config>>

(* drain ends without a second look at the queue. *)
DrainSize_NoSecondLook(t) ==
    /\ At(t, "size")
    /\ Return(t)
    /\ UNCHANGED <<mTasks, mPendingTasks, mDrainScheduled, poolDrains, storeBuffer,
                   pending, calls, config>>

DrainSize(t) ==
    /\ At(t, "size")
    /\ IF QueueEmpty
       THEN Return(t)
       ELSE Goto(t, "retake") /\ UNCHANGED <<task, stack>>
    /\ UNCHANGED <<mTasks, mPendingTasks, mDrainScheduled, poolDrains, storeBuffer,
                   pending, calls, config>>

(* The flag is taken back, and left set, without draining. *)
DrainRetake_Leaves(t) ==
    /\ At(t, "retake")
    /\ Fenced(t)
    /\ mDrainScheduled' = TRUE
    /\ Return(t)
    /\ UNCHANGED <<mTasks, mPendingTasks, poolDrains, storeBuffer, pending, calls, config>>

(* The drain goes on although somebody else took the flag. *)
DrainRetake_NoTest(t) ==
    /\ At(t, "retake")
    /\ Fenced(t)
    /\ mDrainScheduled' = TRUE
    /\ Goto(t, "dequeue")
    /\ UNCHANGED <<mTasks, mPendingTasks, poolDrains, storeBuffer, locals, config>>

DrainRetake(t) ==
    /\ At(t, "retake")
    /\ Fenced(t)
    /\ mDrainScheduled' = TRUE
    /\ IF mDrainScheduled
       THEN Return(t)
       ELSE Goto(t, "dequeue") /\ UNCHANGED <<task, stack>>
    /\ UNCHANGED <<mTasks, mPendingTasks, poolDrains, storeBuffer, pending, calls, config>>

-----------------------------------------------------------------------------
(* The oldest delayed store of the thread reaches memory. *)
CommitStore(t) ==
    /\ storeBuffer[t] > 0
    /\ storeBuffer' = [storeBuffer EXCEPT ![t] = @ - 1]
    /\ mDrainScheduled' = FALSE
    /\ UNCHANGED <<mTasks, mPendingTasks, poolDrains, pc, locals, config>>

state == <<mTasks, mPendingTasks, mDrainScheduled, poolDrains, storeBuffer, pc, locals>>

SetMaxPendingTasks(n) ==
    /\ mMaxPendingTasks' = n
    /\ UNCHANGED <<state, mBackpressurePolicy, accepting, refused>>

SetBackpressurePolicy(b) ==
    /\ mBackpressurePolicy' = b
    /\ UNCHANGED <<state, mMaxPendingTasks, accepting, refused>>

PoolStop ==
    /\ MayRefuse
    /\ accepting
    /\ accepting' = FALSE
    /\ UNCHANGED <<state, mMaxPendingTasks, mBackpressurePolicy, refused>>

-----------------------------------------------------------------------------
(* What a thread does by itself once it is inside the strand. *)
Step(t) ==
    \/ EnqueueLimit(t)     \/ EnqueuePolicy(t)
    \/ EnqueuePush(t)      \/ EnqueuePushFails(t)
    \/ ScheduleExchange(t) \/ ScheduleSubmit(t) \/ ScheduleUnflag(t)
    \/ \E p \in Threads : DrainDequeue(t, p)
    \/ DrainNone(t)        \/ DrainFinish(t)
    \/ DrainClear(t)       \/ DrainSize(t)      \/ DrainRetake(t)

Next ==
    \/ \E t \in Threads : EnqueueCount(t) \/ Step(t) \/ CommitStore(t)
    \/ \E w \in Workers : WorkerTake(w)
    \/ \E n \in Limits : SetMaxPendingTasks(n)
    \/ \E b \in Policies : SetBackpressurePolicy(b)
    \/ PoolStop

Spec == Init /\ [][Next]_vars

(* The operating system runs every thread, tasks return, a store reaches    *)
(* memory, and the pool calls what it accepted (ThreadPool!AcceptedRuns).   *)
(* Nobody has to call enqueue, change a setting or stop the pool.           *)
Fairness ==
    /\ \A t \in Threads : WF_vars(Step(t)) /\ WF_vars(CommitStore(t))
    /\ \A w \in Workers : WF_vars(WorkerTake(w))

FairSpec == Spec /\ Fairness

-----------------------------------------------------------------------------
(* Every task in the queue is taken out and run (TaskStrand.hpp:162-178),   *)
(* after the pool has refused too: the thread that is refused drains.       *)
EveryTaskRuns == \A p \in Threads : mTasks[p] # <<>> ~> mTasks[p] = <<>>

Labels == {"idle", "limit", "policy", "push", "schedule", "submit", "unflag",
           "dequeue", "run", "clear", "size", "retake"}
TaskId == Threads \X Nat

TypeOK ==
    /\ mTasks \in [Threads -> Seq(Nat)]
    /\ mMaxPendingTasks \in Nat
    /\ mPendingTasks \in Int
    /\ mDrainScheduled \in BOOLEAN
    /\ mBackpressurePolicy \in BOOLEAN
    /\ accepting \in BOOLEAN
    /\ refused \in BOOLEAN
    /\ poolDrains \in Nat
    /\ storeBuffer \in [Threads -> Nat]
    /\ pc \in [Threads -> Labels]
    /\ pending \in [Threads -> Int]
    /\ task \in [Threads -> TaskId \union {<<>>}]
    /\ stack \in [Threads -> Seq(TaskId \union {<<>>})]
    /\ calls \in [Threads -> Nat]

(* The thread will look at the queue again, or owns the flag. *)
Holding(t)  == pc[t] \in {"submit", "unflag", "dequeue", "run", "clear"} \/ stack[t] # <<>>
Watching(t) == Holding(t) \/ pc[t] \in {"schedule", "size", "retake"}

(* The drain of TaskStrand.hpp:159-179 never leaves a task behind: whenever *)
(* the queue holds a task, a drain closure is queued in the pool, or some   *)
(* thread has yet to try the flag or to look at the queue.                  *)
NoStrandedTask ==
    QueueEmpty \/ poolDrains > 0 \/ \E t \in Threads : Watching(t)

(* mDrainScheduled is never left set (TaskStrand.hpp:148, 175) without a    *)
(* drain that will clear it.                                                *)
FlagHasOwner ==
    mDrainScheduled => poolDrains > 0 \/ \E t \in Threads : Holding(t)

(* Until the pool has refused a drain, two tasks of the strand never overlap, *)
(* a task suspended in a nested enqueue included: this is what lets Session  *)
(* code (ServerNetworkSystem.cpp:758-810) run without a lock of its own.     *)
(* After a refusal (TaskStrand.hpp:153-156, open pool or closed) they may:   *)
(* the refused thread drains beside whoever takes the flag it gave up.       *)
Executing(t) == pc[t] = "run" \/ stack[t] # <<>>
StrandIsSerial ==
    ~refused => /\ \A t, u \in Threads : Executing(t) /\ Executing(u) => t = u
                /\ \A t \in Threads : /\ Len(stack[t]) <= 1
                                      /\ pc[t] = "run" => stack[t] = <<>>

(* Why it is serial: until a drain is refused, the right to drain is a token *)
(* that is in one place at most: queued in the pool, held by a thread, or    *)
(* still set in memory because the store that gives it up is delayed.        *)
HasToken(t) == Holding(t) \/ storeBuffer[t] > 0

OneToken ==
    /\ poolDrains > 0 => poolDrains = 1 /\ \A t \in Threads : ~HasToken(t)
    /\ \A t, u \in Threads : HasToken(t) /\ HasToken(u) => t = u
    /\ ~mDrainScheduled => poolDrains = 0 /\ \A t \in Threads : ~HasToken(t)

TokenShape(t) ==
    /\ pc[t] # "unflag"
    /\ stack[t] # <<>> => /\ Len(stack[t]) = 1
                          /\ pc[t] \in {"limit", "policy", "push", "schedule"}
    /\ storeBuffer[t] > 0 => /\ storeBuffer[t] = 1
                             /\ pc[t] \in {"size", "retake", "idle"}

TokenInv == ~refused => OneToken /\ \A t \in Threads : TokenShape(t)

-----------------------------------------------------------------------------
(* Where tasks and calls are.  A task is at a place of a queue or of a stack, *)
(* or is the one its thread runs.                                            *)
Places(s) == UNION {{<<t, i>> : i \in DOMAIN s[t]} : t \in Threads}
ThreadsAt(labels) == {t \in Threads : pc[t] \in labels}

(* Tasks in the queue, running, or suspended in a nested enqueue.            *)
Carried ==
    Cardinality(Places(mTasks)) + Cardinality(Places(stack)) + Cardinality(ThreadsAt({"run"}))

(* mPendingTasks (TaskStrand.hpp:105, 115, 121, 166) counts the tasks that   *)
(* are queued or executing and the calls between fetch_add and their         *)
(* outcome, on every path: nothing is counted twice, off twice, or never.    *)
PendingIsExact ==
    mPendingTasks = Carried + Cardinality(ThreadsAt({"limit", "policy", "push"}))

(* Without a backpressure policy the strand never carries more tasks than    *)
(* the largest limit it was given (TaskStrand.hpp:105-118), although the     *)
(* check reads counter and limit in two steps and callers race through it.   *)
Largest == CHOOSE m \in Limits : \A n \in Limits : n <= m
AdmissionBound ==
    TRUE \notin Policies => Carried + Cardinality(ThreadsAt({"push"})) <= Largest

(* The tasks a thread is in the middle of, the innermost first.              *)
Held(t) == IF At(t, "run") THEN <<task[t]>> \o stack[t] ELSE stack[t]

Executor == INSTANCE SerialExecutor WITH
    Numbers <- 1..MaxCalls,
    waiting <- mTasks, running <- [t \in Threads |-> Held(t)]

(* Every step of the strand is a step of SerialExecutor or none: tasks of    *)
(* one thread begin in order and once, whatever the pool does, and never     *)
(* overlap until it has refused a drain (TaskStrand.hpp:96-179).             *)
ImplementsExecutor == Executor!Spec
=============================================================================
