----------------------------- MODULE ThreadPool -----------------------------
(***************************************************************************)
(* ThreadPool (include/sculk/protocol/connection/thread/ThreadPool.hpp and *)
(* src/sculk/protocol/connection/thread/ThreadPool.cpp): one queue, one    *)
(* heap of delayed tasks and one semaphore per worker, no stealing; submit *)
(* and stop agree through mAcceptingSubmissions and mInFlightSubmissions.  *)
(*                                                                         *)
(* A task is <<thread, n>>, the n-th submission, made by thread.  Threads  *)
(* outside the pool submit at any time, a worker while it runs a task.     *)
(* mTasks of a worker is a moodycamel::ConcurrentQueue: the tasks of one   *)
(* thread come out in order, those of different threads in any order.      *)
(* Time is a clock that ticks up to MaxTime, and on while an entry of a    *)
(* heap is not yet due.  Locals are reset where they are dead.             *)
(***************************************************************************)
EXTENDS Integers, FiniteSets

CONSTANTS Clients,      (* threads outside the pool that submit       *)
          Stoppers,     (* calls of stop, the destructor's included   *)
          NumWorkers,   (* threads of the pool                        *)
          Delays,       (* delays submitAfter is called with          *)
          MaxTime,      (* bound: ticks while nothing is delayed      *)
          MaxCalls      (* bound: submissions altogether              *)

ASSUME WorkersAssumption == NumWorkers \in Nat \ {0}
ASSUME DelaysAssumption  == Delays \subseteq Nat
ASSUME ClockAssumption   == MaxTime \in Nat
ASSUME CallsAssumption   == MaxCalls \in Nat
ASSUME ClientsAssumption == IsFiniteSet(Clients) /\ Clients \intersect Nat = {}

Workers == 0..(NumWorkers - 1)
Threads == Clients \union Workers
Tasks == Threads \X (1..MaxCalls)

VARIABLES
    mAcceptingSubmissions, mInFlightSubmissions, mStopping, mNextWorker,
    mTasks,          (* worker -> tasks in its queue                            *)
    mDelayedTasks,   (* worker -> entries [mDue, mSeq, mTask] of its heap       *)
    mDelayedSeq, mSignal,
    sub,             (* thread -> next statement of its submission              *)
    job,             (* thread -> the task it submits                           *)
    delay,           (* thread -> its delay, or Immediately                     *)
    target,          (* thread -> the worker chosen for it                      *)
    loop,            (* worker -> next statement of workerLoop                  *)
    resume,          (* worker -> the loop its running task returns to          *)
    current,         (* worker -> the task it runs                              *)
    deadline,        (* worker -> end of its timed wait                         *)
    stop,            (* call of stop -> its next statement                      *)
    unreleased,      (* workers whose semaphore stop has yet to release         *)
    now, calls,
    accepted,        (* tasks whose submission got into a queue or heap         *)
    executed         (* task -> how many times it has begun                     *)

pool    == <<mAcceptingSubmissions, mInFlightSubmissions, mStopping, mNextWorker>>
queues  == <<mTasks, mDelayedTasks, mDelayedSeq>>
request == <<job, delay, target, calls>>
worker  == <<loop, resume, current, deadline>>
stopper == <<stop, unreleased>>
ghost   == <<accepted, executed>>
vars    == <<pool, queues, mSignal, sub, request, worker, stopper, now, ghost>>

Immediately == -1
NoTask == <<>>

Init ==
    /\ mAcceptingSubmissions = TRUE
    /\ mInFlightSubmissions = 0
    /\ mStopping = FALSE
    /\ mNextWorker = 0
    /\ mTasks = [w \in Workers |-> {}]
    /\ mDelayedTasks = [w \in Workers |-> {}]
    /\ mDelayedSeq = [w \in Workers |-> 0]
    /\ mSignal = [w \in Workers |-> 0]
    /\ sub = [t \in Threads |-> "none"]
    /\ job = [t \in Threads |-> NoTask]
    /\ delay = [t \in Threads |-> Immediately]
    /\ target = [t \in Threads |-> 0]
    /\ loop = [w \in Workers |-> "immediate"]
    /\ resume = [w \in Workers |-> "immediate"]
    /\ current = [w \in Workers |-> NoTask]
    /\ deadline = [w \in Workers |-> 0]
    /\ stop = [s \in Stoppers |-> "none"]
    /\ unreleased = {}
    /\ now = 0
    /\ calls = 0
    /\ accepted = {}
    /\ executed = [j \in Tasks |-> 0]

-----------------------------------------------------------------------------
(* submit and submitAfter                                                   *)
Submission(t, from, to) == sub[t] = from /\ sub' = [sub EXCEPT ![t] = to]

MaySubmit(t) == t \in Clients \/ (t \in Workers /\ loop[t] = "run")

(* The first look at mAcceptingSubmissions; a refusal here has no effect.   *)
SubmitBegin(t, d) ==
    /\ MaySubmit(t)
    /\ calls < MaxCalls
    /\ Submission(t, "none", IF mAcceptingSubmissions THEN "enter" ELSE "none")
    /\ calls' = calls + 1
    /\ IF mAcceptingSubmissions
       THEN /\ job' = [job EXCEPT ![t] = <<t, calls + 1>>]
            /\ delay' = [delay EXCEPT ![t] = d]
       ELSE UNCHANGED <<job, delay>>
    /\ UNCHANGED <<pool, queues, mSignal, target, worker, stopper, now, ghost>>

(* <action>_<bug>: a plausible mistake in the action of that name, not part *)
(* of the machine; it shows that a property notices it.                     *)

(* The submission is not counted as in flight. *)
SubmitEnter_Uncounted(t) ==
    /\ Submission(t, "enter", "recheck")
    /\ UNCHANGED <<pool, queues, mSignal, request, worker, stopper, now, ghost>>

SubmitEnter(t) ==
    /\ Submission(t, "enter", "recheck")
    /\ mInFlightSubmissions' = mInFlightSubmissions + 1
    /\ UNCHANGED <<mAcceptingSubmissions, mStopping, mNextWorker, queues, mSignal,
                   request, worker, stopper, now, ghost>>

(* mAcceptingSubmissions is looked at only once. *)
SubmitRecheck_Trusts(t) ==
    /\ Submission(t, "recheck", "choose")
    /\ UNCHANGED <<pool, queues, mSignal, request, worker, stopper, now, ghost>>

SubmitRecheck(t) ==
    /\ Submission(t, "recheck", IF mAcceptingSubmissions THEN "choose" ELSE "refuse")
    /\ UNCHANGED <<pool, queues, mSignal, request, worker, stopper, now, ghost>>

SubmitChoose(t) ==
    /\ Submission(t, "choose", "insert")
    /\ target' = [target EXCEPT ![t] = mNextWorker]
    /\ mNextWorker' = (mNextWorker + 1) % NumWorkers
    /\ UNCHANGED <<mAcceptingSubmissions, mInFlightSubmissions, mStopping, queues, mSignal,
                   job, delay, calls, worker, stopper, now, ghost>>

(* submit: the worker's queue *)
SubmitEnqueue(t) ==
    /\ Submission(t, "insert", "leave")
    /\ delay[t] = Immediately
    /\ mTasks' = [mTasks EXCEPT ![target[t]] = @ \union {job[t]}]
    /\ accepted' = accepted \union {job[t]}
    /\ UNCHANGED <<pool, mDelayedTasks, mDelayedSeq, mSignal, request, worker,
                   stopper, now, executed>>

(* The queue cannot allocate a block: submit leaves and returns false.      *)
SubmitEnqueueFails(t) ==
    /\ Submission(t, "insert", "refuse")
    /\ delay[t] = Immediately
    /\ UNCHANGED <<pool, queues, mSignal, request, worker, stopper, now, ghost>>

(* submitAfter: the worker's heap, under mDelayedMutex *)
SubmitPushHeap(t) ==
    /\ Submission(t, "insert", "leave")
    /\ delay[t] # Immediately
    /\ LET w == target[t]
           entry == [mDue |-> now + delay[t], mSeq |-> mDelayedSeq[w], mTask |-> job[t]]
       IN /\ mDelayedTasks' = [mDelayedTasks EXCEPT ![w] = @ \union {entry}]
          /\ mDelayedSeq' = [mDelayedSeq EXCEPT ![w] = @ + 1]
    /\ accepted' = accepted \union {job[t]}
    /\ UNCHANGED <<pool, mTasks, mSignal, request, worker, stopper, now, executed>>

Forget(t) ==
    /\ job' = [job EXCEPT ![t] = NoTask]
    /\ delay' = [delay EXCEPT ![t] = Immediately]

SubmitLeave(t) ==
    /\ \/ Submission(t, "leave", "signal") /\ UNCHANGED target
       \/ Submission(t, "refuse", "none") /\ target' = [target EXCEPT ![t] = 0]
    /\ Forget(t)
    /\ mInFlightSubmissions' = mInFlightSubmissions - 1
    /\ UNCHANGED <<mAcceptingSubmissions, mStopping, mNextWorker, queues, mSignal,
                   calls, worker, stopper, now, ghost>>

(* The worker is not woken. *)
SubmitSignal_Skipped(t) ==
    /\ Submission(t, "signal", "none")
    /\ target' = [target EXCEPT ![t] = 0]
    /\ UNCHANGED <<pool, queues, mSignal, job, delay, calls, worker, stopper, now, ghost>>

(* The semaphore is released after the submission left.                     *)
SubmitSignal(t) ==
    /\ Submission(t, "signal", "none")
    /\ mSignal' = [mSignal EXCEPT ![target[t]] = @ + 1]
    /\ target' = [target EXCEPT ![t] = 0]
    /\ UNCHANGED <<pool, queues, job, delay, calls, worker, stopper, now, ghost>>

-----------------------------------------------------------------------------
(* workerLoop                                                               *)
Proceed(w, from, to) == loop[w] = from /\ loop' = [loop EXCEPT ![w] = to]

(* Oldest of its thread in the queue of the worker. *)
Oldest(w) == {j \in mTasks[w] : \A k \in mTasks[w] : k[1] = j[1] => k[2] >= j[2]}

(* Smallest by DelayedEntryCompare. *)
IsFront(w, e) ==
    /\ e \in mDelayedTasks[w]
    /\ \A f \in mDelayedTasks[w] : e.mDue < f.mDue \/ (e.mDue = f.mDue /\ e.mSeq <= f.mSeq)

Run(w, l, j) ==
    /\ Proceed(w, l, "run")
    /\ resume' = [resume EXCEPT ![w] = l]
    /\ current' = [current EXCEPT ![w] = j]
    /\ executed' = [executed EXCEPT ![j] = @ + 1]
    /\ UNCHANGED <<deadline, accepted>>

DequeueImmediate(w, l) ==
    /\ l \in {"immediate", "lastImmediate"}
    /\ \E j \in Oldest(w) :
          /\ Run(w, l, j)
          /\ mTasks' = [mTasks EXCEPT ![w] = @ \ {j}]
    /\ UNCHANGED <<pool, mDelayedTasks, mDelayedSeq, mSignal, sub, request, stopper, now>>

NoImmediate(w) ==
    /\ mTasks[w] = {}
    /\ \/ Proceed(w, "immediate", "delayed")
       \/ Proceed(w, "lastImmediate", "lastDelayed")
    /\ UNCHANGED <<pool, queues, mSignal, sub, request, resume, current, deadline,
                   stopper, now, ghost>>

(* The entry that is run stays in the heap. *)
PopDelayed_Stays(w, l) ==
    /\ l \in {"delayed", "lastDelayed"}
    /\ \E e \in mDelayedTasks[w] :
          /\ IsFront(w, e)
          /\ l = "delayed" => e.mDue <= now
          /\ Run(w, l, e.mTask)
    /\ UNCHANGED <<pool, queues, mSignal, sub, request, stopper, now>>

(* Before the stop only what is due; in the last pass whatever is left.     *)
PopDelayed(w, l) ==
    /\ l \in {"delayed", "lastDelayed"}
    /\ \E e \in mDelayedTasks[w] :
          /\ IsFront(w, e)
          /\ l = "delayed" => e.mDue <= now
          /\ Run(w, l, e.mTask)
          /\ mDelayedTasks' = [mDelayedTasks EXCEPT ![w] = @ \ {e}]
    /\ UNCHANGED <<pool, mTasks, mDelayedSeq, mSignal, sub, request, stopper, now>>

NoDelayed(w) ==
    /\ \/ /\ \A e \in mDelayedTasks[w] : e.mDue > now
          /\ Proceed(w, "delayed", "checkStop")
       \/ /\ mDelayedTasks[w] = {}
          /\ Proceed(w, "lastDelayed", "exited")
    /\ UNCHANGED <<pool, queues, mSignal, sub, request, resume, current, deadline,
                   stopper, now, ghost>>

(* The task returns; a task inside a submission of its own does not.        *)
TaskReturns(w) ==
    /\ sub[w] = "none"
    /\ Proceed(w, "run", resume[w])
    /\ current' = [current EXCEPT ![w] = NoTask]
    /\ resume' = [resume EXCEPT ![w] = "immediate"]
    /\ UNCHANGED <<pool, queues, mSignal, sub, request, deadline, stopper, now, ghost>>

CheckStop(w) ==
    /\ Proceed(w, "checkStop", IF mStopping THEN "lastImmediate" ELSE "plan")
    /\ UNCHANGED <<pool, queues, mSignal, sub, request, resume, current, deadline,
                   stopper, now, ghost>>

(* The heap is not looked at before sleeping. *)
PlanWait_NoHeap(w) ==
    /\ Proceed(w, "plan", "acquire")
    /\ UNCHANGED <<pool, queues, mSignal, sub, request, resume, current, deadline,
                   stopper, now, ghost>>

(* How long to sleep: for ever, until the first entry is due, or not at all.*)
PlanWait(w) ==
    /\ \/ /\ mDelayedTasks[w] = {}
          /\ Proceed(w, "plan", "acquire")
          /\ UNCHANGED deadline
       \/ \E e \in mDelayedTasks[w] :
             /\ IsFront(w, e)
             /\ Proceed(w, "plan", IF e.mDue > now THEN "acquireFor" ELSE "immediate")
             /\ deadline' = [deadline EXCEPT ![w] = IF e.mDue > now THEN e.mDue ELSE 0]
    /\ UNCHANGED <<pool, queues, mSignal, sub, request, resume, current, stopper, now, ghost>>

Acquire(w) ==
    /\ \/ Proceed(w, "acquire", "immediate")
       \/ Proceed(w, "acquireFor", "immediate")
    /\ mSignal[w] > 0
    /\ mSignal' = [mSignal EXCEPT ![w] = @ - 1]
    /\ deadline' = [deadline EXCEPT ![w] = 0]
    /\ UNCHANGED <<pool, queues, sub, request, resume, current, stopper, now, ghost>>

AcquireTimeout(w) ==
    /\ Proceed(w, "acquireFor", "immediate")
    /\ now >= deadline[w]
    /\ deadline' = [deadline EXCEPT ![w] = 0]
    /\ UNCHANGED <<pool, queues, mSignal, sub, request, resume, current, stopper, now, ghost>>

-----------------------------------------------------------------------------
(* stop                                                                     *)
Stopping(s, from, to) == stop[s] = from /\ stop' = [stop EXCEPT ![s] = to]

StopBegin(s) ==
    /\ Stopping(s, "none", IF mAcceptingSubmissions THEN "wait" ELSE "done")
    /\ mAcceptingSubmissions' = FALSE
    /\ UNCHANGED <<mInFlightSubmissions, mStopping, mNextWorker, queues, mSignal, sub,
                   request, worker, unreleased, now, ghost>>

StopWait(s) ==
    /\ mInFlightSubmissions = 0
    /\ Stopping(s, "wait", "set")
    /\ UNCHANGED <<pool, queues, mSignal, sub, request, worker, unreleased, now, ghost>>

(* The workers are not woken. *)
StopSet_NoSignal(s) ==
    /\ Stopping(s, "set", "done")
    /\ mStopping' = TRUE
    /\ UNCHANGED <<mAcceptingSubmissions, mInFlightSubmissions, mNextWorker, queues, mSignal,
                   sub, request, worker, unreleased, now, ghost>>

StopSet(s) ==
    /\ Stopping(s, "set", IF mStopping THEN "done" ELSE "release")
    /\ unreleased' = IF mStopping THEN unreleased ELSE Workers
    /\ mStopping' = TRUE
    /\ UNCHANGED <<mAcceptingSubmissions, mInFlightSubmissions, mNextWorker, queues, mSignal,
                   sub, request, worker, now, ghost>>

StopRelease(s, w) ==
    /\ stop[s] = "release"
    /\ w \in unreleased
    /\ mSignal' = [mSignal EXCEPT ![w] = @ + 1]
    /\ unreleased' = unreleased \ {w}
    /\ stop' = [stop EXCEPT ![s] = IF unreleased = {w} THEN "done" ELSE "release"]
    /\ UNCHANGED <<pool, queues, sub, request, worker, now, ghost>>

Tick ==
    /\ now < MaxTime \/ \E w \in Workers : \E e \in mDelayedTasks[w] : e.mDue > now
    /\ now' = now + 1
    /\ UNCHANGED <<pool, queues, mSignal, sub, request, worker, stopper, ghost>>

-----------------------------------------------------------------------------
SubmitStep(t) ==
    \/ SubmitEnter(t) \/ SubmitRecheck(t) \/ SubmitChoose(t)
    \/ SubmitEnqueue(t) \/ SubmitEnqueueFails(t) \/ SubmitPushHeap(t)
    \/ SubmitLeave(t) \/ SubmitSignal(t)

WorkerStep(w) ==
    \/ \E l \in {"immediate", "lastImmediate"} : DequeueImmediate(w, l)
    \/ \E l \in {"delayed", "lastDelayed"} : PopDelayed(w, l)
    \/ NoImmediate(w) \/ NoDelayed(w) \/ TaskReturns(w)
    \/ CheckStop(w) \/ PlanWait(w) \/ Acquire(w) \/ AcquireTimeout(w)

StopStep(s) == StopWait(s) \/ StopSet(s) \/ \E w \in Workers : StopRelease(s, w)

Next ==
    \/ \E t \in Threads, d \in Delays \union {Immediately} : SubmitBegin(t, d)
    \/ \E t \in Threads : SubmitStep(t)
    \/ \E w \in Workers : WorkerStep(w)
    \/ \E s \in Stoppers : StopBegin(s) \/ StopStep(s)
    \/ Tick

Spec == Init /\ [][Next]_vars

(* Threads are scheduled, tasks return and time passes; nobody has to       *)
(* submit, and nobody has to call stop.                                     *)
Fairness ==
    /\ \A t \in Threads : WF_vars(SubmitStep(t))
    /\ \A w \in Workers : WF_vars(WorkerStep(w))
    /\ \A s \in Stoppers : WF_vars(StopStep(s))
    /\ WF_vars(Tick)

FairSpec == Spec /\ Fairness

-----------------------------------------------------------------------------
TypeOK ==
    /\ mAcceptingSubmissions \in BOOLEAN /\ mStopping \in BOOLEAN
    /\ mInFlightSubmissions \in Nat
    /\ mNextWorker \in Workers
    /\ mTasks \in [Workers -> SUBSET Tasks]
    /\ \A w \in Workers :
          mDelayedTasks[w] \subseteq [mDue : Nat, mSeq : Nat, mTask : Tasks]
    /\ DOMAIN mDelayedTasks = Workers
    /\ mDelayedSeq \in [Workers -> Nat]
    /\ mSignal \in [Workers -> Nat]
    /\ sub \in [Threads -> {"none", "enter", "recheck", "choose", "insert",
                            "leave", "refuse", "signal"}]
    /\ job \in [Threads -> Tasks \union {NoTask}]
    /\ delay \in [Threads -> Delays \union {Immediately}]
    /\ target \in [Threads -> Workers]
    /\ loop \in [Workers -> {"immediate", "delayed", "run", "checkStop", "plan", "acquire",
                             "acquireFor", "lastImmediate", "lastDelayed", "exited"}]
    /\ resume \in [Workers -> {"immediate", "delayed", "lastImmediate", "lastDelayed"}]
    /\ current \in [Workers -> Tasks \union {NoTask}]
    /\ deadline \in [Workers -> Nat]
    /\ stop \in [Stoppers -> {"none", "wait", "set", "release", "done"}]
    /\ unreleased \subseteq Workers
    /\ now \in Nat
    /\ calls \in 0..MaxCalls
    /\ accepted \subseteq Tasks /\ executed \in [Tasks -> Nat]

(* Between mInFlightSubmissions.fetch_add and fetch_sub (ThreadPool.hpp).   *)
InFlight(t) == sub[t] \in {"recheck", "choose", "insert", "leave", "refuse"}

(* Once mStopping is set no submission can still reach a queue: the count   *)
(* raised before the second look at mAcceptingSubmissions (ThreadPool.hpp   *)
(* :112-119) and the wait of stop (ThreadPool.cpp:42-46) fit together.      *)
StopSeesNoSubmission ==
    mStopping => \A t \in Threads : sub[t] \notin {"choose", "insert", "leave"}

(* A worker asleep on its semaphore has nothing to do, or a release of its  *)
(* semaphore is on the way (ThreadPool.hpp:143, ThreadPool.cpp:52-54).      *)
SignalComing(w) ==
    \/ mSignal[w] > 0
    \/ \E t \in Threads : sub[t] \in {"leave", "signal"} /\ target[t] = w
    \/ w \in unreleased

NothingDueBefore(w, time) == \A e \in mDelayedTasks[w] : e.mDue >= time

NoSleepOnWork ==
    \A w \in Workers :
       \/ loop[w] \notin {"acquire", "acquireFor"}
       \/ SignalComing(w)
       \/ /\ mTasks[w] = {} /\ ~mStopping
          /\ loop[w] = "acquire" => mDelayedTasks[w] = {}
          /\ loop[w] = "acquireFor" => NothingDueBefore(w, deadline[w])

(* Every accepted task runs, immediate or delayed, with or without a stop   *)
(* (ThreadPool.cpp:61-135).                                                 *)
AcceptedRuns == \A j \in Tasks : j \in accepted ~> executed[j] > 0

(* stop makes every worker leave its loop, tasks that go on submitting      *)
(* included (ThreadPool.cpp:37-59, 91-117).                                 *)
StopEndsWorkers ==
    (\E s \in Stoppers : stop[s] # "none") ~> (\A w \in Workers : loop[w] = "exited")

(* What the pool promises: no task begins that was not accepted, none       *)
(* begins a second time, and its threads are gone only when every accepted  *)
(* task has begun and no other can be accepted (ThreadPool.cpp:37-135).     *)
Service == INSTANCE TaskService WITH
    Jobs <- Tasks,
    open <- ~mStopping,
    retired <- \A w \in Workers : loop[w] = "exited"

ImplementsService == Service!Spec
=============================================================================
