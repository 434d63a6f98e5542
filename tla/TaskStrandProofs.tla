-------------------------- MODULE TaskStrandProofs --------------------------
(***************************************************************************)
(* What holds of TaskStrand for any threads (finitely many), limits,       *)
(* policies and bounds.                                                    *)
(*                                                                         *)
(* Two arguments are about the queue and its flag: NoStrandedTask and      *)
(* FlagHasOwner, where stores are not delayed, and TokenInv, from which    *)
(* the strand is serial.  Two are about the counter mPendingTasks: every   *)
(* step moves one call from one Place to another (KindBalance), so the     *)
(* counter is the number of tasks and of undecided calls; and without a    *)
(* backpressure policy the calls that will be admitted fit below the       *)
(* largest limit (AdmitInv).  The last is the refinement of SerialExecutor: *)
(* a step of the strand starts a task, ends one, or stutters.              *)
(***************************************************************************)
EXTENDS TaskStrand, Counting, SequenceTheorems

-----------------------------------------------------------------------------
(* Leaving the strand or resuming the suspended task (the end of enqueue and *)
(* of drain, TaskStrand.hpp:96-179) keeps the shape of pc, task and stack.   *)
LEMMA ReturnType ==
    ASSUME TypeOK, NEW t \in Threads, Return(t)
    PROVE  /\ pc' \in [Threads -> Labels]
           /\ task' \in [Threads -> TaskId \union {<<>>}]
           /\ stack' \in [Threads -> Seq(TaskId \union {<<>>})]
<1>1. CASE stack[t] = <<>>
    BY <1>1 DEF Return, TypeOK, Goto, Labels
<1>2. CASE stack[t] # <<>>
    <2>1. stack[t] \in Seq(TaskId \union {<<>>})
        BY DEF TypeOK
    <2>2. /\ Head(stack[t]) \in TaskId \union {<<>>}
          /\ Tail(stack[t]) \in Seq(TaskId \union {<<>>})
        BY <1>2, <2>1
    <2>3. QED
        BY <1>2, <2>2 DEF Return, TypeOK, Goto, Labels
<1>3. QED
    BY <1>1, <1>2

LEMMA StoreFlagType ==
    ASSUME TypeOK, NEW t \in Threads, StoreFlag(t)
    PROVE  /\ storeBuffer' \in [Threads -> Nat]
           /\ mDrainScheduled' \in BOOLEAN
<1>1. CASE StoreBuffers
    <2>0. storeBuffer \in [Threads -> Nat]
        BY DEF TypeOK
    <2>1. storeBuffer' \in [Threads -> Nat]
        BY <1>1, <2>0 DEF StoreFlag
    <2>2. mDrainScheduled' = mDrainScheduled
        BY <1>1 DEF StoreFlag
    <2>3. QED
        BY <2>1, <2>2 DEF TypeOK
<1>2. CASE ~StoreBuffers
    <2>1. mDrainScheduled' = FALSE /\ storeBuffer' = storeBuffer
        BY <1>2 DEF StoreFlag
    <2>2. QED
        BY <2>1 DEF TypeOK
<1>3. QED
    BY <1>1, <1>2

LEMMA TypeInit == Init => TypeOK
<1> SUFFICES ASSUME Init PROVE TypeOK
    OBVIOUS
<1>1. mTasks \in [Threads -> Seq(Nat)]
    BY DEF Init
<1>2. stack \in [Threads -> Seq(TaskId \union {<<>>})]
    BY DEF Init
<1>3. /\ mMaxPendingTasks \in Nat
      /\ mBackpressurePolicy \in BOOLEAN
    BY LimitsAssumption, PolicyAssumption DEF Init
<1>4. /\ mPendingTasks \in Int
      /\ poolDrains \in Nat
      /\ storeBuffer \in [Threads -> Nat]
      /\ pending \in [Threads -> Int]
      /\ calls \in [Threads -> Nat]
    BY DEF Init
<1>5. /\ pc \in [Threads -> Labels]
      /\ task \in [Threads -> TaskId \union {<<>>}]
    BY DEF Init, Labels
<1>6. mDrainScheduled \in BOOLEAN /\ accepting \in BOOLEAN /\ refused \in BOOLEAN
    BY DEF Init
<1>7. QED
    BY <1>1, <1>2, <1>3, <1>4, <1>5, <1>6 DEF TypeOK

LEMMA TypeStep == TypeOK /\ [Next]_vars => TypeOK'
<1> SUFFICES ASSUME TypeOK, [Next]_vars PROVE TypeOK'
    OBVIOUS
<1> USE DEF config, locals, state, Labels, Goto, At
<1>1. ASSUME NEW t \in Threads, EnqueueCount(t) PROVE TypeOK'
    <2>1. stack' \in [Threads -> Seq(TaskId \union {<<>>})]
        <3>1. <<task[t]>> \o stack[t] \in Seq(TaskId \union {<<>>})
            BY DEF TypeOK
        <3>2. QED
            BY <1>1, <3>1 DEF EnqueueCount, TypeOK
    <2>2. QED
        BY <1>1, <2>1 DEF EnqueueCount, TypeOK
<1>2. ASSUME NEW t \in Threads, EnqueueLimit(t) PROVE TypeOK'
    BY <1>2 DEF EnqueueLimit, TypeOK
<1>3. ASSUME NEW t \in Threads, EnqueuePolicy(t) PROVE TypeOK'
    <2>1. CASE mBackpressurePolicy
        BY <1>3, <2>1 DEF EnqueuePolicy, TypeOK
    <2>2. CASE ~mBackpressurePolicy
        <3>1. Return(t) /\ mPendingTasks' = mPendingTasks - 1
            BY <1>3, <2>2 DEF EnqueuePolicy
        <3>2. /\ pc' \in [Threads -> Labels]
              /\ task' \in [Threads -> TaskId \union {<<>>}]
              /\ stack' \in [Threads -> Seq(TaskId \union {<<>>})]
            BY <3>1, ReturnType DEF Labels
        <3>3. UNCHANGED <<mTasks, mDrainScheduled, poolDrains, storeBuffer, pending,
                          calls, config>>
            BY <1>3 DEF EnqueuePolicy
        <3>4. QED
            BY <3>1, <3>2, <3>3 DEF TypeOK
    <2>3. QED
        BY <2>1, <2>2
<1>4. ASSUME NEW t \in Threads, EnqueuePush(t) PROVE TypeOK'
    <2>1. Append(mTasks[t], calls[t]) \in Seq(Nat)
        BY DEF TypeOK
    <2>2. QED
        BY <1>4, <2>1 DEF EnqueuePush, TypeOK
<1>5. ASSUME NEW t \in Threads, EnqueuePushFails(t) PROVE TypeOK'
    BY <1>5, ReturnType DEF EnqueuePushFails, TypeOK
<1>6. ASSUME NEW t \in Threads, ScheduleExchange(t) PROVE TypeOK'
    <2>1. CASE mDrainScheduled
        BY <1>6, <2>1, ReturnType DEF ScheduleExchange, TypeOK
    <2>2. CASE ~mDrainScheduled
        BY <1>6, <2>2 DEF ScheduleExchange, TypeOK
    <2>3. QED
        BY <2>1, <2>2
<1>7. ASSUME NEW t \in Threads, ScheduleSubmit(t) PROVE TypeOK'
    <2>0. refused' \in BOOLEAN
        BY <1>7 DEF ScheduleSubmit, TypeOK
    <2>1. CASE Return(t) /\ poolDrains' = poolDrains + 1
        <3>1. /\ pc' \in [Threads -> Labels]
              /\ task' \in [Threads -> TaskId \union {<<>>}]
              /\ stack' \in [Threads -> Seq(TaskId \union {<<>>})]
            BY <2>1, ReturnType DEF Labels
        <3>2. UNCHANGED <<mTasks, mPendingTasks, mDrainScheduled, storeBuffer, pending, calls,
                          mMaxPendingTasks, mBackpressurePolicy, accepting>>
            BY <1>7 DEF ScheduleSubmit
        <3>3. QED
            BY <2>0, <2>1, <3>1, <3>2 DEF TypeOK
    <2>2. CASE Goto(t, "unflag") /\ UNCHANGED <<poolDrains, task, stack>>
        BY <1>7, <2>0, <2>2 DEF ScheduleSubmit, TypeOK
    <2>3. QED
        BY <1>7, <2>1, <2>2 DEF ScheduleSubmit
<1>8. ASSUME NEW t \in Threads, ScheduleUnflag(t) PROVE TypeOK'
    BY <1>8, StoreFlagType DEF ScheduleUnflag, TypeOK
<1>9. ASSUME NEW t \in Threads, NEW p \in Threads, DrainDequeue(t, p) PROVE TypeOK'
    <2>1. /\ Head(mTasks[p]) \in Nat
          /\ Tail(mTasks[p]) \in Seq(Nat)
        BY <1>9 DEF DrainDequeue, TypeOK
    <2>2. <<p, Head(mTasks[p])>> \in TaskId
        BY <2>1 DEF TaskId
    <2>3. QED
        BY <1>9, <2>1, <2>2 DEF DrainDequeue, TypeOK
<1>10. ASSUME NEW t \in Threads, DrainNone(t) PROVE TypeOK'
    BY <1>10 DEF DrainNone, TypeOK
<1>11. ASSUME NEW t \in Threads, DrainFinish(t) PROVE TypeOK'
    BY <1>11 DEF DrainFinish, TypeOK
<1>12. ASSUME NEW t \in Threads, DrainClear(t) PROVE TypeOK'
    BY <1>12, StoreFlagType DEF DrainClear, TypeOK
<1>13. ASSUME NEW t \in Threads, DrainSize(t) PROVE TypeOK'
    <2>1. CASE QueueEmpty
        BY <1>13, <2>1, ReturnType DEF DrainSize, TypeOK
    <2>2. CASE ~QueueEmpty
        BY <1>13, <2>2 DEF DrainSize, TypeOK
    <2>3. QED
        BY <2>1, <2>2
<1>14. ASSUME NEW t \in Threads, DrainRetake(t) PROVE TypeOK'
    <2>1. CASE mDrainScheduled
        BY <1>14, <2>1, ReturnType DEF DrainRetake, TypeOK
    <2>2. CASE ~mDrainScheduled
        BY <1>14, <2>2 DEF DrainRetake, TypeOK
    <2>3. QED
        BY <2>1, <2>2
<1>15. ASSUME NEW t \in Threads, CommitStore(t) PROVE TypeOK'
    <2>1. storeBuffer \in [Threads -> Nat]
        BY DEF TypeOK
    <2>2. storeBuffer' \in [Threads -> Nat]
        BY <1>15, <2>1 DEF CommitStore
    <2>3. mDrainScheduled' \in BOOLEAN
        BY <1>15 DEF CommitStore
    <2>4. UNCHANGED <<mTasks, mPendingTasks, poolDrains, pc, locals, config>>
        BY <1>15 DEF CommitStore
    <2>5. QED
        BY <2>2, <2>3, <2>4 DEF TypeOK
<1>16. ASSUME NEW w \in Workers, WorkerTake(w) PROVE TypeOK'
    BY <1>16 DEF WorkerTake, TypeOK, Threads
<1>17. ASSUME NEW n \in Limits, SetMaxPendingTasks(n) PROVE TypeOK'
    BY <1>17, LimitsAssumption DEF SetMaxPendingTasks, TypeOK
<1>18. ASSUME NEW b \in Policies, SetBackpressurePolicy(b) PROVE TypeOK'
    BY <1>18, PolicyAssumption DEF SetBackpressurePolicy, TypeOK
<1>19. CASE PoolStop
    BY <1>19 DEF PoolStop, TypeOK
<1>20. CASE UNCHANGED vars
    BY <1>20 DEF vars, TypeOK
<1>21. QED
    BY <1>1, <1>2, <1>3, <1>4, <1>5, <1>6, <1>7, <1>8, <1>9, <1>10, <1>11, <1>12,
       <1>13, <1>14, <1>15, <1>16, <1>17, <1>18, <1>19, <1>20 DEF Next, Step

(* Every variable and local of the strand keeps its type, whatever the       *)
(* threads do (TaskStrand.hpp:96-179).                                       *)
THEOREM TypeCorrect == Spec => []TypeOK
<1>1. QED
    BY TypeInit, TypeStep, PTL DEF Spec

-----------------------------------------------------------------------------
(* A step of one thread leaves the pc and the stack of the others alone.     *)
Others(t) == \A u \in Threads \ {t} : pc'[u] = pc[u] /\ stack'[u] = stack[u]

LEMMA ReturnEffect ==
    ASSUME TypeOK, NEW t \in Threads, Return(t)
    PROVE  /\ Others(t)
           /\ stack[t] # <<>> => pc'[t] = "run" /\ stack'[t] = Tail(stack[t])
           /\ stack[t] = <<>> => pc'[t] = "idle" /\ stack'[t] = <<>>
<1>1. pc \in [Threads -> Labels] /\ DOMAIN stack = Threads
    BY DEF TypeOK
<1>2. QED
    BY <1>1 DEF Return, Goto, Others

LEMMA CountEffect ==
    ASSUME TypeOK, NEW t \in Threads, EnqueueCount(t)
    PROVE  /\ Others(t)
           /\ pc'[t] = "limit"
           /\ pc[t] = "run" => Len(stack'[t]) = Len(stack[t]) + 1
           /\ pc[t] # "run" => stack'[t] = stack[t]
           /\ pc[t] = "run" => stack'[t] # <<>>
<1>1. pc \in [Threads -> Labels] /\ DOMAIN stack = Threads
    BY DEF TypeOK
<1>2. task[t] \in TaskId \union {<<>>} /\ stack[t] \in Seq(TaskId \union {<<>>})
    BY DEF TypeOK
<1>3. /\ <<task[t]>> \o stack[t] \in Seq(TaskId \union {<<>>})
      /\ Len(<<task[t]>> \o stack[t]) = Len(stack[t]) + 1
      /\ <<task[t]>> \o stack[t] # <<>>
    BY <1>2
<1>4. QED
    BY <1>1, <1>2, <1>3 DEF EnqueueCount, Goto, At, Others

(* The strand loses an owner of the flag only by handing it to the pool or   *)
(* by clearing it (TaskStrand.hpp:147-179).                                  *)
LEMMA OwnerStep ==
    ASSUME ~StoreBuffers, TypeOK, FlagHasOwner, [Next]_vars
    PROVE  FlagHasOwner'
<1> USE DEF config, locals, state, Goto, At
<1>0. /\ pc \in [Threads -> Labels]
      /\ DOMAIN stack = Threads
      /\ poolDrains \in Nat
    BY DEF TypeOK
<1>a. ASSUME NEW t \in Threads, Others(t), Holding(t) => Holding(t)',
             poolDrains' = poolDrains, mDrainScheduled' => mDrainScheduled
      PROVE  FlagHasOwner'
    BY <1>a DEF FlagHasOwner, Others, Holding
<1>b. ASSUME NEW t \in Threads, Holding(t)' PROVE FlagHasOwner'
    BY <1>b DEF FlagHasOwner
<1>1. ASSUME NEW t \in Threads, EnqueueCount(t) PROVE FlagHasOwner'
    <2>1. pc[t] \in {"idle", "run"}
        BY <1>1 DEF EnqueueCount
    <2>2. Others(t) /\ (Holding(t) => Holding(t)')
        BY <1>1, <2>1, CountEffect DEF Holding
    <2>3. QED
        BY <1>1, <1>a, <2>2 DEF EnqueueCount
<1>2. ASSUME NEW t \in Threads, EnqueueLimit(t) PROVE FlagHasOwner'
    BY <1>0, <1>2, <1>a DEF EnqueueLimit, Others, Holding
<1>3. ASSUME NEW t \in Threads, EnqueuePolicy(t) PROVE FlagHasOwner'
    <2>1. Others(t) /\ (Holding(t) => Holding(t)')
        <3>1. CASE mBackpressurePolicy
            BY <1>0, <1>3, <3>1 DEF EnqueuePolicy, Others, Holding
        <3>2. CASE ~mBackpressurePolicy
            BY <1>3, <3>2, ReturnEffect DEF EnqueuePolicy, Holding
        <3>3. QED
            BY <3>1, <3>2
    <2>2. QED
        BY <1>3, <1>a, <2>1 DEF EnqueuePolicy
<1>4. ASSUME NEW t \in Threads, EnqueuePush(t) PROVE FlagHasOwner'
    BY <1>0, <1>4, <1>a DEF EnqueuePush, Others, Holding
<1>5. ASSUME NEW t \in Threads, EnqueuePushFails(t) PROVE FlagHasOwner'
    <2>1. Others(t) /\ (Holding(t) => Holding(t)')
        BY <1>0, <1>5, ReturnEffect DEF EnqueuePushFails, Holding
    <2>2. QED
        BY <1>5, <1>a, <2>1 DEF EnqueuePushFails
<1>6. ASSUME NEW t \in Threads, ScheduleExchange(t) PROVE FlagHasOwner'
    <2>1. CASE mDrainScheduled
        <3>1. Others(t) /\ (Holding(t) => Holding(t)')
            BY <1>0, <1>6, <2>1, ReturnEffect DEF ScheduleExchange, Holding
        <3>2. QED
            BY <1>6, <1>a, <2>1, <3>1 DEF ScheduleExchange
    <2>2. CASE ~mDrainScheduled
        BY <1>0, <1>6, <1>b, <2>2 DEF ScheduleExchange, Holding
    <2>3. QED
        BY <2>1, <2>2
<1>7. ASSUME NEW t \in Threads, ScheduleSubmit(t) PROVE FlagHasOwner'
    <2>1. CASE Return(t) /\ poolDrains' = poolDrains + 1
        BY <1>0, <1>7, <2>1 DEF ScheduleSubmit, FlagHasOwner
    <2>2. CASE Goto(t, "unflag") /\ UNCHANGED <<poolDrains, task, stack>>
        BY <1>0, <1>7, <1>b, <2>2 DEF ScheduleSubmit, Holding
    <2>3. QED
        BY <1>7, <2>1, <2>2 DEF ScheduleSubmit
<1>8. ASSUME NEW t \in Threads, ScheduleUnflag(t) PROVE FlagHasOwner'
    BY <1>0, <1>8, <1>b DEF ScheduleUnflag, Holding
<1>9. ASSUME NEW t \in Threads, NEW p \in Threads, DrainDequeue(t, p) PROVE FlagHasOwner'
    BY <1>0, <1>9, <1>b DEF DrainDequeue, Holding
<1>10. ASSUME NEW t \in Threads, DrainNone(t) PROVE FlagHasOwner'
    BY <1>0, <1>10, <1>b DEF DrainNone, Holding
<1>11. ASSUME NEW t \in Threads, DrainFinish(t) PROVE FlagHasOwner'
    BY <1>0, <1>11, <1>b DEF DrainFinish, Holding
<1>12. ASSUME NEW t \in Threads, DrainClear(t) PROVE FlagHasOwner'
    BY <1>12 DEF DrainClear, StoreFlag, FlagHasOwner
<1>13. ASSUME NEW t \in Threads, DrainSize(t) PROVE FlagHasOwner'
    <2>1. Others(t) /\ (Holding(t) => Holding(t)')
        <3>1. CASE QueueEmpty
            BY <1>13, <3>1, ReturnEffect DEF DrainSize, Holding
        <3>2. CASE ~QueueEmpty
            BY <1>0, <1>13, <3>2 DEF DrainSize, Others, Holding
        <3>3. QED
            BY <3>1, <3>2
    <2>2. QED
        BY <1>13, <1>a, <2>1 DEF DrainSize
<1>14. ASSUME NEW t \in Threads, DrainRetake(t) PROVE FlagHasOwner'
    <2>1. CASE mDrainScheduled
        <3>1. Others(t) /\ (Holding(t) => Holding(t)')
            BY <1>0, <1>14, <2>1, ReturnEffect DEF DrainRetake, Holding
        <3>2. QED
            BY <1>14, <1>a, <2>1, <3>1 DEF DrainRetake
    <2>2. CASE ~mDrainScheduled
        BY <1>0, <1>14, <1>b, <2>2 DEF DrainRetake, Holding
    <2>3. QED
        BY <2>1, <2>2
<1>15. ASSUME NEW t \in Threads, CommitStore(t) PROVE FlagHasOwner'
    BY <1>15 DEF CommitStore, FlagHasOwner
<1>16. ASSUME NEW w \in Workers, WorkerTake(w) PROVE FlagHasOwner'
    BY <1>0, <1>16, <1>b DEF WorkerTake, Holding, Threads
<1>17. ASSUME UNCHANGED <<mDrainScheduled, poolDrains, pc, stack>> PROVE FlagHasOwner'
    BY <1>17 DEF FlagHasOwner, Holding
<1>18. QED
    BY <1>1, <1>2, <1>3, <1>4, <1>5, <1>6, <1>7, <1>8, <1>9, <1>10, <1>11, <1>12,
       <1>13, <1>14, <1>15, <1>16, <1>17
       DEF Next, Step, SetMaxPendingTasks, SetBackpressurePolicy, PoolStop, vars

(* Without delayed stores mDrainScheduled is never left set with nobody to   *)
(* clear it (TaskStrand.hpp:148-177).                                        *)
THEOREM FlagIsOwned ==
    ASSUME ~StoreBuffers PROVE Spec => []FlagHasOwner
<1>1. Init => FlagHasOwner
    BY DEF Init, FlagHasOwner
<1>2. TypeOK /\ FlagHasOwner /\ [Next]_vars => FlagHasOwner'
    BY OwnerStep
<1>3. QED
    BY <1>1, <1>2, TypeCorrect, PTL DEF Spec

-----------------------------------------------------------------------------
(* A thread stops watching the queue only after it saw it empty or saw the   *)
(* flag set, and a set flag has an owner (TaskStrand.hpp:148, 171, 175).     *)
LEMMA WatchStep ==
    ASSUME TypeOK, FlagHasOwner, NoStrandedTask, [Next]_vars
    PROVE  NoStrandedTask'
<1> USE DEF config, locals, state, Goto, At
<1>0. /\ pc \in [Threads -> Labels]
      /\ DOMAIN stack = Threads
      /\ poolDrains \in Nat
    BY DEF TypeOK
<1>a. ASSUME NEW t \in Threads, Others(t), Watching(t) => Watching(t)',
             poolDrains' = poolDrains, mTasks' = mTasks
      PROVE  NoStrandedTask'
    BY <1>a DEF NoStrandedTask, QueueEmpty, Others, Watching, Holding
<1>b. ASSUME NEW t \in Threads, Watching(t)' PROVE NoStrandedTask'
    BY <1>b DEF NoStrandedTask
<1>c. ASSUME NEW t \in Threads, pc[t] \in {"schedule", "retake"}, mDrainScheduled,
             Return(t), poolDrains' = poolDrains
      PROVE  NoStrandedTask'
    <2>1. CASE poolDrains > 0
        BY <1>c, <2>1 DEF NoStrandedTask
    <2>2. ASSUME NEW u \in Threads, Holding(u) PROVE Holding(u)'
        BY <1>c, <2>2, ReturnEffect DEF Holding, Others
    <2>3. QED
        BY <1>c, <2>1, <2>2 DEF FlagHasOwner, NoStrandedTask, Watching
<1>d. ASSUME NEW t \in Threads, Return(t), Watching(t) => stack[t] # <<>>,
             poolDrains' = poolDrains, mTasks' = mTasks
      PROVE  NoStrandedTask'
    <2>1. Others(t) /\ (Watching(t) => Watching(t)')
        BY <1>d, ReturnEffect DEF Watching, Holding
    <2>2. QED
        BY <1>a, <1>d, <2>1
<1>1. ASSUME NEW t \in Threads, EnqueueCount(t) PROVE NoStrandedTask'
    <2>1. pc[t] \in {"idle", "run"}
        BY <1>1 DEF EnqueueCount
    <2>2. Others(t) /\ (Watching(t) => Watching(t)')
        BY <1>1, <2>1, CountEffect DEF Watching, Holding
    <2>3. QED
        BY <1>1, <1>a, <2>2 DEF EnqueueCount
<1>2. ASSUME NEW t \in Threads, EnqueueLimit(t) PROVE NoStrandedTask'
    BY <1>0, <1>2, <1>a DEF EnqueueLimit, Others, Watching, Holding
<1>3. ASSUME NEW t \in Threads, EnqueuePolicy(t) PROVE NoStrandedTask'
    <2>1. CASE mBackpressurePolicy
        BY <1>0, <1>3, <2>1, <1>a DEF EnqueuePolicy, Others, Watching, Holding
    <2>2. CASE ~mBackpressurePolicy
        BY <1>3, <2>2, <1>d DEF EnqueuePolicy, Watching, Holding
    <2>3. QED
        BY <2>1, <2>2
<1>4. ASSUME NEW t \in Threads, EnqueuePush(t) PROVE NoStrandedTask'
    BY <1>0, <1>4, <1>b DEF EnqueuePush, Watching
<1>5. ASSUME NEW t \in Threads, EnqueuePushFails(t) PROVE NoStrandedTask'
    BY <1>5, <1>d DEF EnqueuePushFails, Watching, Holding
<1>6. ASSUME NEW t \in Threads, ScheduleExchange(t) PROVE NoStrandedTask'
    <2>1. CASE mDrainScheduled
        BY <1>6, <1>c, <2>1 DEF ScheduleExchange
    <2>2. CASE ~mDrainScheduled
        BY <1>0, <1>6, <1>b, <2>2 DEF ScheduleExchange, Watching, Holding
    <2>3. QED
        BY <2>1, <2>2
<1>7. ASSUME NEW t \in Threads, ScheduleSubmit(t) PROVE NoStrandedTask'
    <2>1. CASE Return(t) /\ poolDrains' = poolDrains + 1
        BY <1>0, <1>7, <2>1 DEF ScheduleSubmit, NoStrandedTask
    <2>2. CASE Goto(t, "unflag") /\ UNCHANGED <<poolDrains, task, stack>>
        BY <1>0, <1>7, <1>b, <2>2 DEF ScheduleSubmit, Watching, Holding
    <2>3. QED
        BY <1>7, <2>1, <2>2 DEF ScheduleSubmit
<1>8. ASSUME NEW t \in Threads, ScheduleUnflag(t) PROVE NoStrandedTask'
    BY <1>0, <1>8, <1>b DEF ScheduleUnflag, Watching, Holding
<1>9. ASSUME NEW t \in Threads, NEW p \in Threads, DrainDequeue(t, p) PROVE NoStrandedTask'
    BY <1>0, <1>9, <1>b DEF DrainDequeue, Watching, Holding
<1>10. ASSUME NEW t \in Threads, DrainNone(t) PROVE NoStrandedTask'
    BY <1>0, <1>10, <1>b DEF DrainNone, Watching, Holding
<1>11. ASSUME NEW t \in Threads, DrainFinish(t) PROVE NoStrandedTask'
    BY <1>0, <1>11, <1>b DEF DrainFinish, Watching, Holding
<1>12. ASSUME NEW t \in Threads, DrainClear(t) PROVE NoStrandedTask'
    BY <1>0, <1>12, <1>b DEF DrainClear, Watching
<1>13. ASSUME NEW t \in Threads, DrainSize(t) PROVE NoStrandedTask'
    <2>1. CASE QueueEmpty
        BY <1>13, <2>1 DEF DrainSize, NoStrandedTask, QueueEmpty
    <2>2. CASE ~QueueEmpty
        BY <1>0, <1>13, <1>b, <2>2 DEF DrainSize, Watching
    <2>3. QED
        BY <2>1, <2>2
<1>14. ASSUME NEW t \in Threads, DrainRetake(t) PROVE NoStrandedTask'
    <2>1. CASE mDrainScheduled
        BY <1>14, <1>c, <2>1 DEF DrainRetake
    <2>2. CASE ~mDrainScheduled
        BY <1>0, <1>14, <1>b, <2>2 DEF DrainRetake, Watching, Holding
    <2>3. QED
        BY <2>1, <2>2
<1>15. ASSUME NEW w \in Workers, WorkerTake(w) PROVE NoStrandedTask'
    BY <1>0, <1>15, <1>b DEF WorkerTake, Watching, Holding, Threads
<1>16. ASSUME UNCHANGED <<mTasks, poolDrains, pc, stack>> PROVE NoStrandedTask'
    BY <1>16 DEF NoStrandedTask, QueueEmpty, Watching, Holding
<1>17. QED
    BY <1>1, <1>2, <1>3, <1>4, <1>5, <1>6, <1>7, <1>8, <1>9, <1>10, <1>11, <1>12,
       <1>13, <1>14, <1>15, <1>16
       DEF Next, Step, CommitStore, SetMaxPendingTasks, SetBackpressurePolicy,
           PoolStop, vars

(* Without delayed stores no task is ever left in the queue with nobody to    *)
(* run it, before and after the pool stops (TaskStrand.hpp:147-179).          *)
THEOREM NothingStranded ==
    ASSUME ~StoreBuffers PROVE Spec => []NoStrandedTask
<1>1. Init => NoStrandedTask
    BY DEF Init, NoStrandedTask, QueueEmpty
<1>2. TypeOK /\ FlagHasOwner /\ NoStrandedTask /\ [Next]_vars => NoStrandedTask'
    BY WatchStep
<1>3. Spec => []FlagHasOwner
    BY FlagIsOwned
<1>4. QED
    BY <1>1, <1>2, <1>3, TypeCorrect, PTL DEF Spec

-----------------------------------------------------------------------------
(* What a step of one thread leaves alone, delayed stores included.          *)
OthersKept(t) ==
    \A u \in Threads \ {t} :
        pc'[u] = pc[u] /\ stack'[u] = stack[u] /\ storeBuffer'[u] = storeBuffer[u]

Tokens == OneToken /\ \A t \in Threads : TokenShape(t)

(* The step neither creates nor destroys nor moves the token.                *)
LEMMA TokenStays ==
    ASSUME NEW t \in Threads, Tokens, OthersKept(t), TokenShape(t)',
           HasToken(t)' <=> HasToken(t), poolDrains' = poolDrains,
           mDrainScheduled' <=> mDrainScheduled
    PROVE  Tokens'
BY DEF Tokens, OneToken, TokenShape, HasToken, Holding, OthersKept

(* The thread finds the flag clear and takes the token.                      *)
LEMMA TokenTaken ==
    ASSUME NEW t \in Threads, Tokens, OthersKept(t), TokenShape(t)',
           ~mDrainScheduled, poolDrains' = poolDrains, mDrainScheduled'
    PROVE  Tokens'
BY DEF Tokens, OneToken, TokenShape, HasToken, Holding, OthersKept

(* The thread gives the token up by clearing the flag in memory.             *)
LEMMA TokenDropped ==
    ASSUME NEW t \in Threads, Tokens, OthersKept(t), TokenShape(t)',
           HasToken(t), ~HasToken(t)', poolDrains' = poolDrains, poolDrains \in Nat
    PROVE  Tokens'
BY DEF Tokens, OneToken, TokenShape, HasToken, Holding, OthersKept

(* The end of a call in a state of the token's life: a suspended task is      *)
(* resumed with the token, an idle thread has it at most as a delayed store.  *)
LEMMA TokenReturn ==
    ASSUME TypeOK, Tokens, NEW t \in Threads, Return(t), storeBuffer' = storeBuffer,
           pc[t] \in {"policy", "push", "schedule", "size", "retake"},
           poolDrains' = poolDrains, mDrainScheduled' <=> mDrainScheduled
    PROVE  Tokens'
<1>1. OthersKept(t)
    BY ReturnEffect DEF Others, OthersKept
<1>2. TokenShape(t)
    BY DEF Tokens
<1>3. CASE stack[t] = <<>>
    <2>1. pc'[t] = "idle" /\ stack'[t] = <<>>
        BY <1>3, ReturnEffect
    <2>2. TokenShape(t)'
        BY <1>2, <2>1 DEF TokenShape
    <2>3. HasToken(t)' <=> HasToken(t)
        BY <1>3, <2>1 DEF HasToken, Holding
    <2>4. QED
        BY <1>1, <2>2, <2>3, TokenStays
<1>4. CASE stack[t] # <<>>
    <2>1. pc'[t] = "run" /\ stack'[t] = Tail(stack[t])
        BY <1>4, ReturnEffect
    <2>2. stack[t] \in Seq(TaskId \union {<<>>}) /\ Len(stack[t]) = 1
        BY <1>2, <1>4 DEF TypeOK, TokenShape
    <2>3. stack'[t] = <<>>
        <3>1. Tail(stack[t]) \in Seq(TaskId \union {<<>>}) /\ Len(Tail(stack[t])) = 0
            BY <1>4, <2>2
        <3>2. Tail(stack[t]) = <<>>
            BY <3>1, EmptySeq
        <3>3. QED
            BY <2>1, <3>2
    <2>4. storeBuffer'[t] = storeBuffer[t] /\ ~(storeBuffer[t] > 0)
        BY <1>2, <1>4 DEF TokenShape
    <2>5. TokenShape(t)'
        BY <2>1, <2>3, <2>4 DEF TokenShape
    <2>6. HasToken(t)' <=> HasToken(t)
        BY <1>4, <2>1 DEF HasToken, Holding
    <2>7. QED
        BY <1>1, <2>5, <2>6, TokenStays
<1>5. QED
    BY <1>3, <1>4

LEMMA TokenStep ==
    ASSUME TypeOK, ~refused, Tokens, [Next]_vars, ~refused'
    PROVE  Tokens'
<1> USE DEF config, locals, state, Goto, At, Fenced
<1>0. /\ pc \in [Threads -> Labels]
      /\ DOMAIN stack = Threads
      /\ storeBuffer \in [Threads -> Nat]
      /\ poolDrains \in Nat
    BY DEF TypeOK
<1>s. ASSUME NEW t \in Threads PROVE TokenShape(t)
    BY DEF Tokens
<1>1. ASSUME NEW t \in Threads, EnqueueCount(t) PROVE Tokens'
    <2>1. OthersKept(t) /\ pc'[t] = "limit" /\ storeBuffer'[t] = 0 /\ storeBuffer[t] = 0
        BY <1>1, CountEffect DEF EnqueueCount, Others, OthersKept
    <2>2. CASE pc[t] = "run"
        <3>1. stack[t] = <<>>
            BY <1>s, <2>2 DEF TokenShape
        <3>2. Len(stack[t]) = 0
            BY <3>1
        <3>3. Len(stack'[t]) = Len(stack[t]) + 1 /\ stack'[t] # <<>>
            BY <1>1, <2>2, CountEffect
        <3>4. Len(stack'[t]) = 1
            BY <3>2, <3>3
        <3>5. TokenShape(t)'
            BY <2>1, <3>4 DEF TokenShape
        <3>6. HasToken(t)' /\ HasToken(t)
            BY <2>2, <3>3 DEF HasToken, Holding
        <3>7. QED
            BY <1>1, <2>1, <3>5, <3>6, TokenStays DEF EnqueueCount
    <2>3. CASE pc[t] = "idle"
        <3>1. stack[t] = <<>> /\ stack'[t] = <<>>
            BY <1>1, <1>s, <2>3, CountEffect DEF TokenShape
        <3>2. TokenShape(t)' /\ ~HasToken(t)' /\ ~HasToken(t)
            BY <2>1, <2>3, <3>1 DEF TokenShape, HasToken, Holding
        <3>3. QED
            BY <1>1, <2>1, <3>2, TokenStays DEF EnqueueCount
    <2>4. QED
        BY <1>1, <2>2, <2>3 DEF EnqueueCount
<1>2. ASSUME NEW t \in Threads, EnqueueLimit(t) PROVE Tokens'
    <2>1. OthersKept(t) /\ TokenShape(t)' /\ (HasToken(t)' <=> HasToken(t))
        BY <1>0, <1>2, <1>s DEF EnqueueLimit, OthersKept, TokenShape, HasToken, Holding
    <2>2. QED
        BY <1>2, <2>1, TokenStays DEF EnqueueLimit
<1>3. ASSUME NEW t \in Threads, EnqueuePolicy(t) PROVE Tokens'
    <2>1. CASE mBackpressurePolicy
        <3>1. OthersKept(t) /\ TokenShape(t)' /\ (HasToken(t)' <=> HasToken(t))
            BY <1>0, <1>3, <1>s, <2>1
               DEF EnqueuePolicy, OthersKept, TokenShape, HasToken, Holding
        <3>2. QED
            BY <1>3, <3>1, TokenStays DEF EnqueuePolicy
    <2>2. CASE ~mBackpressurePolicy
        BY <1>3, <2>2, TokenReturn DEF EnqueuePolicy
    <2>3. QED
        BY <2>1, <2>2
<1>4. ASSUME NEW t \in Threads, EnqueuePush(t) PROVE Tokens'
    <2>1. OthersKept(t) /\ TokenShape(t)' /\ (HasToken(t)' <=> HasToken(t))
        BY <1>0, <1>4, <1>s DEF EnqueuePush, OthersKept, TokenShape, HasToken, Holding
    <2>2. QED
        BY <1>4, <2>1, TokenStays DEF EnqueuePush
<1>5. ASSUME NEW t \in Threads, EnqueuePushFails(t) PROVE Tokens'
    BY <1>5, TokenReturn DEF EnqueuePushFails
<1>6. ASSUME NEW t \in Threads, ScheduleExchange(t) PROVE Tokens'
    <2>1. CASE mDrainScheduled
        BY <1>6, <2>1, TokenReturn DEF ScheduleExchange
    <2>2. CASE ~mDrainScheduled
        <3>1. stack[t] = <<>> /\ storeBuffer[t] = 0
            BY <1>6, <2>2 DEF ScheduleExchange, Tokens, OneToken, HasToken, Holding
        <3>2. OthersKept(t) /\ TokenShape(t)'
            BY <1>0, <1>6, <2>2, <3>1 DEF ScheduleExchange, OthersKept, TokenShape
        <3>3. QED
            BY <1>6, <2>2, <3>2, TokenTaken DEF ScheduleExchange
    <2>3. QED
        BY <2>1, <2>2
<1>7. ASSUME NEW t \in Threads, ScheduleSubmit(t) PROVE Tokens'
    <2>1. Return(t) /\ pc[t] = "submit" /\ poolDrains' = poolDrains + 1
        BY <1>7 DEF ScheduleSubmit
    <2>2. stack[t] = <<>> /\ ~(storeBuffer[t] > 0)
        BY <1>s, <2>1 DEF TokenShape
    <2>3. OthersKept(t) /\ pc'[t] = "idle" /\ stack'[t] = <<>>
              /\ storeBuffer'[t] = storeBuffer[t]
        BY <1>7, <2>1, <2>2, ReturnEffect DEF ScheduleSubmit, Others, OthersKept
    <2>4. TokenShape(t)' /\ ~HasToken(t)' /\ HasToken(t)
        BY <2>1, <2>2, <2>3 DEF TokenShape, HasToken, Holding
    <2>5. mDrainScheduled /\ mDrainScheduled' /\ poolDrains = 0
        BY <1>0, <1>7, <2>4 DEF ScheduleSubmit, Tokens, OneToken
    <2>6. QED
        BY <2>1, <2>3, <2>4, <2>5
           DEF Tokens, OneToken, TokenShape, HasToken, Holding, OthersKept
<1>8. ASSUME NEW t \in Threads, ScheduleUnflag(t) PROVE Tokens'
    BY <1>8, <1>s DEF ScheduleUnflag, TokenShape
<1>9. ASSUME NEW t \in Threads, NEW p \in Threads, DrainDequeue(t, p) PROVE Tokens'
    <2>1. OthersKept(t) /\ TokenShape(t)' /\ (HasToken(t)' <=> HasToken(t))
        BY <1>0, <1>9, <1>s DEF DrainDequeue, OthersKept, TokenShape, HasToken, Holding
    <2>2. QED
        BY <1>9, <2>1, TokenStays DEF DrainDequeue
<1>10. ASSUME NEW t \in Threads, DrainNone(t) PROVE Tokens'
    <2>1. OthersKept(t) /\ TokenShape(t)' /\ (HasToken(t)' <=> HasToken(t))
        BY <1>0, <1>10, <1>s DEF DrainNone, OthersKept, TokenShape, HasToken, Holding
    <2>2. QED
        BY <1>10, <2>1, TokenStays DEF DrainNone
<1>11. ASSUME NEW t \in Threads, DrainFinish(t) PROVE Tokens'
    <2>1. OthersKept(t) /\ TokenShape(t)' /\ (HasToken(t)' <=> HasToken(t))
        BY <1>0, <1>11, <1>s DEF DrainFinish, OthersKept, TokenShape, HasToken, Holding
    <2>2. QED
        BY <1>11, <2>1, TokenStays DEF DrainFinish
<1>12. ASSUME NEW t \in Threads, DrainClear(t) PROVE Tokens'
    <2>1. pc[t] = "clear" /\ stack[t] = <<>> /\ storeBuffer[t] = 0 /\ HasToken(t)
        BY <1>0, <1>12, <1>s DEF DrainClear, TokenShape, HasToken, Holding
    <2>2. pc'[t] = "size" /\ stack' = stack
        BY <1>0, <1>12 DEF DrainClear
    <2>3. CASE StoreBuffers
        <3>1. storeBuffer'[t] = 1 /\ OthersKept(t)
            BY <1>0, <1>12, <2>1, <2>3 DEF DrainClear, StoreFlag, OthersKept
        <3>2. TokenShape(t)' /\ HasToken(t)'
            BY <2>1, <2>2, <3>1 DEF TokenShape, HasToken
        <3>3. mDrainScheduled' = mDrainScheduled /\ poolDrains' = poolDrains
            BY <1>12, <2>3 DEF DrainClear, StoreFlag
        <3>4. QED
            BY <2>1, <3>1, <3>2, <3>3, TokenStays
    <2>4. CASE ~StoreBuffers
        <3>1. storeBuffer' = storeBuffer /\ OthersKept(t)
            BY <1>0, <1>12, <2>4 DEF DrainClear, StoreFlag, OthersKept
        <3>2. TokenShape(t)' /\ ~HasToken(t)'
            BY <2>1, <2>2, <3>1 DEF TokenShape, HasToken, Holding
        <3>3. QED
            BY <1>0, <1>12, <2>1, <3>1, <3>2, TokenDropped DEF DrainClear
    <2>5. QED
        BY <2>3, <2>4
<1>13. ASSUME NEW t \in Threads, DrainSize(t) PROVE Tokens'
    <2>1. CASE QueueEmpty
        BY <1>13, <2>1, TokenReturn DEF DrainSize
    <2>2. CASE ~QueueEmpty
        <3>1. OthersKept(t) /\ TokenShape(t)' /\ (HasToken(t)' <=> HasToken(t))
            BY <1>0, <1>13, <1>s, <2>2
               DEF DrainSize, OthersKept, TokenShape, HasToken, Holding
        <3>2. QED
            BY <1>13, <3>1, TokenStays DEF DrainSize
    <2>3. QED
        BY <2>1, <2>2
<1>14. ASSUME NEW t \in Threads, DrainRetake(t) PROVE Tokens'
    <2>1. CASE mDrainScheduled
        BY <1>14, <2>1, TokenReturn DEF DrainRetake
    <2>2. CASE ~mDrainScheduled
        <3>1. stack[t] = <<>> /\ storeBuffer[t] = 0
            BY <1>14, <2>2 DEF DrainRetake, Tokens, OneToken, HasToken, Holding
        <3>2. OthersKept(t) /\ TokenShape(t)'
            BY <1>0, <1>14, <2>2, <3>1 DEF DrainRetake, OthersKept, TokenShape
        <3>3. QED
            BY <1>14, <2>2, <3>2, TokenTaken DEF DrainRetake
    <2>3. QED
        BY <2>1, <2>2
<1>15. ASSUME NEW t \in Threads, CommitStore(t) PROVE Tokens'
    <2>1. /\ HasToken(t) /\ storeBuffer[t] = 1
          /\ pc[t] \in {"size", "retake", "idle"} /\ stack[t] = <<>>
        BY <1>0, <1>15, <1>s DEF CommitStore, TokenShape, HasToken
    <2>2. storeBuffer'[t] = 0 /\ OthersKept(t) /\ pc' = pc /\ stack' = stack
        BY <1>0, <1>15, <2>1 DEF CommitStore, OthersKept
    <2>3. TokenShape(t)' /\ ~HasToken(t)'
        BY <2>1, <2>2 DEF TokenShape, HasToken, Holding
    <2>4. QED
        BY <1>0, <1>15, <2>1, <2>2, <2>3, TokenDropped DEF CommitStore
<1>16. ASSUME NEW w \in Workers, WorkerTake(w) PROVE Tokens'
    <2>0. w \in Threads
        BY DEF Threads
    <2>1. poolDrains = 1 /\ poolDrains' = 0 /\ \A t \in Threads : ~HasToken(t)
        BY <1>0, <1>16 DEF WorkerTake, Tokens, OneToken
    <2>2. mDrainScheduled /\ mDrainScheduled'
        BY <1>16, <2>1 DEF WorkerTake, Tokens, OneToken
    <2>3. OthersKept(w) /\ TokenShape(w)'
        BY <1>0, <1>16, <1>s, <2>0, <2>1
           DEF WorkerTake, OthersKept, TokenShape, HasToken, Holding
    <2>4. QED
        BY <2>0, <2>1, <2>2, <2>3
           DEF Tokens, OneToken, TokenShape, HasToken, Holding, OthersKept
<1>17. ASSUME UNCHANGED <<mDrainScheduled, poolDrains, pc, stack, storeBuffer>>
       PROVE  Tokens'
    BY <1>17 DEF Tokens, OneToken, TokenShape, HasToken, Holding
<1>18. CASE PoolStop
    BY <1>17, <1>18 DEF PoolStop
<1>19. QED
    BY <1>1, <1>2, <1>3, <1>4, <1>5, <1>6, <1>7, <1>8, <1>9, <1>10, <1>11, <1>12,
       <1>13, <1>14, <1>15, <1>16, <1>17, <1>18
       DEF Next, Step, SetMaxPendingTasks, SetBackpressurePolicy, vars

LEMMA RefusedForGood == [Next]_vars /\ ~refused' => ~refused
BY DEF Next, Step, vars, config, EnqueueCount, EnqueueLimit, EnqueuePolicy, EnqueuePush,
       EnqueuePushFails, ScheduleExchange, ScheduleSubmit, ScheduleUnflag, WorkerTake,
       DrainDequeue, DrainNone, DrainFinish, DrainClear, DrainSize, DrainRetake,
       CommitStore, SetMaxPendingTasks, SetBackpressurePolicy, PoolStop

(* The token argument: with or without delayed stores, the right to drain is  *)
(* in one place at most until the pool has refused a drain, open or closed    *)
(* (TaskStrand.hpp:147-179).                                                  *)
THEOREM TokenIsUnique == Spec => []TokenInv
<1>1. Init => TokenInv
    BY DEF Init, TokenInv, OneToken, TokenShape, HasToken, Holding
<1>2. TypeOK /\ TokenInv /\ [Next]_vars => TokenInv'
    BY TokenStep, RefusedForGood DEF TokenInv, Tokens
<1>3. QED
    BY <1>1, <1>2, TypeCorrect, PTL DEF Spec

(* Two tasks of a strand never overlap before the pool has refused a drain,   *)
(* whatever the memory model, the policy and the limits                       *)
(* (TaskStrand.hpp:159-179).                                                  *)
THEOREM Serial == Spec => []StrandIsSerial
<1>1. TypeOK /\ TokenInv => StrandIsSerial
    <2> SUFFICES ASSUME TypeOK, TokenInv, ~refused PROVE StrandIsSerial
        BY DEF StrandIsSerial
    <2>1. ASSUME NEW t \in Threads, NEW u \in Threads, Executing(t), Executing(u)
          PROVE  t = u
        BY <2>1 DEF TokenInv, OneToken, HasToken, Holding, Executing
    <2>2. ASSUME NEW t \in Threads
          PROVE  /\ Len(stack[t]) <= 1
                 /\ pc[t] = "run" => stack[t] = <<>>
        <3>1. stack[t] \in Seq(TaskId \union {<<>>}) /\ TokenShape(t)
            BY DEF TypeOK, TokenInv
        <3>2. CASE stack[t] = <<>>
            <4>1. Len(stack[t]) = 0
                BY <3>2
            <4>2. QED
                BY <3>2, <4>1
        <3>3. CASE stack[t] # <<>>
            <4>1. Len(stack[t]) = 1 /\ pc[t] # "run"
                BY <3>1, <3>3 DEF TokenShape
            <4>2. QED
                BY <4>1
        <3>4. QED
            BY <3>2, <3>3
    <2>3. QED
        BY <2>1, <2>2 DEF StrandIsSerial
<1>2. QED
    BY <1>1, TypeCorrect, TokenIsUnique, PTL

-----------------------------------------------------------------------------
(* One of the sequences of s grew, shrank or kept its length.                *)
Grows(s, x, d) ==
    \E p \in Threads : \E n \in Nat :
        /\ DOMAIN s[p] = 1..n /\ n + d \in Nat /\ DOMAIN x[p] = 1..(n + d)
        /\ \A u \in Threads \ {p} : DOMAIN x[u] = DOMAIN s[u]

LEMMA GrowsCount ==
    ASSUME NEW s, NEW x, NEW d \in {-1, 0, 1}, Grows(s, x, d), IsFiniteSet(Places(s))
    PROVE  /\ IsFiniteSet(Places(x))
           /\ Cardinality(Places(s)) \in Nat /\ Cardinality(Places(x)) \in Nat
           /\ Cardinality(Places(x)) = Cardinality(Places(s)) + d
<1>1. PICK p \in Threads, n \in Nat :
          /\ DOMAIN s[p] = 1..n /\ n + d \in Nat /\ DOMAIN x[p] = 1..(n + d)
          /\ \A u \in Threads \ {p} : DOMAIN x[u] = DOMAIN s[u]
    BY DEF Grows
<1> DEFINE top == IF d = 1 THEN n + 1 ELSE n
<1>2. \A y : y \in Places(s) <=> \E u \in Threads : \E i \in DOMAIN s[u] : y = <<u, i>>
    BY DEF Places
<1>3. \A y : y \in Places(x) <=> \E u \in Threads : \E i \in DOMAIN x[u] : y = <<u, i>>
    BY DEF Places
<1>4. \A i : i # top => (i \in DOMAIN x[p] <=> i \in DOMAIN s[p])
    BY <1>1
<1>5. \A y : y # <<p, top>> => (y \in Places(s) <=> y \in Places(x))
    BY <1>1, <1>2, <1>3, <1>4
<1>6. /\ <<p, top>> \in Places(s) <=> top \in DOMAIN s[p]
      /\ <<p, top>> \in Places(x) <=> top \in DOMAIN x[p]
    BY <1>2, <1>3
<1>7. /\ IsFiniteSet(Places(x))
      /\ Cardinality(Places(s)) \in Nat /\ Cardinality(Places(x)) \in Nat
      /\ Cardinality(Places(x)) = Cardinality(Places(s)) + One(top \in DOMAIN x[p])
                                                        - One(top \in DOMAIN s[p])
    BY <1>5, <1>6, CountMove
<1>8. CASE d = 0
    BY <1>1, <1>7, <1>8 DEF One
<1>9. CASE d = 1
    <2>1. top \in DOMAIN x[p] /\ top \notin DOMAIN s[p]
        BY <1>1, <1>9
    <2>2. QED
        BY <1>7, <1>9, <2>1 DEF One
<1>10. CASE d = -1
    <2>1. CASE n = 0
        BY <1>1, <1>10, <2>1
    <2>2. CASE n # 0
        <3>1. top \in DOMAIN s[p] /\ top \notin DOMAIN x[p]
            BY <1>1, <1>10, <2>2
        <3>2. QED
            BY <1>7, <1>10, <3>1 DEF One
    <2>3. QED
        BY <2>1, <2>2
<1>11. QED
    BY <1>8, <1>9, <1>10

(* t goes from one statement to another; dq, ds and dm say what the queue,   *)
(* the stacks and mPendingTasks gain.                                        *)
Moves(t, from, to, dq, ds, dm) ==
    /\ pc[t] = from /\ pc'[t] = to
    /\ \A u \in Threads \ {t} : pc'[u] = pc[u] /\ pending'[u] = pending[u]
    /\ Grows(mTasks, mTasks', dq) /\ Grows(stack, stack', ds)
    /\ mPendingTasks' = mPendingTasks + dm

(* t ends a call: it leaves the strand, or resumes the suspended task.       *)
Back(t, from, dm) == Moves(t, from, "idle", 0, 0, dm) \/ Moves(t, from, "run", 0, -1, dm)

Elsewhere == Labels \ {"limit", "policy", "push", "run"}

LEMMA QueueSame ==
    ASSUME TypeOK, NEW t \in Threads
    PROVE  /\ mTasks' = mTasks => Grows(mTasks, mTasks', 0)
           /\ stack' = stack => Grows(stack, stack', 0)
<1>1. mTasks[t] \in Seq(Nat) /\ stack[t] \in Seq(TaskId \union {<<>>})
    BY DEF TypeOK
<1>2. PICK n \in Nat, m \in Nat : DOMAIN mTasks[t] = 1..n /\ DOMAIN stack[t] = 1..m
    BY <1>1
<1>3. QED
    BY <1>2 DEF Grows

LEMMA ReturnMoves ==
    ASSUME TypeOK, NEW t \in Threads, Return(t)
    PROVE  /\ \A u \in Threads \ {t} : pc'[u] = pc[u]
           /\ \/ pc'[t] = "idle" /\ Grows(stack, stack', 0)
              \/ pc'[t] = "run" /\ Grows(stack, stack', -1)
<1>1. CASE stack[t] = <<>>
    <2>1. stack' = stack
        BY <1>1 DEF Return
    <2>2. QED
        BY <1>1, <2>1, ReturnEffect, QueueSame DEF Others
<1>2. CASE stack[t] # <<>>
    <2>1. /\ pc'[t] = "run" /\ stack'[t] = Tail(stack[t])
          /\ \A u \in Threads \ {t} : pc'[u] = pc[u] /\ stack'[u] = stack[u]
        BY <1>2, ReturnEffect DEF Others
    <2>2. stack[t] \in Seq(TaskId \union {<<>>})
        BY DEF TypeOK
    <2>3. PICK n \in Nat : /\ DOMAIN stack[t] = 1..n /\ n - 1 \in Nat
                           /\ DOMAIN Tail(stack[t]) = 1..(n - 1)
        <3>1. /\ Len(stack[t]) \in Nat \ {0} /\ Len(Tail(stack[t])) = Len(stack[t]) - 1
              /\ DOMAIN stack[t] = 1..Len(stack[t])
              /\ DOMAIN Tail(stack[t]) = 1..Len(Tail(stack[t]))
            BY <1>2, <2>2
        <3>2. QED
            BY <3>1
    <2>4. n + (-1) \in Nat /\ DOMAIN stack'[t] = 1..(n + (-1))
        BY <2>1, <2>3
    <2>5. Grows(stack, stack', -1)
        BY <2>1, <2>3, <2>4 DEF Grows
    <2>6. QED
        BY <2>1, <2>5
<1>3. QED
    BY <1>1, <1>2

(* What the steps of a thread do to the places of tasks and to the counter.  *)
Kind(t) ==
    \/ /\ Moves(t, "idle", "limit", 0, 0, 1) \/ Moves(t, "run", "limit", 0, 1, 1)
       /\ pending'[t] = mPendingTasks + 1
    \/ Moves(t, "limit", "policy", 0, 0, 0)
    \/ Moves(t, "limit", "push", 0, 0, 0) /\ pending[t] <= mMaxPendingTasks
    \/ Moves(t, "policy", "push", 0, 0, 0) /\ mBackpressurePolicy
    \/ Back(t, "policy", -1) \/ Back(t, "push", -1)
    \/ Moves(t, "push", "schedule", 1, 0, 0)
    \/ Moves(t, "dequeue", "run", -1, 0, 0)
    \/ Moves(t, "run", "dequeue", 0, 0, -1)
    \/ \E from \in Elsewhere : \E to \in Elsewhere : Moves(t, from, to, 0, 0, 0)
    \/ \E from \in Elsewhere : Back(t, from, 0)

ThreadStep(t) ==
    \/ t \in Threads /\ (EnqueueCount(t) \/ Step(t))
    \/ t \in Workers /\ WorkerTake(t)

LEMMA EnqueueMoves ==
    ASSUME TypeOK, NEW t \in Threads,
           \/ EnqueueCount(t) \/ EnqueueLimit(t) \/ EnqueuePolicy(t) \/ EnqueuePush(t)
           \/ EnqueuePushFails(t)
    PROVE  Kind(t)
<1>0. /\ pc \in [Threads -> Labels] /\ pending \in [Threads -> Int] /\ mPendingTasks \in Int
      /\ mTasks \in [Threads -> Seq(Nat)] /\ mMaxPendingTasks \in Nat
      /\ stack \in [Threads -> Seq(TaskId \union {<<>>})] /\ task[t] \in TaskId \union {<<>>}
    BY DEF TypeOK
<1>1. CASE EnqueueCount(t)
    <2>1. /\ pc'[t] = "limit" /\ pending'[t] = mPendingTasks + 1
          /\ \A u \in Threads \ {t} : pc'[u] = pc[u] /\ pending'[u] = pending[u]
          /\ mTasks' = mTasks /\ mPendingTasks' = mPendingTasks + 1
        BY <1>0, <1>1 DEF EnqueueCount, Goto
    <2>2. CASE pc[t] = "idle"
        <3>1. stack' = stack
            BY <1>1, <2>2 DEF EnqueueCount, At
        <3>2. QED
            BY <2>1, <2>2, <3>1, QueueSame DEF Kind, Moves
    <2>3. CASE pc[t] = "run"
        <3>1. /\ stack'[t] = <<task[t]>> \o stack[t]
              /\ \A u \in Threads \ {t} : stack'[u] = stack[u]
            BY <1>0, <1>1, <2>3 DEF EnqueueCount, At
        <3>2. PICK n \in Nat : DOMAIN stack[t] = 1..n /\ DOMAIN stack'[t] = 1..(n + 1)
            <4>0. PICK a, q : /\ a = task[t] /\ q = stack[t]
                              /\ a \in TaskId \union {<<>>} /\ q \in Seq(TaskId \union {<<>>})
                BY <1>0
            <4>3. /\ <<a>> \o q \in Seq(TaskId \union {<<>>}) /\ Len(<<a>> \o q) = Len(q) + 1
                  /\ Len(q) \in Nat
                BY <4>0
            <4>4. PICK x : x = <<a>> \o q
                OBVIOUS
            <4>5. x \in Seq(TaskId \union {<<>>}) /\ Len(x) = Len(q) + 1
                BY <4>3, <4>4
            <4>1. DOMAIN q = 1..Len(q) /\ DOMAIN x = 1..(Len(q) + 1)
                BY <4>0, <4>5
            <4>2. QED
                BY <3>1, <4>0, <4>1, <4>3, <4>4
        <3>5. \A u \in Threads \ {t} : DOMAIN stack'[u] = DOMAIN stack[u]
            BY <3>1
        <3>3. Grows(stack, stack', 1)
            BY <3>2, <3>5 DEF Grows
        <3>4. QED
            BY <2>1, <2>3, <3>3, QueueSame DEF Kind, Moves
    <2>4. QED
        BY <1>1, <2>2, <2>3 DEF EnqueueCount
<1>2. CASE EnqueueLimit(t)
    <2>1. /\ pc[t] = "limit"
          /\ \/ pc'[t] = "policy"
             \/ pc'[t] = "push" /\ ~(pending[t] > mMaxPendingTasks)
          /\ \A u \in Threads \ {t} : pc'[u] = pc[u] /\ pending'[u] = pending[u]
          /\ mTasks' = mTasks /\ stack' = stack /\ mPendingTasks' = mPendingTasks + 0
        BY <1>0, <1>2 DEF EnqueueLimit, Goto, At
    <2>2. pending[t] > mMaxPendingTasks \/ pending[t] <= mMaxPendingTasks
        BY <1>0
    <2>3. QED
        BY <2>1, <2>2, QueueSame DEF Kind, Moves
<1>3. CASE EnqueuePolicy(t)
    <2>1. /\ pc[t] = "policy" /\ mTasks' = mTasks
          /\ \A u \in Threads \ {t} : pending'[u] = pending[u]
        BY <1>3 DEF EnqueuePolicy, At
    <2>2. CASE mBackpressurePolicy
        <3>1. /\ pc'[t] = "push" /\ stack' = stack /\ mPendingTasks' = mPendingTasks + 0
              /\ \A u \in Threads \ {t} : pc'[u] = pc[u]
            BY <1>0, <1>3, <2>2 DEF EnqueuePolicy, Goto
        <3>2. QED
            BY <2>1, <2>2, <3>1, QueueSame DEF Kind, Moves
    <2>3. CASE ~mBackpressurePolicy
        <3>1. mPendingTasks' = mPendingTasks + (-1) /\ Return(t)
            BY <1>0, <1>3, <2>3 DEF EnqueuePolicy
        <3>2. QED
            BY <2>1, <3>1, QueueSame, ReturnMoves DEF Kind, Back, Moves
    <2>4. QED
        BY <2>2, <2>3
<1>4. CASE EnqueuePush(t)
    <2>1. /\ pc[t] = "push" /\ pc'[t] = "schedule" /\ mTasks'[t] = Append(mTasks[t], calls[t])
          /\ \A u \in Threads \ {t} : /\ pc'[u] = pc[u] /\ pending'[u] = pending[u]
                                      /\ mTasks'[u] = mTasks[u]
          /\ stack' = stack /\ mPendingTasks' = mPendingTasks + 0
        BY <1>0, <1>4 DEF EnqueuePush, Goto, At, locals
    <2>2. PICK n \in Nat : DOMAIN mTasks[t] = 1..n /\ DOMAIN mTasks'[t] = 1..(n + 1)
        <3>1. calls[t] \in Nat
            BY DEF TypeOK
        <3>2. /\ Len(mTasks[t]) \in Nat /\ DOMAIN mTasks[t] = 1..Len(mTasks[t])
              /\ DOMAIN Append(mTasks[t], calls[t]) = 1..(Len(mTasks[t]) + 1)
            BY <1>0, <3>1
        <3>3. QED
            BY <2>1, <3>2
    <2>3. Grows(mTasks, mTasks', 1)
        BY <2>1, <2>2 DEF Grows
    <2>4. QED
        BY <2>1, <2>3, QueueSame DEF Kind, Moves
<1>5. CASE EnqueuePushFails(t)
    <2>1. /\ pc[t] = "push" /\ mTasks' = mTasks /\ mPendingTasks' = mPendingTasks + (-1)
          /\ Return(t) /\ \A u \in Threads \ {t} : pending'[u] = pending[u]
        BY <1>0, <1>5 DEF EnqueuePushFails, At
    <2>2. QED
        BY <2>1, QueueSame, ReturnMoves DEF Kind, Back, Moves
<1>6. QED
    BY <1>1, <1>2, <1>3, <1>4, <1>5

LEMMA OtherMoves ==
    ASSUME TypeOK, NEW t \in Threads,
           \/ ScheduleExchange(t) \/ ScheduleSubmit(t) \/ ScheduleUnflag(t) \/ WorkerTake(t)
           \/ DrainNone(t) \/ DrainClear(t) \/ DrainSize(t) \/ DrainRetake(t)
    PROVE  Kind(t)
<1>0. pc \in [Threads -> Labels] /\ mPendingTasks \in Int
    BY DEF TypeOK
<1>1. /\ mTasks' = mTasks /\ mPendingTasks' = mPendingTasks + 0
      /\ \A u \in Threads \ {t} : pending'[u] = pending[u]
      /\ pc[t] \in Elsewhere
      /\ \/ Return(t)
         \/ /\ \E to \in Elsewhere : Goto(t, to)
            /\ stack' = stack
    BY <1>0 DEF ScheduleExchange, ScheduleSubmit, ScheduleUnflag, WorkerTake, DrainNone, DrainClear,
                DrainSize, DrainRetake, At, Elsewhere, Labels, locals
<1>2. CASE Return(t)
    BY <1>1, <1>2, QueueSame, ReturnMoves DEF Kind, Back, Moves
<1>3. CASE (\E to \in Elsewhere : Goto(t, to)) /\ stack' = stack
    <2>1. PICK to \in Elsewhere : Goto(t, to)
        BY <1>3
    <2>2. pc'[t] = to /\ \A u \in Threads \ {t} : pc'[u] = pc[u]
        BY <1>0, <2>1 DEF Goto
    <2>3. Moves(t, pc[t], to, 0, 0, 0)
        BY <1>1, <1>3, <2>2, QueueSame DEF Moves
    <2>4. QED
        BY <1>1, <2>3 DEF Kind
<1>4. QED
    BY <1>1, <1>2, <1>3

LEMMA DrainMoves ==
    ASSUME TypeOK, NEW t \in Threads,
           (\E p \in Threads : DrainDequeue(t, p)) \/ DrainFinish(t)
    PROVE  Kind(t)
<1>0. /\ pc \in [Threads -> Labels] /\ mPendingTasks \in Int
      /\ mTasks \in [Threads -> Seq(Nat)]
    BY DEF TypeOK
<1>1. ASSUME NEW p \in Threads, DrainDequeue(t, p) PROVE Kind(t)
    <2>1. /\ pc[t] = "dequeue" /\ pc'[t] = "run" /\ mTasks'[p] = Tail(mTasks[p])
          /\ \A u \in Threads \ {t} : pc'[u] = pc[u] /\ pending'[u] = pending[u]
          /\ \A u \in Threads \ {p} : mTasks'[u] = mTasks[u]
          /\ mTasks[p] # <<>> /\ stack' = stack /\ mPendingTasks' = mPendingTasks + 0
        BY <1>0, <1>1 DEF DrainDequeue, Goto, At
    <2>2. PICK n \in Nat : /\ DOMAIN mTasks[p] = 1..n /\ n + (-1) \in Nat
                           /\ DOMAIN mTasks'[p] = 1..(n + (-1))
        <3>1. /\ Len(mTasks[p]) \in Nat \ {0} /\ Len(Tail(mTasks[p])) = Len(mTasks[p]) - 1
              /\ DOMAIN mTasks[p] = 1..Len(mTasks[p])
              /\ DOMAIN Tail(mTasks[p]) = 1..Len(Tail(mTasks[p]))
            BY <1>0, <2>1
        <3>2. QED
            BY <2>1, <3>1
    <2>3. Grows(mTasks, mTasks', -1)
        BY <2>1, <2>2 DEF Grows
    <2>4. QED
        BY <2>1, <2>3, QueueSame DEF Kind, Moves
<1>2. CASE DrainFinish(t)
    <2>1. /\ pc[t] = "run" /\ pc'[t] = "dequeue" /\ mTasks' = mTasks /\ stack' = stack
          /\ \A u \in Threads \ {t} : pc'[u] = pc[u] /\ pending'[u] = pending[u]
          /\ mPendingTasks' = mPendingTasks + (-1)
        BY <1>0, <1>2 DEF DrainFinish, Goto, At
    <2>2. QED
        BY <2>1, QueueSame DEF Kind, Moves
<1>3. QED
    BY <1>1, <1>2

LEMMA StepMoves ==
    ASSUME TypeOK, NEW t, ThreadStep(t)
    PROVE  t \in Threads /\ Kind(t)
BY EnqueueMoves, OtherMoves, DrainMoves DEF ThreadStep, Step, Threads

(* The calls and the tasks a step moves, in numbers.                         *)
Finite == IsFiniteSet(Places(mTasks)) /\ IsFiniteSet(Places(stack))

LEMMA MovesCount ==
    ASSUME TypeOK, Finite, NEW t \in Threads, NEW from, NEW to, NEW dq \in {-1, 0, 1},
           NEW ds \in {-1, 0, 1}, NEW dm, Moves(t, from, to, dq, ds, dm)
    PROVE  /\ Finite'
           /\ Cardinality(Places(mTasks)) \in Nat /\ Cardinality(Places(stack)) \in Nat
           /\ Cardinality(Places(mTasks))' = Cardinality(Places(mTasks)) + dq
           /\ Cardinality(Places(stack))' = Cardinality(Places(stack)) + ds
           /\ \A labels : /\ Cardinality(ThreadsAt(labels)) \in Nat
                          /\ Cardinality(ThreadsAt(labels))'
                             = Cardinality(ThreadsAt(labels)) + One(to \in labels)
                                                              - One(from \in labels)
<1>1. /\ IsFiniteSet(Places(mTasks')) /\ IsFiniteSet(Places(stack'))
      /\ Cardinality(Places(mTasks)) \in Nat /\ Cardinality(Places(stack)) \in Nat
      /\ Cardinality(Places(mTasks')) = Cardinality(Places(mTasks)) + dq
      /\ Cardinality(Places(stack')) = Cardinality(Places(stack)) + ds
    BY GrowsCount DEF Moves, Finite
<1>2. Places(mTasks)' = Places(mTasks') /\ Places(stack)' = Places(stack')
    BY DEF Places
<1>3. ASSUME NEW labels
      PROVE  /\ Cardinality(ThreadsAt(labels)) \in Nat
             /\ Cardinality(ThreadsAt(labels))'
                = Cardinality(ThreadsAt(labels)) + One(to \in labels) - One(from \in labels)
    <2>1. IsFiniteSet(ThreadsAt(labels))
        BY ThreadsAssumption, FS_Subset, FS_Union DEF ThreadsAt, Threads
    <2>2. /\ t \in ThreadsAt(labels) <=> from \in labels
          /\ t \in ThreadsAt(labels)' <=> to \in labels
          /\ \A u : u # t => (u \in ThreadsAt(labels) <=> u \in ThreadsAt(labels)')
        BY DEF Moves, ThreadsAt
    <2>3. /\ Cardinality(ThreadsAt(labels)) \in Nat
          /\ Cardinality(ThreadsAt(labels)')
             = Cardinality(ThreadsAt(labels)) + One(t \in ThreadsAt(labels)')
                                              - One(t \in ThreadsAt(labels))
        BY <2>1, <2>2, CountMove
    <2>4. One(t \in ThreadsAt(labels)') = One(to \in labels)
          /\ One(t \in ThreadsAt(labels)) = One(from \in labels)
        BY <2>2 DEF One
    <2>5. QED
        BY <2>3, <2>4
<1>4. QED
    BY <1>1, <1>2, <1>3 DEF Finite

Calls == {"limit", "policy", "push"}
Balance(from, to, dq, ds) ==
    dq + ds + One(to \in {"run"}) - One(from \in {"run"}) + One(to \in Calls)
      - One(from \in Calls)

(* What a step adds to mPendingTasks it adds to the tasks and calls there    *)
(* are.                                                                      *)
LEMMA KindBalance ==
    ASSUME NEW t, Kind(t)
    PROVE  \E from, to : \E dq, ds, dm \in {-1, 0, 1} :
              Moves(t, from, to, dq, ds, dm) /\ dm = Balance(from, to, dq, ds)
<1> USE DEF Balance, One, Calls
<1>1. ASSUME NEW from, NEW dm \in {-1, 0}, Back(t, from, dm),
             dm = 0 - One(from \in {"run"}) - One(from \in Calls)
      PROVE  \E to : \E dq, ds \in {-1, 0, 1} :
                Moves(t, from, to, dq, ds, dm) /\ dm = Balance(from, to, dq, ds)
    <2>1. CASE Moves(t, from, "idle", 0, 0, dm)
        <3>1. dm = Balance(from, "idle", 0, 0)
            BY <1>1
        <3>2. QED
            BY <2>1, <3>1
    <2>2. CASE Moves(t, from, "run", 0, -1, dm)
        <3>1. dm = Balance(from, "run", 0, -1)
            BY <1>1
        <3>2. QED
            BY <2>2, <3>1
    <2>3. QED
        BY <1>1, <2>1, <2>2 DEF Back
<1>2. /\ 1 = Balance("idle", "limit", 0, 0) /\ 1 = Balance("run", "limit", 0, 1)
      /\ 0 = Balance("limit", "policy", 0, 0) /\ 0 = Balance("limit", "push", 0, 0)
      /\ 0 = Balance("policy", "push", 0, 0) /\ 0 = Balance("push", "schedule", 1, 0)
      /\ 0 = Balance("dequeue", "run", -1, 0) /\ -1 = Balance("run", "dequeue", 0, 0)
      /\ \A from, to \in Elsewhere : 0 = Balance(from, to, 0, 0)
    BY DEF Elsewhere
<1>3. /\ \A from \in {"policy", "push"} : -1 = 0 - One(from \in {"run"}) - One(from \in Calls)
      /\ \A from \in Elsewhere : 0 = 0 - One(from \in {"run"}) - One(from \in Calls)
    BY DEF Elsewhere
<1>4. CASE Back(t, "policy", -1) \/ Back(t, "push", -1)
    BY <1>1, <1>3, <1>4
<1>5. CASE \E from \in Elsewhere : Back(t, from, 0)
    BY <1>1, <1>3, <1>5
<1>6. CASE ~(Back(t, "policy", -1) \/ Back(t, "push", -1))
           /\ ~\E from \in Elsewhere : Back(t, from, 0)
    <2>1. \/ Moves(t, "idle", "limit", 0, 0, 1) \/ Moves(t, "run", "limit", 0, 1, 1)
          \/ Moves(t, "limit", "policy", 0, 0, 0) \/ Moves(t, "limit", "push", 0, 0, 0)
          \/ Moves(t, "policy", "push", 0, 0, 0) \/ Moves(t, "push", "schedule", 1, 0, 0)
          \/ Moves(t, "dequeue", "run", -1, 0, 0) \/ Moves(t, "run", "dequeue", 0, 0, -1)
          \/ \E from \in Elsewhere : \E to \in Elsewhere : Moves(t, from, to, 0, 0, 0)
        BY <1>6 DEF Kind
    <2>2. QED
        BY <1>2, <2>1
<1>7. QED
    BY <1>4, <1>5, <1>6

LEMMA KindCounts ==
    ASSUME TypeOK, Finite, PendingIsExact, NEW t \in Threads, Kind(t)
    PROVE  Finite' /\ PendingIsExact'
<1>1. PICK from, to : \E dq, ds, dm \in {-1, 0, 1} :
              Moves(t, from, to, dq, ds, dm) /\ dm = Balance(from, to, dq, ds)
    BY KindBalance
<1>2. PICK dq, ds, dm \in {-1, 0, 1} :
              Moves(t, from, to, dq, ds, dm) /\ dm = Balance(from, to, dq, ds)
    BY <1>1
<1>3. PICK q, s, r, k \in Nat :
          /\ q = Cardinality(Places(mTasks)) /\ s = Cardinality(Places(stack))
          /\ r = Cardinality(ThreadsAt({"run"})) /\ k = Cardinality(ThreadsAt(Calls))
    BY <1>2, MovesCount
<1>4. PICK a, b, c, d \in {0, 1} :
          /\ a = One(to \in {"run"}) /\ b = One(from \in {"run"})
          /\ c = One(to \in Calls) /\ d = One(from \in Calls)
    <2>1. /\ One(to \in {"run"}) \in {0, 1} /\ One(from \in {"run"}) \in {0, 1}
          /\ One(to \in Calls) \in {0, 1} /\ One(from \in Calls) \in {0, 1}
        BY DEF One
    <2>2. QED
        BY <2>1
<1>5. /\ Finite'
      /\ Cardinality(Places(mTasks))' = q + dq /\ Cardinality(Places(stack))' = s + ds
      /\ Cardinality(ThreadsAt({"run"}))' = r + a - b
      /\ Cardinality(ThreadsAt(Calls))' = k + c - d
    <2>1. /\ Finite'
          /\ Cardinality(Places(mTasks))' = Cardinality(Places(mTasks)) + dq
          /\ Cardinality(Places(stack))' = Cardinality(Places(stack)) + ds
        BY <1>2, MovesCount
    <2>2. Cardinality(ThreadsAt({"run"}))'
             = Cardinality(ThreadsAt({"run"})) + One(to \in {"run"}) - One(from \in {"run"})
        BY <1>2, MovesCount
    <2>3. Cardinality(ThreadsAt(Calls))'
             = Cardinality(ThreadsAt(Calls)) + One(to \in Calls) - One(from \in Calls)
        BY <1>2, MovesCount
    <2>4. QED
        BY <1>3, <1>4, <2>1, <2>2, <2>3
<1>6. mPendingTasks = q + s + r + k
    BY <1>3 DEF PendingIsExact, Carried, Calls
<1>7. mPendingTasks' = mPendingTasks + dm /\ dm = dq + ds + a - b + c - d
    BY <1>2, <1>4 DEF Moves, Balance
<1>8. mPendingTasks' = (q + dq) + (s + ds) + (r + a - b) + (k + c - d)
    BY <1>6, <1>7
<1>9. QED
    BY <1>5, <1>8 DEF PendingIsExact, Carried, Calls

(* What the other steps leave alone.                                         *)
LEMMA Settings ==
    ASSUME \/ \E t \in Threads : CommitStore(t)
           \/ \E n \in Limits : SetMaxPendingTasks(n)
           \/ \E b \in Policies : SetBackpressurePolicy(b)
           \/ PoolStop \/ UNCHANGED vars
    PROVE  /\ UNCHANGED <<mTasks, mPendingTasks, pc, pending, task, stack, calls>>
           /\ \/ mBackpressurePolicy' = mBackpressurePolicy
              \/ mBackpressurePolicy' \in Policies
BY DEF CommitStore, SetMaxPendingTasks, SetBackpressurePolicy, PoolStop, vars, state, config, locals

LEMMA CountsInit == Init => Finite /\ PendingIsExact
<1> SUFFICES ASSUME Init PROVE Finite /\ PendingIsExact
    OBVIOUS
<1>1. Places(mTasks) = {} /\ Places(stack) = {}
    BY DEF Init, Places
<1>2. ThreadsAt({"run"}) = {} /\ ThreadsAt({"limit", "policy", "push"}) = {}
    BY DEF Init, ThreadsAt
<1>3. IsFiniteSet({}) /\ Cardinality({}) = 0
    BY FS_EmptySet
<1>4. mPendingTasks = 0
    BY DEF Init
<1>5. QED
    BY <1>1, <1>2, <1>3, <1>4 DEF Finite, PendingIsExact, Carried

LEMMA CountsStep ==
    ASSUME TypeOK, Finite, PendingIsExact, [Next]_vars
    PROVE  Finite' /\ PendingIsExact'
<1>1. CASE \E t : ThreadStep(t)
    BY <1>1, StepMoves, KindCounts
<1>2. CASE ~\E t : ThreadStep(t)
    <2>1. UNCHANGED <<mTasks, mPendingTasks, pc, stack>>
        BY <1>2, Settings DEF Next, ThreadStep
    <2>2. QED
        BY <2>1 DEF Finite, PendingIsExact, Carried, Places, ThreadsAt
<1>3. QED
    BY <1>1, <1>2

(* Over any number of calls, whatever the memory, the policy and the limits: *)
(* mPendingTasks is the number of tasks and undecided calls, on every path   *)
(* (TaskStrand.hpp:96-179).                                                  *)
THEOREM PendingCounts == Spec => []PendingIsExact
BY CountsInit, CountsStep, TypeCorrect, PTL DEF Spec

-----------------------------------------------------------------------------
(* The calls that will find themselves within the largest limit: whoever     *)
(* counts up reads a number that has all of them, and itself, in it.         *)
Admitted == {t \in Threads : pc[t] = "limit" /\ pending[t] <= Largest}

AdmitInv ==
    TRUE \notin Policies =>
       /\ ~mBackpressurePolicy /\ mMaxPendingTasks <= Largest
       /\ Carried + Cardinality(ThreadsAt({"push"})) + Cardinality(Admitted) <= Largest

LEMMA LargestIs == Largest \in Nat /\ \A n \in Limits : n <= Largest
BY LimitsAssumption DEF Largest

Room(from, to, dq, ds) ==
    dq + ds + One(to \in {"run"}) - One(from \in {"run"}) + One(to \in {"push"})
      - One(from \in {"push"})

(* A step that is not the beginning of a call makes a task of an admitted    *)
(* call at most.                                                             *)
LEMMA KindRoom ==
    ASSUME TypeOK, mMaxPendingTasks <= Largest, ~mBackpressurePolicy, NEW t \in Threads, Kind(t)
    PROVE  \E from, to : \E dq, ds, dm \in {-1, 0, 1} :
              /\ Moves(t, from, to, dq, ds, dm)
              /\ \/ /\ to = "limit" /\ from # "limit" /\ Room(from, to, dq, ds) = 0
                    /\ pending'[t] = mPendingTasks + 1
                 \/ to # "limit" /\ Room(from, to, dq, ds) <= One(t \in Admitted)
<1>0. One(t \in Admitted) \in {0, 1} /\ pending[t] \in Int /\ mMaxPendingTasks \in Nat
    BY DEF One, TypeOK
<1> DEFINE Fits(from, to, dq, ds, dm) ==
              /\ Moves(t, from, to, dq, ds, dm)
              /\ \/ /\ to = "limit" /\ from # "limit" /\ Room(from, to, dq, ds) = 0
                    /\ pending'[t] = mPendingTasks + 1
                 \/ to # "limit" /\ Room(from, to, dq, ds) <= One(t \in Admitted)
<1> SUFFICES \E from, to : \E dq, ds, dm \in {-1, 0, 1} : Fits(from, to, dq, ds, dm)
    OBVIOUS
<1>1. /\ Room("idle", "limit", 0, 0) = 0 /\ Room("run", "limit", 0, 1) = 0
      /\ Room("limit", "policy", 0, 0) = 0 /\ Room("limit", "push", 0, 0) = 1
      /\ Room("push", "schedule", 1, 0) = 0
      /\ Room("dequeue", "run", -1, 0) = 0 /\ Room("run", "dequeue", 0, 0) = -1
      /\ \A from, to \in Elsewhere : Room(from, to, 0, 0) = 0
    BY DEF Room, One, Elsewhere
<1>2. \A from \in Elsewhere \union {"policy", "push"} :
         Room(from, "idle", 0, 0) <= 0 /\ Room(from, "run", 0, -1) <= 0
    BY DEF Room, One, Elsewhere
<1>3. CASE /\ Moves(t, "idle", "limit", 0, 0, 1) \/ Moves(t, "run", "limit", 0, 1, 1)
           /\ pending'[t] = mPendingTasks + 1
    <2>1. CASE Moves(t, "idle", "limit", 0, 0, 1)
        <3>1. Fits("idle", "limit", 0, 0, 1)
            BY <1>1, <1>3, <2>1
        <3>2. QED
            BY <3>1
    <2>2. CASE Moves(t, "run", "limit", 0, 1, 1)
        <3>1. Fits("run", "limit", 0, 1, 1)
            BY <1>1, <1>3, <2>2
        <3>2. QED
            BY <3>1
    <2>3. QED
        BY <1>3, <2>1, <2>2
<1>4. CASE Moves(t, "limit", "push", 0, 0, 0) /\ pending[t] <= mMaxPendingTasks
    <2>1. pc[t] = "limit" /\ pending[t] <= Largest
        BY <1>0, <1>4, LargestIs DEF Moves
    <2>2. One(t \in Admitted) = 1
        BY <2>1 DEF Admitted, One
    <2>3. Fits("limit", "push", 0, 0, 0)
        BY <1>1, <1>4, <2>2
    <2>4. QED
        BY <2>3
<1>5. ASSUME NEW from \in Elsewhere \union {"policy", "push"}, NEW dm \in {-1, 0, 1},
             Back(t, from, dm)
      PROVE  \E to : \E dq, ds \in {-1, 0, 1} : Fits(from, to, dq, ds, dm)
    <2>1. /\ Room(from, "idle", 0, 0) <= One(t \in Admitted)
          /\ Room(from, "run", 0, -1) <= One(t \in Admitted)
        <3>1. Room(from, "idle", 0, 0) \in Int /\ Room(from, "run", 0, -1) \in Int
            BY DEF Room, One
        <3>2. QED
            BY <1>0, <1>2, <3>1
    <2>2. Fits(from, "idle", 0, 0, dm) \/ Fits(from, "run", 0, -1, dm)
        BY <1>5, <2>1 DEF Back
    <2>3. QED
        BY <2>2
<1>6. ASSUME NEW from, NEW to, NEW dq \in {-1, 0, 1}, NEW dm \in {-1, 0, 1},
             Moves(t, from, to, dq, 0, dm), to # "limit",
             Room(from, to, dq, 0) = 0 \/ Room(from, to, dq, 0) = -1
      PROVE  Fits(from, to, dq, 0, dm)
    BY <1>0, <1>6
<1>7. CASE \/ Moves(t, "limit", "policy", 0, 0, 0) \/ Moves(t, "push", "schedule", 1, 0, 0)
           \/ Moves(t, "dequeue", "run", -1, 0, 0) \/ Moves(t, "run", "dequeue", 0, 0, -1)
    <2>1. \/ Fits("limit", "policy", 0, 0, 0) \/ Fits("push", "schedule", 1, 0, 0)
          \/ Fits("dequeue", "run", -1, 0, 0) \/ Fits("run", "dequeue", 0, 0, -1)
        BY <1>1, <1>6, <1>7
    <2>2. QED
        BY <2>1
<1>8. CASE \E from \in Elsewhere : \E to \in Elsewhere : Moves(t, from, to, 0, 0, 0)
    <2>1. PICK from \in Elsewhere, to \in Elsewhere : Moves(t, from, to, 0, 0, 0)
        BY <1>8
    <2>2. Fits(from, to, 0, 0, 0)
        <3>1. to # "limit"
            BY DEF Elsewhere
        <3>2. QED
            BY <1>1, <1>6, <2>1, <3>1
    <2>3. QED
        BY <2>2
<1>9. CASE Back(t, "policy", -1) \/ Back(t, "push", -1) \/ \E from \in Elsewhere : Back(t, from, 0)
    <2>1. PICK from \in Elsewhere \union {"policy", "push"} : Back(t, from, -1) \/ Back(t, from, 0)
        BY <1>9
    <2>2. QED
        BY <1>5, <2>1
<1>10. QED
    BY <1>3, <1>4, <1>7, <1>8, <1>9 DEF Kind

LEMMA AdmittedCount ==
    ASSUME TypeOK, NEW t \in Threads, NEW from, NEW to, NEW dq, NEW ds, NEW dm,
           Moves(t, from, to, dq, ds, dm)
    PROVE  /\ Cardinality(Admitted) \in Nat
           /\ Cardinality(Admitted)'
              = Cardinality(Admitted) + One((t \in Admitted)') - One(t \in Admitted)
           /\ Cardinality(ThreadsAt({"push"})) + Cardinality(Admitted)
              <= Cardinality(ThreadsAt(Calls))
<1>1. /\ IsFiniteSet(Admitted) /\ IsFiniteSet(ThreadsAt(Calls))
      /\ IsFiniteSet(ThreadsAt({"push"}))
    BY ThreadsAssumption, FS_Subset, FS_Union DEF Admitted, ThreadsAt, Threads
<1>2. \A u : u # t => (u \in Admitted <=> u \in Admitted')
    BY DEF Moves, Admitted
<1>3. /\ Cardinality(Admitted) \in Nat
      /\ Cardinality(Admitted')
         = Cardinality(Admitted) + One(t \in Admitted') - One(t \in Admitted)
    BY <1>1, <1>2, CountMove
<1>4. PICK A, B, C : A = Admitted /\ B = ThreadsAt({"push"}) /\ C = ThreadsAt(Calls)
    OBVIOUS
<1>5. A \intersect B = {} /\ A \union B \subseteq C
    BY <1>4 DEF Admitted, ThreadsAt, Calls
<1>6. /\ Cardinality(A) \in Nat /\ Cardinality(B) \in Nat /\ Cardinality(C) \in Nat
      /\ Cardinality(A \union B)
         = Cardinality(A) + Cardinality(B) - Cardinality(A \intersect B)
      /\ Cardinality(A \union B) <= Cardinality(C)
    BY <1>1, <1>4, <1>5, FS_Union, FS_Subset, FS_CardinalityType
<1>7. Cardinality(A \intersect B) = 0
    BY <1>5, FS_EmptySet
<1>8. Cardinality(B) + Cardinality(A) <= Cardinality(C)
    BY <1>6, <1>7
<1>9. QED
    BY <1>3, <1>4, <1>8

LEMMA KindAdmits ==
    ASSUME TypeOK, Finite, PendingIsExact, AdmitInv, TRUE \notin Policies,
           NEW t \in Threads, Kind(t)
    PROVE  (Carried + Cardinality(ThreadsAt({"push"})) + Cardinality(Admitted))' <= Largest
<1>1. /\ ~mBackpressurePolicy /\ mMaxPendingTasks <= Largest
      /\ Carried + Cardinality(ThreadsAt({"push"})) + Cardinality(Admitted) <= Largest
    BY DEF AdmitInv
<1>2. PICK from, to : \E dq, ds, dm \in {-1, 0, 1} :
              /\ Moves(t, from, to, dq, ds, dm)
              /\ \/ /\ to = "limit" /\ from # "limit" /\ Room(from, to, dq, ds) = 0
                    /\ pending'[t] = mPendingTasks + 1
                 \/ to # "limit" /\ Room(from, to, dq, ds) <= One(t \in Admitted)
    BY <1>1, KindRoom
<1>3. PICK dq, ds, dm \in {-1, 0, 1} :
              /\ Moves(t, from, to, dq, ds, dm)
              /\ \/ /\ to = "limit" /\ from # "limit" /\ Room(from, to, dq, ds) = 0
                    /\ pending'[t] = mPendingTasks + 1
                 \/ to # "limit" /\ Room(from, to, dq, ds) <= One(t \in Admitted)
    BY <1>2
<1>4. PICK q, s, r, k, p, w \in Nat :
          /\ q = Cardinality(Places(mTasks)) /\ s = Cardinality(Places(stack))
          /\ r = Cardinality(ThreadsAt({"run"})) /\ k = Cardinality(ThreadsAt(Calls))
          /\ p = Cardinality(ThreadsAt({"push"})) /\ w = Cardinality(Admitted)
    <2>1. Cardinality(Places(mTasks)) \in Nat /\ Cardinality(Places(stack)) \in Nat
        BY <1>3, MovesCount
    <2>2. \A labels : Cardinality(ThreadsAt(labels)) \in Nat
        BY <1>3, MovesCount
    <2>3. Cardinality(Admitted) \in Nat
        BY <1>3, AdmittedCount
    <2>4. QED
        BY <2>1, <2>2, <2>3
<1>5. PICK a, b, c, d, e, f \in {0, 1} :
          /\ a = One(to \in {"run"}) /\ b = One(from \in {"run"})
          /\ c = One(to \in {"push"}) /\ d = One(from \in {"push"})
          /\ e = One((t \in Admitted)') /\ f = One(t \in Admitted)
    <2>1. /\ One(to \in {"run"}) \in {0, 1} /\ One(from \in {"run"}) \in {0, 1}
          /\ One(to \in {"push"}) \in {0, 1} /\ One(from \in {"push"}) \in {0, 1}
          /\ One((t \in Admitted)') \in {0, 1} /\ One(t \in Admitted) \in {0, 1}
        BY DEF One
    <2>2. QED
        BY <2>1
<1>6. /\ Cardinality(Places(mTasks))' = q + dq /\ Cardinality(Places(stack))' = s + ds
      /\ Cardinality(ThreadsAt({"run"}))' = r + a - b
      /\ Cardinality(ThreadsAt({"push"}))' = p + c - d
      /\ Cardinality(Admitted)' = w + e - f
    <2>1. /\ Cardinality(Places(mTasks))' = Cardinality(Places(mTasks)) + dq
          /\ Cardinality(Places(stack))' = Cardinality(Places(stack)) + ds
        BY <1>3, MovesCount
    <2>6. Moves(t, from, to, dq, ds, dm)
        BY <1>3
    <2>7. \A labels : Cardinality(ThreadsAt(labels))'
             = Cardinality(ThreadsAt(labels)) + One(to \in labels) - One(from \in labels)
        BY <2>6, MovesCount
    <2>2. Cardinality(ThreadsAt({"run"}))'
             = Cardinality(ThreadsAt({"run"})) + One(to \in {"run"}) - One(from \in {"run"})
        BY <2>7, Zenon
    <2>3. Cardinality(ThreadsAt({"push"}))'
             = Cardinality(ThreadsAt({"push"})) + One(to \in {"push"}) - One(from \in {"push"})
        BY <2>7, Zenon
    <2>4. Cardinality(Admitted)'
             = Cardinality(Admitted) + One((t \in Admitted)') - One(t \in Admitted)
        BY <1>3, AdmittedCount
    <2>5. QED
        BY <1>4, <1>5, <2>1, <2>2, <2>3, <2>4
<1>7. PICK m \in Nat : m = Largest
    BY LargestIs
<1>8. q + s + r + p + w <= m
    BY <1>1, <1>4, <1>7 DEF Carried
<1>9. (q + dq) + (s + ds) + (r + a - b) + (p + c - d) + (w + e - f) <= m
    <2>1. CASE to # "limit" /\ Room(from, to, dq, ds) <= One(t \in Admitted)
        <3>1. t \notin Admitted'
            BY <1>3, <2>1 DEF Moves, Admitted
        <3>2. e = 0
            BY <1>5, <3>1 DEF One
        <3>3. dq + ds + a - b + c - d <= f
            BY <1>5, <2>1 DEF Room
        <3>4. QED
            BY <1>8, <3>2, <3>3
    <2>2. CASE /\ to = "limit" /\ from # "limit" /\ Room(from, to, dq, ds) = 0
               /\ pending'[t] = mPendingTasks + 1
        <3>1. f = 0 /\ dq + ds + a - b + c - d = 0
            <4>1. t \notin Admitted
                BY <1>3, <2>2 DEF Moves, Admitted
            <4>2. f = 0
                BY <1>5, <4>1 DEF One
            <4>3. dq + ds + a - b + c - d = 0
                BY <1>5, <2>2 DEF Room
            <4>4. QED
                BY <4>2, <4>3
        <3>2. CASE e = 0
            BY <1>8, <3>1, <3>2
        <3>3. CASE e = 1
            <4>1. t \in Admitted'
                BY <1>5, <3>3 DEF One
            <4>2. mPendingTasks + 1 <= Largest
                BY <2>2, <4>1 DEF Admitted
            <4>3. mPendingTasks = q + s + r + k
                BY <1>4 DEF PendingIsExact, Carried, Calls
            <4>4. q + s + r + k + 1 <= m
                BY <1>7, <4>2, <4>3
            <4>5. p + w <= k
                BY <1>3, <1>4, AdmittedCount
            <4>6. QED
                BY <3>1, <3>3, <4>4, <4>5
        <3>4. QED
            BY <3>2, <3>3
    <2>3. QED
        BY <1>3, <2>1, <2>2
<1>10. QED
    BY <1>6, <1>7, <1>9 DEF Carried

(* Over any number of callers racing through the check: without a policy the *)
(* strand carries no more tasks than the largest limit (.hpp:96-118).        *)
THEOREM AdmissionIsBounded == Spec => []AdmissionBound
<1>1. Init => AdmitInv
    <2> SUFFICES ASSUME Init, TRUE \notin Policies
                 PROVE  /\ ~mBackpressurePolicy /\ mMaxPendingTasks <= Largest
                        /\ Carried + Cardinality(ThreadsAt({"push"})) + Cardinality(Admitted)
                           <= Largest
        BY DEF AdmitInv
    <2>1. Places(mTasks) = {} /\ Places(stack) = {}
        BY DEF Init, Places
    <2>2. ThreadsAt({"run"}) = {} /\ ThreadsAt({"push"}) = {} /\ Admitted = {}
        BY DEF Init, ThreadsAt, Admitted
    <2>3. ~mBackpressurePolicy
        BY PolicyAssumption DEF Init
    <2>4. mMaxPendingTasks <= Largest
        BY LargestIs DEF Init
    <2>5. QED
        BY <2>1, <2>2, <2>3, <2>4, FS_EmptySet, LargestIs DEF Carried
<1>2. TypeOK /\ Finite /\ PendingIsExact /\ AdmitInv /\ [Next]_vars => AdmitInv'
    <2> SUFFICES ASSUME TypeOK, Finite, PendingIsExact, AdmitInv, [Next]_vars, TRUE \notin Policies
                 PROVE  /\ ~mBackpressurePolicy' /\ mMaxPendingTasks' <= Largest
                        /\ (Carried + Cardinality(ThreadsAt({"push"})) + Cardinality(Admitted))'
                           <= Largest
        BY DEF AdmitInv, Largest
    <2>1. /\ ~mBackpressurePolicy /\ mMaxPendingTasks <= Largest
          /\ Carried + Cardinality(ThreadsAt({"push"})) + Cardinality(Admitted) <= Largest
        BY DEF AdmitInv
    <2>2. CASE \E t : ThreadStep(t)
        <3>1. UNCHANGED <<mBackpressurePolicy, mMaxPendingTasks>>
            BY <2>2 DEF ThreadStep, Step, EnqueueCount, EnqueueLimit, EnqueuePolicy, EnqueuePush,
                        EnqueuePushFails, ScheduleExchange, ScheduleSubmit, ScheduleUnflag,
                        WorkerTake, DrainDequeue, DrainNone, DrainFinish, DrainClear, DrainSize,
                        DrainRetake, config
        <3>2. QED
            BY <2>1, <2>2, <3>1, StepMoves, KindAdmits
    <2>3. CASE ~\E t : ThreadStep(t)
        <3>1. /\ UNCHANGED <<mTasks, mPendingTasks, pc, pending, stack>>
              /\ \/ mBackpressurePolicy' = mBackpressurePolicy
                 \/ mBackpressurePolicy' \in Policies
            BY <2>3, Settings DEF Next, ThreadStep
        <3>2. mMaxPendingTasks' <= Largest
            BY <2>1, <2>3, LargestIs DEF Next, ThreadStep, CommitStore, SetMaxPendingTasks,
                  SetBackpressurePolicy, PoolStop, vars, config, state
        <3>3. ~mBackpressurePolicy'
            BY <2>1, <3>1, PolicyAssumption
        <3>4. /\ Carried' = Carried /\ Admitted' = Admitted
              /\ ThreadsAt({"push"})' = ThreadsAt({"push"})
            BY <3>1 DEF Carried, Places, ThreadsAt, Admitted
        <3>5. QED
            BY <2>1, <3>2, <3>3, <3>4
    <2>4. QED
        BY <2>2, <2>3
<1>3. Finite /\ AdmitInv => AdmissionBound
    <2> SUFFICES ASSUME AdmitInv, TRUE \notin Policies, Finite
                 PROVE  Carried + Cardinality(ThreadsAt({"push"})) <= Largest
        BY DEF AdmissionBound
    <2>1. Carried + Cardinality(ThreadsAt({"push"})) + Cardinality(Admitted) <= Largest
        BY DEF AdmitInv
    <2>2. Cardinality(Admitted) \in Nat
        BY ThreadsAssumption, FS_Subset, FS_Union, FS_CardinalityType DEF Admitted, Threads
    <2>5. \A labels : Cardinality(ThreadsAt(labels)) \in Nat
        BY ThreadsAssumption, FS_Subset, FS_Union, FS_CardinalityType DEF ThreadsAt, Threads
    <2>6. Cardinality(Places(mTasks)) \in Nat /\ Cardinality(Places(stack)) \in Nat
        BY FS_CardinalityType DEF Finite
    <2>3. Carried \in Int /\ Cardinality(ThreadsAt({"push"})) \in Int
        BY <2>5, <2>6 DEF Carried
    <2>4. QED
        BY <2>1, <2>2, <2>3, LargestIs
<1>4. QED
    BY <1>1, <1>2, <1>3, CountsInit, CountsStep, TypeCorrect, PTL DEF Spec

-----------------------------------------------------------------------------
(* The tasks of one thread are numbered upwards, and one that is being       *)
(* accepted comes after those that wait.                                     *)
NumberedUp(t) ==
    /\ calls[t] \in 0..MaxCalls
    /\ \A i \in DOMAIN mTasks[t] : mTasks[t][i] <= calls[t]
    /\ pc[t] \in Calls => calls[t] # 0 /\ \A i \in DOMAIN mTasks[t] : mTasks[t][i] < calls[t]

OrderInv == \A t \in Threads : NumberedUp(t)

LEMMA OrderStays ==
    ASSUME OrderInv, NEW t \in Threads, UNCHANGED <<mTasks, calls>>,
           \A u \in Threads \ {t} : pc'[u] = pc[u],
           pc'[t] \in Calls => pc[t] \in Calls
    PROVE  OrderInv'
BY DEF OrderInv, NumberedUp

(* A step but for those that touch the queue or the number of calls.         *)
Quiet(t) ==
    \/ EnqueueLimit(t) \/ EnqueuePolicy(t) \/ EnqueuePushFails(t) \/ ScheduleExchange(t)
    \/ ScheduleSubmit(t) \/ ScheduleUnflag(t) \/ DrainNone(t) \/ DrainClear(t) \/ DrainSize(t)
    \/ DrainRetake(t) \/ (t \in Workers /\ WorkerTake(t))

QuietGoes(t) ==
    Goto(t, "policy") \/ Goto(t, "push") \/ \E to \in Elsewhere : Goto(t, to)

LEMMA QuietSteps ==
    ASSUME TypeOK, NEW t \in Threads, Quiet(t)
    PROVE  /\ UNCHANGED <<mTasks, calls>>
           /\ pc[t] # "run"
           /\ \/ Return(t)
              \/ QuietGoes(t) /\ UNCHANGED <<task, stack>>
           /\ QuietGoes(t) => pc[t] \in Calls \/ \E to \in Elsewhere : Goto(t, to)
<1>1. UNCHANGED <<mTasks, calls>> /\ pc[t] # "run"
    BY DEF Quiet, EnqueueLimit, EnqueuePolicy, EnqueuePushFails, ScheduleExchange, ScheduleSubmit,
           ScheduleUnflag, DrainNone, DrainClear, DrainSize, DrainRetake, WorkerTake, At, locals
<1>2. \/ Return(t)
      \/ QuietGoes(t) /\ UNCHANGED <<task, stack>>
    BY DEF Quiet, EnqueueLimit, EnqueuePolicy, EnqueuePushFails, ScheduleExchange, ScheduleSubmit,
           ScheduleUnflag, DrainNone, DrainClear, DrainSize, DrainRetake, WorkerTake, locals,
           QuietGoes, Elsewhere, Labels
<1>3. QuietGoes(t) => pc[t] \in Calls \/ \E to \in Elsewhere : Goto(t, to)
    <2>1. CASE EnqueueLimit(t) \/ EnqueuePolicy(t) \/ EnqueuePushFails(t)
        BY <2>1 DEF EnqueueLimit, EnqueuePolicy, EnqueuePushFails, At, Calls
    <2>2. CASE ~(EnqueueLimit(t) \/ EnqueuePolicy(t) \/ EnqueuePushFails(t))
        <3>1. Return(t) \/ \E to \in Elsewhere : Goto(t, to)
            BY <2>2 DEF Quiet, ScheduleExchange, ScheduleSubmit, ScheduleUnflag, DrainNone,
                  DrainClear, DrainSize, DrainRetake, WorkerTake, Elsewhere, Labels
        <3>2. Return(t) => pc'[t] \in {"idle", "run"}
            BY ReturnEffect
        <3>3. pc \in [Threads -> Labels]
            BY DEF TypeOK
        <3>4. ASSUME NEW to, Goto(t, to) PROVE pc'[t] = to
            BY <3>3, <3>4 DEF Goto
        <3>5. ASSUME Return(t), QuietGoes(t) PROVE \E to \in Elsewhere : Goto(t, to)
            BY <3>2, <3>4, <3>5 DEF QuietGoes
        <3>6. QED
            BY <3>1, <3>5
    <2>3. QED
        BY <2>1, <2>2
<1>4. QED
    BY <1>1, <1>2, <1>3

LEMMA QuietKeepsOrder ==
    ASSUME TypeOK, OrderInv, NEW t \in Threads, Quiet(t)
    PROVE  OrderInv'
<1>1. /\ UNCHANGED <<mTasks, calls>>
      /\ Return(t) \/ QuietGoes(t)
      /\ QuietGoes(t) => pc[t] \in Calls \/ \E to \in Elsewhere : Goto(t, to)
    BY QuietSteps
<1>2. pc \in [Threads -> Labels]
    BY DEF TypeOK
<1>3. CASE Return(t)
    <2>1. pc'[t] \notin Calls /\ \A u \in Threads \ {t} : pc'[u] = pc[u]
        BY <1>3, ReturnEffect DEF Others, Calls
    <2>2. QED
        BY <1>1, <2>1, OrderStays
<1>4. CASE QuietGoes(t)
    <2>1. /\ \A u \in Threads \ {t} : pc'[u] = pc[u]
          /\ \A to : Goto(t, to) => pc'[t] = to
        BY <1>2, <1>4 DEF QuietGoes, Goto
    <2>2. pc'[t] \in Calls => pc[t] \in Calls
        BY <1>1, <1>4, <2>1 DEF Elsewhere, Calls
    <2>3. QED
        BY <1>1, <2>1, <2>2, OrderStays
<1>5. QED
    BY <1>1, <1>3, <1>4

LEMMA OrderStep ==
    ASSUME TypeOK, OrderInv, [Next]_vars
    PROVE  OrderInv'
<1>0. /\ pc \in [Threads -> Labels] /\ mTasks \in [Threads -> Seq(Nat)]
      /\ calls \in [Threads -> Nat] /\ MaxCalls \in Nat
    BY BoundAssumption DEF TypeOK
<1>1. ASSUME NEW t \in Threads, EnqueueCount(t) PROVE OrderInv'
    <2>1. /\ calls[t] < MaxCalls /\ calls'[t] = calls[t] + 1 /\ mTasks' = mTasks
          /\ \A u \in Threads \ {t} : pc'[u] = pc[u] /\ calls'[u] = calls[u]
        BY <1>0, <1>1 DEF EnqueueCount, Goto
    <2>2. ASSUME NEW i \in DOMAIN mTasks[t] PROVE mTasks[t][i] < calls'[t] /\ mTasks[t][i] <= calls'[t]
        <3>1. mTasks[t][i] \in Nat /\ mTasks[t][i] <= calls[t] /\ calls[t] \in Nat
            BY <1>0, <2>2 DEF OrderInv, NumberedUp
        <3>2. QED
            BY <2>1, <3>1
    <2>3. calls'[t] \in 0..MaxCalls /\ calls'[t] # 0
        BY <1>0, <2>1
    <2>4. QED
        BY <2>1, <2>2, <2>3 DEF OrderInv, NumberedUp
<1>2. ASSUME NEW t \in Threads, EnqueuePush(t) PROVE OrderInv'
    <2>1. /\ pc[t] = "push" /\ pc'[t] = "schedule" /\ calls' = calls
          /\ mTasks'[t] = Append(mTasks[t], calls[t])
          /\ \A u \in Threads \ {t} : pc'[u] = pc[u] /\ mTasks'[u] = mTasks[u]
        BY <1>0, <1>2 DEF EnqueuePush, Goto, At, locals
    <2>2. \A i \in DOMAIN mTasks'[t] : mTasks'[t][i] <= calls[t]
        <3>1. PICK q, n : q = mTasks[t] /\ n = calls[t] /\ q \in Seq(Nat) /\ n \in Nat
            BY <1>0
        <3>2. \A i \in DOMAIN q : q[i] <= n
            BY <3>1 DEF OrderInv, NumberedUp
        <3>3. \A i \in DOMAIN Append(q, n) : Append(q, n)[i] <= n
            <4>1. /\ DOMAIN q = 1..Len(q) /\ Len(q) \in Nat
                  /\ DOMAIN Append(q, n) = 1..(Len(q) + 1)
                  /\ Append(q, n)[Len(q) + 1] = n
                  /\ \A i \in 1..Len(q) : Append(q, n)[i] = q[i]
                BY <3>1
            <4>2. QED
                BY <3>1, <3>2, <4>1
        <3>4. QED
            BY <2>1, <3>1, <3>3
    <2>3. QED
        BY <2>1, <2>2 DEF OrderInv, NumberedUp, Calls
<1>3. ASSUME NEW t \in Threads, NEW p \in Threads, DrainDequeue(t, p) PROVE OrderInv'
    <2>1. /\ pc'[t] = "run" /\ calls' = calls /\ mTasks[p] # <<>>
          /\ mTasks'[p] = Tail(mTasks[p])
          /\ \A u \in Threads \ {t} : pc'[u] = pc[u]
          /\ \A u \in Threads \ {p} : mTasks'[u] = mTasks[u]
        BY <1>0, <1>3 DEF DrainDequeue, Goto
    <2>2. \A i \in DOMAIN mTasks'[p] : \E j \in DOMAIN mTasks[p] : mTasks'[p][i] = mTasks[p][j]
        <3>1. PICK q : q = mTasks[p] /\ q \in Seq(Nat) /\ q # <<>>
            BY <1>0, <2>1
        <3>2. \A i \in DOMAIN Tail(q) : i + 1 \in DOMAIN q /\ Tail(q)[i] = q[i + 1]
            BY <3>1
        <3>3. QED
            BY <2>1, <3>1, <3>2
    <2>3. pc'[p] \in Calls => pc[p] \in Calls
        BY <2>1 DEF Calls
    <2>4. NumberedUp(p)'
        BY <2>1, <2>2, <2>3 DEF OrderInv, NumberedUp
    <2>5. \A u \in Threads \ {p} : NumberedUp(u)'
        BY <2>1 DEF OrderInv, NumberedUp, Calls
    <2>6. QED
        BY <2>4, <2>5 DEF OrderInv
<1>4. ASSUME NEW t \in Threads, DrainFinish(t) PROVE OrderInv'
    <2>1. /\ UNCHANGED <<mTasks, calls>> /\ pc'[t] = "dequeue"
          /\ \A u \in Threads \ {t} : pc'[u] = pc[u]
        BY <1>0, <1>4 DEF DrainFinish, Goto
    <2>2. QED
        BY <2>1, OrderStays DEF Calls
<1>5. ASSUME NEW t \in Threads, Quiet(t) PROVE OrderInv'
    BY <1>5, QuietKeepsOrder
<1>6. CASE ~\E t : ThreadStep(t)
    <2>1. UNCHANGED <<mTasks, pc, calls>>
        BY <1>6, Settings DEF Next, ThreadStep
    <2>2. QED
        BY <2>1 DEF OrderInv, NumberedUp
<1>7. QED
    BY <1>1, <1>2, <1>3, <1>4, <1>5, <1>6 DEF ThreadStep, Step, Quiet, Threads

LEMMA OrderInit == Init => OrderInv
<1> SUFFICES ASSUME Init PROVE OrderInv
    OBVIOUS
<1>1. ASSUME NEW t \in Threads PROVE mTasks[t] = <<>> /\ calls[t] = 0 /\ pc[t] = "idle"
    BY DEF Init
<1>2. QED
    BY <1>1, BoundAssumption DEF OrderInv, NumberedUp, Calls

-----------------------------------------------------------------------------
(* What the executor sees of the strand: the queue, the tasks each thread is *)
(* in the middle of, and whether the pool has refused.                       *)
SameHeld == \A u \in Threads : Held(u)' = Held(u)

LEMMA HeldElsewhere ==
    ASSUME NEW t \in Threads, Held(t)' = Held(t),
           \A u \in Threads \ {t} :
              pc'[u] = pc[u] /\ task'[u] = task[u] /\ stack'[u] = stack[u]
    PROVE  SameHeld
BY DEF SameHeld, Held, At

LEMMA HeadFirst ==
    ASSUME NEW S, NEW q \in Seq(S), q # <<>>
    PROVE  <<Head(q)>> \o Tail(q) = q
OBVIOUS

LEMMA PushPop ==
    ASSUME NEW S, NEW q \in Seq(S), NEW a \in S
    PROVE  /\ <<a>> \o q \in Seq(S) /\ <<a>> \o q # <<>>
           /\ Tail(<<a>> \o q) = q
OBVIOUS

(* The end of a call resumes the suspended task, if there is one.            *)
LEMMA ReturnHolds ==
    ASSUME TypeOK, NEW t \in Threads, Return(t), pc[t] # "run"
    PROVE  SameHeld
<1>0. /\ pc \in [Threads -> Labels] /\ task \in [Threads -> TaskId \union {<<>>}]
      /\ stack \in [Threads -> Seq(TaskId \union {<<>>})]
    BY DEF TypeOK
<1>1. \A u \in Threads \ {t} : pc'[u] = pc[u] /\ task'[u] = task[u] /\ stack'[u] = stack[u]
    BY <1>0 DEF Return, Goto
<1>2. Held(t)' = Held(t)
    <2>1. CASE stack[t] = <<>>
        <3>1. pc'[t] = "idle" /\ stack'[t] = stack[t]
            BY <2>1, ReturnEffect
        <3>2. QED
            BY <3>1 DEF Held, At
    <2>2. CASE stack[t] # <<>>
        <3>1. pc'[t] = "run" /\ stack'[t] = Tail(stack[t]) /\ task'[t] = Head(stack[t])
            BY <1>0, <2>2 DEF Return, Goto
        <3>2. <<Head(stack[t])>> \o Tail(stack[t]) = stack[t]
            BY <1>0, <2>2, HeadFirst
        <3>3. QED
            BY <3>1, <3>2 DEF Held, At
    <2>3. QED
        BY <2>1, <2>2
<1>3. QED
    BY <1>1, <1>2, HeldElsewhere

LEMMA CountHolds ==
    ASSUME TypeOK, NEW t \in Threads, EnqueueCount(t)
    PROVE  mTasks' = mTasks /\ SameHeld /\ refused' = refused
<1>0. pc \in [Threads -> Labels] /\ stack \in [Threads -> Seq(TaskId \union {<<>>})]
    BY DEF TypeOK
<1>1. /\ mTasks' = mTasks /\ task' = task /\ pc'[t] = "limit" /\ refused' = refused
      /\ \A u \in Threads \ {t} : pc'[u] = pc[u] /\ stack'[u] = stack[u]
    BY <1>0 DEF EnqueueCount, Goto, config
<1>2. stack'[t] = IF pc[t] = "run" THEN <<task[t]>> \o stack[t] ELSE stack[t]
    BY <1>0 DEF EnqueueCount, At
<1>3. QED
    BY <1>1, <1>2, HeldElsewhere DEF Held, At

LEMMA QuietHolds ==
    ASSUME TypeOK, NEW t \in Threads, Quiet(t)
    PROVE  mTasks' = mTasks /\ SameHeld /\ (refused' = refused \/ refused')
<1>1. /\ mTasks' = mTasks /\ pc[t] # "run"
      /\ Return(t) \/ (QuietGoes(t) /\ UNCHANGED <<task, stack>>)
    BY QuietSteps
<1>2. refused' = refused \/ refused'
    BY DEF Quiet, EnqueueLimit, EnqueuePolicy, EnqueuePushFails, ScheduleExchange, ScheduleSubmit,
           ScheduleUnflag, DrainNone, DrainClear, DrainSize, DrainRetake, WorkerTake, config
<1>3. CASE Return(t)
    BY <1>1, <1>2, <1>3, ReturnHolds
<1>4. CASE QuietGoes(t) /\ UNCHANGED <<task, stack>>
    <2>1. pc'[t] # "run" /\ \A u \in Threads \ {t} : pc'[u] = pc[u]
        BY <1>4 DEF QuietGoes, Goto, Elsewhere, TypeOK
    <2>2. SameHeld
        BY <1>1, <1>4, <2>1, HeldElsewhere DEF Held, At
    <2>3. QED
        BY <1>1, <1>2, <2>2
<1>5. QED
    BY <1>1, <1>3, <1>4

(* Before a refusal, a thread that looks for a task finds all of them idle.   *)
LEMMA NobodyHolds ==
    ASSUME Tokens, NEW t \in Threads, pc[t] = "dequeue"
    PROVE  \A u \in Threads : Held(u) = <<>>
<1>1. stack[t] = <<>>
    BY DEF Tokens, TokenShape
<1>2. \A u \in Threads \ {t} : pc[u] # "run" /\ stack[u] = <<>>
    BY DEF Tokens, OneToken, HasToken, Holding
<1>3. QED
    BY <1>1, <1>2 DEF Held, At

(* A step of the strand is a step of the executor, or none.                  *)
LEMMA StepServes ==
    ASSUME TypeOK, TokenInv, OrderInv, [Next]_vars
    PROVE  [Executor!Next]_(Executor!vars)
<1> DEFINE running == [t \in Threads |-> Held(t)]
<1>0. /\ pc \in [Threads -> Labels] /\ task \in [Threads -> TaskId \union {<<>>}]
      /\ mTasks \in [Threads -> Seq(Nat)] /\ calls \in [Threads -> Nat]
      /\ stack \in [Threads -> Seq(TaskId \union {<<>>})] /\ refused \in BOOLEAN
    BY DEF TypeOK
<1>1. SameHeld => running' = running
    BY DEF SameHeld
<1>2. SUFFICES \/ Executor!Next
               \/ mTasks' = mTasks /\ running' = running /\ refused' = refused
    BY DEF Executor!vars
<1> HIDE DEF running
<1>3. ASSUME NEW t \in Threads, EnqueueCount(t) \/ Quiet(t)
      PROVE  \/ Executor!Next
             \/ mTasks' = mTasks /\ running' = running /\ refused' = refused
    <2>1. mTasks' = mTasks /\ running' = running /\ (refused' = refused \/ refused')
        BY <1>1, <1>3, CountHolds, QuietHolds
    <2>2. CASE refused' /\ ~refused
        <3>1. Executor!Refuse
            BY <2>1, <2>2 DEF Executor!Refuse, running
        <3>2. QED
            BY <3>1 DEF Executor!Next
    <2>3. QED
        BY <1>0, <2>1, <2>2
<1>4. ASSUME NEW t \in Threads, EnqueuePush(t) PROVE Executor!Next
    <2>1. /\ pc[t] = "push" /\ mTasks' = [mTasks EXCEPT ![t] = Append(mTasks[t], calls[t])]
          /\ pc'[t] # "run" /\ UNCHANGED <<task, stack, refused>>
          /\ \A u \in Threads \ {t} : pc'[u] = pc[u]
        BY <1>0, <1>4 DEF EnqueuePush, Goto, At, locals, config
    <2>2. running' = running
        BY <1>1, <2>1, HeldElsewhere DEF Held, At
    <2>3. calls[t] \in 1..MaxCalls /\ \A i \in DOMAIN mTasks[t] : mTasks[t][i] < calls[t]
        BY <1>0, <2>1, BoundAssumption DEF OrderInv, NumberedUp, Calls
    <2>4. Executor!Accept(t, calls[t])
        BY <2>1, <2>2, <2>3 DEF Executor!Accept, running
    <2>5. QED
        BY <2>3, <2>4 DEF Executor!Next
<1>5. ASSUME NEW t \in Threads, NEW p \in Threads, DrainDequeue(t, p) PROVE Executor!Next
    <2>1. /\ pc[t] = "dequeue" /\ pc'[t] = "run" /\ task'[t] = <<p, Head(mTasks[p])>>
          /\ mTasks[p] # <<>> /\ mTasks' = [mTasks EXCEPT ![p] = Tail(mTasks[p])]
          /\ UNCHANGED <<stack, refused>>
          /\ \A u \in Threads \ {t} : pc'[u] = pc[u] /\ task'[u] = task[u]
        BY <1>0, <1>5 DEF DrainDequeue, Goto, At, config
    <2>2. ~refused => \A u \in Threads : Held(u) = <<>>
        BY <2>1, NobodyHolds DEF TokenInv, Tokens
    <2>3. /\ Held(t) = stack[t] /\ Held(t)' = <<<<p, Head(mTasks[p])>>>> \o stack[t]
          /\ \A u \in Threads \ {t} : Held(u)' = Held(u)
        BY <2>1 DEF Held, At
    <2>4. running' = [running EXCEPT ![t] = <<<<p, Head(mTasks[p])>>>> \o running[t]]
        BY <2>3 DEF running
    <2>5. Executor!Begin(t, p)
        BY <2>1, <2>2, <2>4 DEF Executor!Begin, running
    <2>6. QED
        BY <2>5 DEF Executor!Next
<1>6. ASSUME NEW t \in Threads, DrainFinish(t) PROVE Executor!Next
    <2>1. /\ pc[t] = "run" /\ pc'[t] = "dequeue" /\ UNCHANGED <<mTasks, stack, refused>>
          /\ \A u \in Threads \ {t} : pc'[u] = pc[u] /\ task'[u] = task[u]
        BY <1>0, <1>6 DEF DrainFinish, Goto, At, config
    <2>2. Held(t) # <<>> /\ Tail(Held(t)) = stack[t]
        BY <1>0, <2>1, PushPop DEF Held, At
    <2>3. Held(t)' = Tail(Held(t)) /\ \A u \in Threads \ {t} : Held(u)' = Held(u)
        BY <2>1, <2>2 DEF Held, At
    <2>4. running' = [running EXCEPT ![t] = Tail(running[t])]
        BY <2>3 DEF running
    <2>5. Executor!Return(t)
        BY <2>1, <2>2, <2>4 DEF Executor!Return, running
    <2>6. QED
        BY <2>5 DEF Executor!Next
<1>7. CASE ~\E t : ThreadStep(t)
    <2>1. UNCHANGED <<mTasks, pc, task, stack, refused>>
        BY <1>7, Settings DEF Next, ThreadStep, CommitStore, SetMaxPendingTasks,
              SetBackpressurePolicy, PoolStop, vars, config, state
    <2>2. QED
        BY <2>1 DEF running, Held, At
<1>8. QED
    BY <1>3, <1>4, <1>5, <1>6, <1>7 DEF ThreadStep, Step, Quiet, Threads

(* With or without delayed stores, for any limits and policies, and whatever *)
(* the pool refuses, stopped or open: the strand is the serial executor it   *)
(* promises to be.  The tasks of one thread begin in the order it had them   *)
(* accepted and once, and none overlaps another before the pool has refused  *)
(* a drain (TaskStrand.hpp:96-179).                                          *)
THEOREM StrandServes == Spec => ImplementsExecutor
<1>1. Init => Executor!Init
    BY DEF Init, Executor!Init, Held, At
<1>2. TypeOK /\ TokenInv /\ OrderInv /\ [Next]_vars => [Executor!Next]_(Executor!vars)
    BY StepServes
<1>3. TypeOK /\ OrderInv /\ [Next]_vars => OrderInv'
    BY OrderStep
<1>4. QED
    BY <1>1, <1>2, <1>3, OrderInit, TypeCorrect, TokenIsUnique, PTL
       DEF Spec, ImplementsExecutor, Executor!Spec
=============================================================================
