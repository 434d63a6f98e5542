------------------------- MODULE ServerLifecycleProofs -------------------------
(***************************************************************************)
(* Theorems about ServerLifecycle, for any finite sets of threads and any  *)
(* bounds.                                                                 *)
(***************************************************************************)
EXTENDS ServerLifecycle, Counting

-----------------------------------------------------------------------------
(* The shape of a state: the types, where each kind of thread can be, and   *)
(* that exactly the workers inside scheduleFlushPump have a place to return *)
(* to.                                                                      *)
ScheduleStatements == {"schedule", "cas", "countJob", "submitJob", "uncountJob", "unschedule"}
PumpStatements == {"tick", "dropFlag", "enqueueFlush", "uncountFlush", "recheck",
                   "countWakeup", "submitWakeup", "uncountWakeup", "jobDone"}
CallerStatements == {"idle", "disconnectErased", "startup", "startFails",
"scheduleIo"} \union ScheduleStatements
                    \union InStop
WorkerStatements == {"idle", "wakeupDone", "closeSession", "sessionDone"} \union ScheduleStatements
                    \union PumpStatements
Statements == CallerStatements \union WorkerStatements

Places ==
    /\ pc \in [Threads -> Statements]
    /\ ret \in [Threads -> {"idle", "jobDone", "wakeupDone"}]
    /\ \A c \in Callers : pc[c] \in CallerStatements /\ ret[c] = "idle"
    /\ \A w \in PoolWorkers : /\ pc[w] \in WorkerStatements
                              /\ pc[w] \in ScheduleStatements <=> ret[w] # "idle"

Flags ==
    /\ mRunning \in BOOLEAN /\ mFlushPumpScheduled \in BOOLEAN
    /\ mIoPumpThread \in {"none", "loop", "receive", "enqueue", "close", "uncount", "exited"}
    /\ stopRequested \in BOOLEAN /\ peerStarted \in BOOLEAN /\ poolOpen \in BOOLEAN
    /\ progressed \in [PoolWorkers -> BOOLEAN]
    /\ wasRunning \in [Callers -> BOOLEAN]
    /\ starts \in 0..MaxStarts /\ quiet \in BOOLEAN /\ alone \in BOOLEAN
    /\ leftover \in BOOLEAN /\ failedOver \in BOOLEAN /\ refused \in BOOLEAN

Clients ==
    /\ contexts \in [Threads -> SUBSET Sessions] /\ ioContexts \subseteq Sessions
    /\ mSessionContexts \subseteq Sessions
    /\ connected \subseteq Sessions /\ arrived \subseteq Sessions

Queued == pumpJobs \in Nat /\ wakeups \in Nat /\ sessionTasks \in Nat

Shape == Places /\ Flags /\ Clients /\ Queued

-----------------------------------------------------------------------------
(* What a thread holds of each counter: the jobs, wakeups and session tasks *)
(* it has counted that are not in the pool.                                 *)
JobsOf(t) == One(t \in InPump) + One(pc[t] \in {"submitJob", "uncountJob"})
WakeupsOf(t) == One(t \in InWakeup) + One(pc[t] \in {"submitWakeup", "uncountWakeup"})
TasksOf(t) == One(pc[t] \in {"enqueueFlush", "uncountFlush", "closeSession", "sessionDone"})
TasksOfIo == IF mIoPumpThread \in {"enqueue", "close", "uncount"} THEN 1 ELSE 0

(* A thread moves: nobody else does, and nobody else's return changes.      *)
Moves(t) ==
    /\ \E to : pc' = [pc EXCEPT ![t] = to]
    /\ \A u \in Threads \ {t} : ret'[u] = ret[u]

LEMMA ThreadsFinite ==
    ASSUME NEW S \in SUBSET Threads
    PROVE  IsFiniteSet(S)
<1>1. IsFiniteSet(Threads)
  BY ThreadsAssumption, FS_Union DEF Threads
<1> QED BY <1>1, FS_Subset

(* The number of threads at some statements changes by the one that moves.  *)
LEMMA AtMoves ==
    ASSUME Places, NEW t \in Threads, Moves(t), NEW S
    PROVE  /\ Cardinality(At(S)) \in Nat /\ Cardinality(At(S))' \in Nat
           /\ Cardinality(At(S))' = Cardinality(At(S)) + One(pc'[t] \in S) - One(pc[t] \in S)
<1>1. IsFiniteSet(At(S))
  BY ThreadsFinite DEF At
<1>2. \A u : u # t => (u \in At(S) <=> u \in At(S)')
  BY DEF At, Moves, Places
<1>3. t \in At(S) <=> pc[t] \in S
  BY DEF At
<1>4. t \in At(S)' <=> pc'[t] \in S
  BY DEF At
<1>5. /\ Cardinality(At(S)) \in Nat /\ Cardinality(At(S)') \in Nat
      /\ Cardinality(At(S)') = Cardinality(At(S)) + One(t \in At(S)') - One(t \in At(S))
  BY <1>1, <1>2, CountMove
<1> QED BY <1>3, <1>4, <1>5 DEF One

LEMMA PumpMoves ==
    ASSUME Places, NEW t \in Threads, Moves(t)
    PROVE  /\ Cardinality(InPump) \in Nat /\ Cardinality(InPump)' \in Nat
           /\ Cardinality(InPump)'
              = Cardinality(InPump) + One(t \in InPump)' - One(t \in InPump)
<1>1. IsFiniteSet(InPump)
  BY ThreadsFinite DEF InPump, Threads
<1>2. \A u : u # t => (u \in InPump <=> u \in InPump')
  BY DEF InPump, Moves, Places, Threads
<1> QED BY <1>1, <1>2, CountMove DEF One

LEMMA WakeupMoves ==
    ASSUME Places, NEW t \in Threads, Moves(t)
    PROVE  /\ Cardinality(InWakeup) \in Nat /\ Cardinality(InWakeup)' \in Nat
           /\ Cardinality(InWakeup)'
              = Cardinality(InWakeup) + One(t \in InWakeup)' - One(t \in InWakeup)
<1>1. IsFiniteSet(InWakeup)
  BY ThreadsFinite DEF InWakeup, Threads
<1>2. \A u : u # t => (u \in InWakeup <=> u \in InWakeup')
  BY DEF InWakeup, Moves, Places, Threads
<1> QED BY <1>1, <1>2, CountMove DEF One

(* The counters stay exact in a step of one thread that counts what it      *)
(* takes up and what it gives back.                                         *)
LEMMA BalancedStep ==
    ASSUME Places, CountsAreExact, Queued', NEW t \in Threads, Moves(t),
           mPendingFlushJobs' =
                mPendingFlushJobs + (pumpJobs' - pumpJobs) + (JobsOf(t)' - JobsOf(t)),
           mPendingFlushWakeups' =
                mPendingFlushWakeups + (wakeups' - wakeups) + (WakeupsOf(t)' - WakeupsOf(t)),
           mPendingSessionPacketTasks' =
                mPendingSessionPacketTasks + (sessionTasks' - sessionTasks) + (TasksOf(t)' - TasksOf(t)),
           Queued, TasksOfIo' = TasksOfIo
    PROVE  CountsAreExact'
<1> DEFINE J == {"submitJob", "uncountJob"}
           W == {"submitWakeup", "uncountWakeup"}
           T == {"enqueueFlush", "uncountFlush", "closeSession", "sessionDone"}
<1>1. /\ Cardinality(At(J)) \in Nat /\ Cardinality(At(J))' \in Nat
      /\ Cardinality(At(J))' = Cardinality(At(J)) + One(pc'[t] \in J) - One(pc[t] \in J)
  BY AtMoves
<1>2. /\ Cardinality(At(W)) \in Nat /\ Cardinality(At(W))' \in Nat
      /\ Cardinality(At(W))' = Cardinality(At(W)) + One(pc'[t] \in W) - One(pc[t] \in W)
  BY AtMoves
<1>3. /\ Cardinality(At(T)) \in Nat /\ Cardinality(At(T))' \in Nat
      /\ Cardinality(At(T))' = Cardinality(At(T)) + One(pc'[t] \in T) - One(pc[t] \in T)
  BY AtMoves
<1>4. /\ Cardinality(InPump) \in Nat /\ Cardinality(InPump)' \in Nat
      /\ Cardinality(InPump)' = Cardinality(InPump) + One(t \in InPump)' - One(t \in InPump)
  BY PumpMoves
<1>5. /\ Cardinality(InWakeup) \in Nat /\ Cardinality(InWakeup)' \in Nat
      /\ Cardinality(InWakeup)'
         = Cardinality(InWakeup) + One(t \in InWakeup)' - One(t \in InWakeup)
  BY WakeupMoves
<1>6. /\ One(t \in InPump) \in Nat /\ One(t \in InPump)' \in Nat
      /\ One(t \in InWakeup) \in Nat /\ One(t \in InWakeup)' \in Nat
      /\ One(pc[t] \in J) \in Nat /\ One(pc'[t] \in J) \in Nat
      /\ One(pc[t] \in W) \in Nat /\ One(pc'[t] \in W) \in Nat
      /\ One(pc[t] \in T) \in Nat /\ One(pc'[t] \in T) \in Nat
  BY DEF One
<1>7. /\ JobsOf(t) = One(t \in InPump) + One(pc[t] \in J)
      /\ JobsOf(t)' = One(t \in InPump)' + One(pc'[t] \in J)
      /\ WakeupsOf(t) = One(t \in InWakeup) + One(pc[t] \in W)
      /\ WakeupsOf(t)' = One(t \in InWakeup)' + One(pc'[t] \in W)
      /\ TasksOf(t) = One(pc[t] \in T) /\ TasksOf(t)' = One(pc'[t] \in T)
  BY DEF JobsOf, WakeupsOf, TasksOf, One
<1>8. mPendingFlushJobs' = pumpJobs' + Cardinality(InPump)' + Cardinality(At(J))'
  <2> HIDE DEF J
  <2>1. mPendingFlushJobs = pumpJobs + Cardinality(InPump) + Cardinality(At(J))
    BY DEF CountsAreExact, J
  <2> QED BY <2>1, <1>1, <1>4, <1>6, <1>7 DEF Queued
<1>9. mPendingFlushWakeups' = wakeups' + Cardinality(InWakeup)' + Cardinality(At(W))'
  <2> HIDE DEF W
  <2>1. mPendingFlushWakeups = wakeups + Cardinality(InWakeup) + Cardinality(At(W))
    BY DEF CountsAreExact, W
  <2> QED BY <2>1, <1>2, <1>5, <1>6, <1>7 DEF Queued
<1>10. mPendingSessionPacketTasks' = sessionTasks' + Cardinality(At(T))' + TasksOfIo'
  <2> HIDE DEF T
  <2>1. mPendingSessionPacketTasks = sessionTasks + Cardinality(At(T)) + TasksOfIo
    BY DEF CountsAreExact, TasksOfIo, T
  <2>2. TasksOfIo' = TasksOfIo /\ TasksOfIo \in Nat
    BY DEF TasksOfIo
  <2> QED BY <2>1, <2>2, <1>3, <1>6, <1>7 DEF Queued
<1> QED BY <1>8, <1>9, <1>10 DEF CountsAreExact, TasksOfIo, J, W, T

-----------------------------------------------------------------------------
(* Types and counters together: a counter is a number because it is exact.  *)
LifeInv == Shape /\ CountsAreExact

(* A counter is a number because it is exact.                               *)
LEMMA CountersAreNumbers ==
    ASSUME Queued, CountsAreExact
    PROVE  /\ mPendingFlushJobs \in Nat /\ mPendingFlushWakeups \in Nat
           /\ mPendingSessionPacketTasks \in Nat
<1>1. /\ Cardinality(InPump) \in Nat /\ Cardinality(InWakeup) \in Nat
      /\ Cardinality(At({"submitJob", "uncountJob"})) \in Nat
      /\ Cardinality(At({"submitWakeup", "uncountWakeup"})) \in Nat
      /\ Cardinality(At({"enqueueFlush", "uncountFlush", "closeSession", "sessionDone"})) \in Nat
  <2>1. /\ IsFiniteSet(InPump) /\ IsFiniteSet(InWakeup)
        /\ \A S : IsFiniteSet(At(S))
    BY ThreadsFinite DEF At, InPump, InWakeup, Threads
  <2> QED BY <2>1, FS_CardinalityType
<1> QED BY <1>1 DEF CountsAreExact, Queued

LEMMA CountersStayNumbers ==
    ASSUME Queued', CountsAreExact'
    PROVE  mPendingSessionPacketTasks' \in Nat
<1>1. IsFiniteSet(At({"enqueueFlush", "uncountFlush", "closeSession", "sessionDone"})')
  BY ThreadsFinite DEF At
<1> QED BY <1>1, FS_CardinalityType DEF CountsAreExact, Queued

(* A counter at zero: nothing of its kind is anywhere.                      *)
LEMMA NobodyCounted ==
    ASSUME Queued, CountsAreExact
    PROVE  /\ mPendingFlushJobs = 0 =>
                 pumpJobs = 0 /\ InPump = {} /\ At({"submitJob", "uncountJob"}) = {}
           /\ mPendingFlushWakeups = 0 =>
                 wakeups = 0 /\ InWakeup = {} /\ At({"submitWakeup", "uncountWakeup"}) = {}
           /\ mPendingSessionPacketTasks = 0 =>
                 /\ sessionTasks = 0
                 /\ At({"enqueueFlush", "uncountFlush", "closeSession", "sessionDone"}) = {}
<1> DEFINE inPump == Cardinality(InPump)
           inWakeup == Cardinality(InWakeup)
           jobs == Cardinality(At({"submitJob", "uncountJob"}))
           late == Cardinality(At({"submitWakeup", "uncountWakeup"}))
           tasks == Cardinality(At({"enqueueFlush", "uncountFlush", "closeSession", "sessionDone"}))
<1>1. /\ IsFiniteSet(InPump) /\ IsFiniteSet(InWakeup)
      /\ \A S : IsFiniteSet(At(S))
  BY ThreadsFinite DEF At, InPump, InWakeup, Threads
<1>2. /\ inPump \in Nat /\ (inPump = 0 <=> InPump = {})
      /\ inWakeup \in Nat /\ (inWakeup = 0 <=> InWakeup = {})
      /\ \A S : Cardinality(At(S)) \in Nat /\ (Cardinality(At(S)) = 0 <=> At(S) = {})
  BY <1>1, CountZero
<1>3. /\ jobs \in Nat /\ (jobs = 0 => At({"submitJob", "uncountJob"}) = {})
      /\ late \in Nat /\ (late = 0 => At({"submitWakeup", "uncountWakeup"}) = {})
      /\ tasks \in Nat
      /\ tasks = 0 => At({"enqueueFlush", "uncountFlush", "closeSession", "sessionDone"}) = {}
  BY <1>2
<1>4. /\ mPendingFlushJobs = pumpJobs + inPump + jobs
      /\ mPendingFlushWakeups = wakeups + inWakeup + late
      /\ \E k \in {0, 1} : mPendingSessionPacketTasks = sessionTasks + tasks + k
  BY DEF CountsAreExact
<1> HIDE DEF inPump, inWakeup, jobs, late, tasks
<1>5. /\ mPendingFlushJobs = 0 => pumpJobs = 0 /\ inPump = 0 /\ jobs = 0
      /\ mPendingFlushWakeups = 0 => wakeups = 0 /\ inWakeup = 0 /\ late = 0
      /\ mPendingSessionPacketTasks = 0 => sessionTasks = 0 /\ tasks = 0
  BY <1>2, <1>3, <1>4 DEF Queued
<1> QED BY <1>2, <1>3, <1>5

LEMMA CallerMoves ==
    ASSUME Places, NEW c \in Callers, NEW to \in CallerStatements,
           pc' = [pc EXCEPT ![c] = to],
           ret' = ret \/ ret' = [ret EXCEPT ![c] = "idle"]
    PROVE  Places' /\ Moves(c) /\ pc'[c] = to /\ ret'[c] = "idle"
<1>1. c \in Threads /\ c \notin PoolWorkers
  BY ThreadsAssumption DEF Threads
<1>2. pc' \in [Threads -> Statements] /\ pc'[c] = to /\ \A u \in Threads \ {c} : pc'[u] = pc[u]
  BY <1>1 DEF Places, Statements
<1>3. /\ ret' \in [Threads -> {"idle", "jobDone", "wakeupDone"}]
      /\ ret'[c] = "idle" /\ \A u \in Threads \ {c} : ret'[u] = ret[u]
  BY <1>1 DEF Places
<1>4. \A d \in Callers : pc'[d] \in CallerStatements /\ ret'[d] = "idle"
  BY <1>2, <1>3 DEF Places, Threads
<1>5. \A w \in PoolWorkers : pc'[w] = pc[w] /\ ret'[w] = ret[w]
  BY <1>1, <1>2, <1>3 DEF Threads
<1>6. Places'
  BY <1>2, <1>3, <1>4, <1>5 DEF Places
<1> QED BY <1>2, <1>3, <1>6 DEF Moves

LEMMA WorkerMoves ==
    ASSUME Places, NEW w \in PoolWorkers, NEW to \in WorkerStatements,
           NEW back \in {"idle", "jobDone", "wakeupDone"},
           pc' = [pc EXCEPT ![w] = to], ret' = [ret EXCEPT ![w] = back],
           to \in ScheduleStatements <=> back # "idle"
    PROVE  Places' /\ Moves(w) /\ pc'[w] = to /\ ret'[w] = back
<1>1. w \in Threads /\ w \notin Callers
  BY ThreadsAssumption DEF Threads
<1>2. pc' \in [Threads -> Statements] /\ pc'[w] = to /\ \A u \in Threads \ {w} : pc'[u] = pc[u]
  BY <1>1 DEF Places, Statements
<1>3. /\ ret' \in [Threads -> {"idle", "jobDone", "wakeupDone"}]
      /\ ret'[w] = back /\ \A u \in Threads \ {w} : ret'[u] = ret[u]
  BY <1>1 DEF Places
<1>4. \A c \in Callers : pc'[c] = pc[c] /\ ret'[c] = ret[c]
  BY <1>1, <1>2, <1>3 DEF Threads
<1>5. \A v \in PoolWorkers : /\ pc'[v] \in WorkerStatements
                             /\ pc'[v] \in ScheduleStatements <=> ret'[v] # "idle"
  BY <1>2, <1>3 DEF Places, Threads
<1>6. Places'
  BY <1>2, <1>3, <1>4, <1>5 DEF Places
<1> QED BY <1>2, <1>3, <1>6 DEF Moves

(* What a caller and a worker hold, before and after.                       *)
LEMMA CallerHolds ==
    ASSUME Places, Places', NEW c \in Callers
    PROVE  /\ JobsOf(c) = One(pc[c] \in {"submitJob", "uncountJob"})
           /\ JobsOf(c)' = One(pc'[c] \in {"submitJob", "uncountJob"})
           /\ WakeupsOf(c) = 0 /\ WakeupsOf(c)' = 0
           /\ TasksOf(c) = 0 /\ TasksOf(c)' = 0
<1>1. c \notin InPump /\ c \notin InPump' /\ c \notin InWakeup /\ c \notin InWakeup'
  BY ThreadsAssumption DEF InPump, InWakeup
<1>2. pc[c] \in CallerStatements /\ pc'[c] \in CallerStatements
  BY DEF Places
<1>3. \A p \in CallerStatements : p \notin {"submitWakeup", "uncountWakeup", "enqueueFlush",
                                            "uncountFlush", "closeSession", "sessionDone"}
  BY DEF CallerStatements, ScheduleStatements, InStop
<1> QED BY <1>1, <1>2, <1>3 DEF JobsOf, WakeupsOf, TasksOf, One

LEMMA WorkerHolds ==
    ASSUME NEW w \in PoolWorkers
    PROVE  /\ JobsOf(w) = One(pc[w] \in PumpStatements \/ ret[w] = "jobDone")
                          + One(pc[w] \in {"submitJob", "uncountJob"})
           /\ JobsOf(w)' = One(pc'[w] \in PumpStatements \/ ret'[w] = "jobDone")
                           + One(pc'[w] \in {"submitJob", "uncountJob"})
           /\ WakeupsOf(w) = One(pc[w] = "wakeupDone" \/ ret[w] = "wakeupDone")
                             + One(pc[w] \in {"submitWakeup", "uncountWakeup"})
           /\ WakeupsOf(w)' = One(pc'[w] = "wakeupDone" \/ ret'[w] = "wakeupDone")
                              + One(pc'[w] \in {"submitWakeup", "uncountWakeup"})
BY DEF JobsOf, WakeupsOf, InPump, InWakeup, PumpStatements, One

-----------------------------------------------------------------------------
(* The statements of scheduleFlushPump, by a caller or by a worker          *)
LEMMA GotoInSchedule ==
    ASSUME Places, NEW t \in Threads, NEW from \in ScheduleStatements,
           NEW to \in ScheduleStatements, Goto(t, from, to), ret' = ret
    PROVE  /\ Places' /\ Moves(t) /\ JobsOf(t) \in Nat
           /\ JobsOf(t)' = JobsOf(t) + One(to \in {"submitJob", "uncountJob"})
                                     - One(from \in {"submitJob", "uncountJob"})
           /\ WakeupsOf(t) \in Nat /\ WakeupsOf(t)' = WakeupsOf(t)
           /\ TasksOf(t) = 0 /\ TasksOf(t)' = 0
<1>1. pc[t] = from /\ pc' = [pc EXCEPT ![t] = to]
  BY DEF Goto
<1>2. CASE t \in Callers
  <2>1. Places' /\ Moves(t) /\ pc'[t] = to
    <3>1. to \in CallerStatements
      BY DEF CallerStatements
    <3> QED BY <1>1, <1>2, <3>1, CallerMoves
  <2> QED BY <1>1, <1>2, <2>1, CallerHolds DEF One
<1>3. CASE t \in PoolWorkers
  <2>1. Places' /\ Moves(t) /\ pc'[t] = to /\ ret'[t] = ret[t]
    <3>1. to \in WorkerStatements
      BY DEF WorkerStatements
    <3>2. ret[t] \in {"idle", "jobDone", "wakeupDone"} /\ ret[t] # "idle"
      BY <1>1, <1>3 DEF Places, Threads
    <3>3. ret' = [ret EXCEPT ![t] = ret[t]]
      BY DEF Places
    <3> QED BY <1>1, <1>3, <3>1, <3>2, <3>3, WorkerMoves
  <2>2. \A p \in ScheduleStatements :
           /\ p \notin PumpStatements /\ p # "wakeupDone"
           /\ p \notin {"submitWakeup", "uncountWakeup"}
           /\ p \notin {"enqueueFlush", "uncountFlush", "closeSession", "sessionDone"}
    BY DEF ScheduleStatements, PumpStatements
  <2>3. /\ JobsOf(t) = One(ret[t] = "jobDone") + One(from \in {"submitJob", "uncountJob"})
        /\ JobsOf(t)' = One(ret[t] = "jobDone") + One(to \in {"submitJob", "uncountJob"})
        /\ WakeupsOf(t) = One(ret[t] = "wakeupDone")
        /\ WakeupsOf(t)' = One(ret[t] = "wakeupDone")
    BY <1>1, <1>3, <2>1, <2>2, WorkerHolds DEF One
  <2>4. TasksOf(t) = 0 /\ TasksOf(t)' = 0
    BY <1>1, <2>1, <2>2 DEF TasksOf, One
  <2> QED BY <2>1, <2>3, <2>4 DEF One
<1> QED BY <1>2, <1>3 DEF Threads

LEMMA LeaveSchedule ==
    ASSUME Places, NEW t \in Threads, NEW from \in ScheduleStatements, Leave(t, from)
    PROVE  /\ Places' /\ Moves(t) /\ JobsOf(t) \in Nat
           /\ JobsOf(t)' = JobsOf(t) - One(from \in {"submitJob", "uncountJob"})
           /\ WakeupsOf(t) \in Nat /\ WakeupsOf(t)' = WakeupsOf(t)
           /\ TasksOf(t) = 0 /\ TasksOf(t)' = 0
<1>1. /\ pc[t] = from /\ pc' = [pc EXCEPT ![t] = ret[t]]
      /\ ret' = [ret EXCEPT ![t] = "idle"]
  BY DEF Goto, Leave
<1>2. CASE t \in Callers
  <2>1. ret[t] = "idle" /\ Places' /\ Moves(t) /\ pc'[t] = "idle"
    BY <1>1, <1>2, CallerMoves DEF Places, CallerStatements
  <2> QED BY <1>1, <1>2, <2>1, CallerHolds DEF One
<1>3. CASE t \in PoolWorkers
  <2>1. ret[t] \in {"jobDone", "wakeupDone"}
    BY <1>1, <1>3 DEF Places, Threads
  <2>2. Places' /\ Moves(t) /\ pc'[t] = ret[t] /\ ret'[t] = "idle"
    BY <1>1, <1>3, <2>1, WorkerMoves DEF WorkerStatements, PumpStatements, ScheduleStatements
  <2>3. /\ from \notin PumpStatements /\ from # "wakeupDone"
        /\ from \notin {"submitWakeup", "uncountWakeup"}
        /\ from \notin {"enqueueFlush", "uncountFlush", "closeSession", "sessionDone"}
    BY DEF ScheduleStatements, PumpStatements
  <2>4. /\ JobsOf(t) = One(ret[t] = "jobDone") + One(from \in {"submitJob", "uncountJob"})
        /\ JobsOf(t)' = One(ret[t] = "jobDone")
        /\ WakeupsOf(t) = One(ret[t] = "wakeupDone")
        /\ WakeupsOf(t)' = One(ret[t] = "wakeupDone")
    BY <1>1, <1>3, <2>1, <2>2, <2>3, WorkerHolds DEF One, PumpStatements
  <2>5. TasksOf(t) = 0 /\ TasksOf(t)' = 0
    BY <1>1, <2>1, <2>2, <2>3 DEF TasksOf, One
  <2> QED BY <2>2, <2>4, <2>5 DEF One
<1> QED BY <1>2, <1>3 DEF Threads

LEMMA ScheduleKeeps ==
    ASSUME LifeInv, NEW t \in Threads, ScheduleStep(t)
    PROVE  LifeInv'
<1> USE DEF LifeInv, Shape
<1>1. /\ Flags' /\ Clients' /\ TasksOfIo' = TasksOfIo
      /\ sessionTasks' = sessionTasks /\ wakeups' = wakeups
      /\ mPendingFlushWakeups' = mPendingFlushWakeups
      /\ mPendingSessionPacketTasks' = mPendingSessionPacketTasks
  <2>1. /\ UNCHANGED <<mRunning, io, peer, sessions, progressed, wasRunning, contexts>>
        /\ UNCHANGED <<starts, quiet, alone, leftover, failedOver>>
        /\ UNCHANGED <<wakeups, sessionTasks, mPendingFlushWakeups, mPendingSessionPacketTasks>>
    BY DEF ScheduleStep, ScheduleFlushPump, ClaimPump, CountJob, SubmitJob, UncountJob,
           Unschedule, counters, queued, locals, history
  <2>2. mFlushPumpScheduled' \in BOOLEAN /\ refused' \in BOOLEAN
    BY DEF ScheduleStep, ScheduleFlushPump, ClaimPump, CountJob, SubmitJob, UncountJob,
           Unschedule, history, Flags
  <2> QED BY <2>1, <2>2 DEF Flags, Clients, TasksOfIo, io, peer, sessions
<1>2. /\ mPendingFlushJobs \in Nat /\ mPendingFlushWakeups \in Nat
      /\ mPendingSessionPacketTasks \in Nat
  BY CountersAreNumbers
<1>3. One("submitJob" \in {"submitJob", "uncountJob"}) = 1
      /\ One("uncountJob" \in {"submitJob", "uncountJob"}) = 1
  BY DEF One
<1>4. \A p \in {"schedule", "cas", "countJob", "unschedule"} :
         One(p \in {"submitJob", "uncountJob"}) = 0
  BY DEF One
<1>5. \A p \in {"schedule", "cas", "countJob", "submitJob", "uncountJob", "unschedule"} :
         p \in ScheduleStatements
  BY DEF ScheduleStatements
<1>6. CASE ScheduleFlushPump(t)
  <2>1. pumpJobs' = pumpJobs /\ mPendingFlushJobs' = mPendingFlushJobs
    BY <1>6 DEF ScheduleFlushPump, queued, counters
  <2>2. CASE Goto(t, "schedule", "cas") /\ ret' = ret
    BY <1>1, <1>2, <1>4, <1>5, <2>1, <2>2, GotoInSchedule, BalancedStep DEF Queued
  <2>3. CASE Leave(t, "schedule")
    BY <1>1, <1>2, <1>4, <1>5, <2>1, <2>3, LeaveSchedule, BalancedStep DEF Queued
  <2> QED BY <1>6, <2>2, <2>3 DEF ScheduleFlushPump
<1>7. CASE ClaimPump(t)
  <2>1. pumpJobs' = pumpJobs /\ mPendingFlushJobs' = mPendingFlushJobs
    BY <1>7 DEF ClaimPump, queued, counters
  <2>2. CASE Goto(t, "cas", "countJob") /\ ret' = ret
    BY <1>1, <1>2, <1>4, <1>5, <2>1, <2>2, GotoInSchedule, BalancedStep DEF Queued
  <2>3. CASE Leave(t, "cas")
    BY <1>1, <1>2, <1>4, <1>5, <2>1, <2>3, LeaveSchedule, BalancedStep DEF Queued
  <2> QED BY <1>7, <2>2, <2>3 DEF ClaimPump
<1>8. CASE CountJob(t)
  <2>1. /\ Goto(t, "countJob", "submitJob") /\ ret' = ret
        /\ pumpJobs' = pumpJobs /\ mPendingFlushJobs' = mPendingFlushJobs + 1
    BY <1>8 DEF CountJob, queued, locals
  <2> QED BY <1>1, <1>2, <1>3, <1>4, <1>5, <2>1, GotoInSchedule, BalancedStep DEF Queued
<1>9. CASE SubmitJob(t)
  <2>1. mPendingFlushJobs' = mPendingFlushJobs
    BY <1>9 DEF SubmitJob, counters
  <2>2. CASE Goto(t, "submitJob", "uncountJob") /\ ret' = ret /\ pumpJobs' = pumpJobs
    BY <1>1, <1>2, <1>3, <1>5, <2>1, <2>2, GotoInSchedule, BalancedStep DEF Queued
  <2>3. CASE Leave(t, "submitJob") /\ pumpJobs' = pumpJobs + 1
    BY <1>1, <1>2, <1>3, <1>5, <2>1, <2>3, LeaveSchedule, BalancedStep DEF Queued
  <2> QED BY <1>9, <2>2, <2>3 DEF SubmitJob
<1>10. CASE UncountJob(t)
  <2>1. /\ Goto(t, "uncountJob", "unschedule") /\ ret' = ret
        /\ pumpJobs' = pumpJobs /\ mPendingFlushJobs' = mPendingFlushJobs - 1
    BY <1>10 DEF UncountJob, queued, locals
  <2> QED BY <1>1, <1>2, <1>3, <1>4, <1>5, <2>1, GotoInSchedule, BalancedStep DEF Queued
<1>11. CASE Unschedule(t)
  <2>1. /\ Leave(t, "unschedule")
        /\ pumpJobs' = pumpJobs /\ mPendingFlushJobs' = mPendingFlushJobs
    BY <1>11 DEF Unschedule, queued, counters
  <2> QED BY <1>1, <1>2, <1>4, <1>5, <2>1, LeaveSchedule, BalancedStep DEF Queued
<1> QED BY <1>6, <1>7, <1>8, <1>9, <1>10, <1>11 DEF ScheduleStep

-----------------------------------------------------------------------------
(* A step of a caller outside scheduleFlushPump counts nothing.             *)
LEMMA CallerKeeps ==
    ASSUME LifeInv, NEW c \in Callers, NEW to \in CallerStatements,
           pc[c] \notin {"submitJob", "uncountJob"}, to \notin {"submitJob", "uncountJob"},
           pc' = [pc EXCEPT ![c] = to],
           ret' = ret \/ ret' = [ret EXCEPT ![c] = "idle"],
           UNCHANGED counters, UNCHANGED queued, TasksOfIo' = TasksOfIo, Flags', Clients'
    PROVE  LifeInv'
<1> USE DEF LifeInv, Shape
<1>1. Places' /\ Moves(c) /\ pc'[c] = to
  BY CallerMoves
<1>2. /\ JobsOf(c) = 0 /\ JobsOf(c)' = 0 /\ WakeupsOf(c) = 0 /\ WakeupsOf(c)' = 0
      /\ TasksOf(c) = 0 /\ TasksOf(c)' = 0
  BY <1>1, CallerHolds DEF One
<1>3. /\ Queued' /\ pumpJobs' = pumpJobs /\ wakeups' = wakeups /\ sessionTasks' = sessionTasks
      /\ mPendingFlushJobs' = mPendingFlushJobs /\ mPendingFlushWakeups' = mPendingFlushWakeups
      /\ mPendingSessionPacketTasks' = mPendingSessionPacketTasks
  BY DEF counters, queued, Queued
<1>4. c \in Threads
  BY DEF Threads
<1>5. CountsAreExact'
  BY <1>1, <1>2, <1>3, <1>4, CountersAreNumbers, BalancedStep DEF Queued
<1> QED BY <1>1, <1>3, <1>5

LEMMA StartKeeps ==
    ASSUME LifeInv, NEW c \in Callers,
           StartBegin(c) \/ StartPeer(c) \/ StartFails(c) \/ ScheduleIoPump(c)
    PROVE  LifeInv'
<1> USE DEF LifeInv, Shape
<1>1. PICK from \in {"idle", "startup", "startFails", "scheduleIo"},
           to \in {"idle", "startup", "startFails", "scheduleIo", "schedule"} : Goto(c, from, to)
  BY DEF StartBegin, StartPeer, StartFails, ScheduleIoPump
<1>2. to \in CallerStatements /\ to \notin {"submitJob", "uncountJob"}
      /\ pc[c] \notin {"submitJob", "uncountJob"} /\ pc' = [pc EXCEPT ![c] = to]
  BY <1>1 DEF CallerStatements, ScheduleStatements, Goto
<1>3. /\ UNCHANGED <<counters, queued, sessions, progressed, wasRunning, contexts>>
      /\ ret' = ret \/ ret' = [ret EXCEPT ![c] = "idle"]
  BY DEF StartBegin, StartPeer, StartFails, ScheduleIoPump, locals
<1>4. Flags' /\ TasksOfIo' = TasksOfIo
  <2>1. UNCHANGED <<mFlushPumpScheduled, poolOpen, alone, leftover, refused, ioContexts>>
    BY DEF StartBegin, StartPeer, StartFails, ScheduleIoPump, peer, io, history
  <2>2. starts' \in 0..MaxStarts
    <3>1. starts' = starts \/ (starts < MaxStarts /\ starts' = starts + 1)
      BY DEF StartBegin, StartPeer, StartFails, ScheduleIoPump, history
    <3> QED BY <3>1, BoundsAssumption DEF Flags
  <2>3. mRunning' \in BOOLEAN /\ peerStarted' \in BOOLEAN
    BY DEF StartBegin, StartPeer, StartFails, ScheduleIoPump, peer, Flags
  <2>4. quiet' \in BOOLEAN /\ failedOver' \in BOOLEAN
    <3>1. quiet' = quiet \/ quiet' = (quiet /\ mRunning)
      BY DEF StartBegin, StartPeer, StartFails, ScheduleIoPump, history
    <3>2. failedOver' = failedOver \/ failedOver' = (failedOver \/ Continuations > 0)
      BY DEF StartBegin, StartPeer, StartFails, ScheduleIoPump, history
    <3> QED BY <3>1, <3>2, Zenon DEF Flags
  <2>5. /\ stopRequested' \in BOOLEAN /\ TasksOfIo' = TasksOfIo
        /\ mIoPumpThread' \in {"none", "loop", "receive", "enqueue", "close", "uncount", "exited"}
    <3>1. \/ UNCHANGED io
          \/ mIoPumpThread = "none" /\ mIoPumpThread' = "loop" /\ stopRequested' = FALSE
      BY DEF StartBegin, StartPeer, StartFails, ScheduleIoPump
    <3> QED BY <3>1 DEF io, TasksOfIo, Flags
  <2> QED BY <1>3, <2>1, <2>2, <2>3, <2>4, <2>5 DEF Flags
<1>5. Clients'
  <2>1. UNCHANGED ioContexts
    BY DEF StartBegin, StartPeer, StartFails, ScheduleIoPump, io
  <2> QED BY <1>3, <2>1 DEF Clients, sessions
<1> QED BY <1>2, <1>3, <1>4, <1>5, CallerKeeps

LEMMA StopKeeps ==
    ASSUME LifeInv, NEW c \in Callers, StopBegin(c) \/ StopStep(c)
    PROVE  LifeInv'
<1> USE DEF LifeInv, Shape
<1>1. PICK to \in {"idle"} \union InStop : pc' = [pc EXCEPT ![c] = to]
  <2>1. CASE StopBegin(c)
    BY <2>1 DEF StopBegin, Goto, InStop
  <2>2. CASE StopRequest(c) \/ StopJoin(c) \/ StopWait(c) \/ StopCollect(c) \/ StopReturn(c)
    BY <2>2 DEF StopRequest, StopJoin, StopWait, StopCollect, StopReturn, Goto, InStop
  <2>3. CASE StopDisconnect(c) \/ StopRemove(c)
    <3>1. pc' = pc => pc' = [pc EXCEPT ![c] = pc[c]]
      BY DEF Places
    <3> QED BY <2>3, <3>1 DEF StopDisconnect, StopRemove, Goto, InStop
  <2> QED BY <2>1, <2>2, <2>3 DEF StopStep
<1>2. pc[c] \in {"idle"} \union InStop
  BY DEF StopBegin, StopStep, StopRequest, StopJoin, StopWait, StopCollect, StopReturn,
         StopDisconnect, StopRemove, Goto, InStop
<1>3. /\ to \in CallerStatements /\ to \notin {"submitJob", "uncountJob"}
      /\ pc[c] \notin {"submitJob", "uncountJob"}
  BY <1>2 DEF CallerStatements, InStop
<1>4. Stays
  BY DEF StopBegin, StopStep, StopRequest, StopJoin, StopWait, StopCollect, StopReturn,
         StopDisconnect, StopRemove
<1>5. Flags' /\ TasksOfIo' = TasksOfIo
  <2>1. CASE StopBegin(c)
    BY <2>1, <1>4 DEF StopBegin, Stays, Flags, TasksOfIo, io
  <2>2. CASE StopRequest(c)
    BY <2>2, <1>4 DEF StopRequest, Stays, Flags, TasksOfIo
  <2>3. CASE StopJoin(c)
    BY <2>3, <1>4 DEF StopJoin, Stays, Flags, TasksOfIo
  <2>4. CASE StopWait(c)
    BY <2>4, <1>4 DEF StopWait, Stays, Flags, TasksOfIo, io
  <2>5. CASE StopCollect(c)
    BY <2>5, <1>4 DEF StopCollect, Stays, Flags, TasksOfIo, io
  <2>6. CASE StopDisconnect(c)
    BY <2>6, <1>4 DEF StopDisconnect, Stays, Flags, TasksOfIo, io
  <2>7. CASE StopRemove(c)
    BY <2>7, <1>4 DEF StopRemove, Stays, Flags, TasksOfIo, io
  <2>8. CASE StopReturn(c)
    BY <2>8, <1>4 DEF StopReturn, Stays, Flags, TasksOfIo, io
  <2> QED BY <2>1, <2>2, <2>3, <2>4, <2>5, <2>6, <2>7, <2>8 DEF StopStep
<1>6. Clients'
  <2>1. CASE StopBegin(c) \/ StopRequest(c) \/ StopJoin(c) \/ StopWait(c) \/ StopReturn(c)
    BY <2>1, <1>4 DEF StopBegin, StopRequest, StopJoin, StopWait, StopReturn, Stays, Clients, io
  <2>2. CASE StopCollect(c)
    BY <2>2, <1>4 DEF StopCollect, Stays, Clients, io
  <2>3. CASE StopDisconnect(c)
    BY <2>3, <1>4 DEF StopDisconnect, Stays, Clients, io
  <2>4. CASE StopRemove(c)
    BY <2>4, <1>4 DEF StopRemove, Stays, Clients, io
  <2> QED BY <2>1, <2>2, <2>3, <2>4 DEF StopStep
<1> QED BY <1>1, <1>3, <1>4, <1>5, <1>6, CallerKeeps DEF Stays

(* disconnectClient moves its caller and touches the sessions; nothing else.*)
Resting == {"idle", "disconnectErased"}
DisconnectStep(c) == (\E s \in Sessions : DisconnectClient(c, s)) \/ CloseErased(c)

LEMMA DisconnectMoves ==
    ASSUME Places, Clients, NEW c \in Callers, DisconnectStep(c)
    PROVE  /\ c \in Threads /\ c \notin PoolWorkers /\ Moves(c)
           /\ \E to \in Resting : pc' = [pc EXCEPT ![c] = to]
           /\ pc[c] \in Resting /\ pc'[c] \in Resting
           /\ \A t \in Threads \ {c} : pc'[t] = pc[t]
           /\ \A t \in Threads \ {c} : contexts'[t] = contexts[t]
           /\ UNCHANGED <<mRunning, mFlushPumpScheduled, counters, queued, io, peer, ret,
                          progressed, wasRunning, history>>
<1>1. c \in Threads /\ c \notin PoolWorkers
  BY ThreadsAssumption DEF Threads
<1>2. /\ UNCHANGED <<mRunning, mFlushPumpScheduled, counters, queued, io, peer, ret,
                     progressed, wasRunning, history>>
      /\ \E to \in Resting : pc' = [pc EXCEPT ![c] = to]
      /\ pc[c] \in Resting
      /\ \E held : contexts' = [contexts EXCEPT ![c] = held]
  BY DEF DisconnectStep, DisconnectClient, CloseErased, CloseHeld, Goto, Resting
<1>3. Moves(c) /\ pc'[c] \in Resting /\ \A t \in Threads \ {c} : pc'[t] = pc[t]
  BY <1>1, <1>2 DEF Moves, Places
<1>4. \A t \in Threads \ {c} : contexts'[t] = contexts[t]
  BY <1>1, <1>2 DEF Clients
<1> QED BY <1>1, <1>2, <1>3, <1>4

LEMMA DisconnectKeeps ==
    ASSUME LifeInv, NEW c \in Callers, DisconnectStep(c)
    PROVE  LifeInv'
<1> USE DEF LifeInv, Shape
<1>1. PICK to \in Resting : pc' = [pc EXCEPT ![c] = to]
  BY DisconnectMoves
<1>2. /\ pc[c] \in Resting
      /\ UNCHANGED <<mRunning, mFlushPumpScheduled, counters, queued, io, peer, ret,
                     progressed, wasRunning, history>>
  BY DisconnectMoves
<1>3. Flags' /\ TasksOfIo' = TasksOfIo
  BY <1>2 DEF Flags, TasksOfIo, io, peer, history
<1>4. Clients'
  <2>1. UNCHANGED ioContexts
    BY <1>2 DEF io
  <2> QED BY <2>1 DEF DisconnectStep, DisconnectClient, RemoveSession, CloseErased, CloseHeld,
             Clients, sessions
<1> QED BY <1>1, <1>2, <1>3, <1>4, CallerKeeps DEF Resting, CallerStatements

-----------------------------------------------------------------------------
(* A worker outside scheduleFlushPump: what it holds follows from its       *)
(* statement.                                                               *)
Outside == {"idle", "wakeupDone", "closeSession", "sessionDone"} \union PumpStatements
ForWakeup == {"wakeupDone", "submitWakeup", "uncountWakeup"}
ForTask == {"enqueueFlush", "uncountFlush", "closeSession", "sessionDone"}

LEMMA OutsideHolds ==
    /\ Outside \subseteq WorkerStatements /\ Outside \intersect ScheduleStatements = {}
    /\ \A p \in Outside : /\ p \notin {"submitJob", "uncountJob"}
                          /\ One(p \in PumpStatements) \in Nat /\ One(p \in ForWakeup) \in Nat
                          /\ One(p \in ForTask) \in Nat
                          /\ One(p = "wakeupDone") + One(p \in {"submitWakeup", "uncountWakeup"})
                             = One(p \in ForWakeup)
<1>1. /\ Outside \subseteq WorkerStatements /\ Outside \intersect ScheduleStatements = {}
      /\ \A p \in Outside : p \notin {"submitJob", "uncountJob"}
  BY DEF Outside, WorkerStatements, ScheduleStatements, PumpStatements
<1> QED BY <1>1 DEF One, ForWakeup

LEMMA WorkerKeeps ==
    ASSUME LifeInv, NEW w \in PoolWorkers, NEW from \in Outside, NEW to \in Outside,
           Goto(w, from, to), ret' = ret,
           Flags', Clients', Queued', TasksOfIo' = TasksOfIo,
           mPendingFlushJobs' = mPendingFlushJobs + (pumpJobs' - pumpJobs)
               + (One(to \in PumpStatements) - One(from \in PumpStatements)),
           mPendingFlushWakeups' = mPendingFlushWakeups + (wakeups' - wakeups)
               + (One(to \in ForWakeup) - One(from \in ForWakeup)),
           mPendingSessionPacketTasks' = mPendingSessionPacketTasks + (sessionTasks' - sessionTasks)
               + (One(to \in ForTask) - One(from \in ForTask))
    PROVE  LifeInv'
<1> USE DEF LifeInv, Shape
<1>1. pc[w] = from /\ pc' = [pc EXCEPT ![w] = to] /\ w \in Threads
  BY DEF Goto, Threads
<1>2. ret[w] = "idle" /\ ret' = [ret EXCEPT ![w] = "idle"]
  BY <1>1, OutsideHolds DEF Places
<1>3. Places' /\ Moves(w) /\ pc'[w] = to /\ ret'[w] = "idle"
  BY <1>1, <1>2, OutsideHolds, WorkerMoves
<1>4. /\ JobsOf(w) = One(from \in PumpStatements) /\ JobsOf(w)' = One(to \in PumpStatements)
      /\ WakeupsOf(w) = One(from \in ForWakeup) /\ WakeupsOf(w)' = One(to \in ForWakeup)
  BY <1>1, <1>2, <1>3, OutsideHolds, WorkerHolds DEF One
<1>5. TasksOf(w) = One(from \in ForTask) /\ TasksOf(w)' = One(to \in ForTask)
  BY <1>1, <1>3 DEF TasksOf, ForTask
<1>6. CountsAreExact'
  BY <1>1, <1>3, <1>4, <1>5, BalancedStep
<1> QED BY <1>3, <1>6

LEMMA EnterScheduleKeeps ==
    ASSUME LifeInv, NEW w \in PoolWorkers, NEW from \in {"idle", "recheck"},
           NEW back \in {"jobDone", "wakeupDone"},
           Goto(w, from, "schedule"), ret' = [ret EXCEPT ![w] = back],
           Flags', Clients', Queued', UNCHANGED <<counters, io, sessionTasks>>,
           pumpJobs' = pumpJobs,
           \/ from = "idle" /\ back = "wakeupDone" /\ wakeups' = wakeups - 1
           \/ from = "recheck" /\ back = "jobDone" /\ wakeups' = wakeups
    PROVE  LifeInv'
<1> USE DEF LifeInv, Shape
<1>1. pc[w] = from /\ pc' = [pc EXCEPT ![w] = "schedule"] /\ w \in Threads
  BY DEF Goto, Threads
<1>2. from \in Outside /\ "schedule" \in WorkerStatements /\ "schedule" \in ScheduleStatements
  BY DEF Outside, PumpStatements, WorkerStatements, ScheduleStatements
<1>3. ret[w] = "idle"
  BY <1>1, <1>2, OutsideHolds DEF Places
<1>4. Places' /\ Moves(w) /\ pc'[w] = "schedule" /\ ret'[w] = back
  BY <1>1, <1>2, WorkerMoves
<1>5. /\ JobsOf(w) = One(from = "recheck") /\ JobsOf(w)' = One(back = "jobDone")
      /\ WakeupsOf(w) = 0 /\ WakeupsOf(w)' = One(back = "wakeupDone")
      /\ TasksOf(w) = 0 /\ TasksOf(w)' = 0
  <2>1. "schedule" \notin PumpStatements /\ "recheck" \in PumpStatements
        /\ "idle" \notin PumpStatements
    BY DEF PumpStatements
  <2> QED BY <2>1, <1>1, <1>3, <1>4, WorkerHolds DEF One, TasksOf
<1>6. JobsOf(w)' = JobsOf(w) /\ JobsOf(w) \in Nat
      /\ WakeupsOf(w) = 0 /\ wakeups' = wakeups - WakeupsOf(w)' /\ WakeupsOf(w)' \in Nat
  BY <1>5 DEF One, Queued
<1>7. /\ mPendingFlushJobs' = mPendingFlushJobs /\ mPendingFlushWakeups' = mPendingFlushWakeups
      /\ mPendingSessionPacketTasks' = mPendingSessionPacketTasks
      /\ sessionTasks' = sessionTasks /\ TasksOfIo' = TasksOfIo
  BY DEF counters, io, TasksOfIo
<1>8. CountsAreExact'
  <2>1. TasksOf(w) = 0 /\ TasksOf(w)' = 0
    BY <1>5
  <2> QED BY <1>1, <1>4, <1>6, <1>7, <2>1, CountersAreNumbers, BalancedStep DEF Queued
<1> QED BY <1>4, <1>8

LEMMA OutsideCounts ==
    /\ \A p \in {"idle", "wakeupDone", "closeSession", "sessionDone"} :
          p \in Outside /\ One(p \in PumpStatements) = 0
    /\ \A p \in PumpStatements : p \in Outside /\ One(p \in PumpStatements) = 1
    /\ \A p \in ForWakeup : p \in Outside /\ One(p \in ForWakeup) = 1
    /\ \A p \in ForTask : p \in Outside /\ One(p \in ForTask) = 1
    /\ \A p \in Outside \ ForWakeup : One(p \in ForWakeup) = 0
    /\ \A p \in Outside \ ForTask : One(p \in ForTask) = 0
BY DEF One, Outside, PumpStatements, ForWakeup, ForTask

LEMMA TakeKeeps ==
    ASSUME LifeInv, NEW w \in PoolWorkers, TakeStep(w)
    PROVE  LifeInv'
<1> USE DEF LifeInv, Shape
<1> /\ mPendingFlushJobs \in Nat /\ mPendingFlushWakeups \in Nat
    /\ mPendingSessionPacketTasks \in Nat
  BY CountersAreNumbers
<1>1. Flags' /\ Queued' /\ UNCHANGED <<counters, io>> /\ TasksOfIo' = TasksOfIo
  <2>1. /\ UNCHANGED <<mRunning, mFlushPumpScheduled, counters, io, peer, wasRunning, history>>
        /\ progressed' = progressed \/ progressed' = [progressed EXCEPT ![w] = FALSE]
    BY DEF TakeStep, TakeJob, TakeWakeup, TakeSessionTask
  <2>2. Queued'
    BY DEF TakeStep, TakeJob, TakeWakeup, TakeSessionTask, Queued
  <2>3. progressed' \in [PoolWorkers -> BOOLEAN]
    BY <2>1 DEF Flags
  <2> QED BY <2>1, <2>2, <2>3 DEF Flags, io, peer, history, TasksOfIo
<1>2. Clients'
  <2>1. UNCHANGED ioContexts
    BY <1>1 DEF io
  <2> QED BY <2>1 DEF TakeStep, TakeJob, TakeWakeup, TakeSessionTask, RemoveSession, Clients,
     sessions
<1>3. /\ mPendingFlushJobs' = mPendingFlushJobs /\ mPendingFlushWakeups' = mPendingFlushWakeups
      /\ mPendingSessionPacketTasks' = mPendingSessionPacketTasks
  BY <1>1 DEF counters
<1>4. CASE TakeJob(w)
  <2>1. PICK to \in {"tick", "dropFlag"} : Goto(w, "idle", to)
    BY <1>4 DEF TakeJob
  <2>2. /\ ret' = ret /\ pumpJobs' = pumpJobs - 1 /\ wakeups' = wakeups
        /\ sessionTasks' = sessionTasks
    BY <1>4 DEF TakeJob
  <2>3. /\ "idle" \in Outside \ (ForWakeup \union ForTask)
        /\ to \in PumpStatements \ (ForWakeup \union ForTask)
    BY DEF Outside, PumpStatements, ForWakeup, ForTask
  <2>4. /\ to \in Outside /\ One(to \in PumpStatements) = 1 /\ One("idle" \in PumpStatements) = 0
        /\ One(to \in ForWakeup) = 0 /\ One("idle" \in ForWakeup) = 0
        /\ One(to \in ForTask) = 0 /\ One("idle" \in ForTask) = 0
    BY <2>3, OutsideCounts
  <2> QED BY <1>1, <1>2, <1>3, <2>1, <2>2, <2>3, <2>4, WorkerKeeps DEF Queued
<1>5. CASE TakeWakeup(w)
  <2>1. /\ Goto(w, "idle", "schedule") /\ ret' = [ret EXCEPT ![w] = "wakeupDone"]
        /\ wakeups' = wakeups - 1 /\ pumpJobs' = pumpJobs /\ sessionTasks' = sessionTasks
    BY <1>5 DEF TakeWakeup
  <2> QED BY <1>1, <1>2, <2>1, EnterScheduleKeeps
<1>6. CASE TakeSessionTask(w)
  <2>1. PICK to \in {"closeSession", "sessionDone"} : Goto(w, "idle", to)
    BY <1>6 DEF TakeSessionTask
  <2>4. /\ ret' = ret
        /\ sessionTasks' = sessionTasks - 1 /\ pumpJobs' = pumpJobs /\ wakeups' = wakeups
    BY <1>6 DEF TakeSessionTask
  <2>2. /\ "idle" \in Outside \ (ForWakeup \union ForTask)
        /\ to \in (Outside \intersect ForTask) \ ForWakeup
    BY DEF Outside, PumpStatements, ForWakeup, ForTask
  <2>3. /\ One(to \in PumpStatements) = 0 /\ One("idle" \in PumpStatements) = 0
        /\ One(to \in ForWakeup) = 0 /\ One("idle" \in ForWakeup) = 0
        /\ One(to \in ForTask) = 1 /\ One("idle" \in ForTask) = 0
    BY <2>2, OutsideCounts
  <2> QED BY <1>1, <1>2, <1>3, <2>1, <2>2, <2>3, <2>4, WorkerKeeps DEF Queued
<1> QED BY <1>4, <1>5, <1>6 DEF TakeStep

LEMMA PumpKeeps ==
    ASSUME LifeInv, NEW w \in PoolWorkers, PumpStep(w) \/ FlushSession(w)
    PROVE  LifeInv'
<1> USE DEF LifeInv, Shape
<1> /\ mPendingFlushJobs \in Nat /\ mPendingFlushWakeups \in Nat
    /\ mPendingSessionPacketTasks \in Nat
  BY CountersAreNumbers
<1>1. /\ UNCHANGED <<mRunning, io, peer, wasRunning, history, pumpJobs>>
      /\ mFlushPumpScheduled' \in BOOLEAN
  BY DEF PumpStep, FlushSession, DropFlag, EnqueueFlush, TickEnds, PumpAgain, CountWakeup,
         SubmitWakeup, JobDone, WakeupDone, CloseSession, CloseHeld, SessionTaskDone, Flags,
         queued, locals
<1>2. progressed' \in [PoolWorkers -> BOOLEAN]
  <2>1. progressed' = progressed \/ \E b \in BOOLEAN : progressed' = [progressed EXCEPT ![w] = b]
    BY DEF PumpStep, FlushSession, DropFlag, EnqueueFlush, TickEnds, PumpAgain, CountWakeup,
           SubmitWakeup, JobDone, WakeupDone, CloseSession, CloseHeld, SessionTaskDone, locals
  <2> QED BY <2>1 DEF Flags
<1>3. Flags' /\ Clients' /\ TasksOfIo' = TasksOfIo
  <2>1. Clients'
    <3>1. CASE CloseSession(w)
      BY <1>1, <3>1 DEF CloseSession, CloseHeld, Clients, io
    <3>2. CASE ~CloseSession(w)
      <4>1. UNCHANGED <<sessions, contexts>>
        BY <3>2 DEF PumpStep, FlushSession, DropFlag, EnqueueFlush, TickEnds, PumpAgain,
           CountWakeup, SubmitWakeup, JobDone, WakeupDone, SessionTaskDone, locals
      <4> QED BY <1>1, <4>1 DEF Clients, sessions, io
    <3> QED BY <3>1, <3>2
  <2> QED BY <1>1, <1>2, <2>1 DEF Flags, TasksOfIo, io, peer, history
<1>4. Queued'
  BY DEF PumpStep, FlushSession, DropFlag, EnqueueFlush, TickEnds, PumpAgain, CountWakeup,
         SubmitWakeup, JobDone, WakeupDone, CloseSession, CloseHeld, SessionTaskDone, queued, Queued
<1>5. /\ \A p \in PumpStatements : p \in Outside /\ One(p \in PumpStatements) = 1
      /\ \A p \in Outside \ ForWakeup : One(p \in ForWakeup) = 0
      /\ \A p \in Outside \ ForTask : One(p \in ForTask) = 0
      /\ \A p \in ForWakeup : One(p \in ForWakeup) = 1
      /\ \A p \in ForTask : One(p \in ForTask) = 1
      /\ One("idle" \in PumpStatements) = 0 /\ One("wakeupDone" \in PumpStatements) = 0
      /\ One("sessionDone" \in PumpStatements) = 0 /\ One("closeSession" \in PumpStatements) = 0
      /\ "idle" \in Outside /\ "wakeupDone" \in Outside /\ "sessionDone" \in Outside
      /\ "closeSession" \in Outside
  BY OutsideCounts
<1>6. /\ {"dropFlag", "enqueueFlush", "uncountFlush", "tick", "recheck", "countWakeup",
           "submitWakeup", "uncountWakeup", "jobDone"} \subseteq PumpStatements
      /\ ForTask = {"enqueueFlush", "uncountFlush", "closeSession", "sessionDone"}
      /\ ForWakeup = {"wakeupDone", "submitWakeup", "uncountWakeup"}
  BY DEF PumpStatements, ForTask, ForWakeup
<1>7. CASE DropFlag(w)
  <2>1. Goto(w, "dropFlag", "jobDone") /\ UNCHANGED <<counters, queued, ret>>
    BY <1>7 DEF DropFlag, locals
  <2> QED BY <1>3, <1>4, <1>5, <1>6, <2>1, WorkerKeeps DEF counters, queued, Queued
<1>8. CASE FlushSession(w)
  <2>1. Goto(w, "tick",
  "enqueueFlush") /\ mPendingSessionPacketTasks' = mPendingSessionPacketTasks + 1
        /\ UNCHANGED <<mPendingFlushJobs, mPendingFlushWakeups, queued, ret>>
    BY <1>8 DEF FlushSession, locals
  <2> QED BY <1>3, <1>4, <1>5, <1>6, <2>1, WorkerKeeps DEF counters, queued, Queued
<1>9. CASE EnqueueFlush(w)
  <2>1. /\ UNCHANGED <<counters, pumpJobs, wakeups, ret>>
        /\ \/ Goto(w, "enqueueFlush", "tick") /\ sessionTasks' = sessionTasks + 1
           \/ Goto(w, "enqueueFlush", "uncountFlush") /\ sessionTasks' = sessionTasks
    BY <1>9 DEF EnqueueFlush
  <2> QED BY <1>3, <1>4, <1>5, <1>6, <2>1, WorkerKeeps DEF counters, Queued
<1>10. CASE TickEnds(w)
  <2>1. Goto(w, "tick", "recheck") /\ UNCHANGED <<counters, queued, ret>>
    BY <1>10 DEF TickEnds, locals
  <2> QED BY <1>3, <1>4, <1>5, <1>6, <2>1, WorkerKeeps DEF counters, queued, Queued
<1>11. CASE PumpAgain(w)
  <2>1. CASE Goto(w, "recheck", "schedule") /\ ret' = [ret EXCEPT ![w] = "jobDone"]
    BY <1>1, <1>3, <1>4, <1>11, <2>1, EnterScheduleKeeps DEF PumpAgain, queued
  <2>2. CASE \E to \in {"countWakeup", "jobDone"} : Goto(w, "recheck", to) /\ ret' = ret
    BY <1>3, <1>4, <1>5, <1>6, <1>11, <2>2, WorkerKeeps DEF PumpAgain, counters, queued, Queued
  <2> QED BY <1>11, <2>1, <2>2 DEF PumpAgain
<1>12. CASE CountWakeup(w)
  <2>1. Goto(w, "countWakeup", "submitWakeup") /\ mPendingFlushWakeups' = mPendingFlushWakeups + 1
        /\ UNCHANGED <<mPendingFlushJobs, mPendingSessionPacketTasks, queued, ret>>
    BY <1>12 DEF CountWakeup, locals
  <2> QED BY <1>3, <1>4, <1>5, <1>6, <2>1, WorkerKeeps DEF counters, queued, Queued
<1>13. CASE SubmitWakeup(w)
  <2>1. /\ UNCHANGED <<counters, pumpJobs, sessionTasks, ret>>
        /\ \/ Goto(w, "submitWakeup", "jobDone") /\ wakeups' = wakeups + 1
           \/ Goto(w, "submitWakeup", "uncountWakeup") /\ wakeups' = wakeups
    BY <1>13 DEF SubmitWakeup, locals
  <2> QED BY <1>3, <1>4, <1>5, <1>6, <2>1, WorkerKeeps DEF counters, Queued
<1>14. CASE JobDone(w)
  <2>1. Goto(w, "jobDone", "idle") /\ mPendingFlushJobs' = mPendingFlushJobs - 1
        /\ UNCHANGED <<mPendingFlushWakeups, mPendingSessionPacketTasks, queued, ret>>
    BY <1>14 DEF JobDone, locals
  <2> QED BY <1>3, <1>4, <1>5, <1>6, <2>1, WorkerKeeps DEF counters, queued, Queued
<1>15. CASE WakeupDone(w)
  <2>1. /\ mPendingFlushWakeups' = mPendingFlushWakeups - 1
        /\ UNCHANGED <<mPendingFlushJobs, mPendingSessionPacketTasks, queued, ret>>
        /\ Goto(w, "wakeupDone", "idle") \/ Goto(w, "uncountWakeup", "jobDone")
    BY <1>15 DEF WakeupDone, locals
  <2> QED BY <1>3, <1>4, <1>5, <1>6, <2>1, WorkerKeeps DEF queued, Queued
<1>16. CASE SessionTaskDone(w)
  <2>1. /\ mPendingSessionPacketTasks' = mPendingSessionPacketTasks - 1
        /\ UNCHANGED <<mPendingFlushJobs, mPendingFlushWakeups, queued, ret>>
        /\ Goto(w, "sessionDone", "idle") \/ Goto(w, "uncountFlush", "tick")
    BY <1>16 DEF SessionTaskDone, locals
  <2> QED BY <1>3, <1>4, <1>5, <1>6, <2>1, WorkerKeeps DEF queued, Queued
<1>17. CASE CloseSession(w)
  <2>1. Goto(w, "closeSession", "sessionDone") /\ UNCHANGED <<counters, queued, ret>>
    BY <1>17 DEF CloseSession, CloseHeld
  <2> QED BY <1>3, <1>4, <1>5, <1>6, <2>1, WorkerKeeps DEF counters, queued, Queued
<1> QED BY <1>7, <1>8, <1>9, <1>10, <1>11, <1>12, <1>13, <1>14, <1>15, <1>16, <1>17 DEF PumpStep

(* A step in which no thread of start, stop or the pool moves.              *)
LEMMA OthersKeep ==
    ASSUME LifeInv, IoStep \/ IoPacket \/ (\E s \in Sessions : IoNewConnection(s)) \/ ClosePool
                    \/ UNCHANGED vars
    PROVE  LifeInv'
<1> USE DEF LifeInv, Shape
<1> /\ mPendingFlushJobs \in Nat /\ mPendingFlushWakeups \in Nat
    /\ mPendingSessionPacketTasks \in Nat
  BY CountersAreNumbers
<1>1. UNCHANGED <<pc, ret, mPendingFlushJobs, mPendingFlushWakeups, pumpJobs, wakeups>>
  BY DEF IoStep, IoLoop, IoIdle, IoEnqueue, IoClose, IoUncount, IoPacket, IoNewConnection,
     ClosePool,
         counters, queued, locals, vars
<1>2. Places' /\ Queued'
  <2>1. sessionTasks' \in Nat
    BY DEF IoStep, IoLoop, IoIdle, IoEnqueue, IoClose, IoUncount, IoPacket, IoNewConnection,
       ClosePool,
           queued, vars, Queued
  <2> QED BY <1>1, <2>1 DEF Places, Queued
<1>3. Flags'
  <2>1. /\ UNCHANGED <<mRunning, mFlushPumpScheduled, stopRequested, peerStarted, progressed,
                       wasRunning, history>>
        /\ poolOpen' \in BOOLEAN
        /\ mIoPumpThread' \in {"none", "loop", "receive", "enqueue", "close", "uncount", "exited"}
    BY DEF IoStep, IoLoop, IoIdle, IoEnqueue, IoClose, IoUncount, IoPacket, IoNewConnection,
       ClosePool,
           io, peer, locals, vars, Flags
  <2> QED BY <2>1 DEF Flags, history
<1>4. Clients'
  BY DEF IoStep, IoLoop, IoIdle, IoEnqueue, IoClose, IoUncount, IoPacket, IoNewConnection,
     ClosePool,
         RemoveSession, sessions, io, locals, vars, Clients
<1>5. mPendingSessionPacketTasks'
      = mPendingSessionPacketTasks + (sessionTasks' - sessionTasks) + (TasksOfIo' - TasksOfIo)
  <2>1. CASE UNCHANGED <<mIoPumpThread, mPendingSessionPacketTasks, sessionTasks>>
    BY <2>1 DEF TasksOfIo, Queued
  <2>2. CASE IoLoop
    BY <2>2 DEF IoLoop, TasksOfIo, Queued, counters, queued
  <2>3. CASE IoIdle
    BY <2>3 DEF IoIdle, TasksOfIo, Queued, counters, queued
  <2>4. CASE IoEnqueue
    BY <2>4 DEF IoEnqueue, TasksOfIo, Queued, counters
  <2>8. CASE IoClose
    BY <2>8 DEF IoClose, TasksOfIo, Queued, queued, counters
  <2>5. CASE IoUncount
    BY <2>5 DEF IoUncount, TasksOfIo, Queued, queued
  <2>6. CASE IoPacket
    BY <2>6 DEF IoPacket, TasksOfIo, Queued, queued
  <2>7. (\E s \in Sessions : IoNewConnection(s)) \/ ClosePool \/ UNCHANGED vars
        => UNCHANGED <<mIoPumpThread, mPendingSessionPacketTasks, sessionTasks>>
    BY DEF IoNewConnection, ClosePool, vars, io, counters, queued
  <2> QED BY <2>1, <2>2, <2>3, <2>4, <2>5, <2>6, <2>7, <2>8 DEF IoStep
<1>6. /\ InPump' = InPump /\ InWakeup' = InWakeup
      /\ At({"submitJob", "uncountJob"})' = At({"submitJob", "uncountJob"})
      /\ At({"submitWakeup", "uncountWakeup"})' = At({"submitWakeup", "uncountWakeup"})
      /\ At({"enqueueFlush", "uncountFlush", "closeSession", "sessionDone"})'
         = At({"enqueueFlush", "uncountFlush", "closeSession", "sessionDone"})
  BY <1>1 DEF InPump, InWakeup, At
<1>7. /\ Cardinality(At({"enqueueFlush", "uncountFlush", "closeSession", "sessionDone"})) \in Nat
      /\ TasksOfIo \in Nat /\ TasksOfIo' \in Nat
  BY ThreadsFinite, FS_CardinalityType DEF At, TasksOfIo
<1>8. mPendingSessionPacketTasks' = sessionTasks'
         + Cardinality(At({"enqueueFlush", "uncountFlush", "closeSession",
         "sessionDone"})) + TasksOfIo'
  <2>1. mPendingSessionPacketTasks = sessionTasks
           + Cardinality(At({"enqueueFlush", "uncountFlush", "closeSession",
           "sessionDone"})) + TasksOfIo
    BY DEF CountsAreExact, TasksOfIo
  <2> QED BY <1>2, <1>5, <1>7, <2>1 DEF Queued
<1>9. CountsAreExact'
  BY <1>1, <1>6, <1>8 DEF CountsAreExact, TasksOfIo
<1> QED BY <1>2, <1>3, <1>4, <1>9

LEMMA LifeInit == Init => LifeInv
<1> SUFFICES ASSUME Init PROVE LifeInv
  OBVIOUS
<1>1. Shape
  <2>1. Places
    <3>1. \A t \in Threads : pc[t] = "idle" /\ ret[t] = "idle"
      BY DEF Init
    <3>2. "idle" \in CallerStatements /\ "idle" \in WorkerStatements /\ "idle" \in Statements
          /\ "idle" \notin ScheduleStatements
      BY DEF Statements, CallerStatements, WorkerStatements, ScheduleStatements
    <3>3. pc \in [Threads -> Statements] /\ ret \in [Threads -> {"idle", "jobDone", "wakeupDone"}]
      BY <3>2 DEF Init
    <3> QED BY <3>1, <3>2, <3>3 DEF Places, Threads
  <2>2. Flags
    <3>1. starts \in 0..MaxStarts
      BY BoundsAssumption DEF Init
    <3>2. progressed \in [PoolWorkers -> BOOLEAN] /\ wasRunning \in [Callers -> BOOLEAN]
      BY DEF Init
    <3> QED BY <3>1, <3>2, Zenon DEF Init, Flags
  <2>3. Clients /\ Queued
    BY DEF Init, Clients, Queued
  <2> QED BY <2>1, <2>2, <2>3 DEF Shape
<1>2. /\ InPump = {} /\ InWakeup = {} /\ At({"submitJob", "uncountJob"}) = {}
      /\ At({"submitWakeup", "uncountWakeup"}) = {}
      /\ At({"enqueueFlush", "uncountFlush", "closeSession", "sessionDone"}) = {}
  BY DEF Init, InPump, InWakeup, At, Threads
<1>4. \A S : S = {} => Cardinality(S) = 0
  BY FS_EmptySet
<1>5. /\ Cardinality(InPump) = 0 /\ Cardinality(InWakeup) = 0
      /\ Cardinality(At({"submitJob", "uncountJob"})) = 0
      /\ Cardinality(At({"submitWakeup", "uncountWakeup"})) = 0
      /\ Cardinality(At({"enqueueFlush", "uncountFlush", "closeSession", "sessionDone"})) = 0
  BY <1>2, <1>4
<1>3. CountsAreExact
  BY <1>5 DEF Init, CountsAreExact
<1> QED BY <1>1, <1>3 DEF LifeInv

LEMMA LifeNext == LifeInv /\ [Next]_vars => LifeInv'
<1> SUFFICES ASSUME LifeInv, [Next]_vars PROVE LifeInv'
  OBVIOUS
<1>1. ASSUME NEW c \in Callers, StartBegin(c) \/ StartStep(c) \/ StopBegin(c) \/ StopStep(c)
      PROVE  LifeInv'
  BY <1>1, StartKeeps, ScheduleKeeps, StopKeeps DEF StartStep, Threads
<1>2. ASSUME NEW w \in PoolWorkers, ScheduleStep(w) \/ PumpStep(w) \/ TakeStep(w) \/ FlushSession(w)
      PROVE  LifeInv'
  BY <1>2, ScheduleKeeps, PumpKeeps, TakeKeeps DEF Threads
<1>3. CASE \/ IoStep \/ IoPacket \/ ClosePool \/ UNCHANGED vars
           \/ \E s \in Sessions : IoNewConnection(s)
  BY <1>3, OthersKeep
<1>4. ASSUME NEW c \in Callers, DisconnectStep(c)
      PROVE  LifeInv'
  BY <1>4, DisconnectKeeps
<1> QED BY <1>1, <1>2, <1>3, <1>4 DEF Next, DisconnectStep

(* The three counters stop waits for are exact at every step, and types are *)
(* kept: with any number of callers and workers, restarts and refusals      *)
(* (ServerNetworkSystem.cpp:575-601, 664-678, 750-810).                     *)
THEOREM Exactness == Spec => []LifeInv
BY LifeInit, LifeNext, PTL DEF Spec

THEOREM CountersExact == Spec => []CountsAreExact
<1>1. LifeInv => CountsAreExact
  BY DEF LifeInv
<1> QED BY <1>1, Exactness, PTL

(* The variables keep their types; that a counter never goes below zero is  *)
(* the part that needs the counters to be exact.                            *)
THEOREM TypeCorrect == Spec => []TypeOK
<1>1. LifeInv => TypeOK
  <2> SUFFICES ASSUME LifeInv PROVE TypeOK
    OBVIOUS
  <2>1. /\ mPendingFlushJobs \in Nat /\ mPendingFlushWakeups \in Nat
        /\ mPendingSessionPacketTasks \in Nat
    BY CountersAreNumbers DEF LifeInv, Shape
  <2>2. Statements = InStart \union InStop \union
                  {"idle", "tick", "dropFlag", "enqueueFlush", "uncountFlush", "recheck",
                   "countWakeup", "submitWakeup", "uncountWakeup", "wakeupDone", "jobDone",
                   "closeSession", "sessionDone", "disconnectErased"}
    BY DEF Statements, CallerStatements, WorkerStatements, ScheduleStatements, PumpStatements,
           InStart
  <2> QED BY <2>1, <2>2 DEF LifeInv, Shape, Places, Flags, Clients, Queued, TypeOK
<1> QED BY <1>1, Exactness, PTL

-----------------------------------------------------------------------------
(* stop, as far as it has come: what it has waited for stays so, because    *)
(* the system is marked stopped before it waits.  The waits only help in    *)
(* this order: a wakeup past its look at mRunning may still submit a job,   *)
(* a job may still submit a session task.                                   *)
PastJoin     == {"waitWakeups", "waitJobs", "waitSessions", "collect", "disconnect",
                 "collectKeys", "remove", "shutdown"}
PastWakeups  == PastJoin \ {"waitWakeups"}
PastJobs     == PastWakeups \ {"waitJobs"}
PastSessions == PastJobs \ {"waitSessions"}

Past(statements) == quiet \/ \E c \in Callers : wasRunning[c] /\ pc[c] \in statements
Stopped == ~mRunning /\ \A c \in Callers : ~wasRunning[c]

StopPhases ==
    /\ \A c \in Callers :
          /\ wasRunning[c] => pc[c] \in InStop
          /\ pc[c] \in InStop \ PastSessions => wasRunning[c]
          /\ pc[c] \in InStop => ~mRunning /\ \A d \in Callers : pc[d] \notin InStart
    /\ quiet => ~mRunning /\ \A d \in Callers : pc[d] \notin InStart

Waited ==
    /\ Past(PastJoin) => mIoPumpThread = "none"
    /\ Past(PastWakeups) => \A w \in PoolWorkers : ret[w] = "wakeupDone" => pc[w] = "schedule"
    /\ Past(PastJobs) => pumpJobs = 0 /\ InPump = {}
    /\ Past(PastSessions) => mPendingSessionPacketTasks = 0

LEMMA PastInOrder ==
    /\ Past(PastSessions) => Past(PastJobs)
    /\ Past(PastJobs) => Past(PastWakeups)
    /\ Past(PastWakeups) => Past(PastJoin)
BY DEF Past, PastSessions, PastJobs, PastWakeups, PastJoin

(* While a stop has begun or is over, nobody is told to go on.              *)
LEMMA PastIsDown ==
    ASSUME StopPhases, NEW S, Past(S)
    PROVE  ~mRunning /\ \A d \in Callers : pc[d] \notin InStart
BY DEF StopPhases, Past

(* A step of no caller leaves every stop where it is.                       *)
Backstage ==
    /\ UNCHANGED <<mRunning, quiet, alone, wasRunning>>
    /\ \A c \in Callers : pc'[c] = pc[c] /\ contexts'[c] = contexts[c]

LEMMA WorkerStepMoves ==
    ASSUME Places, NEW w \in PoolWorkers,
           ScheduleStep(w) \/ PumpStep(w) \/ TakeStep(w) \/ FlushSession(w)
    PROVE  Moves(w)
<1>1. \E to : pc' = [pc EXCEPT ![w] = to]
  BY DEF ScheduleStep, ScheduleFlushPump, ClaimPump, CountJob, SubmitJob, UncountJob, Unschedule,
         PumpStep, FlushSession, DropFlag, EnqueueFlush, TickEnds, PumpAgain, CountWakeup,
         SubmitWakeup, JobDone, WakeupDone, CloseSession, CloseHeld, SessionTaskDone, TakeStep,
         TakeJob, TakeWakeup,
         TakeSessionTask, Goto, Leave
<1>2. ret' = ret \/ \E back : ret' = [ret EXCEPT ![w] = back]
  BY DEF ScheduleStep, ScheduleFlushPump, ClaimPump, CountJob, SubmitJob, UncountJob, Unschedule,
         PumpStep, FlushSession, DropFlag, EnqueueFlush, TickEnds, PumpAgain, CountWakeup,
         SubmitWakeup, JobDone, WakeupDone, CloseSession, CloseHeld, SessionTaskDone, TakeStep,
         TakeJob, TakeWakeup,
         TakeSessionTask, Leave, locals
<1> QED BY <1>1, <1>2 DEF Moves, Places

LEMMA WorkersBackstage ==
    ASSUME Places, Clients, NEW w \in PoolWorkers,
           ScheduleStep(w) \/ PumpStep(w) \/ TakeStep(w) \/ FlushSession(w)
    PROVE  Backstage
<1>1. Moves(w)
  BY WorkerStepMoves
<1>3. contexts' = contexts \/ \E held : contexts' = [contexts EXCEPT ![w] = held]
  BY DEF ScheduleStep, ScheduleFlushPump, ClaimPump, CountJob, SubmitJob, UncountJob, Unschedule,
         PumpStep, FlushSession, DropFlag, EnqueueFlush, TickEnds, PumpAgain, CountWakeup,
         SubmitWakeup, JobDone, WakeupDone, CloseSession, CloseHeld, SessionTaskDone, TakeStep,
         TakeJob, TakeWakeup, TakeSessionTask, locals
<1>4. \A c \in Callers : contexts'[c] = contexts[c]
  BY <1>3, ThreadsAssumption DEF Clients, Threads
<1>2. UNCHANGED <<mRunning, quiet, alone, wasRunning>>
  BY DEF ScheduleStep, ScheduleFlushPump, ClaimPump, CountJob, SubmitJob, UncountJob, Unschedule,
         PumpStep, FlushSession, DropFlag, EnqueueFlush, TickEnds, PumpAgain, CountWakeup,
         SubmitWakeup, JobDone, WakeupDone, CloseSession, CloseHeld, SessionTaskDone, TakeStep,
         TakeJob, TakeWakeup,
         TakeSessionTask, locals, history
<1> QED BY <1>1, <1>2, <1>4, ThreadsAssumption DEF Backstage, Places, Threads, Moves

LEMMA OthersBackstage ==
    ASSUME IoStep \/ IoPacket \/ (\E s \in Sessions : IoNewConnection(s)) \/ ClosePool
           \/ UNCHANGED vars
    PROVE  Backstage
BY DEF Backstage, IoStep, IoLoop, IoIdle, IoEnqueue, IoClose, IoUncount, IoPacket, IoNewConnection,
       ClosePool, locals, history, vars

LEMMA BackstagePast ==
    ASSUME Backstage, StopPhases
    PROVE  StopPhases' /\ (\A S : Past(S)' <=> Past(S))
BY DEF Backstage, StopPhases, Past

LEMMA WorkersWait ==
    ASSUME LifeInv, LifeInv', StopPhases, Waited, NEW w \in PoolWorkers,
           ScheduleStep(w) \/ PumpStep(w) \/ TakeStep(w) \/ FlushSession(w)
    PROVE  StopPhases' /\ Waited'
<1> USE DEF LifeInv, Shape
<1>1. StopPhases' /\ (\A S : Past(S)' <=> Past(S))
  BY WorkersBackstage, BackstagePast
<1>2. Past(PastJoin)' => mIoPumpThread' = "none"
  <2>1. UNCHANGED mIoPumpThread
    BY DEF ScheduleStep, ScheduleFlushPump, ClaimPump, CountJob, SubmitJob, UncountJob, Unschedule,
           PumpStep, FlushSession, DropFlag, EnqueueFlush, TickEnds, PumpAgain, CountWakeup,
           SubmitWakeup, JobDone, WakeupDone, CloseSession, CloseHeld, SessionTaskDone, TakeStep,
           TakeJob, TakeWakeup,
           TakeSessionTask, io
  <2> QED BY <1>1, <2>1 DEF Waited
<1>3. ASSUME Past(PastWakeups), NEW v \in PoolWorkers, ret'[v] = "wakeupDone"
      PROVE  pc'[v] = "schedule"
  <2>1. ~mRunning /\ (ret[v] = "wakeupDone" => pc[v] = "schedule") /\ w \in Threads
    BY <1>3, PastIsDown DEF Waited, Threads
  <2>2. CASE v # w
    <3>1. Moves(w)
      BY WorkerStepMoves
    <3> QED BY <1>3, <2>1, <2>2, <3>1 DEF Moves, Threads, Places
  <2>3. CASE v = w /\ ScheduleStep(w)
    <3>1. pc[w] # "schedule" \/ ret'[w] = "idle"
      BY <2>1, <2>3 DEF ScheduleStep, ScheduleFlushPump, ClaimPump, CountJob, SubmitJob,
         UncountJob, Unschedule, Goto, Leave, Places
    <3>2. ret'[w] \in {"idle", ret[w]}
      BY <2>1, <2>3 DEF ScheduleStep, ScheduleFlushPump, ClaimPump, CountJob, SubmitJob,
         UncountJob, Unschedule, Leave, Places, locals
    <3> QED BY <1>3, <2>1, <2>3, <3>1, <3>2
  <2>4. CASE v = w /\ TakeStep(w)
    <3>1. pc[w] = "idle"
      BY <2>4 DEF TakeStep, TakeJob, TakeWakeup, TakeSessionTask, Goto
    <3> QED BY <1>3, <2>1, <2>4, <3>1
            DEF TakeStep, TakeJob, TakeWakeup, TakeSessionTask, Goto, Places, locals
  <2>5. CASE v = w /\ (PumpStep(w) \/ FlushSession(w))
    <3>1. pc[w] # "schedule"
      BY <2>5 DEF PumpStep, FlushSession, DropFlag, EnqueueFlush, TickEnds, PumpAgain,
         CountWakeup, SubmitWakeup, JobDone, WakeupDone, CloseSession, CloseHeld, SessionTaskDone,
         Goto
    <3>2. ret'[w] \in {"jobDone", ret[w]}
      BY <2>1, <2>5 DEF PumpStep, FlushSession, DropFlag, EnqueueFlush, TickEnds, PumpAgain,
         CountWakeup, SubmitWakeup, JobDone, WakeupDone, CloseSession, CloseHeld, SessionTaskDone,
         Places, locals
    <3> QED BY <1>3, <2>1, <2>5, <3>1, <3>2
  <2> QED BY <2>2, <2>3, <2>4, <2>5
<1>4. ASSUME Past(PastJobs)
      PROVE  pumpJobs' = 0 /\ InPump' = {} /\ pc[w] # "tick"
  <2>1. /\ ~mRunning /\ pumpJobs = 0 /\ w \notin InPump
        /\ ret[w] = "wakeupDone" => pc[w] = "schedule"
    <3>1. ~mRunning
      BY <1>4, PastIsDown
    <3>2. Past(PastWakeups)
      BY <1>4, PastInOrder
    <3> QED BY <1>4, <3>1, <3>2 DEF Waited
  <2>2. /\ pc[w] \notin PumpStatements /\ ret[w] # "jobDone"
        /\ pc[w] \in ScheduleStatements => pc[w] = "schedule"
    BY <2>1 DEF InPump, PumpStatements, Places, Threads
  <2>3. /\ pumpJobs' = 0
        /\ ret'[w] = "idle" \/ ret'[w] = "wakeupDone"
        /\ pc'[w] \in {"idle", "wakeupDone", "closeSession", "sessionDone", "schedule"}
    <3>1. CASE ScheduleStep(w)
      <4>1. ScheduleFlushPump(w)
        BY <2>2, <3>1 DEF ScheduleStep, ClaimPump, CountJob, SubmitJob, UncountJob, Unschedule,
           Goto, Leave, ScheduleStatements
      <4> QED BY <2>1, <2>2, <4>1 DEF ScheduleFlushPump, Leave, Goto, Places, Threads, queued
    <3>2. CASE TakeStep(w)
      <4>1. TakeWakeup(w) \/ TakeSessionTask(w)
        BY <2>1, <3>2 DEF TakeStep, TakeJob, Queued
      <4>2. w \in Threads /\ ret[w] = "idle"
        BY <4>1 DEF TakeWakeup, TakeSessionTask, Goto, Places, ScheduleStatements, Threads
      <4> QED BY <2>1, <4>1, <4>2 DEF TakeWakeup, TakeSessionTask, Goto, Places
    <3>3. CASE PumpStep(w) \/ FlushSession(w)
      <4>1. WakeupDone(w) \/ CloseSession(w) \/ SessionTaskDone(w)
        BY <2>2, <3>3 DEF PumpStep, FlushSession, DropFlag, EnqueueFlush, TickEnds, PumpAgain,
           CountWakeup, SubmitWakeup, JobDone, Goto, PumpStatements
      <4>2. /\ pc[w] \in {"wakeupDone", "closeSession", "sessionDone"}
            /\ pc'[w] \in {"idle", "sessionDone"}
        BY <2>2, <4>1 DEF WakeupDone, CloseSession, CloseHeld, SessionTaskDone, Goto,
           PumpStatements, Places, Threads
      <4>3. ret[w] = "idle" /\ ret' = ret
        BY <4>1, <4>2 DEF WakeupDone, CloseSession, CloseHeld, SessionTaskDone, Places, locals,
           ScheduleStatements, Threads
      <4> QED BY <2>1, <4>1, <4>2, <4>3 DEF WakeupDone, CloseSession, CloseHeld, SessionTaskDone,
         queued
    <3> QED BY <3>1, <3>2, <3>3
  <2>5. w \notin InPump'
    BY <2>3 DEF InPump
  <2>4. InPump' = {}
    <3>1. \A v \in PoolWorkers \ {w} : pc'[v] = pc[v] /\ ret'[v] = ret[v]
      BY WorkerStepMoves DEF Moves, Places, Threads
    <3>2. InPump = {}
      BY <1>4 DEF Waited
    <3> QED BY <2>5, <3>1, <3>2 DEF InPump
  <2> QED BY <2>2, <2>3, <2>4 DEF PumpStatements
<1>5. ASSUME Past(PastSessions)
      PROVE  mPendingSessionPacketTasks' = 0
  <2>1. mPendingSessionPacketTasks = 0 /\ pc[w] # "tick"
    BY <1>4, <1>5, PastInOrder DEF Waited
  <2>2. mPendingSessionPacketTasks' \in {mPendingSessionPacketTasks, mPendingSessionPacketTasks - 1}
    BY <2>1 DEF ScheduleStep, ScheduleFlushPump, ClaimPump, CountJob, SubmitJob, UncountJob,
       Unschedule, PumpStep, FlushSession, DropFlag, EnqueueFlush, TickEnds, PumpAgain,
       CountWakeup, SubmitWakeup, JobDone, WakeupDone, CloseSession, CloseHeld, SessionTaskDone,
       TakeStep, TakeJob,
       TakeWakeup, TakeSessionTask, Goto, counters
  <2>3. mPendingSessionPacketTasks' \in Nat
    BY CountersStayNumbers
  <2> QED BY <2>1, <2>2, <2>3
<1> QED BY <1>1, <1>2, <1>3, <1>4, <1>5 DEF Waited

LEMMA OthersWait ==
    ASSUME StopPhases, Waited,
           IoStep \/ IoPacket \/ (\E s \in Sessions : IoNewConnection(s)) \/ ClosePool
           \/ UNCHANGED vars
    PROVE  StopPhases' /\ Waited'
<1>1. StopPhases' /\ (\A S : Past(S)' <=> Past(S))
  BY OthersBackstage, BackstagePast
<1>2. UNCHANGED <<pc, ret, pumpJobs>>
  BY DEF IoStep, IoLoop, IoIdle, IoEnqueue, IoClose, IoUncount, IoPacket, IoNewConnection,
     ClosePool,
         queued, locals, vars
<1>3. mIoPumpThread = "none" => UNCHANGED <<mIoPumpThread, mPendingSessionPacketTasks>>
  BY DEF IoStep, IoLoop, IoIdle, IoEnqueue, IoClose, IoUncount, IoPacket, IoNewConnection,
     ClosePool,
         io, counters, vars
<1>4. InPump' = InPump
  BY <1>2 DEF InPump
<1> QED BY <1>1, <1>2, <1>3, <1>4, PastInOrder DEF Waited

(* No stop is in progress or over while start is: nothing is waited for.    *)
LEMMA StartsWait ==
    ASSUME LifeInv, StopPhases, Waited, NEW c \in Callers, StartBegin(c) \/ StartStep(c)
    PROVE  StopPhases' /\ Waited'
<1> USE DEF LifeInv, Shape
<1>1. CASE StartBegin(c) /\ mRunning
  <2>1. /\ quiet' = FALSE
        /\ \A d \in Callers : pc[d] \notin InStop /\ ~wasRunning[d]
        /\ pc' = pc /\ wasRunning' = wasRunning
    BY <1>1 DEF StartBegin, StopPhases, Goto, Places, Flags, locals
  <2>2. \A d \in Callers : pc'[d] \notin InStop /\ ~wasRunning'[d]
    BY <2>1
  <2> QED BY <2>1, <2>2 DEF StopPhases, Waited, Past, InStop
<1>2. CASE StartBegin(c) /\ ~mRunning
  <2>1. quiet' = FALSE /\ \A d \in Callers : pc[d] \notin InStop /\ ~wasRunning[d]
    BY <1>2 DEF StartBegin, StopPhases, Flags
  <2>2. \A d \in Callers : pc'[d] \notin InStop /\ ~wasRunning'[d]
    BY <1>2, <2>1 DEF StartBegin, Goto, Places, Threads, locals, InStop
  <2> QED BY <2>1, <2>2 DEF StopPhases, Waited, Past, InStop
<1>3. CASE StartStep(c)
  <2>1. pc[c] \in InStart
    BY <1>3 DEF StartStep, StartPeer, StartFails, ScheduleIoPump, ScheduleStep,
       ScheduleFlushPump, ClaimPump, CountJob, SubmitJob, UncountJob, Unschedule, Goto, Leave,
       InStart
  <2>2. ~quiet /\ \A d \in Callers : pc[d] \notin InStop /\ ~wasRunning[d]
    BY <2>1 DEF StopPhases
  <2>3. quiet' = quiet /\ wasRunning' = wasRunning
    BY <1>3 DEF StartStep, StartPeer, StartFails, ScheduleIoPump, ScheduleStep,
       ScheduleFlushPump, ClaimPump, CountJob, SubmitJob, UncountJob, Unschedule, history, locals
  <2>4. \A d \in Callers : pc'[d] \notin InStop
    <3>1. ret[c] = "idle"
      BY DEF Places
    <3>2. \E to \in InStart \union {"idle"} : pc' = [pc EXCEPT ![c] = to]
      BY <1>3, <3>1 DEF StartStep, StartPeer, StartFails, ScheduleIoPump, ScheduleStep,
         ScheduleFlushPump, ClaimPump, CountJob, SubmitJob, UncountJob, Unschedule, Goto, Leave,
         InStart
    <3>3. \A p \in InStart \union {"idle"} : p \notin InStop
      BY DEF InStart, InStop
    <3> QED BY <2>2, <3>2, <3>3 DEF Places
  <2> QED BY <2>2, <2>3, <2>4 DEF StopPhases, Waited, Past
<1> QED BY <1>1, <1>2, <1>3

LEMMA StopsWait ==
    ASSUME LifeInv, StopPhases, Waited, NEW c \in Callers, StopBegin(c) \/ StopStep(c)
    PROVE  StopPhases' /\ Waited'
<1> USE DEF LifeInv, Shape
<1>1. c \in Threads /\ c \notin PoolWorkers /\ Stays
  BY ThreadsAssumption
     DEF Threads, StopBegin, StopStep, StopRequest, StopJoin, StopWait, StopCollect, StopReturn,
         StopDisconnect, StopRemove
<1>2. /\ pc[c] \in InStop \union {"idle"} /\ pc'[c] \in InStop \union {"idle"}
      /\ \A t \in Threads \ {c} : pc'[t] = pc[t]
  <2>1. CASE StopBegin(c)
    BY <1>1, <2>1 DEF StopBegin, Goto, Places, InStop
  <2>2. CASE StopRequest(c) \/ StopJoin(c) \/ StopWait(c) \/ StopCollect(c) \/ StopReturn(c)
    BY <1>1, <2>2 DEF StopRequest, StopJoin, StopWait, StopCollect, StopReturn, Goto, Places, InStop
  <2>3. CASE StopDisconnect(c) \/ StopRemove(c)
    BY <1>1, <2>3 DEF StopDisconnect, StopRemove, Goto, Places, InStop
  <2> QED BY <2>1, <2>2, <2>3 DEF StopStep
<1>3. /\ \A d \in Callers : pc[d] \notin InStart
      /\ mRunning' = FALSE
  <2>1. CASE StopBegin(c)
    BY <2>1 DEF StopBegin
  <2>2. CASE StopStep(c)
    <3>1. pc[c] \in InStop
      BY <2>2 DEF StopStep, StopRequest, StopJoin, StopWait, StopCollect, StopReturn,
         StopDisconnect, StopRemove, Goto, InStop
    <3>2. UNCHANGED mRunning
      BY <2>2 DEF StopStep, StopRequest, StopJoin, StopWait, StopCollect, StopReturn,
         StopDisconnect, StopRemove
    <3> QED BY <3>1, <3>2 DEF StopPhases, Flags
  <2> QED BY <2>1, <2>2
<1>4. /\ \A d \in Callers \ {c} : wasRunning'[d] = wasRunning[d]
      /\ wasRunning'[c] => wasRunning[c] \/ (pc'[c] = "join" /\ pc[c] = "idle")
      /\ quiet' => quiet \/ (wasRunning[c] /\ pc[c] = "shutdown")
  <2>1. CASE StopBegin(c)
    BY <1>1, <2>1 DEF StopBegin, Goto, Places, Flags
  <2>2. CASE StopReturn(c)
    BY <1>1, <2>2 DEF StopReturn, Goto, Places, Flags
  <2>3. CASE ~StopBegin(c) /\ ~StopReturn(c)
    BY <2>3 DEF StopStep, StopRequest, StopJoin, StopWait, StopCollect, StopDisconnect, StopRemove
  <2> QED BY <2>1, <2>2, <2>3
<1>5. StopPhases'
  <2>1. /\ wasRunning'[c] => pc'[c] \in InStop
        /\ pc'[c] \in InStop \ PastSessions => wasRunning'[c]
    <3>1. CASE StopBegin(c)
      BY <1>1, <3>1 DEF StopBegin, Goto, Places, Flags, InStop, PastSessions, PastJobs, PastWakeups,
         PastJoin
    <3>2. CASE StopReturn(c)
      BY <1>1, <3>2 DEF StopReturn, Goto, Places, Flags, InStop
    <3>3. CASE StopRequest(c) \/ StopJoin(c) \/ StopWait(c)
      <4>1. pc[c] \in InStop \ PastSessions /\ pc'[c] \in InStop /\ wasRunning' = wasRunning
        BY <1>1, <3>3 DEF StopRequest, StopJoin, StopWait, Goto, Places, Flags, InStop,
           PastSessions, PastJobs, PastWakeups, PastJoin
      <4> QED BY <4>1 DEF StopPhases
    <3>4. CASE StopCollect(c) \/ StopDisconnect(c) \/ StopRemove(c)
      BY <1>1, <3>4 DEF StopCollect, StopDisconnect, StopRemove, Goto, Places, Flags, InStop,
         PastSessions, PastJobs, PastWakeups, PastJoin
    <3> QED BY <3>1, <3>2, <3>3, <3>4 DEF StopStep
  <2>2. \A d \in Callers : pc'[d] \notin InStart
    <3>1. \A p \in InStop \union {"idle"} : p \notin InStart
      BY DEF InStop, InStart
    <3> QED BY <1>2, <1>3, <3>1 DEF Threads
  <2> QED BY <1>2, <1>3, <1>4, <2>1, <2>2 DEF StopPhases, Threads
<1>6. /\ ret' = ret /\ pumpJobs' = pumpJobs
      /\ mPendingSessionPacketTasks' = mPendingSessionPacketTasks
      /\ mIoPumpThread' \in {mIoPumpThread, "none"}
      /\ \A w \in PoolWorkers : pc'[w] = pc[w]
      /\ InPump' = InPump
  <2>1. /\ ret' = ret /\ pumpJobs' = pumpJobs
        /\ mPendingSessionPacketTasks' = mPendingSessionPacketTasks
    BY <1>1 DEF Stays, queued, counters
  <2>2. mIoPumpThread' \in {mIoPumpThread, "none"}
    BY DEF StopBegin, StopStep, StopRequest, StopJoin, StopWait, StopCollect, StopReturn,
         StopDisconnect, StopRemove, io
  <2>3. \A w \in PoolWorkers : pc'[w] = pc[w]
    BY <1>1, <1>2 DEF Threads
  <2> QED BY <2>1, <2>2, <2>3 DEF InPump
<1>7. ASSUME NEW S \in {PastJoin, PastWakeups, PastJobs, PastSessions}, Past(S)', ~Past(S)
      PROVE  pc[c] \in PastJoin \union {"join", "joined"} /\ pc[c] \notin S /\ pc'[c] \in S
  <2>1. "shutdown" \in S /\ "join" \notin S /\ S \subseteq PastJoin
    BY DEF PastSessions, PastJobs, PastWakeups, PastJoin
  <2>2. wasRunning[c] /\ pc[c] \notin S /\ pc'[c] \in S
    BY <1>2, <1>4, <1>7, <2>1 DEF Past, Threads
  <2> QED BY <2>2 DEF StopPhases, InStop, PastJoin
<1>8. Past(PastJoin)' => mIoPumpThread' = "none"
  <2>1. CASE Past(PastJoin)
    BY <2>1, <1>6 DEF Waited
  <2>2. CASE Past(PastJoin)' /\ ~Past(PastJoin)
    <3>1. pc[c] \in {"join", "joined"} /\ pc'[c] \in PastJoin
      BY <1>7, <2>2
    <3>2. (StopRequest(c) /\ mIoPumpThread = "none") \/ StopJoin(c)
      BY <1>1, <3>1 DEF StopBegin, StopStep, StopRequest, StopWait, StopCollect, StopReturn,
         StopDisconnect, StopRemove, Goto, PastJoin, Places
    <3> QED BY <3>2 DEF StopRequest, StopJoin
  <2> QED BY <2>1, <2>2
<1>9. Past(PastWakeups)' => \A w \in PoolWorkers : ret'[w] = "wakeupDone" => pc'[w] = "schedule"
  <2>1. CASE Past(PastWakeups)
    BY <2>1, <1>6 DEF Waited
  <2>2. CASE Past(PastWakeups)' /\ ~Past(PastWakeups)
    <3>1. pc[c] \in {"join", "joined", "waitWakeups"} /\ pc'[c] \in PastWakeups
      BY <1>7, <2>2 DEF PastWakeups
    <3>2. pc'[c] \notin {"join", "joined", "waitWakeups"}
      BY <3>1 DEF PastJoin, PastWakeups
    <3>3. StopWait(c) /\ pc'[c] # pc[c]
      BY <1>1, <3>1, <3>2 DEF StopBegin, StopStep, StopRequest, StopJoin, StopWait, StopCollect,
         StopReturn, StopDisconnect, StopRemove, Goto, Places
    <3>4. mPendingFlushWakeups = 0
      BY <1>1, <3>1, <3>2, <3>3 DEF StopWait, Goto, Places
    <3>5. InWakeup = {}
      BY <3>4, NobodyCounted
    <3> QED BY <1>6, <3>5 DEF InWakeup
  <2> QED BY <2>1, <2>2
<1>10. Past(PastJobs)' => pumpJobs' = 0 /\ InPump' = {}
  <2>1. CASE Past(PastJobs)
    BY <2>1, <1>6 DEF Waited
  <2>2. CASE Past(PastJobs)' /\ ~Past(PastJobs)
    <3>1. pc[c] \in {"join", "joined", "waitWakeups", "waitJobs"} /\ pc'[c] \in PastJobs
      BY <1>7, <2>2 DEF PastWakeups, PastJobs
    <3>2. pc'[c] \notin {"join", "joined", "waitWakeups", "waitJobs"}
      BY <3>1 DEF PastJoin, PastWakeups, PastJobs
    <3>3. StopWait(c) /\ pc'[c] # pc[c]
      BY <1>1, <3>1, <3>2 DEF StopBegin, StopStep, StopRequest, StopJoin, StopWait, StopCollect,
         StopReturn, StopDisconnect, StopRemove, Goto, Places
    <3>4. mPendingFlushJobs = 0
      BY <1>1, <3>1, <3>2, <3>3 DEF StopWait, Goto, Places
    <3> QED BY <1>6, <3>4, NobodyCounted
  <2> QED BY <2>1, <2>2
<1>11. Past(PastSessions)' => mPendingSessionPacketTasks' = 0
  <2>1. CASE Past(PastSessions)
    BY <2>1, <1>6 DEF Waited
  <2>2. CASE Past(PastSessions)' /\ ~Past(PastSessions)
    <3>1. /\ pc[c] \in {"join", "joined", "waitWakeups", "waitJobs", "waitSessions"}
          /\ pc'[c] \in PastSessions
      BY <1>7, <2>2 DEF PastWakeups, PastJobs, PastSessions
    <3>2. pc'[c] \notin {"join", "joined", "waitWakeups", "waitJobs", "waitSessions"}
      BY <3>1 DEF PastJoin, PastWakeups, PastJobs, PastSessions
    <3>3. StopWait(c) /\ pc'[c] # pc[c]
      BY <1>1, <3>1, <3>2 DEF StopBegin, StopStep, StopRequest, StopJoin, StopWait, StopCollect,
         StopReturn, StopDisconnect, StopRemove, Goto, Places
    <3>4. mPendingSessionPacketTasks = 0
      BY <1>1, <3>1, <3>2, <3>3 DEF StopWait, Goto, Places
    <3> QED BY <1>6, <3>4
  <2> QED BY <2>1, <2>2
<1> QED BY <1>5, <1>8, <1>9, <1>10, <1>11 DEF Waited

LEMMA DisconnectsWait ==
    ASSUME LifeInv, StopPhases, Waited, NEW c \in Callers, DisconnectStep(c)
    PROVE  StopPhases' /\ Waited'
<1> USE DEF LifeInv, Shape
<1>1. /\ c \in Threads /\ c \notin PoolWorkers
      /\ pc[c] \in Resting /\ pc'[c] \in Resting
      /\ \A t \in Threads \ {c} : pc'[t] = pc[t]
      /\ UNCHANGED <<mRunning, counters, queued, io, ret, wasRunning, history>>
  BY DisconnectMoves
<1>2. \A p \in Resting : p \notin InStop /\ p \notin InStart
  BY DEF Resting, InStop, InStart
<1>3. StopPhases'
  BY <1>1, <1>2 DEF StopPhases, Threads, history
<1>4. UNCHANGED <<mPendingSessionPacketTasks, pumpJobs, mIoPumpThread, quiet>>
  BY <1>1 DEF counters, queued, io, history
<1>5. \A S \in {PastJoin, PastWakeups, PastJobs, PastSessions} : Past(S)' => Past(S)
  <2>1. \A d \in Callers : wasRunning'[d] => pc'[d] = pc[d] /\ wasRunning[d]
    BY <1>1, <1>2 DEF StopPhases, Threads
  <2> QED BY <1>4, <2>1 DEF Past
<1>6. (\A w \in PoolWorkers : pc'[w] = pc[w]) /\ InPump' = InPump
  BY <1>1 DEF Threads, InPump
<1> QED BY <1>1, <1>3, <1>4, <1>5, <1>6 DEF Waited

StopInv == LifeInv /\ StopPhases /\ Waited

LEMMA StopInit == Init => StopInv
<1> SUFFICES ASSUME Init PROVE StopInv
  OBVIOUS
<1>1. \A c \in Callers : pc[c] = "idle" /\ ~wasRunning[c]
  BY DEF Init, Threads
<1>2. StopPhases /\ Waited
  BY <1>1 DEF Init, StopPhases, Waited, Past, InStop
<1> QED BY <1>2, LifeInit DEF StopInv

LEMMA StopNext == StopInv /\ [Next]_vars => StopInv'
<1> SUFFICES ASSUME StopInv, [Next]_vars PROVE StopInv'
  OBVIOUS
<1>1. LifeInv'
  BY LifeNext DEF StopInv
<1>2. ASSUME NEW c \in Callers, StartBegin(c) \/ StartStep(c) \/ StopBegin(c) \/ StopStep(c)
      PROVE  StopPhases' /\ Waited'
  BY <1>2, StartsWait, StopsWait DEF StopInv
<1>3. ASSUME NEW w \in PoolWorkers, ScheduleStep(w) \/ PumpStep(w) \/ TakeStep(w) \/ FlushSession(w)
      PROVE  StopPhases' /\ Waited'
  BY <1>1, <1>3, WorkersWait DEF StopInv
<1>4. CASE \/ IoStep \/ IoPacket \/ ClosePool \/ UNCHANGED vars
           \/ \E s \in Sessions : IoNewConnection(s)
  BY <1>1, <1>4, OthersWait DEF StopInv
<1>5. ASSUME NEW c \in Callers, DisconnectStep(c)
      PROVE  StopPhases' /\ Waited'
  BY <1>5, DisconnectsWait DEF StopInv
<1> QED BY <1>1, <1>2, <1>3, <1>4, <1>5 DEF Next, DisconnectStep, StopInv

THEOREM StopWaits == Spec => []StopInv
BY StopInit, StopNext, PTL DEF Spec

(* A stop that found the system running leaves no pump job, no session task *)
(* and no receiving thread behind, whatever else was called meanwhile       *)
(* (ServerNetworkSystem.cpp:259-261).                                       *)
THEOREM QuietAfterStop == Spec => []StopQuiesces
<1>1. StopInv => StopQuiesces
  <2> SUFFICES ASSUME StopInv, quiet PROVE StopQuiesces
    BY DEF StopQuiesces
  <2>1. /\ mIoPumpThread = "none" /\ pumpJobs = 0 /\ InPump = {} /\ mPendingSessionPacketTasks = 0
        /\ \A w \in PoolWorkers : ret[w] = "wakeupDone" => pc[w] = "schedule"
        /\ \A d \in Callers : pc[d] \notin InStart
    BY DEF StopInv, Waited, Past, StopPhases
  <2>2. sessionTasks = 0
    BY <2>1, NobodyCounted DEF StopInv, LifeInv, Shape
  <2>3. At({"submitJob", "uncountJob"}) = {}
    BY <2>1 DEF At, InStart, InPump, StopInv, LifeInv, Shape, Places, ScheduleStatements, Threads
  <2>4. mPendingFlushJobs = 0
    BY <2>1, <2>3, FS_EmptySet DEF StopInv, LifeInv, CountsAreExact
  <2> QED BY <2>1, <2>2, <2>4 DEF StopQuiesces
<1> QED BY <1>1, StopWaits, PTL

-----------------------------------------------------------------------------
(* The sessions.  A start is alone with the callers.  Until a stop joins    *)
(* it, only a running system has a receiving thread; so a stop that         *)
(* overlaps no other has the map to itself but for those who take sessions  *)
(* out of it: what it still has to disconnect or remove is among what it    *)
(* collected, or with a caller of disconnectClient.                         *)
Starting == {"startup", "startFails", "scheduleIo"}

(* Sessions taken out of the map and not disconnected yet, by calls of      *)
(* disconnectClient and by session tasks.                                   *)
Erased == UNION {contexts[c] : c \in At({"disconnectErased"})}
Closing == (UNION {contexts[w] : w \in At({"closeSession"})})
           \union (IF mIoPumpThread = "close" THEN ioContexts ELSE {})

Receiving ==
    /\ \A c \in Callers :
          pc[c] \in InStart => mRunning /\ \A d \in Callers \ {c} : pc[d] \in Resting
    /\ Stopped => mIoPumpThread = "none"
    /\ \A c \in Callers : pc[c] \in Starting => mIoPumpThread = "none"

TeardownOf(c) ==
    /\ pc[c] \in InStop => \A d \in Callers \ {c} : pc[d] \in Resting
    /\ pc[c] = "disconnect" => connected \subseteq contexts[c] \union Erased
    /\ pc[c] \in {"collectKeys", "remove", "shutdown"} => connected \subseteq Erased
    /\ pc[c] = "remove" => mSessionContexts \subseteq contexts[c]
    /\ pc[c] = "shutdown" => mSessionContexts = {}

TornDown == quiet \/ (mIoPumpThread = "none" /\ \A c \in Callers : ~wasRunning[c])

Teardown ==
    alone => /\ connected \subseteq mSessionContexts \union Erased \union Closing
             /\ TornDown => connected \subseteq Erased /\ mSessionContexts = {}
             /\ \A c \in Callers : TeardownOf(c)

LEMMA RestingElsewhere ==
    \A p \in Resting : p \notin InStop /\ p \notin InStart /\ p \notin Starting
BY DEF Resting, InStop, InStart, Starting

(* A step of one thread, or of none, that is not in disconnectClient leaves *)
(* what disconnectClient holds as it is.                                    *)
LEMMA ErasedStays ==
    ASSUME \A t \in Threads : /\ pc'[t] = "disconnectErased" <=> pc[t] = "disconnectErased"
                              /\ pc[t] = "disconnectErased" => contexts'[t] = contexts[t]
    PROVE  Erased' = Erased
BY DEF Erased, At

LEMMA ClosingStays ==
    ASSUME \A t \in Threads : /\ pc'[t] = "closeSession" <=> pc[t] = "closeSession"
                              /\ pc[t] = "closeSession" => contexts'[t] = contexts[t],
           mIoPumpThread' = "close" <=> mIoPumpThread = "close",
           mIoPumpThread = "close" => ioContexts' = ioContexts
    PROVE  Closing' = Closing
BY DEF Closing, At

LEMMA AloneIsDown ==
    ASSUME StopInv, Receiving, Teardown, alone, NEW c \in Callers, pc[c] \in PastSessions
    PROVE  mIoPumpThread = "none"
<1>1. CASE wasRunning[c]
  BY <1>1 DEF StopInv, Waited, Past, PastSessions, PastJobs, PastWakeups
<1>2. CASE ~wasRunning[c]
  <2>1. pc[c] \in InStop /\ "idle" \notin InStop
    BY DEF InStop, PastSessions, PastJobs, PastWakeups, PastJoin
  <2>2. ~mRunning /\ \A d \in Callers \ {c} : pc[d] \in Resting
    BY <2>1 DEF StopInv, StopPhases, Teardown, TeardownOf
  <2>3. \A d \in Callers \ {c} : ~wasRunning[d]
    BY <2>2, RestingElsewhere DEF StopInv, StopPhases
  <2> QED BY <1>2, <2>2, <2>3 DEF Receiving, Stopped
<1> QED BY <1>1, <1>2

(* A step backstage: sessions leave the map into the hands of the one who   *)
(* disconnects them, or are disconnected.                                   *)
LEMMA SessionEnds ==
    ASSUME Teardown, Backstage, Erased' = Erased, TornDown' => TornDown,
           connected' \subseteq connected, mSessionContexts' \subseteq mSessionContexts,
           connected' \subseteq mSessionContexts' \union Erased \union Closing'
               \/ mSessionContexts \union Closing \subseteq mSessionContexts' \union Closing'
    PROVE  Teardown'
<1>1. \A c \in Callers : pc'[c] = pc[c] /\ contexts'[c] = contexts[c]
  BY DEF Backstage
<1>2. alone' = alone
  BY DEF Backstage
<1> HIDE DEF Erased, Closing
<1>3. alone => connected' \subseteq mSessionContexts' \union Erased' \union Closing'
  BY DEF Teardown
<1>4. ASSUME alone, NEW c \in Callers PROVE TeardownOf(c)'
  BY <1>1, <1>4 DEF Teardown, TeardownOf
<1> QED BY <1>2, <1>3, <1>4 DEF Teardown

LEMMA WorkersTearDown ==
    ASSUME StopInv, Receiving, Teardown, NEW w \in PoolWorkers,
           ScheduleStep(w) \/ PumpStep(w) \/ TakeStep(w) \/ FlushSession(w)
    PROVE  Receiving' /\ Teardown'
<1> USE DEF StopInv, LifeInv, Shape
<1>1. Backstage /\ Moves(w)
  BY WorkersBackstage, WorkerStepMoves
<1>2. UNCHANGED <<mIoPumpThread, ioContexts>>
  BY DEF ScheduleStep, ScheduleFlushPump, ClaimPump, CountJob, SubmitJob, UncountJob, Unschedule,
         PumpStep, FlushSession, DropFlag, EnqueueFlush, TickEnds, PumpAgain, CountWakeup,
         SubmitWakeup, JobDone, WakeupDone, CloseSession, CloseHeld, SessionTaskDone, TakeStep,
         TakeJob, TakeWakeup, TakeSessionTask, io
<1>3. Receiving' /\ (TornDown' <=> TornDown)
  BY <1>1, <1>2 DEF Backstage, Receiving, Stopped, TornDown
<1>4. /\ w \in Threads /\ w \notin Callers
      /\ \A t \in Threads \ {w} : pc'[t] = pc[t]
      /\ pc[w] # "disconnectErased" /\ \A c \in Callers : pc[c] # "closeSession"
  BY <1>1, ThreadsAssumption DEF Threads, Moves, Places, WorkerStatements, CallerStatements,
     ScheduleStatements, PumpStatements, InStop
<1>5. CASE TakeSessionTask(w)
  <2>1. /\ connected' = connected /\ \A t \in Threads \ {w} : contexts'[t] = contexts[t]
        /\ pc[w] = "idle" /\ pc'[w] \in {"closeSession", "sessionDone"}
        /\ \/ UNCHANGED mSessionContexts
           \/ \E s \in Sessions : /\ mSessionContexts' = mSessionContexts \ {s}
                                 /\ pc'[w] = "closeSession" /\ contexts'[w] = {s}
    BY <1>4, <1>5 DEF TakeSessionTask, RemoveSession, Goto, Places, Clients, sessions
  <2>2. Erased' = Erased
    BY <1>4, <2>1, ErasedStays
  <2>3. mSessionContexts \union Closing \subseteq mSessionContexts' \union Closing'
    <3>1. Closing \subseteq Closing'
      BY <1>2, <1>4, <2>1 DEF Closing, At
    <3>2. pc'[w] = "closeSession" => contexts'[w] \subseteq Closing'
      BY <1>4 DEF Closing, At
    <3> QED BY <2>1, <3>1, <3>2
  <2> QED BY <1>1, <1>3, <2>1, <2>2, <2>3, SessionEnds
<1>6. CASE CloseSession(w)
  <2>1. /\ connected' = connected \ contexts[w] /\ mSessionContexts' = mSessionContexts
        /\ \A t \in Threads \ {w} : contexts'[t] = contexts[t]
        /\ pc[w] = "closeSession" /\ pc'[w] = "sessionDone"
    BY <1>4, <1>6 DEF CloseSession, CloseHeld, Goto, Places, Clients
  <2>2. Erased' = Erased
    BY <1>4, <2>1, ErasedStays
  <2>3. Closing \subseteq contexts[w] \union Closing'
    BY <1>2, <1>4, <2>1 DEF Closing, At
  <2>4. alone => connected' \subseteq mSessionContexts' \union Erased \union Closing'
    BY <2>1, <2>3 DEF Teardown
  <2>5. CASE alone
    BY <1>1, <1>3, <2>1, <2>2, <2>4, <2>5, SessionEnds
  <2>6. CASE ~alone
    BY <1>1, <1>3, <2>6 DEF Backstage, Teardown
  <2> QED BY <2>5, <2>6
<1>7. CASE ~TakeSessionTask(w) /\ ~CloseSession(w)
  <2>1. UNCHANGED <<connected, mSessionContexts, contexts>>
    BY <1>7 DEF ScheduleStep, ScheduleFlushPump, ClaimPump, CountJob, SubmitJob, UncountJob,
       Unschedule, PumpStep, FlushSession, DropFlag, EnqueueFlush, TickEnds, PumpAgain, CountWakeup,
       SubmitWakeup, JobDone, WakeupDone, SessionTaskDone, TakeStep, TakeJob, TakeWakeup,
       sessions, locals
  <2>2. pc[w] # "closeSession" /\ pc'[w] # "closeSession" /\ pc'[w] # "disconnectErased"
    <3>1. ret[w] \in {"idle", "jobDone", "wakeupDone"}
      BY <1>4 DEF Places
    <3> QED BY <1>4, <1>7, <3>1 DEF ScheduleStep, ScheduleFlushPump, ClaimPump, CountJob, SubmitJob,
       UncountJob, Unschedule, PumpStep, FlushSession, DropFlag, EnqueueFlush, TickEnds, PumpAgain,
       CountWakeup, SubmitWakeup, JobDone, WakeupDone, SessionTaskDone, TakeStep, TakeJob,
       TakeWakeup, Goto, Leave, Places
  <2>3. Erased' = Erased /\ Closing' = Closing
    BY <1>2, <1>4, <2>1, <2>2, ErasedStays, ClosingStays
  <2> QED BY <1>1, <1>3, <2>1, <2>3, SessionEnds
<1> QED BY <1>5, <1>6, <1>7

LEMMA OthersTearDown ==
    ASSUME StopInv, Receiving, Teardown,
           IoStep \/ IoPacket \/ (\E s \in Sessions : IoNewConnection(s)) \/ ClosePool
           \/ UNCHANGED vars
    PROVE  Receiving' /\ Teardown'
<1>1. Backstage
  BY OthersBackstage
<1>2. mIoPumpThread' = "none" <=> mIoPumpThread = "none"
  BY DEF IoStep, IoLoop, IoIdle, IoEnqueue, IoClose, IoUncount, IoPacket, IoNewConnection,
     ClosePool,
         io, vars
<1>3. Receiving' /\ (TornDown' <=> TornDown)
  BY <1>1, <1>2 DEF Backstage, Receiving, Stopped, TornDown
<1>6. UNCHANGED <<pc, contexts>>
  BY DEF IoStep, IoLoop, IoIdle, IoEnqueue, IoClose, IoUncount, IoPacket, IoNewConnection,
     ClosePool,
         locals, vars
<1>7. Erased' = Erased
  BY <1>6, ErasedStays
<1>4. ASSUME NEW s \in Sessions, IoNewConnection(s)
      PROVE  Teardown'
  <2>1. mIoPumpThread = "receive" /\ UNCHANGED <<mIoPumpThread, ioContexts>>
    BY <1>4 DEF IoNewConnection, io
  <2>2. ~TornDown'
    BY <1>3, <2>1 DEF TornDown, StopInv, Waited, Past
  <2>3. alone => \A c \in Callers : pc[c] \notin PastSessions
    BY <2>1, AloneIsDown
  <2>4. alone => \A c \in Callers : pc[c] \notin {"disconnect", "collectKeys", "remove", "shutdown"}
    BY <2>3 DEF PastSessions, PastJobs, PastWakeups, PastJoin
  <2>5. connected' = connected \union {s} /\ mSessionContexts' = mSessionContexts \union {s}
    BY <1>4 DEF IoNewConnection
  <2>6. Closing' = Closing
    BY <1>6, <2>1, ClosingStays
  <2>7. alone' => alone /\ connected' \subseteq mSessionContexts' \union Erased' \union Closing'
    <3> HIDE DEF Erased, Closing
    <3> QED BY <1>1, <1>7, <2>5, <2>6 DEF Backstage, Teardown
  <2>8. ASSUME alone, NEW c \in Callers PROVE TeardownOf(c)'
    BY <1>1, <2>4, <2>8 DEF Backstage, Teardown, TeardownOf
  <2> QED BY <2>2, <2>7, <2>8 DEF Teardown
<1>8. CASE IoClose
  <2>1. /\ connected' = connected \ ioContexts /\ mSessionContexts' = mSessionContexts
        /\ mIoPumpThread = "close" /\ mIoPumpThread' = "uncount"
    BY <1>8 DEF IoClose
  <2>2. Closing \subseteq ioContexts \union Closing'
    <3>1. At({"closeSession"})' = At({"closeSession"}) /\ contexts' = contexts
      BY <1>6 DEF At
    <3> QED BY <2>1, <3>1 DEF Closing
  <2>3. alone => connected' \subseteq mSessionContexts' \union Erased \union Closing'
    BY <2>1, <2>2 DEF Teardown
  <2>4. CASE alone
    BY <1>1, <1>3, <1>7, <2>1, <2>3, <2>4, SessionEnds
  <2>5. CASE ~alone
    BY <1>1, <1>3, <2>5 DEF Backstage, Teardown
  <2> QED BY <2>4, <2>5
<1>9. CASE IoEnqueue
  <2>1. /\ connected' = connected /\ mIoPumpThread = "enqueue"
        /\ \/ mSessionContexts' = mSessionContexts
           \/ \E s \in Sessions : /\ mSessionContexts' = mSessionContexts \ {s}
                                 /\ mIoPumpThread' = "close" /\ ioContexts' = {s}
    BY <1>9 DEF IoEnqueue, RemoveSession, sessions, StopInv, LifeInv, Shape, Clients
  <2>2. mSessionContexts \union Closing \subseteq mSessionContexts' \union Closing'
    <3>1. At({"closeSession"})' = At({"closeSession"}) /\ contexts' = contexts
      BY <1>6 DEF At
    <3> QED BY <2>1, <3>1 DEF Closing
  <2>3. mSessionContexts' \subseteq mSessionContexts
    BY <2>1
  <2> QED BY <1>1, <1>3, <1>7, <2>1, <2>2, <2>3, SessionEnds
<1>5. CASE IoLoop \/ IoIdle \/ IoUncount \/ IoPacket \/ ClosePool \/ UNCHANGED vars
  <2>1. /\ UNCHANGED <<connected, mSessionContexts, ioContexts>>
        /\ mIoPumpThread' = "close" <=> mIoPumpThread = "close"
    BY <1>5 DEF IoLoop, IoIdle, IoUncount, IoPacket, ClosePool, vars, sessions, io
  <2>2. Closing' = Closing
    BY <1>6, <2>1, ClosingStays
  <2> QED BY <1>1, <1>3, <1>7, <2>1, <2>2, SessionEnds
<1> QED BY <1>3, <1>4, <1>5, <1>8, <1>9 DEF IoStep

LEMMA StartsTearDown ==
    ASSUME StopInv, Receiving, Teardown, NEW c \in Callers, StartBegin(c) \/ StartStep(c)
    PROVE  Receiving' /\ Teardown'
<1> USE DEF StopInv, LifeInv, Shape
<1>1. c \in Threads /\ ret[c] = "idle"
  BY DEF Threads, Places
<1>5. UNCHANGED <<connected, mSessionContexts, contexts, ioContexts, wasRunning, alone>>
  BY DEF StartBegin, StartStep, StartPeer, StartFails, ScheduleIoPump, ScheduleStep,
     ScheduleFlushPump, ClaimPump, CountJob, SubmitJob, UncountJob, Unschedule, history, locals,
     sessions, io
<1>6. /\ \A d \in Threads \ {c} : pc'[d] = pc[d]
      /\ pc[c] \in InStart \union {"idle"} /\ pc'[c] \in InStart \union {"idle"}
  <2>1. \E to \in InStart \union {"idle"} : pc' = [pc EXCEPT ![c] = to]
    BY <1>1 DEF StartBegin, StartStep, StartPeer, StartFails, ScheduleIoPump, ScheduleStep,
       ScheduleFlushPump, ClaimPump, CountJob, SubmitJob, UncountJob, Unschedule, Goto, Leave,
       InStart
  <2>2. pc[c] \in InStart \union {"idle"}
    BY DEF StartBegin, StartStep, StartPeer, StartFails, ScheduleIoPump, ScheduleStep,
       ScheduleFlushPump, ClaimPump, CountJob, SubmitJob, UncountJob, Unschedule, Goto, Leave,
       InStart
  <2> QED BY <1>1, <2>1, <2>2 DEF Places
<1>7. Erased' = Erased /\ Closing' = Closing
  <2>1. \A p \in InStart \union {"idle"} : p # "disconnectErased" /\ p # "closeSession"
    BY DEF InStart
  <2>2. mIoPumpThread' = "close" <=> mIoPumpThread = "close"
    BY DEF StartBegin, StartStep, StartPeer, StartFails, ScheduleIoPump, ScheduleStep,
       ScheduleFlushPump, ClaimPump, CountJob, SubmitJob, UncountJob, Unschedule, io
  <2> QED BY <1>5, <1>6, <2>1, <2>2, ErasedStays, ClosingStays
<1> HIDE DEF Erased, Closing
<1>8. \A p \in InStart \union {"idle"} :
         p \notin InStop /\ p \notin {"disconnect", "collectKeys", "remove", "shutdown"}
  BY DEF InStart, InStop
<1>2. CASE StartBegin(c) /\ mRunning
  <2>1. pc' = pc
    BY <1>2 DEF StartBegin, Goto, Places
  <2>2. /\ UNCHANGED <<mIoPumpThread, mRunning, alone>>
        /\ quiet' => quiet
    BY <1>2 DEF StartBegin, io
  <2> QED BY <1>5, <1>7, <2>1, <2>2 DEF Receiving, Stopped, Teardown, TeardownOf, TornDown
<1>3. CASE StartBegin(c) /\ ~mRunning
  <2>1. \A d \in Callers : pc[d] \in Resting /\ ~wasRunning[d]
    <3>1. \A d \in Callers : pc[d] \notin InStart \union InStop
      BY <1>3 DEF StartBegin
    <3>2. \A d \in Callers : pc[d] \in Resting
      BY <3>1 DEF Places, CallerStatements, ScheduleStatements, InStart, Resting
    <3> QED BY <3>1, <3>2 DEF StopPhases, Flags
  <2>2. mIoPumpThread = "none"
    BY <1>3, <2>1 DEF Receiving, Stopped
  <2>3. pc'[c] = "startup" /\ \A d \in Callers \ {c} : pc'[d] \in Resting
    BY <1>1, <1>3, <1>6, <2>1 DEF StartBegin, Goto, Places, Threads
  <2>4. UNCHANGED mIoPumpThread /\ mRunning' = TRUE /\ quiet' = FALSE
    BY <1>3 DEF StartBegin, io
  <2>5. Receiving'
    BY <2>2, <2>3, <2>4, RestingElsewhere DEF Receiving, Stopped
  <2>6. TornDown
    BY <2>1, <2>2 DEF TornDown
  <2>7. ASSUME NEW d \in Callers
        PROVE  TeardownOf(d)'
    <3>1. pc'[d] \notin InStop
      BY <1>8, <2>3, <1>6, RestingElsewhere
    <3> QED BY <3>1 DEF TeardownOf, InStop
  <2> QED BY <1>5, <1>7, <2>5, <2>6, <2>7 DEF Teardown
<1>4. CASE StartStep(c)
  <2>1. pc[c] \in InStart
    BY <1>4 DEF StartStep, StartPeer, StartFails, ScheduleIoPump, ScheduleStep,
       ScheduleFlushPump, ClaimPump, CountJob, SubmitJob, UncountJob, Unschedule, Goto, Leave,
       InStart
  <2>2. \A d \in Callers \ {c} : pc[d] \in Resting
    BY <2>1 DEF Receiving
  <2>3. ~quiet /\ \A d \in Callers : pc[d] \notin InStop /\ ~wasRunning[d]
    BY <2>1 DEF StopPhases
  <2>4. UNCHANGED <<connected, mSessionContexts, quiet, alone, wasRunning>>
    BY <1>4 DEF StartStep, StartPeer, StartFails, ScheduleIoPump, ScheduleStep,
       ScheduleFlushPump, ClaimPump, CountJob, SubmitJob, UncountJob, Unschedule, history, locals,
       sessions
  <2>5. /\ pc'[c] \in InStart \union {"idle"} /\ \A d \in Callers \ {c} : pc'[d] \in Resting
        /\ pc'[c] \in Starting => pc[c] \in Starting
    <3>1. PICK to \in InStart \union {"idle"} : /\ pc' = [pc EXCEPT ![c] = to]
                                                /\ to \in Starting => pc[c] \in Starting
      BY <1>1, <1>4 DEF StartStep, StartPeer, StartFails, ScheduleIoPump, ScheduleStep,
         ScheduleFlushPump, ClaimPump, CountJob, SubmitJob, UncountJob, Unschedule, Goto, Leave,
         InStart, Starting
    <3>2. pc'[c] = to /\ \A d \in Threads \ {c} : pc'[d] = pc[d]
      BY <1>1, <3>1 DEF Places
    <3> QED BY <2>2, <3>1, <3>2 DEF Threads
  <2>6. \A d \in Callers : pc'[d] \notin InStop
    <3>1. \A p \in InStart \union {"idle"} : p \notin InStop
      BY DEF InStart, InStop
    <3> QED BY <2>5, <3>1, RestingElsewhere
  <2>7. mIoPumpThread' = "none" => mIoPumpThread = "none"
    BY <1>4 DEF StartStep, StartPeer, StartFails, ScheduleIoPump, ScheduleStep,
       ScheduleFlushPump, ClaimPump, CountJob, SubmitJob, UncountJob, Unschedule, io
  <2>8. Receiving'
    <3>1. "idle" \notin InStart /\ "idle" \notin Starting /\ "schedule" \notin Starting
      BY DEF InStart, Starting
    <3>2. /\ \A d \in Callers : pc'[d] \in InStart => \A e \in Callers \ {d} : pc'[e] \in Resting
          /\ mRunning
      BY <2>1, <2>5, <3>1, RestingElsewhere DEF Receiving
    <3>3. pc[c] \in Starting => mIoPumpThread = "none"
      BY DEF Receiving
    <3>4. CASE StartFails(c)
      <4>1. mIoPumpThread' = "none" /\ pc'[c] = "idle"
        BY <1>1, <3>3, <3>4 DEF StartFails, Goto, Starting, Places, io
      <4> QED BY <2>5, <3>1, <4>1, RestingElsewhere DEF Receiving
    <3>5. CASE ScheduleIoPump(c)
      <4>1. pc'[c] = "schedule" /\ mIoPumpThread = "none"
        BY <1>1, <3>3, <3>5 DEF ScheduleIoPump, Goto, Places, Starting
      <4>2. mRunning' = mRunning
        BY <3>5 DEF ScheduleIoPump
      <4> QED BY <2>5, <3>1, <3>2, <4>1, <4>2, RestingElsewhere DEF Receiving, Stopped
    <3>6. CASE StartPeer(c) \/ ScheduleStep(c)
      <4>1. mRunning' = mRunning /\ mIoPumpThread' = mIoPumpThread
        BY <3>6 DEF StartPeer, ScheduleStep, ScheduleFlushPump, ClaimPump, CountJob, SubmitJob,
           UncountJob, Unschedule, io
      <4> QED BY <2>4, <2>5, <3>1, <3>2, <4>1, RestingElsewhere DEF Receiving, Stopped
    <3> QED BY <1>4, <3>4, <3>5, <3>6 DEF StartStep
  <2>9. TornDown' => TornDown
    BY <2>4, <2>7 DEF TornDown
  <2>10. \A d \in Callers : TeardownOf(d)'
    <3>1. /\ "disconnect" \in InStop /\ "collectKeys" \in InStop /\ "remove" \in InStop
          /\ "shutdown" \in InStop
      BY DEF InStop
    <3> QED BY <2>6, <3>1 DEF TeardownOf
  <2> QED BY <1>5, <1>7, <2>8, <2>9, <2>10 DEF Teardown
<1> QED BY <1>2, <1>3, <1>4

LEMMA StopsTearDown ==
    ASSUME StopInv, Receiving, Teardown, NEW c \in Callers, StopBegin(c) \/ StopStep(c)
    PROVE  Receiving' /\ Teardown'
<1> USE DEF StopInv, LifeInv, Shape
<1>1. c \in Threads
  BY DEF Threads
<1>2. "idle" \notin InStop /\ "idle" \notin InStart
  BY DEF InStop, InStart
<1>5. UNCHANGED <<ioContexts, ret>> /\ \A t \in Threads \ {c} : contexts'[t] = contexts[t]
  <2>1. \E held : contexts' = [contexts EXCEPT ![c] = held]
    BY DEF Clients, StopBegin, StopStep, StopRequest, StopJoin, StopWait, StopCollect, StopReturn,
       StopDisconnect, StopRemove
  <2>2. UNCHANGED <<ioContexts, ret>>
    BY DEF StopBegin, StopStep, StopRequest, StopJoin, StopWait, StopCollect, StopReturn,
       StopDisconnect, StopRemove, Stays, io
  <2> QED BY <2>1, <2>2 DEF Clients
<1>6. /\ \A t \in Threads \ {c} : pc'[t] = pc[t]
      /\ pc[c] \in InStop \union {"idle"} /\ pc'[c] \in InStop \union {"idle"}
  <2>1. CASE StopBegin(c)
    BY <1>1, <2>1 DEF StopBegin, Goto, Places, InStop
  <2>2. CASE StopRequest(c) \/ StopJoin(c) \/ StopWait(c) \/ StopCollect(c) \/ StopReturn(c)
    BY <1>1, <2>2 DEF StopRequest, StopJoin, StopWait, StopCollect, StopReturn, Goto, Places, InStop
  <2>3. CASE StopDisconnect(c) \/ StopRemove(c)
    BY <1>1, <2>3 DEF StopDisconnect, StopRemove, Goto, Places, InStop
  <2> QED BY <2>1, <2>2, <2>3 DEF StopStep
<1>7. Erased' = Erased /\ Closing' = Closing
  <2>1. \A p \in InStop \union {"idle"} : p # "disconnectErased" /\ p # "closeSession"
    BY DEF InStop
  <2>2. mIoPumpThread' = "close" <=> mIoPumpThread = "close"
    BY DEF StopBegin, StopStep, StopRequest, StopJoin, StopWait, StopCollect, StopReturn,
       StopDisconnect, StopRemove, io
  <2> QED BY <1>5, <1>6, <2>1, <2>2, ErasedStays, ClosingStays
<1> HIDE DEF Erased, Closing
<1>3. CASE StopBegin(c)
  <2>1. /\ pc[c] = "idle" /\ pc'[c] \in {"join", "collect"}
        /\ \A d \in Callers \ {c} : pc'[d] = pc[d]
        /\ \A d \in Callers : pc[d] \notin InStart
    BY <1>1, <1>3 DEF StopBegin, Goto, Places, Threads
  <2>2. /\ UNCHANGED <<mIoPumpThread, connected, mSessionContexts, contexts, quiet>>
        /\ mRunning' = FALSE
        /\ wasRunning'[c] = mRunning /\ \A d \in Callers \ {c} : wasRunning'[d] = wasRunning[d]
    BY <1>3 DEF StopBegin, io, Flags
  <2>3. Receiving'
    <3>1. \A d \in Callers : pc'[d] \notin InStart /\ pc'[d] \notin Starting
      BY <2>1 DEF InStart, Starting
    <3>2. Stopped' => Stopped
      <4>1. ~wasRunning[c]
        BY <1>2, <2>1 DEF StopPhases
      <4> QED BY <2>2, <4>1 DEF Stopped
    <3> QED BY <2>2, <3>1, <3>2 DEF Receiving
  <2>4. ASSUME alone'
        PROVE  alone /\ \A d \in Callers : pc[d] \in Resting
    <3>1. alone /\ \A d \in Callers : pc[d] \notin InStop
      BY <1>3, <2>4 DEF StopBegin
    <3> QED BY <2>1, <3>1 DEF Places, CallerStatements, ScheduleStatements, InStart, Resting
  <2>5. TornDown' => TornDown
    <3>1. ~wasRunning[c]
      BY <1>2, <2>1 DEF StopPhases
    <3> QED BY <2>2, <3>1 DEF TornDown
  <2>6. ASSUME alone', NEW d \in Callers PROVE TeardownOf(d)'
    <3>1. /\ d # c => pc'[d] \in Resting
          /\ \A e \in Callers \ {c} : pc'[e] \in Resting
      BY <2>1, <2>4, <2>6
    <3>2. \A p \in Resting \union {"join", "collect"} :
             p \notin {"disconnect", "collectKeys", "remove", "shutdown"}
      BY DEF Resting
    <3> QED BY <2>1, <3>1, <3>2, RestingElsewhere DEF TeardownOf
  <2> QED BY <1>7, <2>2, <2>3, <2>4, <2>5, <2>6 DEF Teardown
<1>4. CASE StopStep(c)
  <2>1. pc[c] \in InStop /\ pc'[c] \in InStop \union {"idle"}
        /\ \A d \in Callers \ {c} : pc'[d] = pc[d]
    <3>1. CASE StopDisconnect(c) \/ StopRemove(c)
      BY <1>1, <3>1 DEF StopDisconnect, StopRemove, Goto, Places, InStop, Threads
    <3>2. CASE StopRequest(c) \/ StopJoin(c) \/ StopWait(c) \/ StopCollect(c) \/ StopReturn(c)
      BY <1>1, <3>2 DEF StopRequest, StopJoin, StopWait, StopCollect, StopReturn, Goto, Places,
         InStop, Threads
    <3> QED BY <1>4, <3>1, <3>2 DEF StopStep
  <2>2. ~mRunning /\ \A d \in Callers : pc[d] \notin InStart
    BY <2>1 DEF StopPhases
  <2>3. UNCHANGED <<mRunning, alone>> /\ mIoPumpThread' \in {mIoPumpThread, "none"}
    BY <1>4 DEF StopStep, StopRequest, StopJoin, StopWait, StopCollect, StopReturn, StopDisconnect,
       StopRemove, io
  <2>4. Receiving'
    <3>1. \A d \in Callers : pc'[d] \notin InStart /\ pc'[d] \notin Starting
      BY <2>1, <2>2 DEF InStart, InStop, Starting
    <3>2. CASE StopReturn(c) /\ wasRunning[c]
      <4>1. pc[c] = "shutdown" /\ mIoPumpThread' = mIoPumpThread
        BY <3>2 DEF StopReturn, Goto, io
      <4>2. mIoPumpThread = "none"
        BY <3>2, <4>1 DEF Waited, Past, PastJoin
      <4> QED BY <3>1, <4>1, <4>2 DEF Receiving
    <3>3. CASE ~(StopReturn(c) /\ wasRunning[c])
      <4>1. wasRunning' = wasRunning
        BY <1>4, <3>3 DEF StopStep, StopRequest, StopJoin, StopWait, StopCollect, StopReturn,
           StopDisconnect, StopRemove, Flags
      <4> QED BY <2>3, <3>1, <4>1 DEF Receiving, Stopped
    <3> QED BY <3>2, <3>3
  <2>5. ASSUME alone
        PROVE  \A d \in Callers \ {c} : pc[d] \in Resting /\ ~wasRunning[d]
    BY <2>1, <2>5, RestingElsewhere DEF Teardown, TeardownOf, StopPhases
  <2>11. ASSUME alone', NEW d \in Callers, d # c PROVE TeardownOf(d)'
    <3>1. pc'[d] \in Resting
      BY <2>1, <2>3, <2>5, <2>11
    <3>2. \A p \in Resting : p \notin {"disconnect", "collectKeys", "remove", "shutdown"}
      BY DEF Resting
    <3> QED BY <3>1, <3>2, RestingElsewhere DEF TeardownOf
  <2>12. alone' => \A d \in Callers \ {c} : pc'[d] \in Resting
    BY <2>1, <2>3, <2>5
  <2>13. ~StopReturn(c) => UNCHANGED <<quiet, wasRunning>>
    BY <1>4 DEF StopStep, StopRequest, StopJoin, StopWait, StopCollect, StopDisconnect, StopRemove
  <2>14. ~StopReturn(c) /\ TornDown' => TornDown
    <3>1. CASE StopJoin(c)
      <4>1. wasRunning[c]
        BY <3>1 DEF StopJoin, Goto, StopPhases, InStop, PastSessions, PastJobs, PastWakeups,
           PastJoin
      <4> QED BY <2>13, <4>1 DEF TornDown
    <3>2. CASE ~StopJoin(c) /\ ~StopReturn(c)
      <4>1. mIoPumpThread' = mIoPumpThread
        BY <1>4, <3>2 DEF StopStep, StopRequest, StopWait, StopCollect, StopDisconnect,
           StopRemove, io
      <4> QED BY <2>13, <3>2, <4>1 DEF TornDown
    <3> QED BY <3>1, <3>2
  <2>6. CASE StopRequest(c) \/ StopJoin(c) \/ StopWait(c)
    <3>1. /\ UNCHANGED <<connected, mSessionContexts, contexts>> /\ ~StopReturn(c)
          /\ pc'[c] \in {"waitWakeups", "joined", "waitJobs", "waitSessions", "collect"}
      BY <1>1, <2>6 DEF StopRequest, StopJoin, StopWait, StopReturn, Goto, Places
    <3>2. alone' => TeardownOf(c)'
      BY <2>12, <3>1 DEF TeardownOf
    <3> QED BY <1>7, <2>3, <2>4, <2>11, <2>14, <3>1, <3>2 DEF Teardown
  <2>7. CASE StopCollect(c)
    <3>1. /\ UNCHANGED <<connected, mSessionContexts>> /\ contexts'[c] = mSessionContexts
          /\ \/ pc[c] = "collect" /\ pc'[c] = "disconnect"
             \/ pc[c] = "collectKeys" /\ pc'[c] = "remove"
          /\ ~StopReturn(c)
      BY <1>1, <2>7 DEF StopCollect, StopReturn, Goto, Places, Clients
    <3>2. alone /\ pc[c] = "collect" => connected \subseteq mSessionContexts \union Erased
      <4>1. CASE wasRunning[c]
        <5>1. /\ Closing = {} \/ pc[c] # "collect"
          <6>1. SUFFICES ASSUME pc[c] = "collect" PROVE Closing = {}
            OBVIOUS
          <6>2. Past(PastSessions) /\ Past(PastJoin)
            BY <4>1, <6>1 DEF Past, PastSessions, PastJobs, PastWakeups, PastJoin
          <6>3. mPendingSessionPacketTasks = 0 /\ mIoPumpThread = "none"
            BY <6>2 DEF Waited
          <6>4. At({"closeSession"}) = {}
            BY <6>3, NobodyCounted DEF At
          <6> QED BY <6>3, <6>4 DEF Closing
        <5> QED BY <5>1 DEF Teardown
      <4>2. CASE ~wasRunning[c] /\ alone /\ pc[c] = "collect"
        <5>1. mIoPumpThread = "none"
          BY <4>2, AloneIsDown DEF PastSessions, PastJobs, PastWakeups, PastJoin
        <5>2. TornDown
          BY <2>5, <4>2, <5>1 DEF TornDown
        <5> QED BY <4>2, <5>2 DEF Teardown
      <4> QED BY <4>1, <4>2
    <3>3. alone' => TeardownOf(c)'
      <4>1. alone /\ pc[c] = "collectKeys" => connected \subseteq Erased
        BY DEF Teardown, TeardownOf
      <4> QED BY <1>7, <2>3, <2>12, <3>1, <3>2, <4>1 DEF TeardownOf
    <3> QED BY <1>7, <2>3, <2>4, <2>11, <2>14, <3>1, <3>3 DEF Teardown
  <2>8. CASE StopDisconnect(c)
    <3>1. mSessionContexts' = mSessionContexts /\ pc[c] = "disconnect" /\ ~StopReturn(c)
      BY <2>8 DEF StopDisconnect, StopReturn, Goto
    <3>2. \/ contexts[c] = {} /\ pc'[c] = "collectKeys" /\ UNCHANGED <<connected, contexts>>
          \/ /\ pc'[c] = "disconnect"
             /\ \E s : connected' = connected \ {s} /\ contexts'[c] = contexts[c] \ {s}
      BY <1>1, <2>8 DEF StopDisconnect, Goto, Places, Clients
    <3>3. alone' => TeardownOf(c)'
      <4>1. alone => connected \subseteq contexts[c] \union Erased
        BY <3>1 DEF Teardown, TeardownOf
      <4> QED BY <1>7, <2>3, <2>12, <3>2, <4>1 DEF TeardownOf
    <3> QED BY <1>7, <2>3, <2>4, <2>11, <2>14, <3>1, <3>2, <3>3 DEF Teardown
  <2>9. CASE StopRemove(c)
    <3>1. connected' = connected /\ pc[c] = "remove" /\ ~StopReturn(c)
      BY <2>9 DEF StopRemove, StopReturn, Goto
    <3>2. \/ contexts[c] = {} /\ pc'[c] = "shutdown" /\ UNCHANGED <<mSessionContexts, contexts>>
          \/ /\ pc'[c] = "remove"
             /\ \E s : mSessionContexts' = mSessionContexts \ {s}
                    /\ contexts'[c] = contexts[c] \ {s}
      BY <1>1, <2>9 DEF StopRemove, Goto, Places, Clients
    <3>3. alone => connected \subseteq Erased /\ mSessionContexts \subseteq contexts[c]
      BY <3>1 DEF Teardown, TeardownOf
    <3>4. alone' => TeardownOf(c)'
      BY <1>7, <2>3, <2>12, <3>1, <3>2, <3>3 DEF TeardownOf
    <3> QED BY <1>7, <2>3, <2>4, <2>11, <2>14, <3>1, <3>2, <3>3, <3>4 DEF Teardown
  <2>10. CASE StopReturn(c)
    <3>1. /\ UNCHANGED <<connected, mSessionContexts, contexts>>
          /\ pc[c] = "shutdown" /\ pc'[c] = "idle"
      BY <1>1, <2>10 DEF StopReturn, Goto, Places
    <3>2. alone => connected \subseteq Erased /\ mSessionContexts = {}
      BY <3>1 DEF Teardown, TeardownOf
    <3>3. TeardownOf(c)'
      BY <1>2, <3>1 DEF TeardownOf
    <3> QED BY <1>7, <2>3, <2>4, <2>11, <3>1, <3>2, <3>3 DEF Teardown
  <2> QED BY <1>4, <2>6, <2>7, <2>8, <2>9, <2>10 DEF StopStep
<1> QED BY <1>3, <1>4

LEMMA DisconnectsTearDown ==
    ASSUME StopInv, Receiving, Teardown, NEW c \in Callers, DisconnectStep(c)
    PROVE  Receiving' /\ Teardown'
<1> USE DEF StopInv, LifeInv, Shape
<1>1. /\ c \in Threads /\ pc[c] \in Resting /\ pc'[c] \in Resting
      /\ \A t \in Threads \ {c} : pc'[t] = pc[t] /\ contexts'[t] = contexts[t]
      /\ UNCHANGED <<mRunning, io, wasRunning, history>>
  BY DisconnectMoves
<1>2. UNCHANGED <<mIoPumpThread, ioContexts, quiet, alone>>
  BY <1>1 DEF io, history
<1>3. \A d \in Callers : /\ pc'[d] \in Resting <=> pc[d] \in Resting
                         /\ pc'[d] \notin Resting => pc'[d] = pc[d]
  BY <1>1 DEF Threads
<1>4. Receiving' /\ (TornDown' <=> TornDown)
  BY <1>1, <1>2, <1>3, RestingElsewhere DEF Receiving, Stopped, TornDown
<1>5. Closing' = Closing
  <2>1. pc[c] # "closeSession" /\ pc'[c] # "closeSession"
    BY <1>1 DEF Resting
  <2> QED BY <1>1, <1>2, <2>1, ClosingStays
<1>6. /\ connected' \subseteq connected /\ mSessionContexts' \subseteq mSessionContexts
      /\ Erased \intersect connected' \subseteq Erased'
      /\ mSessionContexts \subseteq mSessionContexts' \union Erased'
  <2>1. CASE \E s \in Sessions : DisconnectClient(c, s)
    <3>1. PICK s \in Sessions : DisconnectClient(c, s)
      BY <2>1
    <3>2. /\ connected' = connected /\ mSessionContexts' = mSessionContexts \ {s}
          /\ pc[c] = "idle" /\ pc'[c] = "disconnectErased" /\ contexts'[c] = {s}
      BY <1>1, <3>1 DEF DisconnectClient, RemoveSession, Goto, Places, Clients
    <3>3. Erased \subseteq Erased' /\ s \in Erased'
      BY <1>1, <3>2 DEF Erased, At
    <3> QED BY <3>2, <3>3
  <2>2. CASE CloseErased(c)
    <3>1. /\ connected' = connected \ contexts[c] /\ mSessionContexts' = mSessionContexts
          /\ pc[c] = "disconnectErased" /\ pc'[c] = "idle"
      BY <1>1, <2>2 DEF CloseErased, CloseHeld, Goto, Places
    <3>2. Erased \subseteq contexts[c] \union Erased'
      BY <1>1, <3>1 DEF Erased, At
    <3> QED BY <3>1, <3>2
  <2> QED BY <2>1, <2>2 DEF DisconnectStep
<1> HIDE DEF Erased, Closing
<1>7. ASSUME alone, NEW d \in Callers PROVE TeardownOf(d)'
  <2>1. TeardownOf(d)
    BY <1>7 DEF Teardown
  <2>2. CASE pc'[d] \in Resting
    <3>1. \A p \in Resting : p \notin {"disconnect", "collectKeys", "remove", "shutdown"}
      BY DEF Resting
    <3> QED BY <2>2, <3>1, RestingElsewhere DEF TeardownOf
  <2>3. CASE pc'[d] \notin Resting
    <3>1. d # c /\ pc'[d] = pc[d] /\ contexts'[d] = contexts[d]
      BY <1>1, <2>3 DEF Threads
    <3>2. \A e \in Callers : pc[e] \in Resting => pc'[e] \in Resting
      BY <1>3
    <3> QED BY <1>6, <2>1, <3>1, <3>2 DEF TeardownOf
  <2> QED BY <2>2, <2>3
<1> QED BY <1>2, <1>4, <1>5, <1>6, <1>7 DEF Teardown

SessionsInv == StopInv /\ Receiving /\ Teardown

LEMMA SessionsInit == Init => SessionsInv
<1> SUFFICES ASSUME Init PROVE SessionsInv
  OBVIOUS
<1>1. \A c \in Callers : pc[c] = "idle"
  BY DEF Init, Threads
<1>2. Receiving /\ Teardown
  BY <1>1 DEF Init, Receiving, Resting, Starting, InStart, Teardown, TeardownOf, InStop
<1> QED BY <1>2, StopInit DEF SessionsInv

LEMMA SessionsNext == SessionsInv /\ [Next]_vars => SessionsInv'
<1> SUFFICES ASSUME SessionsInv, [Next]_vars PROVE SessionsInv'
  OBVIOUS
<1>1. StopInv'
  BY StopNext DEF SessionsInv
<1>2. ASSUME NEW c \in Callers, StartBegin(c) \/ StartStep(c) \/ StopBegin(c) \/ StopStep(c)
      PROVE  Receiving' /\ Teardown'
  BY <1>2, StartsTearDown, StopsTearDown DEF SessionsInv
<1>3. ASSUME NEW w \in PoolWorkers, ScheduleStep(w) \/ PumpStep(w) \/ TakeStep(w) \/ FlushSession(w)
      PROVE  Receiving' /\ Teardown'
  BY <1>3, WorkersTearDown DEF SessionsInv
<1>4. CASE IoStep \/ IoPacket \/ (\E s \in Sessions : IoNewConnection(s)) \/ ClosePool
           \/ UNCHANGED vars
  BY <1>1, <1>4, OthersTearDown DEF SessionsInv
<1>5. ASSUME NEW c \in Callers, DisconnectStep(c)
      PROVE  Receiving' /\ Teardown'
  BY <1>5, DisconnectsTearDown DEF SessionsInv
<1> QED BY <1>1, <1>2, <1>3, <1>4, <1>5 DEF Next, DisconnectStep, SessionsInv

THEOREM SessionsKept == Spec => []SessionsInv
BY SessionsInit, SessionsNext, PTL DEF Spec

(* A stop that found the system running and overlapped no other leaves no   *)
(* session in the map, and none connected but those a call of               *)
(* disconnectClient took out of the map and has yet to disconnect, however  *)
(* many connected or ended while it was under way                           *)
(* (ServerNetworkSystem.cpp:251-257, 499-505, 704-725).                     *)
THEOREM TeardownComplete == Spec => []SessionsClosed
<1>1. SessionsInv => SessionsClosed
  BY DEF SessionsInv, Teardown, TornDown, SessionsClosed, Erased
<1> QED BY <1>1, SessionsKept, PTL

-----------------------------------------------------------------------------
(* The pump.  Only start adds a continuation, and it adds one to none; every*)
(* other step passes on the one it has or ends it.                          *)
Continuing == {"schedule", "cas", "countJob", "submitJob", "tick", "dropFlag", "enqueueFlush",
               "uncountFlush", "recheck", "countWakeup", "submitWakeup"}

AtRest == Stopped \/ \E c \in Callers : pc[c] \in Starting
OnePumpInv == ~leftover => Continuations <= 1 /\ (AtRest => Continuations = 0)

LEMMA ContinuationsMove ==
    ASSUME LifeInv, LifeInv', NEW t \in Threads, Moves(t)
    PROVE  /\ Continuations \in Nat /\ Continuations' \in Nat
           /\ Continuations' = Continuations + (pumpJobs' - pumpJobs) + (wakeups' - wakeups)
                               + (One(pc'[t] \in Continuing) - One(pc[t] \in Continuing))
<1> DEFINE n == Cardinality(At(Continuing))
<1>1. /\ n \in Nat /\ n' \in Nat
      /\ n' = n + One(pc'[t] \in Continuing) - One(pc[t] \in Continuing)
  BY AtMoves DEF LifeInv, Shape
<1>2. /\ Continuations = pumpJobs + wakeups + n
      /\ Continuations' = pumpJobs' + wakeups' + n'
  BY DEF Continuations, Continuing
<1>3. One(pc'[t] \in Continuing) \in Nat /\ One(pc[t] \in Continuing) \in Nat
  BY DEF One
<1> HIDE DEF n
<1> QED BY <1>1, <1>2, <1>3 DEF LifeInv, Shape, Queued

LEMMA ContinuationsAreNumber ==
    ASSUME LifeInv
    PROVE  Continuations \in Nat
<1>1. Cardinality(At(Continuing)) \in Nat
  BY ThreadsFinite, FS_CardinalityType DEF At
<1> QED BY <1>1 DEF Continuations, Continuing, LifeInv, Shape, Queued

LEMMA ContinuationsStay ==
    ASSUME UNCHANGED <<pc, pumpJobs, wakeups>>
    PROVE  Continuations' = Continuations
BY DEF Continuations, At

LEMMA NobodyContinues ==
    ASSUME LifeInv, Continuations \in Nat
    PROVE  Continuations = 0 <=>
              pumpJobs = 0 /\ wakeups = 0 /\ \A t \in Threads : pc[t] \notin Continuing
<1> DEFINE n == Cardinality(At(Continuing))
<1>1. n \in Nat /\ (n = 0 <=> At(Continuing) = {})
  BY ThreadsFinite, CountZero DEF At
<1>2. Continuations = pumpJobs + wakeups + n
  BY DEF Continuations, Continuing
<1>3. At(Continuing) = {} <=> \A t \in Threads : pc[t] \notin Continuing
  BY DEF At
<1> HIDE DEF n
<1> QED BY <1>1, <1>2, <1>3 DEF LifeInv, Shape, Queued

(* A thread in scheduleFlushPump passes the pump on, or leaves it.          *)
LEMMA ScheduleAddsNoPump ==
    ASSUME LifeInv, LifeInv', NEW t \in Threads, ScheduleStep(t)
    PROVE  Continuations \in Nat /\ Continuations' \in Nat /\ Continuations' <= Continuations
<1> USE DEF LifeInv, Shape
<1>1. Moves(t)
  <2>1. \E to : pc' = [pc EXCEPT ![t] = to]
    BY DEF ScheduleStep, ScheduleFlushPump, ClaimPump, CountJob, SubmitJob, UncountJob, Unschedule,
       Goto, Leave
  <2>2. ret' = ret \/ ret' = [ret EXCEPT ![t] = "idle"]
    BY DEF ScheduleStep, ScheduleFlushPump, ClaimPump, CountJob, SubmitJob, UncountJob, Unschedule,
       Leave, locals
  <2> QED BY <2>1, <2>2 DEF Moves, Places
<1>2. /\ Continuations \in Nat /\ Continuations' \in Nat
      /\ Continuations' = Continuations + (pumpJobs' - pumpJobs) + (wakeups' - wakeups)
                          + (One(pc'[t] \in Continuing) - One(pc[t] \in Continuing))
  BY <1>1, ContinuationsMove
<1>3. ret[t] \in {"idle", "jobDone", "wakeupDone"}
  BY DEF Places
<1>4. wakeups' = wakeups
  BY DEF ScheduleStep, ScheduleFlushPump, ClaimPump, CountJob, SubmitJob, UncountJob, Unschedule,
     queued
<1>5. CASE Leave(t, "submitJob") /\ pumpJobs' = pumpJobs + 1
  <2>1. /\ pumpJobs' = pumpJobs + 1 /\ pc[t] \in Continuing /\ pc'[t] \notin Continuing
    BY <1>3, <1>5 DEF Leave, Goto, Places, Continuing
  <2> QED BY <1>2, <1>4, <2>1 DEF One, Queued
<1>6. CASE ~(Leave(t, "submitJob") /\ pumpJobs' = pumpJobs + 1)
  <2>1. pumpJobs' = pumpJobs
    BY <1>6 DEF ScheduleStep, ScheduleFlushPump, ClaimPump, CountJob, SubmitJob, UncountJob,
       Unschedule, queued
  <2>2. pc'[t] \in Continuing => pc[t] \in Continuing
    <3>1. CASE \E from : Leave(t, from)
      BY <1>3, <3>1 DEF Leave, Goto, Places, Continuing
    <3>2. CASE ~\E from : Leave(t, from)
      BY <1>6, <3>2 DEF ScheduleStep, ScheduleFlushPump, ClaimPump, CountJob, SubmitJob,
         UncountJob, Unschedule, Goto, Places, Continuing
    <3> QED BY <3>1, <3>2
  <2> QED BY <1>2, <1>4, <2>1, <2>2 DEF One, Queued
<1> QED BY <1>5, <1>6

LEMMA WorkersAddNoPump ==
    ASSUME LifeInv, LifeInv', NEW w \in PoolWorkers, PumpStep(w) \/ TakeStep(w) \/ FlushSession(w)
    PROVE  Continuations \in Nat /\ Continuations' \in Nat /\ Continuations' <= Continuations
<1> USE DEF LifeInv, Shape
<1>1. w \in Threads /\ Moves(w)
  BY WorkerStepMoves DEF Threads
<1>2. /\ Continuations \in Nat /\ Continuations' \in Nat
      /\ Continuations' = Continuations + (pumpJobs' - pumpJobs) + (wakeups' - wakeups)
                          + (One(pc'[w] \in Continuing) - One(pc[w] \in Continuing))
  BY <1>1, ContinuationsMove
<1> DEFINE before == One(pc[w] \in Continuing)
           after == One(pc'[w] \in Continuing)
<1>6. before \in {0, 1} /\ after \in {0, 1}
  BY DEF One
<1>3. CASE TakeJob(w) \/ TakeWakeup(w)
  <2>1. /\ \/ pumpJobs' = pumpJobs - 1 /\ wakeups' = wakeups
           \/ pumpJobs' = pumpJobs /\ wakeups' = wakeups - 1
        /\ before = 0
    BY <1>3 DEF TakeJob, TakeWakeup, Goto, Continuing, One
  <2> QED BY <1>2, <1>6, <2>1 DEF Queued
<1>4. CASE SubmitWakeup(w)
  <2>1. /\ pumpJobs' = pumpJobs /\ (wakeups' = wakeups \/ wakeups' = wakeups + 1)
        /\ before = 1 /\ after = 0
    BY <1>1, <1>4 DEF SubmitWakeup, Goto, Places, Continuing, One
  <2> QED BY <1>2, <2>1 DEF Queued
<1>5. CASE ~(TakeJob(w) \/ TakeWakeup(w) \/ SubmitWakeup(w))
  <2>1. pumpJobs' = pumpJobs /\ wakeups' = wakeups
    BY <1>5 DEF PumpStep, FlushSession, DropFlag, EnqueueFlush, TickEnds, PumpAgain, CountWakeup,
       JobDone, WakeupDone, CloseSession, CloseHeld, SessionTaskDone, TakeStep, TakeSessionTask,
       queued
  <2>2. pc'[w] \in Continuing => pc[w] \in Continuing
    BY <1>1, <1>5 DEF PumpStep, FlushSession, DropFlag, EnqueueFlush, TickEnds, PumpAgain,
       CountWakeup, JobDone, WakeupDone, CloseSession, CloseHeld, SessionTaskDone, TakeStep,
       TakeSessionTask, Goto, Places,
       Continuing
  <2> QED BY <1>2, <2>1, <2>2 DEF One, Queued
<1> QED BY <1>3, <1>4, <1>5

LEMMA StartsOnePump ==
    ASSUME SessionsInv, SessionsInv', OnePumpInv, NEW c \in Callers, StartBegin(c) \/ StartStep(c)
    PROVE  OnePumpInv'
<1> USE DEF SessionsInv, StopInv, LifeInv, Shape
<1>1. c \in Threads /\ ret[c] = "idle"
  BY DEF Threads, Places
<1>2. leftover' = leftover
  BY DEF StartBegin, StartStep, StartPeer, StartFails, ScheduleIoPump, ScheduleStep,
     ScheduleFlushPump, ClaimPump, CountJob, SubmitJob, UncountJob, Unschedule, history
<1>3. CASE StartBegin(c) \/ StartPeer(c) \/ StartFails(c)
  <2>1. Moves(c) /\ pc[c] \notin Continuing /\ pc'[c] \notin Continuing
        /\ UNCHANGED <<pumpJobs, wakeups>>
    <3>1. \E to \in {"idle", "startup", "startFails", "scheduleIo"} : pc' = [pc EXCEPT ![c] = to]
      BY <1>3 DEF StartBegin, StartPeer, StartFails, Goto
    <3>2. UNCHANGED ret /\ pc[c] \notin Continuing /\ UNCHANGED <<pumpJobs, wakeups>>
      BY <1>3 DEF StartBegin, StartPeer, StartFails, Goto, locals, queued, Continuing
    <3> QED BY <1>1, <3>1, <3>2 DEF Moves, Places, Continuing
  <2>2. Continuations' = Continuations /\ Continuations \in Nat
    BY <1>1, <2>1, ContinuationsMove DEF One, Queued
  <2>3. (StartBegin(c) /\ mRunning) \/ AtRest
    <3>1. CASE StartBegin(c) /\ ~mRunning
      BY <3>1 DEF StartBegin, AtRest, Stopped, StopPhases, InStop
    <3>2. CASE StartPeer(c) \/ StartFails(c)
      BY <3>2 DEF StartPeer, StartFails, Goto, AtRest, Starting
    <3> QED BY <1>3, <3>1, <3>2 DEF Flags
  <2>4. CASE StartBegin(c) /\ mRunning
    <3>1. pc' = pc /\ mRunning' = mRunning /\ wasRunning' = wasRunning
      BY <2>4 DEF StartBegin, Goto, Places, locals
    <3> QED BY <1>2, <2>2, <3>1 DEF OnePumpInv, AtRest, Stopped
  <2> QED BY <1>2, <2>2, <2>3, <2>4 DEF OnePumpInv
<1>4. CASE ScheduleIoPump(c)
  <2>1. /\ Moves(c) /\ pc[c] \notin Continuing /\ pc'[c] \in Continuing
        /\ UNCHANGED <<pumpJobs, wakeups>> /\ pc[c] \in InStart
    <3>1. /\ pc[c] = "scheduleIo" /\ pc' = [pc EXCEPT ![c] = "schedule"]
          /\ ret' = [ret EXCEPT ![c] = "idle"] /\ UNCHANGED <<pumpJobs, wakeups>>
      BY <1>4 DEF ScheduleIoPump, Goto, queued
    <3> QED BY <1>1, <3>1 DEF Moves, Places, Continuing, InStart
  <2>2. Continuations' = Continuations + 1 /\ Continuations \in Nat
    BY <1>1, <2>1, ContinuationsMove DEF One, Queued
  <2>3. AtRest
    BY <1>4 DEF ScheduleIoPump, Goto, AtRest, Starting
  <2>4. mRunning' /\ pc'[c] \in InStart /\ pc'[c] \notin Starting
    BY <1>1, <1>4, <2>1 DEF ScheduleIoPump, Goto, Places, Receiving, InStart, Starting
  <2>5. \A d \in Callers \ {c} : pc'[d] \in Resting
    BY <2>4 DEF Receiving
  <2>6. ~AtRest'
    BY <2>4, <2>5 DEF AtRest, Stopped, Starting, Resting
  <2> QED BY <1>2, <2>2, <2>3, <2>6 DEF OnePumpInv
<1>5. CASE ScheduleStep(c)
  <2>1. Continuations \in Nat /\ Continuations' \in Nat /\ Continuations' <= Continuations
    BY <1>1, <1>5, ScheduleAddsNoPump
  <2>2. pc[c] \in InStart /\ mRunning' = mRunning
    BY <1>5 DEF ScheduleStep, ScheduleFlushPump, ClaimPump, CountJob, SubmitJob, UncountJob,
       Unschedule, Goto, Leave, InStart
  <2>3. mRunning /\ \A d \in Callers \ {c} : pc[d] \in Resting
    BY <2>2 DEF Receiving
  <2>4. \E to : pc' = [pc EXCEPT ![c] = to] /\ to \notin Starting
    BY <1>1, <1>5 DEF ScheduleStep, ScheduleFlushPump, ClaimPump, CountJob, SubmitJob, UncountJob,
       Unschedule, Goto, Leave, Starting
  <2>5. ~AtRest'
    BY <1>1, <2>2, <2>3, <2>4 DEF AtRest, Stopped, Starting, Places, Threads, Resting
  <2> QED BY <1>2, <2>1, <2>5 DEF OnePumpInv
<1> QED BY <1>3, <1>4, <1>5 DEF StartStep

LEMMA StopsStayStopped ==
    ASSUME SessionsInv, NEW c \in Callers, StopBegin(c) \/ StopStep(c),
           ~(StopReturn(c) /\ wasRunning[c])
    PROVE  Stopped' => Stopped
<1> USE DEF SessionsInv, StopInv, LifeInv, Shape
<1>1. CASE StopBegin(c)
  <2>1. /\ ~wasRunning[c] /\ wasRunning'[c] = mRunning
        /\ \A d \in Callers \ {c} : wasRunning'[d] = wasRunning[d]
    BY <1>1 DEF StopBegin, Goto, StopPhases, Flags, InStop
  <2> QED BY <2>1 DEF Stopped
<1>2. CASE StopStep(c)
  BY <1>2 DEF StopStep, StopRequest, StopJoin, StopWait, StopCollect, StopReturn, StopDisconnect,
     StopRemove, Stopped, Flags
<1> QED BY <1>1, <1>2

LEMMA StopsOnePump ==
    ASSUME SessionsInv, SessionsInv', OnePumpInv, NEW c \in Callers, StopBegin(c) \/ StopStep(c)
    PROVE  OnePumpInv'
<1> USE DEF SessionsInv, StopInv, LifeInv, Shape
<1>1. c \in Threads /\ "idle" \notin InStop
  BY DEF Threads, InStop
<1>2. UNCHANGED <<pumpJobs, wakeups, ret>> /\ (leftover => leftover')
  <2>1. Stays
    BY DEF StopBegin, StopStep, StopRequest, StopJoin, StopWait, StopCollect, StopReturn,
       StopDisconnect, StopRemove
  <2>2. CASE StopReturn(c)
    BY <2>1, <2>2 DEF StopReturn, Stays, queued
  <2>3. CASE ~StopReturn(c)
    <3>1. leftover' = leftover
      BY <2>3 DEF StopBegin, StopStep, StopRequest, StopJoin, StopWait, StopCollect,
         StopDisconnect, StopRemove
    <3> QED BY <2>1, <3>1 DEF Stays, queued
  <2> QED BY <2>2, <2>3
<1>3. \E to \in InStop \union {"idle"} : pc' = [pc EXCEPT ![c] = to]
  <2>1. CASE StopBegin(c)
    BY <2>1 DEF StopBegin, Goto, InStop
  <2>2. CASE StopRequest(c) \/ StopJoin(c) \/ StopWait(c) \/ StopCollect(c) \/ StopReturn(c)
    BY <2>2 DEF StopRequest, StopJoin, StopWait, StopCollect, StopReturn, Goto, InStop
  <2>3. CASE StopDisconnect(c) \/ StopRemove(c)
    <3>1. pc[c] \in InStop /\ (pc' = pc => pc' = [pc EXCEPT ![c] = pc[c]])
      BY <2>3 DEF StopDisconnect, StopRemove, Goto, InStop, Places
    <3> QED BY <2>3, <3>1 DEF StopDisconnect, StopRemove, Goto, InStop
  <2> QED BY <2>1, <2>2, <2>3 DEF StopStep
<1>4. pc[c] \in InStop \union {"idle"}
  BY DEF StopBegin, StopStep, StopRequest, StopJoin, StopWait, StopCollect, StopReturn,
     StopDisconnect, StopRemove, Goto, InStop
<1>5. \A p \in InStop \union {"idle"} : p \notin Continuing /\ p \notin Starting
  BY DEF InStop, Continuing, Starting
<1>6. Moves(c) /\ pc[c] \notin Continuing /\ pc'[c] \notin Continuing /\ pc'[c] \notin Starting
  BY <1>1, <1>2, <1>3, <1>4, <1>5 DEF Moves, Places
<1>7. Continuations' = Continuations /\ Continuations \in Nat
  BY <1>1, <1>2, <1>6, ContinuationsMove DEF One, Queued
<1>8. CASE StopReturn(c) /\ wasRunning[c]
  <2>1. ~leftover' => wakeups = 0 /\ InWakeup = {}
    <3>1. ~leftover' => ~(wakeups > 0) /\ InWakeup = {}
      BY <1>8, Zenon DEF StopReturn
    <3> QED BY <3>1 DEF Queued
  <2>2. /\ Past(PastJobs) /\ \A d \in Callers : pc[d] \notin InStart
    BY <1>8 DEF StopReturn, Goto, Past, PastJobs, PastWakeups, PastJoin, StopPhases, InStop
  <2>3. pumpJobs = 0 /\ InPump = {}
    BY <2>2 DEF Waited
  <2>4. InWakeup = {} => \A t \in Threads : pc[t] \notin Continuing
    <3>1. \A d \in Callers : pc[d] \notin Continuing
      BY <2>2 DEF Places, CallerStatements, ScheduleStatements, InStart, InStop, Continuing
    <3>2. ASSUME InWakeup = {}, NEW v \in PoolWorkers, pc[v] \in Continuing PROVE FALSE
      <4>1. pc[v] \in PumpStatements \/ pc[v] \in ScheduleStatements
        BY <3>2 DEF Continuing, PumpStatements, ScheduleStatements
      <4> QED BY <2>3, <3>2, <4>1 DEF InPump, InWakeup, Places, PumpStatements, Threads
    <3> QED BY <3>1, <3>2 DEF Threads
  <2>5. ~leftover' => Continuations = 0
    BY <1>7, <2>1, <2>3, <2>4, NobodyContinues
  <2> QED BY <1>7, <2>5 DEF OnePumpInv
<1>9. CASE ~(StopReturn(c) /\ wasRunning[c])
  <2>1. Stopped' => Stopped
    BY <1>9, StopsStayStopped
  <2>2. \A d \in Callers : pc'[d] \in Starting => pc[d] \in Starting
    BY <1>1, <1>3, <1>6 DEF Places, Threads
  <2> QED BY <1>2, <1>7, <2>1, <2>2 DEF OnePumpInv, AtRest
<1> QED BY <1>8, <1>9

(* disconnectClient has no part in the pump.                                *)
LEMMA DisconnectsOnePump ==
    ASSUME LifeInv, LifeInv', OnePumpInv, NEW c \in Callers, DisconnectStep(c)
    PROVE  OnePumpInv'
<1> USE DEF LifeInv, Shape
<1>1. /\ c \in Threads /\ Moves(c) /\ pc[c] \in Resting /\ pc'[c] \in Resting
      /\ \A t \in Threads \ {c} : pc'[t] = pc[t]
      /\ UNCHANGED <<mRunning, pumpJobs, wakeups, wasRunning, leftover>>
  BY DisconnectMoves DEF queued, history
<1>2. pc[c] \notin Continuing /\ pc'[c] \notin Continuing
  BY <1>1 DEF Resting, Continuing
<1>3. Continuations' = Continuations /\ Continuations \in Nat
  BY <1>1, <1>2, ContinuationsMove DEF One, Queued
<1>4. AtRest' => AtRest
  BY <1>1 DEF AtRest, Stopped, Starting, Resting, Threads
<1> QED BY <1>1, <1>3, <1>4 DEF OnePumpInv

LEMMA OnePumpNext == SessionsInv /\ OnePumpInv /\ [Next]_vars => OnePumpInv'
<1> SUFFICES ASSUME SessionsInv, OnePumpInv, [Next]_vars PROVE OnePumpInv'
  OBVIOUS
<1>1. SessionsInv'
  BY SessionsNext
<1>2. LifeInv /\ LifeInv' /\ Places /\ Clients
  BY <1>1 DEF SessionsInv, StopInv, LifeInv, Shape
<1>3. ASSUME NEW c \in Callers, StartBegin(c) \/ StartStep(c) \/ StopBegin(c) \/ StopStep(c)
      PROVE  OnePumpInv'
  BY <1>1, <1>3, StartsOnePump, StopsOnePump
<1>4. ASSUME NEW w \in PoolWorkers, ScheduleStep(w) \/ PumpStep(w) \/ TakeStep(w) \/ FlushSession(w)
      PROVE  OnePumpInv'
  <2>1. Backstage
    BY <1>2, <1>4, WorkersBackstage
  <2>2. Continuations \in Nat /\ Continuations' \in Nat /\ Continuations' <= Continuations
    BY <1>2, <1>4, ScheduleAddsNoPump, WorkersAddNoPump DEF Threads
  <2>3. leftover' = leftover
    BY <1>4 DEF ScheduleStep, ScheduleFlushPump, ClaimPump, CountJob, SubmitJob, UncountJob,
       Unschedule, PumpStep, FlushSession, DropFlag, EnqueueFlush, TickEnds, PumpAgain,
       CountWakeup, SubmitWakeup, JobDone, WakeupDone, CloseSession, CloseHeld, SessionTaskDone,
       TakeStep, TakeJob,
       TakeWakeup, TakeSessionTask, history
  <2>4. AtRest' <=> AtRest
    BY <2>1 DEF Backstage, AtRest, Stopped
  <2> QED BY <2>2, <2>3, <2>4 DEF OnePumpInv
<1>5. CASE IoStep \/ IoPacket \/ (\E s \in Sessions : IoNewConnection(s)) \/ ClosePool
           \/ UNCHANGED vars
  <2>1. Backstage
    BY <1>5, OthersBackstage
  <2>2. UNCHANGED <<pc, pumpJobs, wakeups, leftover>>
    BY <1>5 DEF IoStep, IoLoop, IoIdle, IoEnqueue, IoClose, IoUncount, IoPacket, IoNewConnection,
       ClosePool,
       queued, history, vars
  <2>3. Continuations' = Continuations
    BY <2>2, ContinuationsStay
  <2>4. AtRest' <=> AtRest
    BY <2>1 DEF Backstage, AtRest, Stopped
  <2> QED BY <2>2, <2>3, <2>4 DEF OnePumpInv
<1>6. ASSUME NEW c \in Callers, DisconnectStep(c) PROVE OnePumpInv'
  BY <1>2, <1>6, DisconnectsOnePump
<1> QED BY <1>3, <1>4, <1>5, <1>6 DEF Next, DisconnectStep

(* There is one pump, and it does not multiply, however often the system is *)
(* started: a start finds none, unless a stop before it left a wakeup       *)
(* behind (ServerNetworkSystem.cpp:632-635, 650-661).                       *)
THEOREM PumpIsOne == Spec => []OnePump
<1>1. Init => SessionsInv /\ OnePumpInv
  <2> SUFFICES ASSUME Init PROVE OnePumpInv
    BY SessionsInit
  <2>1. LifeInv
    BY LifeInit
  <2>2. At(Continuing) = {}
    <3>1. \A t \in Threads : pc[t] = "idle"
      BY DEF Init
    <3>2. "idle" \notin Continuing
      BY DEF Continuing
    <3> QED BY <3>1, <3>2 DEF At
  <2>3. Continuations = 0
    <3>1. Continuations = pumpJobs + wakeups + Cardinality(At(Continuing))
      BY DEF Continuations, Continuing
    <3>2. Cardinality(At(Continuing)) = 0
      BY <2>2, FS_EmptySet
    <3>3. pumpJobs = 0 /\ wakeups = 0
      BY DEF Init
    <3> QED BY <3>1, <3>2, <3>3
  <2> QED BY <2>3 DEF OnePumpInv
<1>2. SessionsInv /\ OnePumpInv /\ [Next]_vars => (SessionsInv /\ OnePumpInv)'
  BY SessionsNext, OnePumpNext
<1>3. OnePumpInv => OnePump
  BY DEF OnePumpInv, OnePump
<1> QED BY <1>1, <1>2, <1>3, PTL DEF Spec

-----------------------------------------------------------------------------
(* The pump is not lost: a thread that leaves it to a flag that is up       *)
(* leaves it to a job or a thread that will run it.  The flag says so; that *)
(* the one who put it up does run the pump is broken only by a pool that    *)
(* refuses, or by a start that fails while the pump is about to run.        *)
Refusing == {"uncountJob", "unschedule"}
FlagHeld == mFlushPumpScheduled =>
               pumpJobs > 0 \/ \E t \in Threads : pc[t] \in {"countJob", "submitJob", "uncountJob",
                   "unschedule", "tick", "dropFlag", "enqueueFlush", "uncountFlush"}
StoppedIsIdle == ~failedOver /\ Stopped =>
                    pumpJobs = 0 /\ \A t \in Threads : pc[t] \in Continuing => pc[t] = "schedule"
NoneDrops == ~failedOver /\ mRunning => \A t \in Threads : pc[t] # "dropFlag"
GoesOn == ~failedOver /\ ~refused /\ mRunning /\ poolOpen =>
             \/ pumpJobs > 0 \/ wakeups > 0
             \/ \E t \in Threads : pc[t] \in Continuing \union Starting \union Refusing
PumpKept == FlagHeld /\ StoppedIsIdle /\ NoneDrops /\ GoesOn

LEMMA StopsKeepPump ==
    ASSUME SessionsInv, PumpKept, NEW c \in Callers, StopBegin(c) \/ StopStep(c)
    PROVE  PumpKept'
<1> USE DEF SessionsInv, StopInv, LifeInv, Shape
<1>1. c \in Threads /\ "idle" \notin InStop
  BY DEF Threads, InStop
<1>2. UNCHANGED <<mFlushPumpScheduled, pumpJobs, wakeups, poolOpen, failedOver>>
  BY DEF StopBegin, StopStep, StopRequest, StopJoin, StopWait, StopCollect, StopReturn,
     StopDisconnect, StopRemove, Stays, queued
<1>3. mRunning' = FALSE
  <2>1. CASE StopBegin(c)
    BY <2>1 DEF StopBegin
  <2>2. CASE StopStep(c)
    <3>1. pc[c] \in InStop
      BY <2>2 DEF StopStep, StopRequest, StopJoin, StopWait, StopCollect, StopReturn,
         StopDisconnect, StopRemove, Goto, InStop
    <3>2. UNCHANGED mRunning
      BY <2>2 DEF StopStep, StopRequest, StopJoin, StopWait, StopCollect, StopReturn,
         StopDisconnect, StopRemove
    <3> QED BY <3>1, <3>2 DEF StopPhases, Flags
  <2> QED BY <2>1, <2>2
<1>4. pc[c] \in InStop \union {"idle"} /\ pc'[c] \in InStop \union {"idle"}
      /\ \A t \in Threads \ {c} : pc'[t] = pc[t]
  <2>1. CASE StopBegin(c)
    BY <1>1, <2>1 DEF StopBegin, Goto, Places, InStop
  <2>2. CASE StopRequest(c) \/ StopJoin(c) \/ StopWait(c) \/ StopCollect(c) \/ StopReturn(c)
    BY <1>1, <2>2 DEF StopRequest, StopJoin, StopWait, StopCollect, StopReturn, Goto, Places, InStop
  <2>3. CASE StopDisconnect(c) \/ StopRemove(c)
    BY <1>1, <2>3 DEF StopDisconnect, StopRemove, Goto, Places, InStop
  <2> QED BY <2>1, <2>2, <2>3 DEF StopStep
<1>5. \A p \in InStop \union {"idle"} : p \notin Continuing
  BY DEF InStop, Continuing
<1>7. FlagHeld'
  <2>1. \A p \in {"countJob", "submitJob", "uncountJob", "unschedule", "tick", "dropFlag",
                  "enqueueFlush", "uncountFlush"} : p \notin InStop \union {"idle"}
    BY DEF InStop
  <2> QED BY <1>2, <1>4, <2>1 DEF FlagHeld, PumpKept
<1>8. StoppedIsIdle'
  <2>1. CASE StopReturn(c) /\ wasRunning[c]
    <3>1. Past(PastJobs) /\ Past(PastWakeups) /\ \A d \in Callers : pc[d] \notin InStart
      BY <2>1 DEF StopReturn, Goto, Past, PastJobs, PastWakeups, PastJoin, StopPhases, InStop
    <3>2. /\ pumpJobs = 0 /\ InPump = {}
          /\ \A v \in PoolWorkers : ret[v] = "wakeupDone" => pc[v] = "schedule"
      BY <3>1 DEF Waited
    <3>3. \A d \in Callers : pc[d] \notin Continuing
      BY <3>1 DEF Places, CallerStatements, ScheduleStatements, InStart, InStop, Continuing
    <3>4. ASSUME NEW v \in PoolWorkers, pc[v] \in Continuing PROVE pc[v] = "schedule"
      <4>1. pc[v] \in PumpStatements \/ pc[v] \in ScheduleStatements
        BY <3>4 DEF Continuing, PumpStatements, ScheduleStatements
      <4> QED BY <3>2, <3>4, <4>1 DEF InPump, Places, PumpStatements, Threads
    <3> QED BY <1>2, <1>4, <1>5, <3>2, <3>3, <3>4 DEF StoppedIsIdle, Threads
  <2>2. CASE ~(StopReturn(c) /\ wasRunning[c])
    <3>1. Stopped' => Stopped
      BY <2>2, StopsStayStopped
    <3> QED BY <1>2, <1>4, <1>5, <3>1 DEF StoppedIsIdle, PumpKept
  <2> QED BY <2>1, <2>2
<1>9. NoneDrops' /\ GoesOn'
  BY <1>3 DEF NoneDrops, GoesOn
<1> QED BY <1>7, <1>8, <1>9 DEF PumpKept

LEMMA StartsKeepPump ==
    ASSUME SessionsInv, SessionsInv', PumpKept, NEW c \in Callers,
           StartBegin(c) \/ StartPeer(c) \/ StartFails(c) \/ ScheduleIoPump(c)
    PROVE  PumpKept'
<1> USE DEF SessionsInv, StopInv, LifeInv, Shape
<1>1. c \in Threads
  BY DEF Threads
<1>2. UNCHANGED <<mFlushPumpScheduled, pumpJobs, wakeups, poolOpen, wasRunning, refused>>
  BY DEF StartBegin, StartPeer, StartFails, ScheduleIoPump, peer, queued, locals, history
<1>3. PICK from \in {"idle", "startup", "startFails", "scheduleIo"},
           to \in {"idle", "startup", "startFails", "scheduleIo", "schedule"} :
           pc[c] = from /\ pc' = [pc EXCEPT ![c] = to]
  BY DEF StartBegin, StartPeer, StartFails, ScheduleIoPump, Goto
<1>4. /\ pc[c] = from /\ pc'[c] = to /\ \A t \in Threads \ {c} : pc'[t] = pc[t]
      /\ from \notin Continuing /\ from \notin Refusing /\ (to \in Continuing => to = "schedule")
  BY <1>1, <1>3 DEF Places, Continuing, Refusing
<1>5. FlagHeld'
  BY <1>1, <1>2, <1>4 DEF PumpKept, FlagHeld
<1>6. CASE StartBegin(c)
  <2>1. mRunning' = TRUE /\ failedOver' = failedOver
        /\ to = (IF mRunning THEN "idle" ELSE "startup") /\ from = "idle"
    BY <1>4, <1>6, <1>1 DEF StartBegin, Goto, Places
  <2>2. ~mRunning => Stopped
    BY <1>6 DEF StartBegin, Stopped, StopPhases, InStop
  <2>3. NoneDrops'
    <3>1. ~failedOver => \A t \in Threads : pc[t] # "dropFlag"
      BY <2>2 DEF PumpKept, NoneDrops, StoppedIsIdle, Continuing, Flags
    <3> QED BY <1>4, <2>1, <3>1 DEF NoneDrops
  <2>4. GoesOn'
    <3>1. CASE mRunning
      BY <1>2, <1>4, <2>1, <3>1 DEF PumpKept, GoesOn, Starting
    <3>2. CASE ~mRunning
      BY <1>1, <1>4, <2>1, <3>2 DEF GoesOn, Starting
    <3> QED BY <3>1, <3>2
  <2> QED BY <1>5, <2>1, <2>3, <2>4 DEF PumpKept, StoppedIsIdle, Stopped
<1>7. CASE StartPeer(c) \/ ScheduleIoPump(c)
  <2>1. mRunning' = mRunning /\ failedOver' = failedOver /\ from \in Starting /\ from \in InStart
    BY <1>3, <1>7 DEF StartPeer, ScheduleIoPump, Goto, Starting, InStart, history
  <2>2. mRunning /\ ~Stopped'
    BY <1>4, <2>1 DEF Receiving, Stopped
  <2>3. to \in Continuing \union Starting /\ to # "dropFlag"
    BY <1>1, <1>4, <1>7 DEF StartPeer, ScheduleIoPump, Goto, Starting, Continuing, Places
  <2> QED BY <1>1, <1>4, <1>5, <2>1, <2>2, <2>3 DEF PumpKept, StoppedIsIdle, NoneDrops, GoesOn
<1>8. CASE StartFails(c)
  <2>1. mRunning' = FALSE /\ to = "idle"
    BY <1>1, <1>4, <1>8 DEF StartFails, Goto, Places
  <2>2. ~failedOver' => pumpJobs = 0 /\ \A t \in Threads : pc[t] \notin Continuing
    <3>1. Continuations \in Nat
      BY <1>8, ContinuationsAreNumber
    <3>2. ~failedOver' => ~(Continuations > 0)
      BY <1>8, Zenon DEF StartFails
    <3>3. ~failedOver' => Continuations = 0
      BY <3>1, <3>2
    <3> QED BY <3>1, <3>3, NobodyContinues
  <2>3. StoppedIsIdle'
    BY <1>2, <1>4, <2>1, <2>2 DEF StoppedIsIdle, Continuing
  <2> QED BY <1>5, <2>1, <2>3 DEF PumpKept, NoneDrops, GoesOn
<1> QED BY <1>6, <1>7, <1>8

LEMMA SchedulesKeepPump ==
    ASSUME SessionsInv, PumpKept, NEW t \in Threads, ScheduleStep(t)
    PROVE  PumpKept'
<1> USE DEF SessionsInv, StopInv, LifeInv, Shape
<1>1. /\ UNCHANGED <<mRunning, poolOpen, wakeups, failedOver, wasRunning>>
      /\ refused' = refused \/ ClaimPump(t) \/ Unschedule(t)
  BY DEF ScheduleStep, ScheduleFlushPump, ClaimPump, CountJob, SubmitJob, UncountJob, Unschedule,
     queued, peer, history, locals
<1>2. ret[t] \in {"idle", "jobDone", "wakeupDone"} /\ mRunning \in BOOLEAN /\ pumpJobs \in Nat
  BY DEF Places, Flags, Queued
<1>3. \A from : Leave(t, from) => /\ pc[t] = from /\ pc'[t] \in {"idle", "jobDone", "wakeupDone"}
                                  /\ \A u \in Threads \ {t} : pc'[u] = pc[u]
  BY <1>2 DEF Leave, Goto, Places
<1>4. \A from, to : Goto(t, from, to) => /\ pc[t] = from /\ pc'[t] = to
                                         /\ \A u \in Threads \ {t} : pc'[u] = pc[u]
  BY DEF Goto, Places
<1> DEFINE Held == {"countJob", "submitJob", "uncountJob", "unschedule", "tick", "dropFlag",
                    "enqueueFlush", "uncountFlush"}
<1>5. /\ {"schedule", "cas", "countJob", "submitJob"} \subseteq Continuing
      /\ Held \ {"uncountJob", "unschedule"} \subseteq Continuing
      /\ {"idle", "jobDone", "wakeupDone", "uncountJob", "unschedule"} \intersect Continuing = {}
  BY DEF Continuing
<1>6. Stopped => ~mRunning
  BY DEF Stopped
<1>7. pc[t] \notin Starting
  BY DEF ScheduleStep, ScheduleFlushPump, ClaimPump, CountJob, SubmitJob, UncountJob, Unschedule,
     Leave, Goto, Starting
<1>8. Stopped' <=> Stopped
  BY <1>1 DEF Stopped
<1> USE DEF PumpKept, FlagHeld, StoppedIsIdle, NoneDrops, GoesOn, Refusing
<1>9. CASE ScheduleFlushPump(t)
  <2>1. UNCHANGED <<mFlushPumpScheduled, pumpJobs, refused>>
    BY <1>9 DEF ScheduleFlushPump, queued, history
  <2>2. /\ pc[t] = "schedule" /\ \A u \in Threads \ {t} : pc'[u] = pc[u]
        /\ mRunning => pc'[t] = "cas"
        /\ ~mRunning => pc'[t] \in {"idle", "jobDone", "wakeupDone"}
    BY <1>3, <1>4, <1>9 DEF ScheduleFlushPump
  <2> QED BY <1>1, <1>2, <1>5, <1>6, <1>7, <1>8, <2>1, <2>2
<1>10. CASE ClaimPump(t)
  <2>1. mFlushPumpScheduled' = TRUE /\ UNCHANGED pumpJobs
    BY <1>10 DEF ClaimPump, queued
  <2>2. /\ pc[t] = "cas" /\ \A u \in Threads \ {t} : pc'[u] = pc[u]
        /\ \/ /\ mFlushPumpScheduled /\ refused' = refused
              /\ pc'[t] \in {"idle", "jobDone", "wakeupDone"}
           \/ pc'[t] = "countJob"
    BY <1>3, <1>4, <1>10 DEF ClaimPump
  <2> QED BY <1>1, <1>2, <1>5, <1>6, <1>7, <1>8, <2>1, <2>2
<1>11. CASE CountJob(t) \/ UncountJob(t)
  <2>1. UNCHANGED <<mFlushPumpScheduled, pumpJobs, refused>>
    BY <1>11 DEF CountJob, UncountJob, queued, history
  <2>2. /\ \/ pc[t] = "countJob" /\ pc'[t] = "submitJob"
           \/ pc[t] = "uncountJob" /\ pc'[t] = "unschedule"
        /\ \A u \in Threads \ {t} : pc'[u] = pc[u]
    BY <1>4, <1>11 DEF CountJob, UncountJob
  <2> QED BY <1>1, <1>2, <1>5, <1>6, <1>7, <1>8, <2>1, <2>2
<1>12. CASE SubmitJob(t)
  <2>1. UNCHANGED <<mFlushPumpScheduled, refused>>
    BY <1>12 DEF SubmitJob, history
  <2>2. /\ pc[t] = "submitJob" /\ \A u \in Threads \ {t} : pc'[u] = pc[u]
        /\ \/ pumpJobs' = pumpJobs + 1 /\ pc'[t] \in {"idle", "jobDone", "wakeupDone"}
           \/ pumpJobs' = pumpJobs /\ pc'[t] = "uncountJob"
    BY <1>3, <1>4, <1>12 DEF SubmitJob
  <2> QED BY <1>1, <1>2, <1>5, <1>6, <1>7, <1>8, <2>1, <2>2
<1>13. CASE Unschedule(t)
  <2>1. mFlushPumpScheduled' = FALSE /\ refused' = TRUE /\ UNCHANGED pumpJobs
    BY <1>13 DEF Unschedule, queued
  <2>2. /\ pc[t] = "unschedule" /\ \A u \in Threads \ {t} : pc'[u] = pc[u]
        /\ pc'[t] \in {"idle", "jobDone", "wakeupDone"}
    BY <1>3, <1>13 DEF Unschedule
  <2> QED BY <1>1, <1>2, <1>5, <1>6, <1>7, <1>8, <2>1, <2>2
<1> QED BY <1>9, <1>10, <1>11, <1>12, <1>13 DEF ScheduleStep

LEMMA WorkersKeepPump ==
    ASSUME SessionsInv, PumpKept, NEW w \in PoolWorkers,
    PumpStep(w) \/ TakeStep(w) \/ FlushSession(w)
    PROVE  PumpKept'
<1> USE DEF SessionsInv, StopInv, LifeInv, Shape
<1>1. w \in Threads /\ w \notin Callers
  BY ThreadsAssumption DEF Threads
<1>2. UNCHANGED <<mRunning, poolOpen, failedOver, wasRunning, refused>>
  BY DEF PumpStep, FlushSession, DropFlag, EnqueueFlush, TickEnds, PumpAgain, CountWakeup,
     SubmitWakeup, JobDone, WakeupDone, CloseSession, CloseHeld, SessionTaskDone, TakeStep,
     TakeJob, TakeWakeup,
     TakeSessionTask, peer, history, locals
<1>3. mRunning \in BOOLEAN /\ pumpJobs \in Nat /\ wakeups \in Nat
  BY DEF Flags, Queued
<1>4. \A from, to : Goto(w, from, to) => /\ pc[w] = from /\ pc'[w] = to
                                         /\ \A u \in Threads \ {w} : pc'[u] = pc[u]
  BY <1>1 DEF Goto, Places
<1> DEFINE Held == {"countJob", "submitJob", "uncountJob", "unschedule", "tick", "dropFlag",
                    "enqueueFlush", "uncountFlush"}
<1>5. /\ {"schedule", "tick", "dropFlag", "enqueueFlush", "uncountFlush", "recheck",
          "countWakeup", "submitWakeup"} \subseteq Continuing
      /\ Held \ {"uncountJob", "unschedule"} \subseteq Continuing
      /\ {"idle", "jobDone", "wakeupDone", "closeSession", "sessionDone", "uncountWakeup"}
            \intersect Continuing = {}
  BY DEF Continuing
<1>6. pc[w] \notin Starting
  BY DEF Places, WorkerStatements, ScheduleStatements, PumpStatements, Starting
<1>7. (Stopped' <=> Stopped) /\ (Stopped => ~mRunning)
  BY <1>2 DEF Stopped
<1> USE DEF PumpKept, FlagHeld, StoppedIsIdle, NoneDrops, GoesOn, Refusing
<1>8. CASE TakeJob(w)
  <2>1. /\ pumpJobs > 0 /\ pumpJobs' = pumpJobs - 1
        /\ UNCHANGED <<mFlushPumpScheduled, wakeups>>
    BY <1>8 DEF TakeJob
  <2>2. /\ pc[w] = "idle" /\ \A u \in Threads \ {w} : pc'[u] = pc[u]
        /\ mRunning => pc'[w] = "tick"
        /\ ~mRunning => pc'[w] = "dropFlag"
    BY <1>4, <1>8 DEF TakeJob
  <2> QED BY <1>1, <1>2, <1>3, <1>5, <1>6, <1>7, <2>1, <2>2
<1>9. CASE TakeWakeup(w) \/ TakeSessionTask(w)
  <2>1. UNCHANGED <<mFlushPumpScheduled, pumpJobs>>
    BY <1>9 DEF TakeWakeup, TakeSessionTask
  <2>2. /\ pc[w] = "idle" /\ \A u \in Threads \ {w} : pc'[u] = pc[u]
        /\ \/ pc'[w] = "schedule"
           \/ pc'[w] \in {"closeSession", "sessionDone"} /\ wakeups' = wakeups
    BY <1>4, <1>9 DEF TakeWakeup, TakeSessionTask
  <2> QED BY <1>1, <1>2, <1>3, <1>5, <1>6, <1>7, <2>1, <2>2
<1>10. CASE DropFlag(w) \/ TickEnds(w)
  <2>1. mFlushPumpScheduled' = FALSE /\ UNCHANGED <<pumpJobs, wakeups>>
    BY <1>10 DEF DropFlag, TickEnds, queued
  <2>2. /\ \A u \in Threads \ {w} : pc'[u] = pc[u]
        /\ \/ pc[w] = "dropFlag" /\ pc'[w] = "jobDone"
           \/ pc[w] = "tick" /\ pc'[w] = "recheck"
    BY <1>4, <1>10 DEF DropFlag, TickEnds
  <2> QED BY <1>1, <1>2, <1>3, <1>5, <1>6, <1>7, <2>1, <2>2
<1>11. CASE \/ FlushSession(w) \/ EnqueueFlush(w) \/ CountWakeup(w) \/ JobDone(w)
            \/ WakeupDone(w) \/ CloseSession(w) \/ SessionTaskDone(w)
  <2>1. UNCHANGED <<mFlushPumpScheduled, pumpJobs, wakeups>>
    BY <1>11 DEF FlushSession, EnqueueFlush, CountWakeup, JobDone, WakeupDone, CloseSession,
       CloseHeld, SessionTaskDone, queued
  <2>2. /\ \A u \in Threads \ {w} : pc'[u] = pc[u]
        /\ \/ pc[w] \in {"tick", "enqueueFlush", "uncountFlush"}
              /\ pc'[w] \in {"enqueueFlush", "tick", "uncountFlush"}
           \/ pc[w] = "countWakeup" /\ pc'[w] = "submitWakeup"
           \/ pc[w] \in {"jobDone", "wakeupDone", "uncountWakeup", "closeSession", "sessionDone"}
              /\ pc'[w] \in {"idle", "jobDone", "sessionDone"}
    BY <1>4, <1>11 DEF FlushSession, EnqueueFlush, CountWakeup, JobDone, WakeupDone, CloseSession,
       CloseHeld, SessionTaskDone
  <2> QED BY <1>1, <1>2, <1>3, <1>5, <1>6, <1>7, <2>1, <2>2
<1>12. CASE PumpAgain(w)
  <2>1. UNCHANGED <<mFlushPumpScheduled, pumpJobs, wakeups>>
    BY <1>12 DEF PumpAgain, queued
  <2>2. /\ pc[w] = "recheck" /\ \A u \in Threads \ {w} : pc'[u] = pc[u]
        /\ \/ pc'[w] \in {"schedule", "countWakeup"}
           \/ ~mRunning /\ pc'[w] = "jobDone"
    BY <1>4, <1>12 DEF PumpAgain
  <2> QED BY <1>1, <1>2, <1>3, <1>5, <1>6, <1>7, <2>1, <2>2
<1>13. CASE SubmitWakeup(w)
  <2>1. UNCHANGED <<mFlushPumpScheduled, pumpJobs>>
    BY <1>13 DEF SubmitWakeup
  <2>2. /\ pc[w] = "submitWakeup" /\ \A u \in Threads \ {w} : pc'[u] = pc[u]
        /\ \/ pc'[w] = "jobDone" /\ wakeups' = wakeups + 1
           \/ ~poolOpen /\ pc'[w] = "uncountWakeup" /\ wakeups' = wakeups
    BY <1>4, <1>13 DEF SubmitWakeup
  <2> QED BY <1>1, <1>2, <1>3, <1>5, <1>6, <1>7, <2>1, <2>2
<1> QED BY <1>8, <1>9, <1>10, <1>11, <1>12, <1>13 DEF PumpStep, TakeStep

LEMMA OthersKeepPump ==
    ASSUME PumpKept, IoStep \/ IoPacket \/ (\E s \in Sessions : IoNewConnection(s)) \/ ClosePool
                     \/ UNCHANGED vars
    PROVE  PumpKept'
<1>1. /\ UNCHANGED <<mRunning, mFlushPumpScheduled, pumpJobs, wakeups, pc, failedOver, wasRunning,
                     refused>>
      /\ poolOpen' => poolOpen
  BY DEF IoStep, IoLoop, IoIdle, IoEnqueue, IoClose, IoUncount, IoPacket, IoNewConnection,
     ClosePool,
     queued, peer, history, locals, vars
<1> QED BY <1>1 DEF PumpKept, FlagHeld, StoppedIsIdle, Stopped, NoneDrops, GoesOn

LEMMA DisconnectsKeepPump ==
    ASSUME LifeInv, PumpKept, NEW c \in Callers, DisconnectStep(c)
    PROVE  PumpKept'
<1> USE DEF LifeInv, Shape
<1>1. /\ c \in Threads /\ pc[c] \in Resting /\ pc'[c] \in Resting
      /\ \A t \in Threads \ {c} : pc'[t] = pc[t]
      /\ UNCHANGED <<mRunning, mFlushPumpScheduled, pumpJobs, wakeups, poolOpen, failedOver,
                     refused, wasRunning>>
  BY DisconnectMoves DEF queued, peer, history
<1> QED BY <1>1 DEF PumpKept, FlagHeld, StoppedIsIdle, Stopped, NoneDrops, GoesOn, Resting,
        Continuing, Starting, Refusing

PumpInv == SessionsInv /\ PumpKept

LEMMA PumpNext == PumpInv /\ [Next]_vars => PumpInv'
<1> SUFFICES ASSUME PumpInv, [Next]_vars PROVE PumpInv'
  OBVIOUS
<1>1. SessionsInv'
  BY SessionsNext DEF PumpInv
<1>2. ASSUME NEW c \in Callers, StartBegin(c) \/ StartStep(c) \/ StopBegin(c) \/ StopStep(c)
      PROVE  PumpKept'
  BY <1>1, <1>2, StartsKeepPump, SchedulesKeepPump, StopsKeepPump DEF PumpInv, StartStep, Threads
<1>3. ASSUME NEW w \in PoolWorkers, ScheduleStep(w) \/ PumpStep(w) \/ TakeStep(w) \/ FlushSession(w)
      PROVE  PumpKept'
  BY <1>3, SchedulesKeepPump, WorkersKeepPump DEF PumpInv, Threads
<1>4. CASE IoStep \/ IoPacket \/ (\E s \in Sessions : IoNewConnection(s)) \/ ClosePool
           \/ UNCHANGED vars
  BY <1>1, <1>4, OthersKeepPump DEF PumpInv
<1>5. ASSUME NEW c \in Callers, DisconnectStep(c) PROVE PumpKept'
  BY <1>5, DisconnectsKeepPump DEF PumpInv, SessionsInv, StopInv
<1> QED BY <1>1, <1>2, <1>3, <1>4, <1>5 DEF Next, PumpInv, DisconnectStep

(* While the system runs on an open pool the flush pump is lost only when   *)
(* the pool refuses the job of the last thread that claimed it: otherwise   *)
(* some job, wakeup or thread will run it again, unless a start failed      *)
(* while a wakeup of the life before was about to                           *)
(* (ServerNetworkSystem.cpp:627-678).                                       *)
THEOREM PumpIsKept == Spec => []PumpNeverLost
<1>1. Init => PumpInv
  <2> SUFFICES ASSUME Init PROVE PumpKept
    BY SessionsInit DEF PumpInv
  <2>1. \A t \in Threads : pc[t] = "idle"
    BY DEF Init
  <2> QED BY <2>1 DEF Init, PumpKept, FlagHeld, StoppedIsIdle, NoneDrops, GoesOn, Continuing
<1>2. PumpInv => PumpNeverLost
  <2> SUFFICES ASSUME PumpInv, mRunning, poolOpen, ~failedOver, ~refused PROVE PumpNeverLost
    BY DEF PumpNeverLost
  <2>1. \/ pumpJobs > 0 \/ wakeups > 0
        \/ \E t \in Threads : pc[t] \in Continuing \union Starting \union Refusing
    BY DEF PumpInv, PumpKept, GoesOn
  <2>2. LifeInv /\ Continuations \in Nat
    BY ContinuationsAreNumber DEF PumpInv, SessionsInv, StopInv
  <2>3. CASE Continuations = 0
    BY <2>1, <2>2, <2>3, NobodyContinues DEF PumpNeverLost, At, Starting, Refusing
  <2> QED BY <2>2, <2>3 DEF PumpNeverLost
<1> QED BY <1>1, <1>2, PumpNext, PTL DEF Spec
=============================================================================
