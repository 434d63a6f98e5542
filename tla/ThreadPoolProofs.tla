--------------------------- MODULE ThreadPoolProofs ---------------------------
(***************************************************************************)
(* Theorems about ThreadPool, for any finite set of clients, any calls of  *)
(* stop, any number of workers, any delays and any bounds.                 *)
(***************************************************************************)
EXTENDS ThreadPool, Counting

-----------------------------------------------------------------------------
(* Types.  The job of a submission is its thread's own and is not accepted  *)
(* before the submission inserts it; mInFlightSubmissions is exact, hence a *)
(* number.                                                                  *)
Carrying(t) == sub[t] \in {"enter", "recheck", "choose", "insert"}

Requests ==
    /\ \A t \in Threads : Carrying(t) => \E n \in 1..calls : job[t] = <<t, n>>
    /\ \A t \in Threads : Carrying(t) => job[t] \notin accepted
    /\ accepted \subseteq Threads \X (1..calls)

Busy == {t \in Threads : InFlight(t)}

InFlightIsExact == mInFlightSubmissions = Cardinality(Busy)

PoolInv == TypeOK /\ Requests /\ InFlightIsExact

LEMMA ThreadsFinite == IsFiniteSet(Threads) /\ IsFiniteSet(Busy)
<1>1. IsFiniteSet(Workers)
  BY WorkersAssumption, FS_Interval DEF Workers
<1>2. IsFiniteSet(Threads)
  BY <1>1, ClientsAssumption, FS_Union DEF Threads
<1> QED BY <1>2, FS_Subset DEF Busy

InFlightStatements == {"recheck", "choose", "insert", "leave", "refuse"}

(* The number of submissions in flight changes by the thread that moves.    *)
LEMMA BusyMoves ==
    ASSUME TypeOK, NEW t \in Threads, NEW to, sub' = [sub EXCEPT ![t] = to]
    PROVE  /\ Cardinality(Busy) \in Nat /\ Cardinality(Busy)' \in Nat
           /\ Cardinality(Busy)' = Cardinality(Busy) + One(to \in InFlightStatements)
                                                     - One(sub[t] \in InFlightStatements)
           /\ sub[t] \in InFlightStatements => Cardinality(Busy) # 0
<1>1. \A u : u # t => (u \in Busy <=> u \in Busy')
  BY DEF TypeOK, Busy, InFlight
<1>2. /\ t \in Busy <=> sub[t] \in InFlightStatements
      /\ t \in Busy' <=> to \in InFlightStatements
  BY DEF TypeOK, Busy, InFlight, InFlightStatements
<1>3. /\ Cardinality(Busy) \in Nat /\ Cardinality(Busy') \in Nat
      /\ Cardinality(Busy') = Cardinality(Busy) + One(t \in Busy') - One(t \in Busy)
  BY <1>1, ThreadsFinite, CountMove
<1>4. sub[t] \in InFlightStatements => Cardinality(Busy) # 0
  BY <1>2, ThreadsFinite, CountZero
<1> QED BY <1>2, <1>3, <1>4 DEF One

LEMMA BusyStays ==
    ASSUME sub' = sub
    PROVE  Cardinality(Busy)' = Cardinality(Busy)
BY DEF Busy, InFlight

LEMMA WorkerNumbers == Workers \subseteq Nat /\ 0 \in Workers /\ Workers \subseteq Threads
BY WorkersAssumption DEF Workers, Threads

(* TypeOK in parts that one kind of step leaves alone.                      *)
PoolTypes ==
    /\ mAcceptingSubmissions \in BOOLEAN /\ mStopping \in BOOLEAN
    /\ mInFlightSubmissions \in Nat
    /\ mNextWorker \in Workers
HeapTypes ==
    /\ \A w \in Workers :
          mDelayedTasks[w] \subseteq [mDue : Nat, mSeq : Nat, mTask : Tasks]
    /\ DOMAIN mDelayedTasks = Workers
    /\ mDelayedSeq \in [Workers -> Nat]
QueueTypes ==
    /\ mTasks \in [Workers -> SUBSET Tasks]
    /\ mSignal \in [Workers -> Nat]
RequestTypes ==
    /\ sub \in [Threads -> {"none", "enter", "recheck", "choose", "insert",
                            "leave", "refuse", "signal"}]
    /\ job \in [Threads -> Tasks \union {NoTask}]
    /\ delay \in [Threads -> Delays \union {Immediately}]
    /\ target \in [Threads -> Workers]
WorkerTypes ==
    /\ loop \in [Workers -> {"immediate", "delayed", "run", "checkStop", "plan", "acquire",
                             "acquireFor", "lastImmediate", "lastDelayed", "exited"}]
    /\ resume \in [Workers -> {"immediate", "delayed", "lastImmediate", "lastDelayed"}]
    /\ current \in [Workers -> Tasks \union {NoTask}]
    /\ deadline \in [Workers -> Nat]
StopTypes ==
    /\ stop \in [Stoppers -> {"none", "wait", "set", "release", "done"}]
    /\ unreleased \subseteq Workers
CountTypes ==
    /\ now \in Nat
    /\ calls \in 0..MaxCalls
    /\ accepted \subseteq Tasks /\ executed \in [Tasks -> Nat]

LEMMA TypeParts ==
    TypeOK <=> /\ PoolTypes /\ HeapTypes /\ QueueTypes /\ RequestTypes
               /\ WorkerTypes /\ StopTypes /\ CountTypes
BY DEF TypeOK, PoolTypes, HeapTypes, QueueTypes, RequestTypes, WorkerTypes, StopTypes, CountTypes

LEMMA TypePartsNext ==
    TypeOK' <=> /\ PoolTypes' /\ HeapTypes' /\ QueueTypes' /\ RequestTypes'
                /\ WorkerTypes' /\ StopTypes' /\ CountTypes'
BY DEF TypeOK, PoolTypes, HeapTypes, QueueTypes, RequestTypes, WorkerTypes, StopTypes, CountTypes

LEMMA InitPool == Init => PoolInv
<1> SUFFICES ASSUME Init PROVE PoolInv
  OBVIOUS
<1>1. TypeOK
  <2>1. PoolTypes
    BY WorkerNumbers DEF Init, PoolTypes
  <2>2. HeapTypes /\ QueueTypes
    BY DEF Init, HeapTypes, QueueTypes
  <2>3. RequestTypes
    BY WorkerNumbers DEF Init, RequestTypes
  <2>4. WorkerTypes
    BY DEF Init, WorkerTypes
  <2>5. StopTypes /\ CountTypes
    BY CallsAssumption DEF Init, StopTypes, CountTypes
  <2> QED BY <2>1, <2>2, <2>3, <2>4, <2>5, TypeParts
<1>2. Requests
  BY DEF Init, Requests, Carrying
<1>3. Busy = {}
  BY DEF Init, Busy, InFlight
<1>4. InFlightIsExact
  BY <1>3, FS_EmptySet DEF Init, InFlightIsExact
<1> QED BY <1>1, <1>2, <1>4 DEF PoolInv

-----------------------------------------------------------------------------
(* Submissions (ThreadPool.hpp:101-178).                                    *)
LEMMA RequestsStay ==
    ASSUME PoolInv, UNCHANGED <<accepted, calls>>,
           \A u \in Threads : Carrying(u)' => Carrying(u) /\ job'[u] = job[u]
    PROVE  Requests'
BY DEF PoolInv, Requests

LEMMA SubmitBeginKeepsPool ==
    ASSUME PoolInv, NEW t \in Threads, NEW d \in Delays \union {Immediately}, SubmitBegin(t, d)
    PROVE  PoolInv'
<1>0. PICK to \in {"enter", "none"} : to = IF mAcceptingSubmissions THEN "enter" ELSE "none"
  OBVIOUS
<1>1. TypeOK /\ calls \in 0..MaxCalls /\ calls' = calls + 1 /\ calls' \in 0..MaxCalls
  BY CallsAssumption DEF PoolInv, TypeOK, SubmitBegin
<1>2. /\ sub[t] = "none" /\ sub' = [sub EXCEPT ![t] = to]
      /\ to = "enter" <=> mAcceptingSubmissions
      /\ mAcceptingSubmissions => job' = [job EXCEPT ![t] = <<t, calls + 1>>]
                                  /\ delay' = [delay EXCEPT ![t] = d]
      /\ ~mAcceptingSubmissions => UNCHANGED <<job, delay>>
      /\ UNCHANGED <<pool, queues, mSignal, target, worker, stopper, now, ghost>>
  BY <1>0 DEF SubmitBegin, Submission
<1>3. <<t, calls + 1>> \in Tasks
  BY <1>1, CallsAssumption DEF Tasks
<1>4. RequestTypes'
  BY <1>1, <1>2, <1>3 DEF TypeOK, RequestTypes
<1>5. TypeOK'
  <2>1. PoolTypes' /\ HeapTypes' /\ QueueTypes'
    BY <1>1, <1>2, TypeParts DEF PoolTypes, HeapTypes, QueueTypes, pool, queues
  <2>2. WorkerTypes' /\ StopTypes' /\ CountTypes'
    BY <1>1, <1>2, TypeParts DEF WorkerTypes, StopTypes, CountTypes, worker, stopper, ghost
  <2> QED BY <1>4, <2>1, <2>2, TypePartsNext
<1>6. Requests'
  <2>1. /\ accepted' = accepted
        /\ \A u \in Threads \ {t} : job'[u] = job[u] /\ (Carrying(u)' <=> Carrying(u))
    BY <1>1, <1>2 DEF TypeOK, Carrying, ghost
  <2>2. Carrying(t)' => job'[t] = <<t, calls + 1>>
    BY <1>1, <1>2 DEF TypeOK, Carrying
  <2>3. accepted \subseteq Threads \X (1..calls)
    BY DEF PoolInv, Requests
  <2>4. accepted \subseteq Threads \X (1..calls') /\ <<t, calls + 1>> \notin accepted
    BY <1>1, <2>3
  <2>5. \A u \in Threads : Carrying(u)' => \E n \in 1..calls' : job'[u] = <<u, n>>
    BY <1>1, <2>1, <2>2 DEF PoolInv, Requests
  <2> QED BY <2>1, <2>2, <2>4, <2>5 DEF PoolInv, Requests
<1>7. InFlightIsExact'
  <2>1. to \notin InFlightStatements /\ sub[t] \notin InFlightStatements
    BY <1>0, <1>2 DEF InFlightStatements
  <2>2. /\ Cardinality(Busy) \in Nat
        /\ Cardinality(Busy)' = Cardinality(Busy) + One(to \in InFlightStatements)
                                                  - One(sub[t] \in InFlightStatements)
    BY <1>1, <1>2, BusyMoves
  <2>3. Cardinality(Busy)' = Cardinality(Busy)
    BY <2>1, <2>2 DEF One
  <2> QED BY <1>2, <2>3 DEF PoolInv, InFlightIsExact, pool
<1> QED BY <1>5, <1>6, <1>7 DEF PoolInv

(* The other steps of a submission move between two of its statements.      *)
LEMMA SubmitMoves ==
    ASSUME PoolInv, NEW t \in Threads, SubmitStep(t)
    PROVE  \E from, to \in {"none", "enter", "recheck", "choose", "insert", "leave",
                            "refuse", "signal"} :
              /\ sub[t] = from /\ sub' = [sub EXCEPT ![t] = to]
              /\ to \in {"enter", "recheck", "choose", "insert"} =>
                    Carrying(t) /\ UNCHANGED <<job, accepted>>
              /\ accepted' = accepted \/ (Carrying(t) /\ accepted' = accepted \union {job[t]})
              /\ \A u \in Threads \ {t} : job'[u] = job[u]
              /\ mInFlightSubmissions' = mInFlightSubmissions
                    + One(to \in InFlightStatements) - One(from \in InFlightStatements)
              /\ UNCHANGED <<calls, worker, stopper, now, executed>>
              /\ UNCHANGED <<mAcceptingSubmissions, mStopping>>
<1> USE DEF Submission, Carrying, One, InFlightStatements, pool, queues, request, worker,
            stopper, ghost
<1>0. mInFlightSubmissions \in Nat /\ DOMAIN job = Threads
  BY DEF PoolInv, TypeOK
<1>1. CASE SubmitEnter(t)
  BY <1>0, <1>1 DEF SubmitEnter
<1>2. CASE SubmitRecheck(t)
  <2>1. CASE mAcceptingSubmissions
    BY <1>0, <1>2, <2>1 DEF SubmitRecheck
  <2>2. CASE ~mAcceptingSubmissions
    BY <1>0, <1>2, <2>2 DEF SubmitRecheck
  <2> QED BY <2>1, <2>2
<1>3. CASE SubmitChoose(t)
  BY <1>0, <1>3 DEF SubmitChoose
<1>4. CASE SubmitEnqueue(t) \/ SubmitPushHeap(t)
  BY <1>0, <1>4 DEF SubmitEnqueue, SubmitPushHeap
<1>5. CASE SubmitEnqueueFails(t)
  BY <1>0, <1>5 DEF SubmitEnqueueFails
<1>6. CASE SubmitLeave(t)
  BY <1>0, <1>6 DEF SubmitLeave, Forget
<1>7. CASE SubmitSignal(t)
  BY <1>0, <1>7 DEF SubmitSignal
<1> QED BY <1>1, <1>2, <1>3, <1>4, <1>5, <1>6, <1>7 DEF SubmitStep

LEMMA SubmitStepKeepsTypes ==
    ASSUME PoolInv, NEW t \in Threads, SubmitStep(t), mInFlightSubmissions' \in Nat,
           accepted' \subseteq Tasks
    PROVE  TypeOK'
<1> USE DEF Submission, pool, queues, request, worker, stopper, ghost
<1>0. /\ PoolTypes /\ HeapTypes /\ QueueTypes /\ RequestTypes /\ WorkerTypes
      /\ StopTypes /\ CountTypes
      /\ Carrying(t) => job[t] \in Tasks
  <2>1. TypeOK /\ Requests /\ calls \in 0..MaxCalls
    BY DEF PoolInv, TypeOK
  <2>2. 1..calls \subseteq 1..MaxCalls
    BY <2>1, CallsAssumption
  <2>3. Carrying(t) => job[t] \in Tasks
    BY <2>1, <2>2 DEF Requests, Tasks
  <2> QED BY <2>1, <2>3, TypeParts
<1>1. WorkerTypes' /\ StopTypes' /\ CountTypes'
  <2>1. UNCHANGED <<calls, worker, stopper, now, executed>>
    BY SubmitMoves
  <2>2. WorkerTypes'
    BY <1>0, <2>1 DEF WorkerTypes
  <2>3. StopTypes' /\ CountTypes'
    BY <1>0, <2>1 DEF StopTypes, CountTypes
  <2> QED BY <2>2, <2>3
<1>2. CASE SubmitEnter(t)
  <2>1. PoolTypes' /\ HeapTypes' /\ QueueTypes' /\ RequestTypes'
    BY <1>0, <1>2 DEF SubmitEnter, PoolTypes, HeapTypes, QueueTypes, RequestTypes
  <2> QED BY <1>1, <2>1, TypePartsNext
<1>3. CASE SubmitRecheck(t)
  <2>1. PoolTypes' /\ HeapTypes' /\ QueueTypes' /\ RequestTypes'
    BY <1>0, <1>3 DEF SubmitRecheck, PoolTypes, HeapTypes, QueueTypes, RequestTypes
  <2> QED BY <1>1, <2>1, TypePartsNext
<1>4. CASE SubmitChoose(t)
  <2>1. mNextWorker' \in Workers
    BY <1>0, <1>4, WorkersAssumption DEF SubmitChoose, PoolTypes, Workers
  <2>2. PoolTypes' /\ HeapTypes' /\ QueueTypes'
    BY <1>0, <1>4, <2>1 DEF SubmitChoose, PoolTypes, HeapTypes, QueueTypes
  <2>3. RequestTypes'
    BY <1>0, <1>4 DEF SubmitChoose, RequestTypes, PoolTypes
  <2> QED BY <1>1, <2>2, <2>3, TypePartsNext
<1>5. CASE SubmitEnqueue(t)
  <2>1. job[t] \in Tasks /\ target[t] \in Workers
    BY <1>0, <1>5 DEF SubmitEnqueue, Carrying, RequestTypes
  <2>2. QueueTypes'
    BY <1>0, <1>5, <2>1 DEF SubmitEnqueue, QueueTypes
  <2>3. PoolTypes' /\ HeapTypes' /\ RequestTypes'
    BY <1>0, <1>5 DEF SubmitEnqueue, PoolTypes, HeapTypes, RequestTypes
  <2> QED BY <1>1, <2>2, <2>3, TypePartsNext
<1>6. CASE SubmitEnqueueFails(t)
  <2>1. PoolTypes' /\ HeapTypes' /\ QueueTypes' /\ RequestTypes'
    BY <1>0, <1>6 DEF SubmitEnqueueFails, PoolTypes, HeapTypes, QueueTypes, RequestTypes
  <2> QED BY <1>1, <2>1, TypePartsNext
<1>7. CASE SubmitPushHeap(t)
  <2>1. /\ job[t] \in Tasks /\ target[t] \in Workers
        /\ now + delay[t] \in Nat /\ mDelayedSeq[target[t]] \in Nat
    <3>1. delay[t] \in Nat
      BY <1>0, <1>7, DelaysAssumption DEF SubmitPushHeap, RequestTypes
    <3> QED BY <1>0, <1>7, <3>1
            DEF SubmitPushHeap, Carrying, RequestTypes, CountTypes, HeapTypes
  <2>2. HeapTypes'
    <3> DEFINE w == target[t]
               entry == [mDue |-> now + delay[t], mSeq |-> mDelayedSeq[w], mTask |-> job[t]]
    <3>1. entry \in [mDue : Nat, mSeq : Nat, mTask : Tasks]
      BY <2>1
    <3>2. /\ mDelayedTasks' = [mDelayedTasks EXCEPT ![w] = @ \union {entry}]
          /\ mDelayedSeq' = [mDelayedSeq EXCEPT ![w] = @ + 1]
      BY <1>7 DEF SubmitPushHeap
    <3> HIDE DEF entry
    <3> QED BY <1>0, <2>1, <3>1, <3>2 DEF HeapTypes
  <2>3. PoolTypes' /\ QueueTypes' /\ RequestTypes'
    BY <1>0, <1>7 DEF SubmitPushHeap, PoolTypes, QueueTypes, RequestTypes
  <2> QED BY <1>1, <2>2, <2>3, TypePartsNext
<1>8. CASE SubmitLeave(t)
  <2>1. RequestTypes'
    BY <1>0, <1>8, WorkerNumbers DEF SubmitLeave, Forget, RequestTypes
  <2>2. PoolTypes' /\ HeapTypes' /\ QueueTypes'
    BY <1>0, <1>8 DEF SubmitLeave, PoolTypes, HeapTypes, QueueTypes
  <2> QED BY <1>1, <2>1, <2>2, TypePartsNext
<1>9. CASE SubmitSignal(t)
  <2>1. RequestTypes'
    BY <1>0, <1>9, WorkerNumbers DEF SubmitSignal, RequestTypes
  <2>2. QueueTypes'
    BY <1>0, <1>9 DEF SubmitSignal, QueueTypes, RequestTypes
  <2>3. PoolTypes' /\ HeapTypes'
    BY <1>0, <1>9 DEF SubmitSignal, PoolTypes, HeapTypes
  <2> QED BY <1>1, <2>1, <2>2, <2>3, TypePartsNext
<1> QED BY <1>2, <1>3, <1>4, <1>5, <1>6, <1>7, <1>8, <1>9 DEF SubmitStep

LEMMA SubmitStepKeepsPool ==
    ASSUME PoolInv, NEW t \in Threads, SubmitStep(t)
    PROVE  PoolInv'
<1>1. PICK from, to \in {"none", "enter", "recheck", "choose", "insert", "leave",
                         "refuse", "signal"} :
         /\ sub[t] = from /\ sub' = [sub EXCEPT ![t] = to]
         /\ to \in {"enter", "recheck", "choose", "insert"} =>
               Carrying(t) /\ UNCHANGED <<job, accepted>>
         /\ accepted' = accepted \/ (Carrying(t) /\ accepted' = accepted \union {job[t]})
         /\ \A u \in Threads \ {t} : job'[u] = job[u]
         /\ mInFlightSubmissions' = mInFlightSubmissions
               + One(to \in InFlightStatements) - One(from \in InFlightStatements)
         /\ UNCHANGED calls
  BY SubmitMoves
<1>2. TypeOK /\ Requests /\ InFlightIsExact
  BY DEF PoolInv
<1>3. InFlightIsExact' /\ mInFlightSubmissions' \in Nat
  <2>1. /\ Cardinality(Busy) \in Nat /\ Cardinality(Busy)' \in Nat
        /\ Cardinality(Busy)' = Cardinality(Busy) + One(to \in InFlightStatements)
                                                  - One(sub[t] \in InFlightStatements)
    BY <1>1, <1>2, BusyMoves
  <2> QED BY <1>1, <1>2, <2>1 DEF InFlightIsExact
<1>4. Requests'
  <2>1. \A u \in Threads \ {t} : job'[u] = job[u] /\ (Carrying(u)' <=> Carrying(u))
    BY <1>1, <1>2 DEF TypeOK, Carrying
  <2>2. Carrying(t)' => Carrying(t) /\ UNCHANGED <<job, accepted>>
    BY <1>1, <1>2 DEF TypeOK, Carrying
  <2>3. Carrying(t) => job[t] \in Threads \X (1..calls)
    BY <1>2 DEF Requests
  <2>4. accepted' \subseteq Threads \X (1..calls)
    BY <1>1, <1>2, <2>3 DEF Requests
  <2>5. \A u \in Threads : Carrying(u)' => \E n \in 1..calls : job'[u] = <<u, n>>
    BY <1>2, <2>1, <2>2 DEF Requests
  <2>6. \A u \in Threads \ {t} : Carrying(u) /\ Carrying(t) => job[u] # job[t]
    BY <1>2 DEF Requests
  <2>7. \A u \in Threads : Carrying(u)' => job'[u] \notin accepted'
    <3>1. \A u \in Threads \ {t} : Carrying(u)' => job'[u] \notin accepted'
      BY <1>1, <1>2, <2>1, <2>6 DEF Requests
    <3> QED BY <1>2, <2>2, <3>1 DEF Requests
  <2> QED BY <1>1, <2>4, <2>5, <2>7 DEF Requests
<1>5. accepted' \subseteq Tasks
  <2>1. calls \in 0..MaxCalls
    BY <1>2 DEF TypeOK
  <2> QED BY <1>1, <1>4, <2>1, CallsAssumption DEF Requests, Tasks
<1>6. TypeOK'
  BY <1>3, <1>5, SubmitStepKeepsTypes
<1> QED BY <1>3, <1>4, <1>6 DEF PoolInv

-----------------------------------------------------------------------------
(* Workers, stop and the clock (ThreadPool.cpp:37-144) touch no submission. *)
LEMMA OthersKeepPool ==
    ASSUME PoolInv, TypeOK',
           UNCHANGED <<sub, job, calls, accepted, mInFlightSubmissions>>
    PROVE  PoolInv'
<1>1. Requests'
  BY DEF PoolInv, Requests, Carrying
<1>2. InFlightIsExact'
  BY BusyStays DEF PoolInv, InFlightIsExact
<1> QED BY <1>1, <1>2 DEF PoolInv

LEMMA WorkerFrame ==
    ASSUME NEW w \in Workers, WorkerStep(w)
    PROVE  UNCHANGED <<pool, sub, request, stopper, now, accepted, mDelayedSeq>>
<1> USE DEF Run, queues, ghost
<1>1. CASE \E l \in {"immediate", "lastImmediate"} : DequeueImmediate(w, l)
  BY <1>1 DEF DequeueImmediate
<1>2. CASE \E l \in {"delayed", "lastDelayed"} : PopDelayed(w, l)
  BY <1>2 DEF PopDelayed
<1>3. CASE NoImmediate(w) \/ NoDelayed(w) \/ TaskReturns(w)
  BY <1>3 DEF NoImmediate, NoDelayed, TaskReturns
<1>4. CASE CheckStop(w) \/ PlanWait(w)
  BY <1>4 DEF CheckStop, PlanWait
<1>5. CASE Acquire(w) \/ AcquireTimeout(w)
  BY <1>5 DEF Acquire, AcquireTimeout
<1> QED BY <1>1, <1>2, <1>3, <1>4, <1>5 DEF WorkerStep

LEMMA RunTypes ==
    ASSUME WorkerTypes, CountTypes, NEW w \in Workers, NEW j \in Tasks,
           NEW l \in {"immediate", "delayed", "lastImmediate", "lastDelayed"}, Run(w, l, j)
    PROVE  WorkerTypes' /\ executed' \in [Tasks -> Nat]
BY DEF WorkerTypes, CountTypes, Run, Proceed

LEMMA WorkerStepKeepsTypes ==
    ASSUME TypeOK, NEW w \in Workers, WorkerStep(w)
    PROVE  TypeOK'
<1> USE DEF Proceed, queues, ghost
<1>0. /\ PoolTypes /\ HeapTypes /\ QueueTypes /\ RequestTypes /\ WorkerTypes
      /\ StopTypes /\ CountTypes
  BY TypeParts
<1>1. UNCHANGED <<pool, sub, request, stopper, now, accepted, mDelayedSeq>>
  BY WorkerFrame
<1>2. PoolTypes' /\ RequestTypes' /\ StopTypes'
  <2>1. PoolTypes' /\ StopTypes'
    BY <1>0, <1>1 DEF PoolTypes, StopTypes, pool, stopper
  <2>2. RequestTypes'
    BY <1>0, <1>1 DEF RequestTypes, request
  <2> QED BY <2>1, <2>2
<1>3. executed' \in [Tasks -> Nat] => CountTypes'
  BY <1>0, <1>1 DEF CountTypes, request
<1>4. UNCHANGED <<mDelayedTasks, mDelayedSeq>> => HeapTypes'
  BY <1>0 DEF HeapTypes
<1>5. UNCHANGED <<mTasks, mSignal>> => QueueTypes'
  BY <1>0 DEF QueueTypes
<1>6. executed \in [Tasks -> Nat]
  BY <1>0 DEF CountTypes
<1>7. CASE \E l \in {"immediate", "lastImmediate"} : DequeueImmediate(w, l)
  <2>1. PICK l \in {"immediate", "lastImmediate"}, j \in Oldest(w) :
           /\ Run(w, l, j) /\ mTasks' = [mTasks EXCEPT ![w] = @ \ {j}]
           /\ UNCHANGED <<mDelayedTasks, mSignal>>
    BY <1>7 DEF DequeueImmediate
  <2>2. j \in Tasks
    BY <1>0 DEF Oldest, QueueTypes
  <2>3. WorkerTypes' /\ executed' \in [Tasks -> Nat]
    BY <1>0, <2>1, <2>2, RunTypes
  <2>4. QueueTypes'
    BY <1>0, <2>1 DEF QueueTypes
  <2> QED BY <1>1, <1>2, <1>3, <1>4, <2>1, <2>3, <2>4, TypePartsNext
<1>8. CASE \E l \in {"delayed", "lastDelayed"} : PopDelayed(w, l)
  <2>1. PICK l \in {"delayed", "lastDelayed"}, e \in mDelayedTasks[w] :
           /\ Run(w, l, e.mTask) /\ mDelayedTasks' = [mDelayedTasks EXCEPT ![w] = @ \ {e}]
           /\ UNCHANGED <<mTasks, mSignal>>
    BY <1>8 DEF PopDelayed
  <2>2. e.mTask \in Tasks
    BY <1>0 DEF HeapTypes
  <2>3. WorkerTypes' /\ executed' \in [Tasks -> Nat]
    BY <1>0, <2>1, <2>2, RunTypes
  <2>4. HeapTypes'
    BY <1>0, <1>1, <2>1 DEF HeapTypes
  <2> QED BY <1>2, <1>3, <1>5, <2>1, <2>3, <2>4, TypePartsNext
<1>9. CASE NoImmediate(w) \/ NoDelayed(w) \/ TaskReturns(w) \/ CheckStop(w)
  <2>1. UNCHANGED <<mTasks, mSignal, mDelayedTasks, executed>>
    BY <1>9 DEF NoImmediate, NoDelayed, TaskReturns, CheckStop
  <2>2. WorkerTypes'
    <3>1. CASE NoImmediate(w)
      BY <1>0, <3>1 DEF NoImmediate, WorkerTypes
    <3>2. CASE NoDelayed(w)
      BY <1>0, <3>2 DEF NoDelayed, WorkerTypes
    <3>3. CASE TaskReturns(w)
      BY <1>0, <3>3 DEF TaskReturns, WorkerTypes
    <3>4. CASE CheckStop(w)
      BY <1>0, <3>4 DEF CheckStop, WorkerTypes
    <3> QED BY <1>9, <3>1, <3>2, <3>3, <3>4
  <2> QED BY <1>1, <1>2, <1>3, <1>4, <1>5, <1>6, <2>1, <2>2, TypePartsNext
<1>10. CASE PlanWait(w)
  <2>1. UNCHANGED <<mTasks, mSignal, mDelayedTasks, executed>>
    BY <1>10 DEF PlanWait
  <2>2. WorkerTypes'
    <3>1. CASE UNCHANGED deadline
      BY <1>0, <1>10, <3>1 DEF PlanWait, WorkerTypes
    <3>2. CASE ~UNCHANGED deadline
      <4>1. PICK e \in mDelayedTasks[w] :
               /\ Proceed(w, "plan", IF e.mDue > now THEN "acquireFor" ELSE "immediate")
               /\ deadline' = [deadline EXCEPT ![w] = IF e.mDue > now THEN e.mDue ELSE 0]
               /\ UNCHANGED <<resume, current>>
        BY <1>10, <3>2 DEF PlanWait
      <4>2. e.mDue \in Nat
        BY <1>0 DEF HeapTypes
      <4> QED BY <1>0, <4>1, <4>2 DEF WorkerTypes
    <3> QED BY <3>1, <3>2
  <2> QED BY <1>1, <1>2, <1>3, <1>4, <1>5, <1>6, <2>1, <2>2, TypePartsNext
<1>11. CASE Acquire(w)
  <2>1. UNCHANGED <<mTasks, mDelayedTasks, executed>>
    BY <1>11 DEF Acquire
  <2>2. WorkerTypes'
    BY <1>0, <1>11 DEF Acquire, WorkerTypes
  <2>3. QueueTypes'
    BY <1>0, <1>11, <2>1 DEF Acquire, QueueTypes
  <2> QED BY <1>1, <1>2, <1>3, <1>4, <1>6, <2>1, <2>2, <2>3, TypePartsNext
<1>12. CASE AcquireTimeout(w)
  <2>1. UNCHANGED <<mTasks, mSignal, mDelayedTasks, executed>>
    BY <1>12 DEF AcquireTimeout
  <2>2. WorkerTypes'
    BY <1>0, <1>12 DEF AcquireTimeout, WorkerTypes
  <2> QED BY <1>1, <1>2, <1>3, <1>4, <1>5, <1>6, <2>1, <2>2, TypePartsNext
<1> QED BY <1>7, <1>8, <1>9, <1>10, <1>11, <1>12 DEF WorkerStep

LEMMA StopKeepsTypes ==
    ASSUME TypeOK, NEW s \in Stoppers, StopBegin(s) \/ StopStep(s)
    PROVE  TypeOK' /\ UNCHANGED <<sub, job, calls, accepted, mInFlightSubmissions>>
<1> USE DEF Stopping, pool, queues, request, worker, ghost
<1>0. /\ PoolTypes /\ HeapTypes /\ QueueTypes /\ RequestTypes /\ WorkerTypes
      /\ StopTypes /\ CountTypes
  BY TypeParts
<1>1. /\ UNCHANGED <<queues, sub, request, worker, now, ghost>>
      /\ UNCHANGED <<mInFlightSubmissions, mNextWorker>>
  BY DEF StopBegin, StopStep, StopWait, StopSet, StopRelease
<1>2. HeapTypes' /\ RequestTypes' /\ WorkerTypes' /\ CountTypes'
  BY <1>0, <1>1 DEF HeapTypes, RequestTypes, WorkerTypes, CountTypes
<1>3. PoolTypes'
  BY <1>0 DEF PoolTypes, StopBegin, StopStep, StopWait, StopSet, StopRelease
<1>4. StopTypes'
  <2>1. CASE StopBegin(s)
    BY <1>0, <2>1 DEF StopBegin, StopTypes
  <2>2. CASE StopWait(s)
    BY <1>0, <2>2 DEF StopWait, StopTypes
  <2>3. CASE StopSet(s)
    BY <1>0, <2>3 DEF StopSet, StopTypes
  <2>4. CASE \E w \in Workers : StopRelease(s, w)
    BY <1>0, <2>4 DEF StopRelease, StopTypes
  <2> QED BY <2>1, <2>2, <2>3, <2>4 DEF StopStep
<1>5. QueueTypes'
  BY <1>0, <1>1 DEF QueueTypes, StopBegin, StopStep, StopWait, StopSet, StopRelease
<1> QED BY <1>1, <1>2, <1>3, <1>4, <1>5, TypePartsNext

LEMMA NextKeepsPool == PoolInv /\ [Next]_vars => PoolInv'
<1> SUFFICES ASSUME PoolInv, [Next]_vars PROVE PoolInv'
  OBVIOUS
<1>0. TypeOK
  BY DEF PoolInv
<1>1. CASE \E t \in Threads, d \in Delays \union {Immediately} : SubmitBegin(t, d)
  BY <1>1, SubmitBeginKeepsPool
<1>2. CASE \E t \in Threads : SubmitStep(t)
  BY <1>2, SubmitStepKeepsPool
<1>3. CASE \E w \in Workers : WorkerStep(w)
  <2>1. TypeOK' /\ UNCHANGED <<pool, sub, request, accepted>>
    BY <1>0, <1>3, WorkerStepKeepsTypes, WorkerFrame
  <2> QED BY <2>1, OthersKeepPool DEF pool, request
<1>4. CASE \E s \in Stoppers : StopBegin(s) \/ StopStep(s)
  BY <1>0, <1>4, StopKeepsTypes, OthersKeepPool
<1>5. CASE Tick
  <2>1. /\ now' \in Nat
        /\ UNCHANGED <<pool, queues, mSignal, sub, request, worker, stopper, ghost>>
    BY <1>0, <1>5 DEF Tick, TypeOK
  <2>2. TypeOK'
    BY <1>0, <2>1 DEF TypeOK, pool, queues, request, worker, stopper, ghost
  <2> QED BY <2>1, <2>2, OthersKeepPool DEF pool, request, ghost
<1>6. CASE UNCHANGED vars
  <2>1. TypeOK'
    BY <1>0, <1>6 DEF TypeOK, vars, pool, queues, request, worker, stopper, ghost
  <2> QED BY <1>6, <2>1, OthersKeepPool DEF vars, pool, request, ghost
<1> QED BY <1>1, <1>2, <1>3, <1>4, <1>5, <1>6 DEF Next

(* Every counter, queue and statement of the pool keeps its type; that no   *)
(* call leaves more often than it entered makes mInFlightSubmissions a      *)
(* number (ThreadPool.hpp:101-147).                                         *)
THEOREM TypeCorrect == Spec => []TypeOK
<1>1. PoolInv => TypeOK
  BY DEF PoolInv
<1> QED BY <1>1, InitPool, NextKeepsPool, PTL DEF Spec

-----------------------------------------------------------------------------
(* What stop may rely on.  A call of stop that waited saw nobody in flight  *)
(* after it had closed the pool; whoever counts itself later looks at       *)
(* mAcceptingSubmissions again.                                             *)
Closed == mStopping \/ \E s \in Stoppers : stop[s] \in {"wait", "set", "release"}
Waited == mStopping \/ \E s \in Stoppers : stop[s] \in {"set", "release"}

Inserting(t) == sub[t] \in {"choose", "insert", "leave"}

StopInv ==
    /\ PoolInv
    /\ Closed => ~mAcceptingSubmissions
    /\ Waited => \A t \in Threads : ~Inserting(t)

LEMMA InitStop == Init => StopInv
<1> SUFFICES ASSUME Init PROVE StopInv
  OBVIOUS
<1>1. ~Closed /\ ~Waited
  BY DEF Init, Closed, Waited
<1> QED BY <1>1, InitPool DEF StopInv

LEMMA SubmitStepKeepsStop ==
    ASSUME StopInv, PoolInv', NEW t \in Threads, SubmitStep(t)
    PROVE  StopInv'
<1>1. UNCHANGED <<stop, mStopping, mAcceptingSubmissions>>
  BY SubmitMoves DEF StopInv, stopper
<1>2. (Closed' <=> Closed) /\ (Waited' <=> Waited)
  BY <1>1 DEF Closed, Waited
<1>3. ASSUME Waited PROVE \A u \in Threads : ~Inserting(u)'
  <2>1. ~Inserting(t) /\ ~mAcceptingSubmissions
    BY <1>3 DEF StopInv, Closed, Waited
  <2>2. \E to : sub' = [sub EXCEPT ![t] = to] /\ to \in {"recheck", "refuse", "none"}
    BY <2>1 DEF Inserting, SubmitStep, Submission, SubmitEnter, SubmitRecheck, SubmitChoose,
                SubmitEnqueue, SubmitEnqueueFails, SubmitPushHeap, SubmitLeave, SubmitSignal
  <2>3. \A u \in Threads \ {t} : sub'[u] = sub[u]
    BY <2>2 DEF StopInv, PoolInv, TypeOK
  <2>4. ~Inserting(t)'
    BY <2>2 DEF StopInv, PoolInv, TypeOK, Inserting
  <2> QED BY <1>3, <2>3, <2>4 DEF StopInv, Inserting
<1> QED BY <1>1, <1>2, <1>3 DEF StopInv

LEMMA StopStepKeepsStop ==
    ASSUME StopInv, PoolInv', NEW s \in Stoppers, StopBegin(s) \/ StopStep(s)
    PROVE  StopInv'
<1> USE DEF Stopping, pool
<1>0. /\ stop \in [Stoppers -> {"none", "wait", "set", "release", "done"}]
      /\ sub' = sub
  <2>1. TypeOK
    BY DEF StopInv, PoolInv
  <2> QED BY <2>1, StopKeepsTypes DEF TypeOK
<1>1. CASE StopBegin(s)
  <2>1. /\ mAcceptingSubmissions' = FALSE /\ mStopping' = mStopping
        /\ \E to \in {"wait", "done"} : stop' = [stop EXCEPT ![s] = to]
    BY <1>1 DEF StopBegin
  <2>2. Waited' => Waited
    BY <1>0, <2>1 DEF Waited
  <2> QED BY <1>0, <2>1, <2>2 DEF StopInv, Inserting
<1>2. CASE StopWait(s)
  <2>1. /\ mInFlightSubmissions = 0 /\ UNCHANGED <<mAcceptingSubmissions, mStopping>>
        /\ stop[s] = "wait" /\ stop' = [stop EXCEPT ![s] = "set"]
    BY <1>2 DEF StopWait
  <2>2. Busy = {}
    BY <2>1, ThreadsFinite, CountZero DEF StopInv, PoolInv, InFlightIsExact
  <2>3. \A t \in Threads : ~Inserting(t)
    BY <2>2 DEF Busy, InFlight, Inserting
  <2>4. Closed
    BY <2>1 DEF Closed
  <2> QED BY <1>0, <2>1, <2>3, <2>4 DEF StopInv, Inserting
<1>3. CASE StopSet(s) \/ \E w \in Workers : StopRelease(s, w)
  <2>1. stop[s] \in {"set", "release"} /\ UNCHANGED mAcceptingSubmissions
    BY <1>3 DEF StopSet, StopRelease
  <2>2. Closed /\ Waited
    BY <2>1 DEF Closed, Waited
  <2> QED BY <1>0, <2>1, <2>2 DEF StopInv, Inserting
<1> QED BY <1>1, <1>2, <1>3 DEF StopStep

LEMMA NextKeepsStop == StopInv /\ [Next]_vars => StopInv'
<1> SUFFICES ASSUME StopInv, [Next]_vars PROVE StopInv'
  OBVIOUS
<1>0. PoolInv'
  BY NextKeepsPool DEF StopInv
<1>1. ASSUME UNCHANGED <<mAcceptingSubmissions, mStopping, stop, sub>> PROVE StopInv'
  BY <1>0, <1>1 DEF StopInv, Closed, Waited, Inserting
<1>2. CASE \E t \in Threads, d \in Delays \union {Immediately} : SubmitBegin(t, d)
  <2>1. PICK t \in Threads, d \in Delays \union {Immediately} : SubmitBegin(t, d)
    BY <1>2
  <2>2. /\ UNCHANGED <<mAcceptingSubmissions, mStopping, stop>>
        /\ \E to \in {"enter", "none"} : sub' = [sub EXCEPT ![t] = to]
    BY <2>1 DEF SubmitBegin, Submission, pool, stopper
  <2>3. \A u \in Threads : Inserting(u)' => Inserting(u)
    BY <2>2 DEF StopInv, PoolInv, TypeOK, Inserting
  <2> QED BY <1>0, <2>2, <2>3 DEF StopInv, Closed, Waited
<1>3. CASE \E t \in Threads : SubmitStep(t)
  BY <1>0, <1>3, SubmitStepKeepsStop
<1>4. CASE \E w \in Workers : WorkerStep(w)
  BY <1>1, <1>4, WorkerFrame DEF pool, stopper
<1>5. CASE \E s \in Stoppers : StopBegin(s) \/ StopStep(s)
  BY <1>0, <1>5, StopStepKeepsStop
<1>6. CASE Tick \/ UNCHANGED vars
  BY <1>1, <1>6 DEF Tick, vars, pool, stopper
<1> QED BY <1>2, <1>3, <1>4, <1>5, <1>6 DEF Next

(* stop does not set mStopping under a submission that may still insert:    *)
(* however many calls of submit, submitAfter and stop meet                  *)
(* (ThreadPool.hpp:112-119, ThreadPool.cpp:42-46).                          *)
THEOREM StopWaitsForSubmissions == Spec => []StopSeesNoSubmission
<1>1. StopInv => StopSeesNoSubmission
  BY DEF StopInv, StopSeesNoSubmission, Waited, Inserting
<1> QED BY <1>1, InitStop, NextKeepsStop, PTL DEF Spec

-----------------------------------------------------------------------------
(* Wakeups.  From the moment a worker found its queue empty until it sleeps *)
(* again, whatever arrives has a release of its semaphore on the way, and   *)
(* nobody but the worker takes one.                                         *)
Loop(w) == IF loop[w] = "run" THEN resume[w] ELSE loop[w]

Awake(w) ==
    \/ SignalComing(w)
    \/ /\ Loop(w) \in {"delayed", "checkStop", "plan", "acquire", "acquireFor"} => mTasks[w] = {}
       /\ loop[w] \in {"plan", "acquire", "acquireFor"} => ~mStopping
       /\ loop[w] = "acquire" => mDelayedTasks[w] = {}
       /\ loop[w] = "acquireFor" => NothingDueBefore(w, deadline[w])

AwakeInv == PoolInv /\ \A w \in Workers : Awake(w)

LEMMA InitAwake == Init => AwakeInv
<1> SUFFICES ASSUME Init PROVE AwakeInv
  OBVIOUS
<1>1. \A w \in Workers : Awake(w)
  BY DEF Init, Awake, Loop
<1> QED BY <1>1, InitPool DEF AwakeInv

(* What a submission brings a worker comes with a release of its semaphore. *)
LEMMA SubmitWakes ==
    ASSUME PoolInv, NEW t \in Threads, SubmitStep(t), NEW w \in Workers
    PROVE  \/ SignalComing(w)'
           \/ /\ ~SignalComing(w)
              /\ mTasks'[w] = mTasks[w] /\ mDelayedTasks'[w] = mDelayedTasks[w]
<1> USE DEF Submission, SignalComing, queues, request, stopper
<1>0. /\ DOMAIN sub = Threads /\ DOMAIN target = Threads /\ target[t] \in Workers
      /\ mSignal \in [Workers -> Nat]
      /\ DOMAIN mTasks = Workers /\ DOMAIN mDelayedTasks = Workers
  BY DEF PoolInv, TypeOK
<1>1. CASE SubmitEnter(t) \/ SubmitRecheck(t) \/ SubmitEnqueueFails(t)
  <2>1. /\ UNCHANGED <<mTasks, mDelayedTasks, mSignal, target, unreleased>>
        /\ sub[t] \in {"enter", "recheck", "insert"}
        /\ \E to : sub' = [sub EXCEPT ![t] = to]
    BY <1>1 DEF SubmitEnter, SubmitRecheck, SubmitEnqueueFails
  <2> QED BY <1>0, <2>1
<1>2. CASE SubmitChoose(t)
  <2>1. /\ UNCHANGED <<mTasks, mDelayedTasks, mSignal, unreleased>>
        /\ sub[t] = "choose"
        /\ sub' = [sub EXCEPT ![t] = "insert"]
        /\ \A u \in Threads \ {t} : target'[u] = target[u]
    BY <1>0, <1>2 DEF SubmitChoose
  <2> QED BY <1>0, <2>1
<1>3. CASE SubmitEnqueue(t) \/ SubmitPushHeap(t)
  <2>1. /\ UNCHANGED <<mSignal, target, unreleased>>
        /\ sub[t] = "insert" /\ sub' = [sub EXCEPT ![t] = "leave"]
    BY <1>3 DEF SubmitEnqueue, SubmitPushHeap
  <2>2. w # target[t] => mTasks'[w] = mTasks[w] /\ mDelayedTasks'[w] = mDelayedTasks[w]
    BY <1>0, <1>3 DEF SubmitEnqueue, SubmitPushHeap
  <2>3. w = target[t] => SignalComing(w)'
    BY <1>0, <2>1
  <2> QED BY <1>0, <2>1, <2>2, <2>3
<1>4. CASE SubmitLeave(t)
  <2>1. UNCHANGED <<mTasks, mDelayedTasks, mSignal, unreleased>>
    BY <1>4 DEF SubmitLeave
  <2>2. \/ sub[t] = "leave" /\ sub' = [sub EXCEPT ![t] = "signal"] /\ target' = target
        \/ /\ sub[t] = "refuse" /\ sub' = [sub EXCEPT ![t] = "none"]
           /\ \A u \in Threads \ {t} : target'[u] = target[u]
    BY <1>0, <1>4 DEF SubmitLeave
  <2> QED BY <1>0, <2>1, <2>2
<1>5. CASE SubmitSignal(t)
  <2>1. /\ UNCHANGED <<mTasks, mDelayedTasks, unreleased>>
        /\ sub[t] = "signal" /\ sub' = [sub EXCEPT ![t] = "none"]
        /\ mSignal' = [mSignal EXCEPT ![target[t]] = @ + 1]
        /\ \A u \in Threads \ {t} : target'[u] = target[u]
    BY <1>0, <1>5 DEF SubmitSignal
  <2>2. w = target[t] => mSignal'[w] > 0
    BY <1>0, <2>1
  <2>3. mSignal[w] > 0 => mSignal'[w] > 0
    BY <1>0, <2>1
  <2>4. \A u \in Threads \ {t} : sub'[u] = sub[u]
    BY <1>0, <2>1
  <2> QED BY <1>0, <2>1, <2>2, <2>3, <2>4
<1> QED BY <1>1, <1>2, <1>3, <1>4, <1>5 DEF SubmitStep

LEMMA SubmitStepKeepsAwake ==
    ASSUME AwakeInv, NEW t \in Threads, SubmitStep(t), NEW w \in Workers
    PROVE  Awake(w)'
<1>1. UNCHANGED <<worker, now, mStopping>>
  BY SubmitMoves DEF AwakeInv
<1>2. CASE SignalComing(w)'
  BY <1>2 DEF Awake
<1>3. CASE ~SignalComing(w)'
  <2>1. /\ ~SignalComing(w)
        /\ mTasks'[w] = mTasks[w] /\ mDelayedTasks'[w] = mDelayedTasks[w]
    BY <1>3, SubmitWakes DEF AwakeInv
  <2> QED BY <1>1, <2>1 DEF AwakeInv, Awake, Loop, NothingDueBefore, worker
<1> QED BY <1>2, <1>3

(* A worker's own step leaves the other workers as they are.                *)
LEMMA WorkerStepElsewhere ==
    ASSUME TypeOK, NEW w \in Workers, WorkerStep(w), NEW v \in Workers, v # w
    PROVE  /\ mTasks'[v] = mTasks[v] /\ mDelayedTasks'[v] = mDelayedTasks[v]
           /\ mSignal'[v] = mSignal[v] /\ loop'[v] = loop[v]
           /\ resume'[v] = resume[v] /\ deadline'[v] = deadline[v]
<1> USE DEF Run, Proceed, queues, ghost
<1>0. /\ DOMAIN mTasks = Workers /\ DOMAIN mDelayedTasks = Workers /\ DOMAIN mSignal = Workers
      /\ DOMAIN loop = Workers /\ DOMAIN resume = Workers /\ DOMAIN deadline = Workers
  BY DEF TypeOK
<1>1. CASE \E l \in {"immediate", "lastImmediate"} : DequeueImmediate(w, l)
  BY <1>0, <1>1 DEF DequeueImmediate
<1>2. CASE \E l \in {"delayed", "lastDelayed"} : PopDelayed(w, l)
  BY <1>0, <1>2 DEF PopDelayed
<1>3. CASE NoImmediate(w) \/ NoDelayed(w) \/ TaskReturns(w)
  BY <1>0, <1>3 DEF NoImmediate, NoDelayed, TaskReturns
<1>4. CASE CheckStop(w) \/ PlanWait(w)
  BY <1>0, <1>4 DEF CheckStop, PlanWait
<1>5. CASE Acquire(w) \/ AcquireTimeout(w)
  BY <1>0, <1>5 DEF Acquire, AcquireTimeout
<1> QED BY <1>1, <1>2, <1>3, <1>4, <1>5 DEF WorkerStep

(* Only Acquire takes a signal.                                             *)
LEMMA WorkerStepSignal ==
    ASSUME NEW w \in Workers, WorkerStep(w), ~Acquire(w)
    PROVE  mSignal' = mSignal
BY DEF WorkerStep, DequeueImmediate, PopDelayed, NoImmediate, NoDelayed, TaskReturns,
       CheckStop, PlanWait, AcquireTimeout

LEMMA WorkerStepKeepsAwake ==
    ASSUME AwakeInv, NEW w \in Workers, WorkerStep(w)
    PROVE  Awake(w)'
<1> USE DEF Proceed, queues, Loop
<1>0. /\ DOMAIN loop = Workers /\ DOMAIN resume = Workers /\ DOMAIN mTasks = Workers
      /\ DOMAIN mDelayedTasks = Workers /\ deadline \in [Workers -> Nat]
      /\ mDelayedTasks[w] \subseteq [mDue : Nat, mSeq : Nat, mTask : Tasks]
      /\ resume[w] \in {"immediate", "delayed", "lastImmediate", "lastDelayed"}
      /\ now \in Nat
  BY DEF AwakeInv, PoolInv, TypeOK
<1>1. /\ UNCHANGED <<mStopping, sub, target, unreleased, now>>
  BY WorkerFrame DEF pool, request, stopper
<1>2. CASE Acquire(w)
  <2>1. loop'[w] = "immediate"
    BY <1>0, <1>2 DEF Acquire
  <2> QED BY <2>1 DEF Awake
<1>3. CASE ~Acquire(w)
  <2>1. SignalComing(w)' <=> SignalComing(w)
    BY <1>1, <1>3, WorkerStepSignal DEF SignalComing
  <2>2. CASE SignalComing(w)
    BY <2>1, <2>2 DEF Awake
  <2>3. CASE ~SignalComing(w)
    <3>0. Awake(w) /\ ~SignalComing(w)
      BY <2>3 DEF AwakeInv
    <3>1. CASE \E l \in {"immediate", "lastImmediate"} : DequeueImmediate(w, l)
      <4>1. loop'[w] = "run" /\ resume'[w] \in {"immediate", "lastImmediate"}
        BY <1>0, <3>1 DEF DequeueImmediate, Run
      <4> QED BY <4>1 DEF Awake
    <3>2. CASE \E l \in {"delayed", "lastDelayed"} : PopDelayed(w, l)
      <4>1. /\ loop'[w] = "run" /\ resume'[w] = loop[w] /\ mTasks' = mTasks
            /\ loop[w] \in {"delayed", "lastDelayed"}
        BY <1>0, <3>2 DEF PopDelayed, Run
      <4> QED BY <3>0, <4>1 DEF Awake
    <3>3. CASE NoImmediate(w)
      <4>1. mTasks'[w] = {} /\ loop'[w] \in {"delayed", "lastDelayed"}
        BY <1>0, <3>3 DEF NoImmediate
      <4> QED BY <4>1 DEF Awake
    <3>4. CASE NoDelayed(w)
      <4>1. \/ loop[w] = "delayed" /\ loop'[w] = "checkStop" /\ mTasks' = mTasks
            \/ loop'[w] = "exited"
        BY <1>0, <3>4 DEF NoDelayed
      <4> QED BY <3>0, <4>1 DEF Awake
    <3>5. CASE TaskReturns(w)
      <4>1. loop[w] = "run" /\ loop'[w] = resume[w] /\ mTasks' = mTasks
        BY <1>0, <3>5 DEF TaskReturns
      <4> QED BY <1>0, <3>0, <4>1 DEF Awake
    <3>6. CASE CheckStop(w)
      <4>1. /\ loop[w] = "checkStop" /\ mTasks' = mTasks
            /\ \/ loop'[w] = "lastImmediate"
               \/ loop'[w] = "plan" /\ ~mStopping
        BY <1>0, <3>6 DEF CheckStop
      <4> QED BY <1>1, <3>0, <4>1 DEF Awake
    <3>7. CASE PlanWait(w)
      <4>1. /\ loop[w] = "plan" /\ mTasks' = mTasks /\ mDelayedTasks' = mDelayedTasks
            /\ \/ loop'[w] = "immediate"
               \/ loop'[w] = "acquire" /\ mDelayedTasks[w] = {}
               \/ /\ loop'[w] = "acquireFor"
                  /\ \E e \in mDelayedTasks[w] : IsFront(w, e) /\ deadline'[w] = e.mDue
        BY <1>0, <3>7 DEF PlanWait
      <4>2. \A e, f \in mDelayedTasks[w] : IsFront(w, e) => f.mDue >= e.mDue
        BY <1>0 DEF IsFront
      <4>3. loop'[w] = "acquireFor" => NothingDueBefore(w, deadline[w])'
        BY <4>1, <4>2 DEF NothingDueBefore
      <4> QED BY <1>1, <3>0, <4>1, <4>3 DEF Awake
    <3>8. CASE AcquireTimeout(w)
      <4>1. loop'[w] = "immediate"
        BY <1>0, <3>8 DEF AcquireTimeout
      <4> QED BY <4>1 DEF Awake
    <3> QED BY <1>3, <3>1, <3>2, <3>3, <3>4, <3>5, <3>6, <3>7, <3>8 DEF WorkerStep
  <2> QED BY <2>2, <2>3
<1> QED BY <1>2, <1>3

LEMMA StopKeepsAwake ==
    ASSUME AwakeInv, NEW s \in Stoppers, StopBegin(s) \/ StopStep(s), NEW w \in Workers
    PROVE  Awake(w)'
<1> USE DEF Stopping, pool, request, worker, queues
<1>0. mSignal \in [Workers -> Nat]
  BY DEF AwakeInv, PoolInv, TypeOK
<1>1. UNCHANGED <<mTasks, mDelayedTasks, sub, target, worker, now>>
  BY DEF StopBegin, StopStep, StopWait, StopSet, StopRelease
<1>2. SignalComing(w) => SignalComing(w)'
  <2>1. CASE StopBegin(s) \/ StopWait(s)
    BY <1>1, <2>1 DEF StopBegin, StopWait, SignalComing
  <2>2. CASE StopSet(s)
    BY <1>1, <2>2 DEF StopSet, SignalComing
  <2>3. CASE \E v \in Workers : StopRelease(s, v)
    BY <1>0, <1>1, <2>3 DEF StopRelease, SignalComing
  <2> QED BY <2>1, <2>2, <2>3 DEF StopStep
<1>3. mStopping' = mStopping \/ SignalComing(w)'
  BY DEF StopBegin, StopStep, StopWait, StopSet, StopRelease, SignalComing
<1>4. Awake(w)
  BY DEF AwakeInv
<1> QED BY <1>1, <1>2, <1>3, <1>4 DEF Awake, Loop, NothingDueBefore

LEMMA NextKeepsAwake == AwakeInv /\ [Next]_vars => AwakeInv'
<1> SUFFICES ASSUME AwakeInv, [Next]_vars PROVE AwakeInv'
  OBVIOUS
<1>0. PoolInv' /\ TypeOK
  BY NextKeepsPool DEF AwakeInv, PoolInv
<1>1. ASSUME UNCHANGED <<mTasks, mDelayedTasks, loop, resume, deadline, mStopping>>,
             NEW w \in Workers, SignalComing(w) => SignalComing(w)'
      PROVE  Awake(w)'
  BY <1>1 DEF AwakeInv, Awake, Loop, NothingDueBefore
<1>2. CASE \E t \in Threads, d \in Delays \union {Immediately} : SubmitBegin(t, d)
  <2>1. PICK t \in Threads, d \in Delays \union {Immediately} : SubmitBegin(t, d)
    BY <1>2
  <2>2. /\ UNCHANGED <<mTasks, mDelayedTasks, loop, resume, deadline, mStopping>>
        /\ UNCHANGED <<mSignal, target, unreleased>>
        /\ sub[t] = "none" /\ \E to : sub' = [sub EXCEPT ![t] = to]
    BY <2>1 DEF SubmitBegin, Submission, pool, queues, worker, stopper
  <2>3. \A w \in Workers : SignalComing(w) => SignalComing(w)'
    BY <1>0, <2>2 DEF TypeOK, SignalComing
  <2>4. \A w \in Workers : Awake(w)'
    BY <1>1, <2>2, <2>3
  <2> QED BY <1>0, <2>4 DEF AwakeInv
<1>3. CASE \E t \in Threads : SubmitStep(t)
  BY <1>0, <1>3, SubmitStepKeepsAwake DEF AwakeInv
<1>4. CASE \E w \in Workers : WorkerStep(w)
  <2>1. PICK w \in Workers : WorkerStep(w)
    BY <1>4
  <2>2. UNCHANGED <<mStopping, sub, target, unreleased>>
    BY <2>1, WorkerFrame DEF pool, request, stopper
  <2>3. \A v \in Workers \ {w} : Awake(v)'
    <3>1. \A v \in Workers \ {w} :
             /\ mTasks'[v] = mTasks[v] /\ mDelayedTasks'[v] = mDelayedTasks[v]
             /\ mSignal'[v] = mSignal[v] /\ loop'[v] = loop[v]
             /\ resume'[v] = resume[v] /\ deadline'[v] = deadline[v]
      BY <1>0, <2>1, WorkerStepElsewhere
    <3>2. \A v \in Workers \ {w} : SignalComing(v)' <=> SignalComing(v)
      BY <2>2, <3>1 DEF SignalComing
    <3> QED BY <2>2, <3>1, <3>2 DEF AwakeInv, Awake, Loop, NothingDueBefore
  <2> QED BY <1>0, <2>1, <2>3, WorkerStepKeepsAwake DEF AwakeInv
<1>5. CASE \E s \in Stoppers : StopBegin(s) \/ StopStep(s)
  BY <1>0, <1>5, StopKeepsAwake DEF AwakeInv
<1>6. CASE Tick \/ UNCHANGED vars
  <2>1. /\ UNCHANGED <<mTasks, mDelayedTasks, loop, resume, deadline, mStopping>>
        /\ UNCHANGED <<sub, mSignal, target, unreleased>>
    BY <1>6 DEF Tick, vars, pool, queues, request, worker, stopper
  <2>2. \A w \in Workers : SignalComing(w) => SignalComing(w)'
    BY <2>1 DEF SignalComing
  <2>3. \A w \in Workers : Awake(w)'
    BY <1>1, <2>1, <2>2
  <2> QED BY <1>0, <2>3 DEF AwakeInv
<1> QED BY <1>2, <1>3, <1>4, <1>5, <1>6 DEF Next

(* No wakeup is lost between the look at queue, heap and mStopping and the  *)
(* sleep, whoever submits or stops meanwhile (ThreadPool.hpp:143,           *)
(* ThreadPool.cpp:52-54, 91-144).                                           *)
THEOREM NobodySleepsOnWork == Spec => []NoSleepOnWork
<1>1. AwakeInv => NoSleepOnWork
  BY DEF AwakeInv, Awake, Loop, NoSleepOnWork
<1> QED BY <1>1, InitAwake, NextKeepsAwake, PTL DEF Spec

-----------------------------------------------------------------------------
(* Tasks.  Every accepted task that has not begun is in one queue or heap,  *)
(* once; a worker in its last pass leaves nothing behind.                   *)
InHeap(w, j) == \E e \in mDelayedTasks[w] : e.mTask = j
Holds(w, j) == j \in mTasks[w] \/ InHeap(w, j)

Conserved ==
    /\ \A j \in Tasks : executed[j] # 0 => j \in accepted
    /\ \A j \in accepted : executed[j] # 0 \/ \E w \in Workers : Holds(w, j)
    /\ \A w \in Workers, j \in Tasks : Holds(w, j) => j \in accepted /\ executed[j] = 0
    /\ \A w, v \in Workers, j \in Tasks : Holds(w, j) /\ Holds(v, j) => w = v
    /\ \A w \in Workers, j \in Tasks : ~(j \in mTasks[w] /\ InHeap(w, j))
    /\ \A w \in Workers : \A e, f \in mDelayedTasks[w] : e.mTask = f.mTask => e = f

LastPass ==
    \A w \in Workers :
       /\ Loop(w) \in {"lastImmediate", "lastDelayed", "exited"} => mStopping
       /\ Loop(w) \in {"lastDelayed", "exited"} => mTasks[w] = {}
       /\ Loop(w) = "exited" => mDelayedTasks[w] = {}

ServiceInv == StopInv /\ Conserved /\ LastPass

LEMMA InitService == Init => ServiceInv
<1> SUFFICES ASSUME Init PROVE ServiceInv
  OBVIOUS
<1>1. Conserved
  BY DEF Init, Conserved, Holds, InHeap
<1>2. LastPass
  BY DEF Init, LastPass, Loop
<1> QED BY <1>1, <1>2, InitStop DEF ServiceInv

(* A task that nobody accepted yet goes into one queue or heap.             *)
LEMMA InsertKeepsTasks ==
    ASSUME TypeOK, Conserved, NEW w \in Workers, NEW j \in Tasks, j \notin accepted,
           accepted' = accepted \union {j}, executed' = executed,
           \/ mTasks' = [mTasks EXCEPT ![w] = @ \union {j}] /\ mDelayedTasks' = mDelayedTasks
           \/ \E e : /\ e.mTask = j /\ mTasks' = mTasks
                     /\ mDelayedTasks' = [mDelayedTasks EXCEPT ![w] = @ \union {e}]
    PROVE  Conserved'
<1>0. DOMAIN mTasks = Workers /\ DOMAIN mDelayedTasks = Workers
  BY DEF TypeOK
<1>1. \A v \in Workers : ~Holds(v, j)
  BY DEF Conserved
<1>2. \A v \in Workers, k \in Tasks : Holds(v, k)' <=> Holds(v, k) \/ (v = w /\ k = j)
  BY <1>0 DEF Holds, InHeap
<1>3. /\ \A k \in Tasks : executed'[k] # 0 => k \in accepted'
      /\ \A k \in accepted' : executed'[k] # 0 \/ \E v \in Workers : Holds(v, k)'
  BY <1>0 DEF Conserved, Holds, InHeap
<1>4. \A v \in Workers, k \in Tasks : Holds(v, k)' => k \in accepted' /\ executed'[k] = 0
  BY <1>2 DEF Conserved
<1>5. \A v, u \in Workers, k \in Tasks : Holds(v, k)' /\ Holds(u, k)' => v = u
  BY <1>1, <1>2 DEF Conserved
<1>6. \A v \in Workers, k \in Tasks : ~(k \in mTasks'[v] /\ InHeap(v, k)')
  BY <1>0, <1>1 DEF Conserved, Holds, InHeap
<1>7. \A v \in Workers : \A e, f \in mDelayedTasks'[v] : e.mTask = f.mTask => e = f
  BY <1>0, <1>1 DEF Conserved, Holds, InHeap
<1> QED BY <1>3, <1>4, <1>5, <1>6, <1>7 DEF Conserved

(* A task that a worker begins leaves its only place.                       *)
LEMMA BeginKeepsTasks ==
    ASSUME TypeOK, Conserved, NEW w \in Workers, NEW j \in Tasks, Holds(w, j),
           accepted' = accepted, executed' = [executed EXCEPT ![j] = @ + 1],
           \/ /\ j \in mTasks[w] /\ mDelayedTasks' = mDelayedTasks
              /\ mTasks' = [mTasks EXCEPT ![w] = @ \ {j}]
           \/ \E e \in mDelayedTasks[w] :
                 /\ e.mTask = j /\ mTasks' = mTasks
                 /\ mDelayedTasks' = [mDelayedTasks EXCEPT ![w] = @ \ {e}]
    PROVE  Conserved'
<1>0. DOMAIN mTasks = Workers /\ DOMAIN mDelayedTasks = Workers /\ accepted \subseteq Tasks
  BY DEF TypeOK
<1>1. /\ j \in accepted
      /\ \A v \in Workers : Holds(v, j) => v = w
      /\ ~(j \in mTasks[w] /\ InHeap(w, j))
      /\ \A e, f \in mDelayedTasks[w] : e.mTask = f.mTask => e = f
  BY DEF Conserved
<1>2. ~Holds(w, j)'
  BY <1>0, <1>1 DEF Holds, InHeap
<1>3. \A k \in Tasks : k # j => (Holds(w, k)' <=> Holds(w, k))
  BY <1>0 DEF Holds, InHeap
<1>4. \A v \in Workers, k \in Tasks : v # w => (Holds(v, k)' <=> Holds(v, k))
  BY <1>0 DEF Holds, InHeap
<1>5. \A v \in Workers, k \in Tasks : Holds(v, k)' <=> Holds(v, k) /\ k # j
  BY <1>1, <1>2, <1>3, <1>4
<1>6. \A k \in Tasks : executed'[k] = IF k = j THEN executed[k] + 1 ELSE executed[k]
  BY DEF TypeOK
<1>7. \A k \in accepted' : executed'[k] # 0 \/ \E v \in Workers : Holds(v, k)'
  <2>1. executed \in [Tasks -> Nat]
    BY DEF TypeOK
  <2> QED BY <1>0, <1>5, <1>6, <2>1 DEF Conserved
<1>8. \A v \in Workers, k \in Tasks : Holds(v, k)' => k \in accepted' /\ executed'[k] = 0
  BY <1>5, <1>6 DEF Conserved
<1>9. \A v, u \in Workers, k \in Tasks : Holds(v, k)' /\ Holds(u, k)' => v = u
  BY <1>5 DEF Conserved
<1>10. \A v \in Workers, k \in Tasks : ~(k \in mTasks'[v] /\ InHeap(v, k)')
  BY <1>0 DEF Conserved, InHeap
<1>11. \A v \in Workers : \A e, f \in mDelayedTasks'[v] : e.mTask = f.mTask => e = f
  BY <1>0 DEF Conserved
<1>12. \A k \in Tasks : executed'[k] # 0 => k \in accepted'
  BY <1>1, <1>6 DEF Conserved
<1> QED BY <1>7, <1>8, <1>9, <1>10, <1>11, <1>12 DEF Conserved

LEMMA TasksStay ==
    ASSUME Conserved, UNCHANGED <<mTasks, mDelayedTasks, accepted, executed>>
    PROVE  Conserved'
BY DEF Conserved, Holds, InHeap

(* What a submission does to the tasks.                                     *)
LEMMA SubmitEffect ==
    ASSUME ServiceInv, NEW t \in Threads, SubmitStep(t)
    PROVE  \/ UNCHANGED <<mTasks, mDelayedTasks, accepted, executed>>
           \/ /\ ~mStopping
              /\ \E w \in Workers, j \in Tasks :
                    /\ j \notin accepted
                    /\ accepted' = accepted \union {j} /\ executed' = executed
                    /\ \/ /\ mTasks' = [mTasks EXCEPT ![w] = @ \union {j}]
                          /\ mDelayedTasks' = mDelayedTasks
                       \/ \E e : /\ e.mTask = j /\ mTasks' = mTasks
                                 /\ mDelayedTasks' = [mDelayedTasks EXCEPT ![w] = @ \union {e}]
<1> USE DEF Submission, queues, ghost
<1>1. CASE \/ SubmitEnter(t) \/ SubmitRecheck(t) \/ SubmitChoose(t) \/ SubmitEnqueueFails(t)
           \/ SubmitLeave(t) \/ SubmitSignal(t)
  BY <1>1 DEF SubmitEnter, SubmitRecheck, SubmitChoose, SubmitEnqueueFails, SubmitLeave,
              SubmitSignal
<1>2. CASE SubmitEnqueue(t) \/ SubmitPushHeap(t)
  <2>1. sub[t] = "insert" /\ executed' = executed /\ accepted' = accepted \union {job[t]}
    BY <1>2 DEF SubmitEnqueue, SubmitPushHeap
  <2>2. StopInv /\ PoolInv /\ Requests /\ TypeOK
    BY DEF ServiceInv, StopInv, PoolInv
  <2>3. ~mStopping
    BY <2>1, <2>2 DEF StopInv, Waited, Inserting
  <2>4. /\ target[t] \in Workers /\ calls \in 0..MaxCalls
        /\ job[t] \notin accepted /\ \E n \in 1..calls : job[t] = <<t, n>>
    BY <2>1, <2>2 DEF TypeOK, Requests, Carrying
  <2>5. job[t] \in Tasks
    <3>1. 1..calls \subseteq 1..MaxCalls
      BY <2>4, CallsAssumption
    <3> QED BY <2>4, <3>1 DEF Tasks
  <2>6. CASE SubmitEnqueue(t)
    BY <2>1, <2>3, <2>4, <2>5, <2>6 DEF SubmitEnqueue
  <2>7. CASE SubmitPushHeap(t)
    <3>1. \E e : /\ e.mTask = job[t] /\ mTasks' = mTasks
                 /\ mDelayedTasks' = [mDelayedTasks EXCEPT ![target[t]] = @ \union {e}]
      BY <2>7 DEF SubmitPushHeap
    <3> QED BY <2>1, <2>3, <2>4, <2>5, <3>1
  <2> QED BY <1>2, <2>6, <2>7
<1> QED BY <1>1, <1>2 DEF SubmitStep

(* What a worker does to the tasks: it begins one, or finds none.           *)
LEMMA WorkerEffect ==
    ASSUME TypeOK, NEW w \in Workers, WorkerStep(w)
    PROVE  \/ UNCHANGED <<mTasks, mDelayedTasks, accepted, executed>>
           \/ \E j \in Tasks :
                 /\ Holds(w, j) /\ loop[w] # "exited"
                 /\ loop'[w] = "run" /\ resume'[w] = loop[w]
                 /\ loop[w] \in {"immediate", "delayed", "lastImmediate", "lastDelayed"}
                 /\ accepted' = accepted /\ executed' = [executed EXCEPT ![j] = @ + 1]
                 /\ \/ /\ j \in mTasks[w] /\ mDelayedTasks' = mDelayedTasks
                       /\ mTasks' = [mTasks EXCEPT ![w] = @ \ {j}]
                    \/ \E e \in mDelayedTasks[w] :
                          /\ e.mTask = j /\ mTasks' = mTasks
                          /\ mDelayedTasks' = [mDelayedTasks EXCEPT ![w] = @ \ {e}]
<1> USE DEF queues, ghost, Proceed, Run
<1>0. /\ DOMAIN loop = Workers /\ DOMAIN resume = Workers /\ mTasks[w] \subseteq Tasks
      /\ mDelayedTasks[w] \subseteq [mDue : Nat, mSeq : Nat, mTask : Tasks]
  BY DEF TypeOK
<1>1. CASE \E l \in {"immediate", "lastImmediate"} : DequeueImmediate(w, l)
  BY <1>0, <1>1 DEF DequeueImmediate, Oldest, Holds
<1>2. CASE \E l \in {"delayed", "lastDelayed"} : PopDelayed(w, l)
  <2>1. PICK l \in {"delayed", "lastDelayed"}, e \in mDelayedTasks[w] :
           /\ Run(w, l, e.mTask) /\ mDelayedTasks' = [mDelayedTasks EXCEPT ![w] = @ \ {e}]
           /\ mTasks' = mTasks
    BY <1>2 DEF PopDelayed
  <2>2. e.mTask \in Tasks /\ Holds(w, e.mTask)
    BY <1>0 DEF Holds, InHeap
  <2> QED BY <1>0, <2>1, <2>2
<1>3. CASE NoImmediate(w) \/ NoDelayed(w) \/ TaskReturns(w) \/ CheckStop(w) \/ PlanWait(w)
           \/ Acquire(w) \/ AcquireTimeout(w)
  BY <1>3 DEF NoImmediate, NoDelayed, TaskReturns, CheckStop, PlanWait, Acquire, AcquireTimeout
<1> QED BY <1>1, <1>2, <1>3 DEF WorkerStep

LEMMA WorkerStepKeepsLastPass ==
    ASSUME ServiceInv, NEW w \in Workers, WorkerStep(w)
    PROVE  LastPass'
<1> USE DEF Proceed, queues, Loop
<1>0. /\ TypeOK /\ LastPass
      /\ DOMAIN loop = Workers /\ DOMAIN resume = Workers /\ DOMAIN mTasks = Workers
      /\ DOMAIN mDelayedTasks = Workers
      /\ resume[w] \in {"immediate", "delayed", "lastImmediate", "lastDelayed"}
  BY DEF ServiceInv, StopInv, PoolInv, TypeOK
<1>1. mStopping' = mStopping
  BY WorkerFrame DEF pool
<1>2. \A v \in Workers \ {w} : /\ mTasks'[v] = mTasks[v] /\ mDelayedTasks'[v] = mDelayedTasks[v]
                               /\ loop'[v] = loop[v] /\ resume'[v] = resume[v]
  BY <1>0, WorkerStepElsewhere
<1>3. /\ Loop(w)' \in {"lastImmediate", "lastDelayed", "exited"} => mStopping
      /\ Loop(w)' \in {"lastDelayed", "exited"} => mTasks'[w] = {}
      /\ Loop(w)' = "exited" => mDelayedTasks'[w] = {}
  <2>1. CASE \E l \in {"immediate", "lastImmediate"} : DequeueImmediate(w, l)
    <3>1. /\ loop'[w] = "run" /\ resume'[w] = loop[w]
          /\ loop[w] \in {"immediate", "lastImmediate"}
      BY <1>0, <2>1 DEF DequeueImmediate, Run
    <3> QED BY <1>0, <3>1 DEF LastPass
  <2>2. CASE \E l \in {"delayed", "lastDelayed"} : PopDelayed(w, l)
    <3>1. /\ loop'[w] = "run" /\ resume'[w] = loop[w] /\ mTasks' = mTasks
          /\ loop[w] \in {"delayed", "lastDelayed"}
      BY <1>0, <2>2 DEF PopDelayed, Run
    <3> QED BY <1>0, <3>1 DEF LastPass
  <2>3. CASE NoImmediate(w)
    <3>1. /\ mTasks'[w] = {}
          /\ \/ loop'[w] = "delayed"
             \/ loop[w] = "lastImmediate" /\ loop'[w] = "lastDelayed"
      BY <1>0, <2>3 DEF NoImmediate
    <3> QED BY <1>0, <3>1 DEF LastPass
  <2>4. CASE NoDelayed(w)
    <3>1. /\ UNCHANGED <<mTasks, mDelayedTasks>>
          /\ \/ loop'[w] = "checkStop"
             \/ loop[w] = "lastDelayed" /\ loop'[w] = "exited" /\ mDelayedTasks[w] = {}
      BY <1>0, <2>4 DEF NoDelayed
    <3> QED BY <1>0, <3>1 DEF LastPass
  <2>5. CASE TaskReturns(w)
    <3>1. loop[w] = "run" /\ loop'[w] = resume[w] /\ UNCHANGED <<mTasks, mDelayedTasks>>
      BY <1>0, <2>5 DEF TaskReturns
    <3> QED BY <1>0, <3>1 DEF LastPass
  <2>6. CASE CheckStop(w)
    <3>1. loop'[w] = "plan" \/ (loop'[w] = "lastImmediate" /\ mStopping)
      BY <1>0, <2>6 DEF CheckStop
    <3> QED BY <3>1
  <2>7. CASE PlanWait(w) \/ Acquire(w) \/ AcquireTimeout(w)
    <3>1. loop'[w] \in {"acquire", "acquireFor", "immediate"}
      BY <1>0, <2>7 DEF PlanWait, Acquire, AcquireTimeout
    <3> QED BY <3>1
  <2> QED BY <2>1, <2>2, <2>3, <2>4, <2>5, <2>6, <2>7 DEF WorkerStep
<1> QED BY <1>0, <1>1, <1>2, <1>3 DEF LastPass

LEMMA NextKeepsService == ServiceInv /\ [Next]_vars => ServiceInv'
<1> SUFFICES ASSUME ServiceInv, [Next]_vars PROVE ServiceInv'
  OBVIOUS
<1>0. StopInv' /\ TypeOK /\ Conserved
  BY NextKeepsStop DEF ServiceInv, StopInv, PoolInv
<1>1. ASSUME UNCHANGED <<mTasks, mDelayedTasks, accepted, executed, loop, resume>>,
             mStopping => mStopping'
      PROVE  ServiceInv'
  <2>1. LastPass'
    BY <1>1 DEF ServiceInv, LastPass, Loop
  <2> QED BY <1>0, <1>1, <2>1, TasksStay DEF ServiceInv
<1>2. CASE \E t \in Threads, d \in Delays \union {Immediately} : SubmitBegin(t, d)
  BY <1>1, <1>2 DEF SubmitBegin, pool, queues, worker, ghost
<1>3. CASE \E t \in Threads : SubmitStep(t)
  <2>1. PICK t \in Threads : SubmitStep(t)
    BY <1>3
  <2>2. UNCHANGED <<loop, resume, mStopping>>
    BY <2>1, SubmitMoves DEF ServiceInv, StopInv, worker
  <2>3. CASE UNCHANGED <<mTasks, mDelayedTasks, accepted, executed>>
    BY <1>1, <2>2, <2>3
  <2>4. CASE ~UNCHANGED <<mTasks, mDelayedTasks, accepted, executed>>
    <3>1. ~mStopping
      BY <2>1, <2>4, SubmitEffect
    <3>2. Conserved'
      BY <1>0, <2>1, <2>4, SubmitEffect, InsertKeepsTasks
    <3>3. LastPass'
      BY <2>2, <3>1 DEF ServiceInv, LastPass, Loop
    <3> QED BY <1>0, <3>2, <3>3 DEF ServiceInv
  <2> QED BY <2>3, <2>4
<1>4. CASE \E w \in Workers : WorkerStep(w)
  <2>1. LastPass'
    BY <1>4, WorkerStepKeepsLastPass
  <2>2. Conserved'
    BY <1>0, <1>4, WorkerEffect, BeginKeepsTasks, TasksStay
  <2> QED BY <1>0, <2>1, <2>2 DEF ServiceInv
<1>5. CASE \E s \in Stoppers : StopBegin(s) \/ StopStep(s)
  <2>1. /\ UNCHANGED <<mTasks, mDelayedTasks, accepted, executed, loop, resume>>
        /\ mStopping => mStopping'
    BY <1>5 DEF StopBegin, StopStep, StopWait, StopSet, StopRelease, pool, queues, worker, ghost
  <2> QED BY <1>1, <2>1
<1>6. CASE Tick \/ UNCHANGED vars
  BY <1>1, <1>6 DEF Tick, vars, pool, queues, worker, ghost
<1> QED BY <1>2, <1>3, <1>4, <1>5, <1>6 DEF Next

-----------------------------------------------------------------------------
(* The refinement: a pool is open until mStopping is set, and retired when  *)
(* every worker has left its loop.                                          *)
Retired == \A w \in Workers : loop[w] = "exited"

LEMMA StepServes ==
    ASSUME ServiceInv, [Next]_vars
    PROVE  [Service!Next]_Service!vars
<1> USE DEF Service!vars
<1>0. ServiceInv' /\ TypeOK
  BY NextKeepsService DEF ServiceInv, StopInv, PoolInv
<1>1. ASSUME UNCHANGED <<mStopping, accepted, executed, loop>> PROVE UNCHANGED Service!vars
  BY <1>1
<1>2. CASE \E t \in Threads, d \in Delays \union {Immediately} : SubmitBegin(t, d)
  BY <1>1, <1>2 DEF SubmitBegin, pool, worker, ghost
<1>3. CASE \E t \in Threads : SubmitStep(t)
  <2>1. PICK t \in Threads : SubmitStep(t)
    BY <1>3
  <2>2. UNCHANGED <<loop, mStopping>>
    BY <2>1, SubmitMoves DEF ServiceInv, StopInv, worker
  <2>3. CASE UNCHANGED <<accepted, executed>>
    BY <1>1, <2>2, <2>3
  <2>4. CASE ~UNCHANGED <<accepted, executed>>
    <3>1. PICK j \in Tasks : /\ ~mStopping /\ j \notin accepted
                             /\ accepted' = accepted \union {j} /\ executed' = executed
      BY <2>1, <2>4, SubmitEffect
    <3>2. Service!Accept(j)
      BY <2>2, <3>1 DEF Service!Accept
    <3> QED BY <3>2 DEF Service!Next
  <2> QED BY <2>3, <2>4
<1>4. CASE \E w \in Workers : WorkerStep(w)
  <2>1. PICK w \in Workers : WorkerStep(w)
    BY <1>4
  <2>2. mStopping' = mStopping /\ DOMAIN loop = Workers
    BY <1>0, <2>1, WorkerFrame DEF pool, TypeOK
  <2>3. CASE UNCHANGED <<accepted, executed>>
    <3>1. CASE Retired' <=> Retired
      BY <2>2, <2>3, <3>1 DEF Retired
    <3>2. CASE Retired /\ ~Retired'
      <4>1. loop[w] = "exited"
        BY <3>2 DEF Retired
      <4> QED BY <2>1, <4>1
              DEF WorkerStep, DequeueImmediate, PopDelayed, Run, NoImmediate, NoDelayed, TaskReturns,
                  CheckStop, PlanWait, Acquire, AcquireTimeout, Proceed
    <3>3. CASE Retired' /\ ~Retired
      <4>1. /\ mStopping /\ \A v \in Workers : mTasks'[v] = {} /\ mDelayedTasks'[v] = {}
        BY <1>0, <2>2, <3>3, WorkerNumbers DEF Retired, ServiceInv, LastPass, Loop
      <4>2. \A j \in accepted : executed[j] # 0
        BY <1>0, <2>3, <4>1 DEF ServiceInv, Conserved, Holds, InHeap
      <4>3. Service!Retire
        BY <2>2, <2>3, <3>3, <4>1, <4>2 DEF Service!Retire, Retired
      <4> QED BY <4>3 DEF Service!Next
    <3> QED BY <3>1, <3>2, <3>3
  <2>4. CASE ~UNCHANGED <<accepted, executed>>
    <3>1. PICK j \in Tasks : /\ Holds(w, j) /\ loop[w] # "exited" /\ loop'[w] = "run"
                             /\ accepted' = accepted /\ executed' = [executed EXCEPT ![j] = @ + 1]
      BY <1>0, <2>1, <2>4, WorkerEffect
    <3>2. j \in accepted /\ executed[j] = 0 /\ ~Retired /\ ~Retired'
      BY <3>1 DEF ServiceInv, Conserved, Retired
    <3>3. Service!Begin(j)
      BY <2>2, <3>1, <3>2 DEF Service!Begin, Retired
    <3> QED BY <3>3 DEF Service!Next
  <2> QED BY <2>3, <2>4
<1>5. CASE \E s \in Stoppers : StopBegin(s) \/ StopStep(s)
  <2>1. /\ UNCHANGED <<accepted, executed, loop>>
        /\ mStopping' = mStopping \/ (~mStopping /\ mStopping')
    BY <1>0, <1>5 DEF StopBegin, StopStep, StopWait, StopSet, StopRelease, pool, worker, ghost, TypeOK
  <2>2. CASE mStopping' = mStopping
    BY <1>1, <2>1, <2>2
  <2>3. CASE ~mStopping /\ mStopping'
    <3>1. Service!Close
      BY <2>1, <2>3 DEF Service!Close
    <3> QED BY <3>1 DEF Service!Next
  <2> QED BY <2>1, <2>2, <2>3
<1>6. CASE Tick \/ UNCHANGED vars
  BY <1>1, <1>6 DEF Tick, vars, pool, worker, ghost
<1> QED BY <1>2, <1>3, <1>4, <1>5, <1>6 DEF Next

(* The pool is the service it promises to be: no task begins that was not   *)
(* accepted, none begins twice, immediate or delayed, and the threads leave *)
(* only after every accepted task has begun and no other can be accepted    *)
(* (ThreadPool.cpp:37-135).                                                 *)
THEOREM PoolServes == Spec => ImplementsService
<1>1. Init => Service!Init
  BY WorkerNumbers DEF Init, Service!Init
<1> QED BY <1>1, InitService, NextKeepsService, StepServes, PTL
        DEF Spec, ImplementsService, Service!Spec
=============================================================================
