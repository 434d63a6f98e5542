------------------------ MODULE ClientNetworkProofs ------------------------
(***************************************************************************)
(* Theorems about ClientNetwork, for any finite sets of threads and any    *)
(* bounds.                                                                 *)
(*                                                                         *)
(* PumpInv: the right to run the pump is a token, a job in the pool or the *)
(* one thread that has taken the flag and has not given it up; while       *)
(* either is there the flag is set, so nobody else gets past the exchange  *)
(* of scheduleIoPump.  FlagInv is the converse.  CountInv: the counters    *)
(* that disconnect and stop wait for are exact.  StillInv: what each       *)
(* caller knows of the pump at its statement.  SessionInv: a session that  *)
(* is connected is the one stored or one the application holds; the        *)
(* connection is the stored session's, or was not heard of.  GoInv: who    *)
(* runs the pump next.                                                     *)
(***************************************************************************)
EXTENDS ClientNetwork, Counting

(* Statements of a thread that holds the token: between taking the flag    *)
(* and submitting the job, and between taking the job and giving the flag  *)
(* up; and the others.                                                     *)
HoldStatements ==
    {"submitJob", "unschedule", "tick", "endSession", "clearSession", "dropFlag"}
FreeStatements ==
    {"idle", "startup", "connectPeer", "activate", "schedule", "cas", "recheck", "submitWakeup",
     "jobDone", "wakeupDone", "deactivate", "waitWakeups", "waitJobs", "teardown", "clear",
     "finish"}
Statements == HoldStatements \union FreeStatements

(* What the proofs need to know of the shape of a state.                   *)
PumpTypes ==
    /\ ioJobs \in Nat
    /\ mIoPumpScheduled \in BOOLEAN
    /\ pc \in [Threads -> Statements]
    /\ ret \in [Threads -> {"idle", "jobDone", "wakeupDone"}]

Holds(t) == pc[t] \in HoldStatements

(* The token is in one place at most, and the flag is set wherever it is   *)
(* (ClientNetworkSystem.cpp:285-320).                                      *)
PumpToken ==
    /\ ioJobs \in {0, 1}
    /\ ioJobs = 1 => mIoPumpScheduled /\ \A t \in Threads : ~Holds(t)
    /\ \A t \in Threads : Holds(t) => mIoPumpScheduled
    /\ \A t, u \in Threads : Holds(t) /\ Holds(u) => t = u

PumpInv == PumpTypes /\ PumpToken

(* A step of t to a free statement, or to none.                            *)
MovesFree(t) ==
    pc' = pc \/ \E to \in FreeStatements : pc' = [pc EXCEPT ![t] = to]

(* A step to a free statement leaves nobody holding who did not hold, and  *)
(* not the thread that moves.                                              *)
LEMMA FreeMove ==
    ASSUME PumpTypes, NEW t \in Threads, NEW to \in FreeStatements,
           pc' = [pc EXCEPT ![t] = to]
    PROVE  /\ pc' \in [Threads -> Statements]
           /\ ~Holds(t)'
           /\ \A u \in Threads : Holds(u)' => Holds(u)
<1>1. to \in Statements
  BY DEF Statements
<1>2. pc'[t] = to /\ \A u \in Threads \ {t} : pc'[u] = pc[u]
  BY DEF PumpTypes
<1>3. ~Holds(t)'
  BY <1>2 DEF Holds, HoldStatements, FreeStatements
<1>4. \A u \in Threads : Holds(u)' => Holds(u)
  BY <1>2, <1>3 DEF Holds
<1> QED BY <1>1, <1>3, <1>4 DEF PumpTypes

(* A step that leaves the flag and the jobs alone and lets nobody take     *)
(* hold keeps the token.                                                   *)
LEMMA NobodyTakesHold ==
    ASSUME PumpInv, UNCHANGED <<ioJobs, mIoPumpScheduled>>,
           \A u \in Threads : Holds(u)' => Holds(u)
    PROVE  PumpToken'
BY DEF PumpInv, PumpToken

LEMMA FreeMoveKeepsToken ==
    ASSUME PumpInv, NEW t \in Threads, MovesFree(t),
           UNCHANGED <<ioJobs, mIoPumpScheduled>>,
           ret' \in [Threads -> {"idle", "jobDone", "wakeupDone"}]
    PROVE  PumpInv'
<1>1. pc' \in [Threads -> Statements] /\ \A u \in Threads : Holds(u)' => Holds(u)
  <2>1. CASE pc' = pc
    BY <2>1 DEF PumpInv, PumpTypes, Holds
  <2>2. CASE \E to \in FreeStatements : pc' = [pc EXCEPT ![t] = to]
    BY <2>2, FreeMove DEF PumpInv
  <2> QED BY <2>1, <2>2 DEF MovesFree
<1> QED BY <1>1, NobodyTakesHold DEF PumpInv, PumpTypes

(* The thread that holds the token gives it up.                            *)
LEMMA GivesUp ==
    ASSUME PumpInv, NEW t \in Threads, Holds(t), NEW to \in FreeStatements,
           pc' = [pc EXCEPT ![t] = to],
           ret' \in [Threads -> {"idle", "jobDone", "wakeupDone"}],
           \/ ioJobs' = ioJobs /\ mIoPumpScheduled' \in BOOLEAN
           \/ ioJobs' = ioJobs + 1 /\ UNCHANGED mIoPumpScheduled
    PROVE  PumpInv'
<1>1. pc' \in [Threads -> Statements] /\ \A u \in Threads : ~Holds(u)'
  BY FreeMove DEF PumpInv, PumpToken
<1>2. ioJobs = 0 /\ mIoPumpScheduled = TRUE
  BY DEF PumpInv, PumpTypes, PumpToken
<1>3. CASE ioJobs' = ioJobs /\ mIoPumpScheduled' \in BOOLEAN
  <2>1. ioJobs' = 0
    BY <1>2, <1>3
  <2> QED BY <1>1, <1>3, <2>1 DEF PumpInv, PumpTypes, PumpToken
<1>4. CASE ioJobs' = ioJobs + 1 /\ UNCHANGED mIoPumpScheduled
  <2>1. ioJobs' = 1
    BY <1>2, <1>4
  <2>2. mIoPumpScheduled' = TRUE
    BY <1>2, <1>4
  <2> QED BY <1>1, <2>1, <2>2 DEF PumpInv, PumpTypes, PumpToken
<1> QED BY <1>3, <1>4

(* The thread that holds the token goes on with it.                        *)
LEMMA GoesOn ==
    ASSUME PumpInv, NEW t \in Threads, Holds(t), NEW to \in Statements,
           pc' = [pc EXCEPT ![t] = to],
           UNCHANGED <<ioJobs, mIoPumpScheduled, ret>>
    PROVE  PumpInv'
<1>1. pc' \in [Threads -> Statements] /\ \A u \in Threads : Holds(u)' => Holds(u)
  BY DEF PumpInv, PumpTypes, Holds
<1> QED BY <1>1, NobodyTakesHold DEF PumpInv, PumpTypes

(* While the token is nowhere a thread takes it.                           *)
LEMMA Takes ==
    ASSUME PumpInv, NEW t \in Threads, NEW to \in Statements, pc' = [pc EXCEPT ![t] = to],
           \A u \in Threads : ~Holds(u),
           ioJobs' = 0, mIoPumpScheduled' = TRUE, UNCHANGED ret
    PROVE  PumpInv'
<1>1. pc' \in [Threads -> Statements] /\ \A u \in Threads \ {t} : ~Holds(u)'
  BY DEF PumpInv, PumpTypes, Holds
<1> QED BY <1>1 DEF PumpInv, PumpTypes, PumpToken

-----------------------------------------------------------------------------
(* start, stop, connect and disconnect never take hold.                    *)
LEMMA CallStepKeepsToken ==
    ASSUME PumpInv, NEW c \in Callers, CallStep(c)
    PROVE  PumpInv'
<1> DEFINE Moves == MovesFree(c) /\ UNCHANGED <<ioJobs, mIoPumpScheduled, ret>>
<1> USE DEF Goto, Return, MovesFree, FreeStatements, flags, counters, session, pool, peer,
            locals, history
<1>1. StartBegin(c) => Moves
  BY DEF StartBegin
<1>2. StartPeer(c) => Moves
  BY DEF StartPeer
<1>3. ConnectBegin(c) => Moves
  BY DEF ConnectBegin
<1>4. ConnectPeer(c) => Moves
  BY DEF ConnectPeer
<1>5. Activate(c) => Moves
  BY DEF Activate
<1>6. DisconnectBegin(c) => Moves
  BY DEF DisconnectBegin
<1>7. StopBegin(c) => Moves
  BY DEF StopBegin
<1>8. Deactivate(c) => Moves
  BY DEF Deactivate
<1>9. Wait(c) => Moves
  BY DEF Wait
<1>10. TeardownSession(c) => Moves
  BY DEF TeardownSession
<1>11. TeardownClear(c) => Moves
  BY DEF TeardownClear
<1>12. Finish(c) => Moves
  BY DEF Finish
<1> HIDE DEF MovesFree
<1>13. Moves
  BY <1>1, <1>2, <1>3, <1>4, <1>5, <1>6, <1>7, <1>8, <1>9, <1>10, <1>11, <1>12 DEF CallStep
<1> QED BY <1>13, FreeMoveKeepsToken DEF PumpInv, PumpTypes, Threads

(* scheduleIoPump takes the token only when the flag was down.             *)
LEMMA ScheduleStepKeepsToken ==
    ASSUME PumpInv, NEW t \in Threads, ScheduleStep(t)
    PROVE  PumpInv'
<1> DEFINE Returns == {"idle", "jobDone", "wakeupDone"}
<1>0. ret[t] \in FreeStatements /\ [ret EXCEPT ![t] = "idle"] \in [Threads -> Returns]
  <2>1. ret \in [Threads -> Returns]
    BY DEF PumpInv, PumpTypes
  <2>2. ret[t] \in FreeStatements
    BY <2>1 DEF FreeStatements
  <2> QED BY <2>1, <2>2
<1> USE DEF Goto, Leave, Stays, flags, counters, session, pool, peer, locals, history
<1>1. CASE ScheduleIoPump(t)
  <2>1. MovesFree(t) /\ UNCHANGED <<ioJobs, mIoPumpScheduled>> /\ ret' \in [Threads -> Returns]
    BY <1>0, <1>1 DEF ScheduleIoPump, MovesFree, FreeStatements, PumpInv, PumpTypes
  <2> QED BY <2>1, FreeMoveKeepsToken
<1>2. CASE ClaimPump(t)
  <2>1. CASE mIoPumpScheduled
    <3>1. MovesFree(t) /\ UNCHANGED <<ioJobs, mIoPumpScheduled>> /\ ret' \in [Threads -> Returns]
      BY <1>0, <1>2, <2>1 DEF ClaimPump, MovesFree, PumpInv, PumpTypes
    <3> QED BY <3>1, FreeMoveKeepsToken
  <2>2. CASE ~mIoPumpScheduled
    <3>1. ioJobs = 0 /\ \A u \in Threads : ~Holds(u)
      BY <2>2 DEF PumpInv, PumpToken
    <3>2. /\ pc' = [pc EXCEPT ![t] = "submitJob"]
          /\ ioJobs' = 0 /\ mIoPumpScheduled' = TRUE /\ UNCHANGED ret
      BY <1>2, <2>2, <3>1 DEF ClaimPump
    <3>3. "submitJob" \in Statements
      BY DEF Statements, HoldStatements
    <3> QED BY <3>1, <3>2, <3>3, Takes
  <2> QED BY <2>1, <2>2
<1>3. CASE SubmitJob(t)
  <2>1. Holds(t)
    BY <1>3 DEF SubmitJob, Holds, HoldStatements
  <2>2. CASE Leave(t, "submitJob") /\ ioJobs' = ioJobs + 1
    <3>1. UNCHANGED mIoPumpScheduled
      BY <1>3 DEF SubmitJob
    <3> QED BY <1>0, <2>1, <2>2, <3>1, GivesUp
  <2>3. CASE Goto(t, "submitJob", "unschedule") /\ Stays /\ UNCHANGED ioJobs
    <3>1. /\ pc' = [pc EXCEPT ![t] = "unschedule"]
          /\ UNCHANGED <<ioJobs, mIoPumpScheduled, ret>>
      BY <1>3, <2>3 DEF SubmitJob
    <3>2. "unschedule" \in Statements
      BY DEF Statements, HoldStatements
    <3> QED BY <2>1, <3>1, <3>2, GoesOn
  <2> QED BY <1>3, <2>2, <2>3 DEF SubmitJob
<1>4. CASE Unschedule(t)
  <2>1. Holds(t)
    BY <1>4 DEF Unschedule, Holds, HoldStatements
  <2> QED BY <1>0, <1>4, <2>1, GivesUp DEF Unschedule
<1> QED BY <1>1, <1>2, <1>3, <1>4 DEF ScheduleStep

(* A job becomes a tick, which ends by giving the flag up; wakeups and what *)
(* a tick does with sessions are no part of it.                             *)
LEMMA PumpStepKeepsToken ==
    ASSUME PumpInv, NEW w \in PoolWorkers, PumpStep(w)
    PROVE  PumpInv'
<1> w \in Threads
  BY DEF Threads
<1> DEFINE Returns == {"idle", "jobDone", "wakeupDone"}
<1>0. ret \in [Threads -> Returns] /\ HoldStatements \subseteq Statements
  BY DEF PumpInv, PumpTypes, Statements
<1> USE DEF Goto, flags, counters, session, pool, peer, locals, history
<1>1. CASE TakeJob(w)
  <2>1. ioJobs = 1 /\ mIoPumpScheduled = TRUE /\ \A u \in Threads : ~Holds(u)
    BY <1>1 DEF TakeJob, PumpInv, PumpTypes, PumpToken
  <2>2. ioJobs' = 0 /\ mIoPumpScheduled' = TRUE /\ UNCHANGED ret
    BY <1>1, <2>1 DEF TakeJob
  <2>3. PICK to \in {"tick", "dropFlag"} : pc' = [pc EXCEPT ![w] = to]
    BY <1>1 DEF TakeJob
  <2>4. to \in Statements
    BY <1>0 DEF HoldStatements
  <2> QED BY <2>1, <2>2, <2>3, <2>4, Takes
<1>2. CASE DropFlag(w)
  <2>1. Holds(w)
    BY <1>2 DEF DropFlag, Holds, HoldStatements
  <2>2. "jobDone" \in FreeStatements
    BY DEF FreeStatements
  <2> QED BY <1>0, <1>2, <2>1, <2>2, GivesUp DEF DropFlag
<1>3. CASE Receive(w)
  <2>1. Holds(w) /\ UNCHANGED <<ioJobs, mIoPumpScheduled, ret>>
    BY <1>3 DEF Receive, Holds, HoldStatements
  <2>2. pc' = pc \/ pc' = [pc EXCEPT ![w] = "endSession"]
    BY <1>3 DEF Receive
  <2>3. CASE pc' = pc
    BY <2>1, <2>3 DEF PumpInv, PumpTypes, PumpToken, Holds
  <2>4. CASE pc' = [pc EXCEPT ![w] = "endSession"]
    BY <1>0, <2>1, <2>4, GoesOn DEF HoldStatements
  <2> QED BY <2>2, <2>3, <2>4
<1>4. CASE EndSession(w)
  <2>1. Holds(w) /\ UNCHANGED <<ioJobs, mIoPumpScheduled, ret>>
    BY <1>4 DEF EndSession, Holds, Disconnect, HoldStatements
  <2>2. pc' = [pc EXCEPT ![w] = "tick"] \/ pc' = [pc EXCEPT ![w] = "clearSession"]
    BY <1>4 DEF EndSession
  <2> QED BY <1>0, <2>1, <2>2, GoesOn DEF HoldStatements
<1>5. CASE ClearSession(w)
  <2>1. Holds(w) /\ UNCHANGED <<ioJobs, mIoPumpScheduled, ret>>
    BY <1>5 DEF ClearSession, Holds, HoldStatements
  <2>2. pc' = [pc EXCEPT ![w] = "tick"]
    BY <1>5 DEF ClearSession
  <2> QED BY <1>0, <2>1, <2>2, GoesOn DEF HoldStatements
<1>6. CASE TickEnds(w)
  <2>1. Holds(w)
    BY <1>6 DEF TickEnds, Holds, HoldStatements
  <2>2. "recheck" \in FreeStatements
    BY DEF FreeStatements
  <2> QED BY <1>0, <1>6, <2>1, <2>2, GivesUp DEF TickEnds
<1>7. CASE PumpAgain(w) \/ JobDone(w) \/ SubmitWakeup(w) \/ TakeWakeup(w) \/ WakeupDone(w)
  <2>1. MovesFree(w)
    BY <1>7 DEF PumpAgain, JobDone, SubmitWakeup, TakeWakeup, WakeupDone, MovesFree,
                FreeStatements
  <2>2. UNCHANGED <<ioJobs, mIoPumpScheduled>>
    BY <1>7 DEF PumpAgain, JobDone, SubmitWakeup, TakeWakeup, WakeupDone
  <2>3. ret' \in [Threads -> Returns]
    BY <1>0, <1>7 DEF PumpAgain, JobDone, SubmitWakeup, TakeWakeup, WakeupDone
  <2> QED BY <2>1, <2>2, <2>3, FreeMoveKeepsToken
<1> QED BY <1>1, <1>2, <1>3, <1>4, <1>5, <1>6, <1>7 DEF PumpStep

-----------------------------------------------------------------------------
(* PumpToken is inductive: it holds initially and every step keeps it      *)
(* (ClientNetworkSystem.cpp:285-320).                                      *)
LEMMA InitToken == Init => PumpInv
<1> SUFFICES ASSUME Init PROVE PumpInv
  OBVIOUS
<1>1. PumpTypes
  BY DEF Init, PumpTypes, Statements, FreeStatements
<1>2. \A t \in Threads : ~Holds(t)
  BY DEF Init, Holds, HoldStatements
<1> QED BY <1>1, <1>2 DEF Init, PumpInv, PumpToken

LEMMA NextKeepsToken == PumpInv /\ [Next]_vars => PumpInv'
<1> SUFFICES ASSUME PumpInv, [Next]_vars PROVE PumpInv'
  OBVIOUS
<1>1. CASE \E c \in Callers : CallStep(c) \/ ScheduleStep(c)
  BY <1>1, CallStepKeepsToken, ScheduleStepKeepsToken DEF Threads
<1>2. CASE \E w \in PoolWorkers : ScheduleStep(w) \/ PumpStep(w)
  BY <1>2, PumpStepKeepsToken, ScheduleStepKeepsToken DEF Threads
<1>3. CASE PeerStep \/ ClosePool \/ (\E s \in kept : AppReleases(s)) \/ UNCHANGED vars
  <2>1. UNCHANGED <<ioJobs, mIoPumpScheduled, pc, ret>>
    BY <1>3 DEF PeerStep, PeerAccepts, PeerFails, PeerLoses, PeerReceives, Arrives, ClosePool,
                AppReleases, vars, flags, pool, locals
  <2> QED BY <2>1 DEF PumpInv, PumpTypes, PumpToken, Holds
<1> QED BY <1>1, <1>2, <1>3 DEF Next

(* Over any number of calls, attempts, threads and restarts: one thread at *)
(* a time receives (ClientNetworkSystem.cpp:269-320).                      *)
THEOREM OneTickAtATime == Spec => []TickIsExclusive
<1>1. PumpInv => TickIsExclusive
  <2>1. \A t \in InTick : t \in Threads /\ Holds(t)
    BY DEF InTick, At, Holds, HoldStatements
  <2> QED BY <2>1 DEF PumpInv, PumpToken, TickIsExclusive
<1> QED BY <1>1, InitToken, NextKeepsToken, PTL DEF Spec

-----------------------------------------------------------------------------
(* Who is at which statement, in which operation.                          *)
ScheduleStatements == {"schedule", "cas", "submitJob", "unschedule"}
TickStatements     == {"tick", "endSession", "clearSession"}
JobStatements      == TickStatements \union {"dropFlag", "recheck", "submitWakeup", "jobDone"}
WaitStatements     == {"deactivate", "waitWakeups", "waitJobs"}
LastStatements     == {"teardown", "clear", "finish"}

Operations == {"none", "start", "connect", "disconnect", "stop"}

(* A caller: its operation o, its statement s, and w, whether it is in a   *)
(* stop that found the system running.                                     *)
CallerFits(o, s, w) ==
    /\ w => o = "stop"
    /\ \/ o = "none" /\ s = "idle"
       \/ o = "start" /\ s = "startup"
       \/ o = "connect" /\ s \in {"connectPeer", "activate"} \union ScheduleStatements
       \/ (o = "disconnect" \/ w) /\ s \in WaitStatements
       \/ o \in {"disconnect", "stop"} /\ s \in LastStatements

(* A worker: its statement s, and where scheduleIoPump returns to.         *)
WorkerFits(s, r) ==
    \/ r = "idle" /\ s \in {"idle", "wakeupDone"} \union JobStatements
    \/ r \in {"jobDone", "wakeupDone"} /\ s \in ScheduleStatements

CallTypes ==
    /\ op \in [Callers -> Operations]
    /\ wasRunning \in [Callers -> BOOLEAN]
    /\ mRunning \in BOOLEAN /\ mIoPumpActive \in BOOLEAN /\ peerStarted \in BOOLEAN
    /\ poolOpen \in BOOLEAN /\ quiet \in BOOLEAN /\ crossed \in BOOLEAN
    /\ wakeups \in Nat /\ mPendingIoJobs \in Int /\ mPendingDelayedWakeups \in Int

CallShape ==
    /\ \A c \in Callers : CallerFits(op[c], pc[c], wasRunning[c]) /\ ret[c] = "idle"
    /\ \A w \in PoolWorkers : WorkerFits(pc[w], ret[w])

(* start is called while nothing else is; and what crossed records.        *)
Mixes ==
    /\ \A c, d \in Callers : op[c] = "start" /\ op[d] = "start" => c = d
    /\ ~crossed =>
          /\ \A c, d \in Callers : op[c] = "connect" => op[d] \notin {"disconnect", "stop"}
          /\ \A c, d \in Callers : op[c] = "stop" /\ op[d] = "stop" => c = d

ShapeInv == PumpInv /\ CallTypes /\ CallShape /\ Mixes

(* A step of a caller: it goes from one statement and operation to another.*)
CallerGoes(c, o, s, w) ==
    /\ pc' = [pc EXCEPT ![c] = s] /\ op' = [op EXCEPT ![c] = o]
    /\ wasRunning' = [wasRunning EXCEPT ![c] = w]
    /\ UNCHANGED ret

(* A step of a worker.                                                     *)
WorkerGoes(t, s, r) ==
    /\ pc' = [pc EXCEPT ![t] = s] /\ ret' = [ret EXCEPT ![t] = r]
    /\ UNCHANGED <<op, wasRunning>>

LEMMA CallersApart == \A c \in Callers : c \in Threads /\ c \notin PoolWorkers
BY ClientThreadsAssumption DEF Threads

LEMMA WorkersApart == \A w \in PoolWorkers : w \in Threads /\ w \notin Callers
BY ClientThreadsAssumption DEF Threads

LEMMA CallerGoesOn ==
    ASSUME ShapeInv, NEW c \in Callers, NEW o \in Operations, NEW s, NEW w \in BOOLEAN,
           CallerGoes(c, o, s, w)
    PROVE  /\ pc'[c] = s /\ op'[c] = o /\ wasRunning'[c] = w /\ ret' = ret
           /\ \A d \in Callers \ {c} : /\ pc'[d] = pc[d] /\ op'[d] = op[d]
                                       /\ wasRunning'[d] = wasRunning[d]
           /\ \A v \in PoolWorkers : pc'[v] = pc[v]
           /\ op' \in [Callers -> Operations] /\ wasRunning' \in [Callers -> BOOLEAN]
<1>1. /\ pc \in [Threads -> Statements] /\ op \in [Callers -> Operations]
      /\ wasRunning \in [Callers -> BOOLEAN]
  BY DEF ShapeInv, PumpInv, PumpTypes, CallTypes
<1>2. c \in Threads /\ \A v \in PoolWorkers : v \in Threads /\ v # c
  BY CallersApart, WorkersApart
<1>3. \A d \in Callers : d \in Threads
  BY CallersApart
<1> QED BY <1>1, <1>2, <1>3 DEF CallerGoes

LEMMA WorkerGoesOn ==
    ASSUME ShapeInv, NEW v \in PoolWorkers, NEW s, NEW r, WorkerGoes(v, s, r)
    PROVE  /\ pc'[v] = s /\ ret'[v] = r /\ op' = op /\ wasRunning' = wasRunning
           /\ \A t \in Threads \ {v} : pc'[t] = pc[t] /\ ret'[t] = ret[t]
           /\ \A c \in Callers : pc'[c] = pc[c] /\ ret'[c] = ret[c]
BY WorkersApart, CallersApart DEF WorkerGoes, ShapeInv, PumpInv, PumpTypes

(* The callers fit when the one that moved does.                           *)
LEMMA CallerFitsOn ==
    ASSUME ShapeInv, NEW c \in Callers, NEW o \in Operations, NEW s, NEW w \in BOOLEAN,
           CallerGoes(c, o, s, w), CallerFits(o, s, w)
    PROVE  CallShape'
<1>1. /\ pc'[c] = s /\ op'[c] = o /\ wasRunning'[c] = w /\ ret' = ret
      /\ \A d \in Callers \ {c} : /\ pc'[d] = pc[d] /\ op'[d] = op[d]
                                  /\ wasRunning'[d] = wasRunning[d]
      /\ \A v \in PoolWorkers : pc'[v] = pc[v]
  BY CallerGoesOn
<1>2. \A d \in Callers : CallerFits(op[d], pc[d], wasRunning[d])' /\ ret'[d] = "idle"
  BY <1>1 DEF ShapeInv, CallShape
<1> QED BY <1>1, <1>2 DEF ShapeInv, CallShape

LEMMA WorkerFitsOn ==
    ASSUME ShapeInv, NEW v \in PoolWorkers, NEW s, NEW r, WorkerGoes(v, s, r), WorkerFits(s, r)
    PROVE  CallShape'
<1>1. /\ pc'[v] = s /\ ret'[v] = r /\ op' = op /\ wasRunning' = wasRunning
      /\ \A t \in Threads \ {v} : pc'[t] = pc[t] /\ ret'[t] = ret[t]
      /\ \A c \in Callers : pc'[c] = pc[c] /\ ret'[c] = ret[c]
  BY WorkerGoesOn
<1>2. \A u \in PoolWorkers : WorkerFits(pc[u], ret[u])'
  BY <1>1, WorkersApart DEF ShapeInv, CallShape
<1> QED BY <1>1, <1>2 DEF ShapeInv, CallShape

-----------------------------------------------------------------------------
(* The shape of a state, action by action.                                 *)
(* How a caller enters an operation; crossed records who it meets.         *)
LEMMA EnterMixes ==
    ASSUME ShapeInv, NEW c \in Callers, NEW o \in {"start", "connect", "disconnect", "stop"},
           Enter(c, o), op[c] = "none",
           o = "start" => \A d \in Callers : op[d] = "none"
    PROVE  Mixes' /\ op' \in [Callers -> Operations] /\ crossed' \in BOOLEAN
           /\ (~crossed' => ~crossed)
<1>1. op \in [Callers -> Operations] /\ crossed \in BOOLEAN
  BY DEF ShapeInv, CallTypes
<1>2. op' = [op EXCEPT ![c] = o]
  BY DEF Enter
<1>3. op'[c] = o /\ \A d \in Callers \ {c} : op'[d] = op[d]
  BY <1>1, <1>2
<1>4. op' \in [Callers -> Operations]
  BY <1>1, <1>2 DEF Operations
<1>5. crossed' = (crossed \/ \E d \in Callers \ {c} :
                    \/ o = "connect" /\ op[d] \in {"disconnect", "stop"}
                    \/ o \in {"disconnect", "stop"} /\ op[d] = "connect"
                    \/ o = "stop" /\ op[d] = "stop")
  BY DEF Enter
<1>6. crossed' \in BOOLEAN /\ (~crossed' => ~crossed)
  BY <1>1, <1>5
<1>7. \A d, e \in Callers : op'[d] = "start" /\ op'[e] = "start" => d = e
  BY <1>3 DEF ShapeInv, Mixes
<1>8. ASSUME ~crossed'
      PROVE  /\ \A d, e \in Callers : op'[d] = "connect" => op'[e] \notin {"disconnect", "stop"}
             /\ \A d, e \in Callers : op'[d] = "stop" /\ op'[e] = "stop" => d = e
  <2>1. /\ \A d, e \in Callers : op[d] = "connect" => op[e] \notin {"disconnect", "stop"}
        /\ \A d, e \in Callers : op[d] = "stop" /\ op[e] = "stop" => d = e
    BY <1>6, <1>8 DEF ShapeInv, Mixes
  <2>2. \A d \in Callers \ {c} :
           /\ o = "connect" => op[d] \notin {"disconnect", "stop"}
           /\ o \in {"disconnect", "stop"} => op[d] # "connect"
           /\ o = "stop" => op[d] # "stop"
    BY <1>5, <1>8
  <2> QED BY <1>3, <2>1, <2>2
<1> QED BY <1>4, <1>6, <1>7, <1>8 DEF Mixes

(* A caller that stays in its operation, or returns, meets nobody.         *)
LEMMA StayMixes ==
    ASSUME ShapeInv, crossed' = crossed,
           \A d \in Callers : op'[d] = op[d] \/ op'[d] = "none"
    PROVE  Mixes'
BY DEF ShapeInv, Mixes

(* Where the calls go.                                                     *)
Begins(c, o, s) ==
    /\ op[c] = "none" /\ Enter(c, o)
    /\ CallerGoes(c, o, s, IF o = "stop" THEN mRunning ELSE FALSE)

Proceeds(c, from, s) ==
    /\ pc[c] = from /\ CallerGoes(c, op[c], s, wasRunning[c]) /\ crossed' = crossed

Returns(c, from) ==
    /\ pc[c] = from /\ CallerGoes(c, "none", "idle", FALSE) /\ crossed' = crossed

Rests == UNCHANGED <<pc, op, wasRunning, ret, crossed>>

LEMMA IdleCaller ==
    ASSUME ShapeInv, NEW c \in Callers
    PROVE  /\ op[c] = "none" <=> pc[c] = "idle"
           /\ op[c] # "stop" => wasRunning[c] = FALSE
           /\ op[c] \in Operations /\ wasRunning[c] \in BOOLEAN
           /\ CallerFits(op[c], pc[c], wasRunning[c])
           /\ [wasRunning EXCEPT ![c] = wasRunning[c]] = wasRunning
           /\ [op EXCEPT ![c] = op[c]] = op
<1>1. /\ op \in [Callers -> Operations] /\ wasRunning \in [Callers -> BOOLEAN]
      /\ CallerFits(op[c], pc[c], wasRunning[c])
  BY DEF ShapeInv, CallShape, CallTypes
<1>2. op[c] = "none" <=> pc[c] = "idle"
  BY <1>1 DEF CallerFits, ScheduleStatements, WaitStatements, LastStatements
<1> QED BY <1>1, <1>2 DEF CallerFits

LEMMA BeginsShape ==
    ASSUME ShapeInv, NEW c \in Callers, mRunning \in BOOLEAN,
           NEW o \in {"start", "connect", "disconnect", "stop"}, NEW s, Begins(c, o, s),
           o = "start" => \A d \in Callers : op[d] = "none",
           \/ o = "start" /\ s = "startup"
           \/ o = "connect" /\ s = "connectPeer"
           \/ o = "disconnect" /\ s = "deactivate"
           \/ o = "stop" /\ s = IF mRunning THEN "deactivate" ELSE "teardown"
    PROVE  /\ CallShape' /\ Mixes' /\ op' \in [Callers -> Operations]
           /\ wasRunning' \in [Callers -> BOOLEAN] /\ crossed' \in BOOLEAN
<1>1. PICK w \in BOOLEAN : /\ w = IF o = "stop" THEN mRunning ELSE FALSE
                           /\ CallerGoes(c, o, s, w)
  BY DEF Begins
<1>2. CallerFits(o, s, w)
  <2>1. CASE o = "stop" /\ mRunning
    <3>1. w = TRUE /\ s = "deactivate"
      BY <1>1, <2>1
    <3> QED BY <2>1, <3>1 DEF CallerFits, WaitStatements
  <2>2. CASE o = "stop" /\ ~mRunning
    <3>1. w = FALSE /\ s = "teardown"
      BY <1>1, <2>2
    <3> QED BY <2>2, <3>1 DEF CallerFits, LastStatements
  <2>3. CASE o # "stop"
    <3>1. w = FALSE
      BY <1>1, <2>3
    <3> QED BY <2>3, <3>1 DEF CallerFits, WaitStatements
  <2> QED BY <2>1, <2>2, <2>3
<1>3. o \in Operations
  BY DEF Operations
<1>4. CallShape'
  BY <1>1, <1>2, <1>3, CallerFitsOn
<1>5. wasRunning' \in [Callers -> BOOLEAN]
  BY <1>1, <1>3, CallerGoesOn
<1>6. Mixes' /\ op' \in [Callers -> Operations] /\ crossed' \in BOOLEAN
  BY EnterMixes DEF Begins
<1> QED BY <1>4, <1>5, <1>6

LEMMA ProceedsShape ==
    ASSUME ShapeInv, NEW c \in Callers, NEW from, NEW s, Proceeds(c, from, s),
           CallerFits(op[c], s, wasRunning[c])
    PROVE  /\ CallShape' /\ Mixes' /\ op' \in [Callers -> Operations]
           /\ wasRunning' \in [Callers -> BOOLEAN] /\ crossed' \in BOOLEAN
<1>1. op[c] \in Operations /\ wasRunning[c] \in BOOLEAN /\ crossed \in BOOLEAN
  BY IdleCaller DEF ShapeInv, CallTypes
<1>2. /\ CallShape' /\ op' \in [Callers -> Operations] /\ wasRunning' \in [Callers -> BOOLEAN]
      /\ op'[c] = op[c] /\ \A d \in Callers \ {c} : op'[d] = op[d]
  BY <1>1, CallerFitsOn, CallerGoesOn DEF Proceeds
<1>3. \A d \in Callers : op'[d] = op[d]
  BY <1>2
<1> QED BY <1>1, <1>2, <1>3, StayMixes DEF Proceeds

LEMMA ReturnsShape ==
    ASSUME ShapeInv, NEW c \in Callers, NEW from, Returns(c, from)
    PROVE  /\ CallShape' /\ Mixes' /\ op' \in [Callers -> Operations]
           /\ wasRunning' \in [Callers -> BOOLEAN] /\ crossed' \in BOOLEAN
<1>1. CallerFits("none", "idle", FALSE) /\ "none" \in Operations /\ crossed \in BOOLEAN
  BY DEF CallerFits, Operations, ShapeInv, CallTypes
<1>2. /\ CallShape' /\ op' \in [Callers -> Operations] /\ wasRunning' \in [Callers -> BOOLEAN]
      /\ op'[c] = "none" /\ \A d \in Callers \ {c} : op'[d] = op[d]
  BY <1>1, CallerFitsOn, CallerGoesOn DEF Returns
<1>3. \A d \in Callers : op'[d] = op[d] \/ op'[d] = "none"
  BY <1>2
<1> QED BY <1>1, <1>2, <1>3, StayMixes DEF Returns

LEMMA RestsShape ==
    ASSUME ShapeInv, Rests
    PROVE  /\ CallShape' /\ Mixes' /\ op' \in [Callers -> Operations]
           /\ wasRunning' \in [Callers -> BOOLEAN] /\ crossed' \in BOOLEAN
BY DEF ShapeInv, Rests, CallShape, Mixes, CallTypes

(* The calls, statement by statement.                                      *)
LEMMA CallSteps ==
    ASSUME ShapeInv, NEW c \in Callers
    PROVE  /\ StartBegin(c) =>
                 /\ mRunning' = TRUE /\ \A d \in Callers : op[d] = "none"
                 /\ \/ Rests /\ mRunning
                    \/ Begins(c, "start", "startup") /\ ~mRunning
           /\ StartPeer(c) => Returns(c, "startup")
           /\ ConnectBegin(c) => Rests \/ Begins(c, "connect", "connectPeer")
           /\ ConnectPeer(c) => \/ Proceeds(c, "connectPeer", "activate")
                                \/ Returns(c, "connectPeer")
           /\ Activate(c) => Proceeds(c, "activate", "schedule")
           /\ DisconnectBegin(c) => Begins(c, "disconnect", "deactivate")
           /\ StopBegin(c) =>
                 Begins(c, "stop", IF mRunning THEN "deactivate" ELSE "teardown")
           /\ Deactivate(c) => Proceeds(c, "deactivate", "waitWakeups")
           /\ Wait(c) => \/ Proceeds(c, "waitWakeups", "waitJobs")
                         \/ Proceeds(c, "waitJobs", "teardown")
           /\ TeardownSession(c) => \/ Proceeds(c, "teardown", "finish")
                                    \/ Proceeds(c, "teardown", "clear")
           /\ TeardownClear(c) => Proceeds(c, "clear", "finish")
           /\ Finish(c) => Returns(c, "finish")
<1>1. /\ op[c] = "none" <=> pc[c] = "idle"
      /\ op[c] # "stop" => wasRunning[c] = FALSE
      /\ CallerFits(op[c], pc[c], wasRunning[c])
      /\ [wasRunning EXCEPT ![c] = wasRunning[c]] = wasRunning
      /\ [op EXCEPT ![c] = op[c]] = op
  BY IdleCaller
<1>2. pc[c] \in {"startup", "connectPeer"} => [wasRunning EXCEPT ![c] = FALSE] = wasRunning
  BY <1>1 DEF CallerFits, WaitStatements, LastStatements
<1>3. op[c] = "none" => [wasRunning EXCEPT ![c] = FALSE] = wasRunning
  BY <1>1
<1> USE DEF Goto, Return, CallerGoes, Begins, Proceeds, Returns, Rests, locals, history
<1>4. StartBegin(c) => /\ mRunning' = TRUE /\ \A d \in Callers : op[d] = "none"
                       /\ \/ Rests /\ mRunning
                          \/ Begins(c, "start", "startup") /\ ~mRunning
  BY <1>1, <1>3 DEF StartBegin, Enter
<1>5. StartPeer(c) => Returns(c, "startup")
  BY <1>2 DEF StartPeer
<1>6. ConnectBegin(c) => Rests \/ Begins(c, "connect", "connectPeer")
  BY <1>1, <1>3 DEF ConnectBegin, Enter
<1>7. ConnectPeer(c) => \/ Proceeds(c, "connectPeer", "activate")
                        \/ Returns(c, "connectPeer")
  BY <1>1, <1>2 DEF ConnectPeer
<1>8. Activate(c) => Proceeds(c, "activate", "schedule")
  BY <1>1 DEF Activate
<1>9. DisconnectBegin(c) => Begins(c, "disconnect", "deactivate")
  BY <1>1, <1>3 DEF DisconnectBegin, Enter
<1>10. StopBegin(c) => Begins(c, "stop", IF mRunning THEN "deactivate" ELSE "teardown")
  BY <1>1 DEF StopBegin, Enter
<1>11. Deactivate(c) => Proceeds(c, "deactivate", "waitWakeups")
  BY <1>1 DEF Deactivate
<1>12. Wait(c) => Proceeds(c, "waitWakeups", "waitJobs") \/ Proceeds(c, "waitJobs", "teardown")
  BY <1>1 DEF Wait
<1>13. TeardownSession(c) => \/ Proceeds(c, "teardown", "finish")
                             \/ Proceeds(c, "teardown", "clear")
  BY <1>1 DEF TeardownSession
<1>14. TeardownClear(c) => Proceeds(c, "clear", "finish")
  BY <1>1 DEF TeardownClear
<1>15. Finish(c) => Returns(c, "finish")
  BY <1>1 DEF Finish
<1> QED BY <1>4, <1>5, <1>6, <1>7, <1>8, <1>9, <1>10, <1>11, <1>12, <1>13, <1>14, <1>15

LEMMA CallStepShape ==
    ASSUME ShapeInv, NEW c \in Callers, CallStep(c)
    PROVE  ShapeInv'
<1>1. PumpInv'
  BY CallStepKeepsToken DEF ShapeInv
<1>2. CallTypes /\ CallerFits(op[c], pc[c], wasRunning[c])
  BY DEF ShapeInv, CallShape
<1>3. /\ CallShape' /\ Mixes' /\ op' \in [Callers -> Operations]
      /\ wasRunning' \in [Callers -> BOOLEAN] /\ crossed' \in BOOLEAN
  <2>1. CASE StartBegin(c) \/ ConnectBegin(c) \/ DisconnectBegin(c) \/ StopBegin(c)
    BY <1>2, <2>1, CallSteps, RestsShape, BeginsShape DEF CallTypes
  <2>2. CASE StartPeer(c) \/ Finish(c)
    BY <2>2, CallSteps, ReturnsShape
  <2>3. CASE ConnectPeer(c) \/ Activate(c)
    <3>1. \/ Returns(c, "connectPeer")
          \/ Proceeds(c, "connectPeer", "activate") \/ Proceeds(c, "activate", "schedule")
      BY <2>3, CallSteps
    <3>2. pc[c] \in {"connectPeer", "activate"} =>
             /\ CallerFits(op[c], "activate", wasRunning[c])
             /\ CallerFits(op[c], "schedule", wasRunning[c])
      BY <1>2 DEF CallerFits, ScheduleStatements, WaitStatements, LastStatements
    <3> QED BY <3>1, <3>2, ReturnsShape, ProceedsShape DEF Proceeds
  <2>4. CASE Deactivate(c) \/ Wait(c)
    <3>1. \/ Proceeds(c, "deactivate", "waitWakeups")
          \/ Proceeds(c, "waitWakeups", "waitJobs") \/ Proceeds(c, "waitJobs", "teardown")
      BY <2>4, CallSteps
    <3>2. pc[c] \in WaitStatements =>
             /\ CallerFits(op[c], "waitWakeups", wasRunning[c])
             /\ CallerFits(op[c], "waitJobs", wasRunning[c])
             /\ CallerFits(op[c], "teardown", wasRunning[c])
      BY <1>2 DEF CallerFits, ScheduleStatements, WaitStatements, LastStatements
    <3> QED BY <3>1, <3>2, ProceedsShape DEF Proceeds, WaitStatements
  <2>5. CASE TeardownSession(c) \/ TeardownClear(c)
    <3>1. \/ Proceeds(c, "teardown", "finish")
          \/ Proceeds(c, "teardown", "clear") \/ Proceeds(c, "clear", "finish")
      BY <2>5, CallSteps
    <3>2. pc[c] \in LastStatements =>
             /\ CallerFits(op[c], "clear", wasRunning[c])
             /\ CallerFits(op[c], "finish", wasRunning[c])
      BY <1>2 DEF CallerFits, ScheduleStatements, WaitStatements, LastStatements
    <3> QED BY <3>1, <3>2, ProceedsShape DEF Proceeds, LastStatements
  <2> QED BY <2>1, <2>2, <2>3, <2>4, <2>5 DEF CallStep
<1>4. /\ mRunning' \in BOOLEAN /\ mIoPumpActive' \in BOOLEAN /\ peerStarted' \in BOOLEAN
      /\ poolOpen' \in BOOLEAN /\ quiet' \in BOOLEAN
      /\ UNCHANGED <<wakeups, mPendingIoJobs, mPendingDelayedWakeups>>
  <2> USE <1>2 DEF CallTypes, flags, counters, pool, peer, locals, history
  <2>1. CASE StartBegin(c) \/ StartPeer(c)
    BY <2>1 DEF StartBegin, StartPeer
  <2>2. CASE ConnectBegin(c) \/ ConnectPeer(c) \/ Activate(c)
    BY <2>2 DEF ConnectBegin, ConnectPeer, Activate
  <2>3. CASE DisconnectBegin(c) \/ StopBegin(c) \/ Deactivate(c) \/ Wait(c)
    BY <2>3 DEF DisconnectBegin, StopBegin, Deactivate, Wait
  <2>4. CASE TeardownSession(c) \/ TeardownClear(c) \/ Finish(c)
    BY <2>4 DEF TeardownSession, TeardownClear, Finish
  <2> QED BY <2>1, <2>2, <2>3, <2>4 DEF CallStep
<1> QED BY <1>1, <1>2, <1>3, <1>4 DEF ShapeInv, CallTypes

-----------------------------------------------------------------------------
(* What a step of a schedule or of the pump is to the calls: a worker goes *)
(* on, or a caller that connects goes on or returns.                       *)
LEMMA ScheduleSteps ==
    ASSUME ShapeInv, NEW t \in Threads, ScheduleStep(t)
    PROVE  /\ \/ /\ t \in Callers /\ op[t] = "connect" /\ pc[t] \in ScheduleStatements
                 /\ \/ Returns(t, pc[t])
                    \/ /\ Proceeds(t, pc[t], pc'[t])
                       /\ pc'[t] \in {"cas", "submitJob", "unschedule"}
              \/ /\ t \in PoolWorkers /\ pc[t] \in ScheduleStatements
                 /\ crossed' = crossed
                 /\ ret[t] \in {"jobDone", "wakeupDone"}
                 /\ \/ WorkerGoes(t, ret[t], "idle")
                    \/ \E s \in {"cas", "submitJob", "unschedule"} : WorkerGoes(t, s, ret[t])
           /\ UNCHANGED <<mRunning, mIoPumpActive, peerStarted, poolOpen, quiet, crossed, session,
                          peer, starts, tried, wakeups, mPendingDelayedWakeups>>
<1> DEFINE Stayed == UNCHANGED <<mRunning, mIoPumpActive, peerStarted, poolOpen, quiet, crossed,
                                 session, peer, starts, tried, wakeups, mPendingDelayedWakeups,
                                 wasRunning>>
<1>1. /\ pc[t] \in ScheduleStatements /\ Stayed
      /\ \/ Leave(t, pc[t])
         \/ \E s \in {"cas", "submitJob", "unschedule"} :
               pc' = [pc EXCEPT ![t] = s] /\ Stays
  <2> USE DEF ScheduleStatements, Goto, flags, counters, session, pool, peer, locals, history
  <2>1. CASE ScheduleIoPump(t)
    BY <2>1 DEF ScheduleIoPump, Leave
  <2>2. CASE ClaimPump(t)
    BY <2>2 DEF ClaimPump, Leave
  <2>3. CASE SubmitJob(t)
    BY <2>3 DEF SubmitJob, Leave
  <2>4. CASE Unschedule(t)
    BY <2>4 DEF Unschedule, Leave
  <2> QED BY <2>1, <2>2, <2>3, <2>4 DEF ScheduleStep
<1>2. /\ pc \in [Threads -> Statements]
      /\ ret \in [Threads -> {"idle", "jobDone", "wakeupDone"}]
      /\ op \in [Callers -> Operations] /\ wasRunning \in [Callers -> BOOLEAN]
  BY DEF ShapeInv, PumpInv, PumpTypes, CallTypes
<1>3. CASE t \in Callers
  <2>1. ret[t] = "idle" /\ CallerFits(op[t], pc[t], wasRunning[t])
    BY <1>3 DEF ShapeInv, CallShape
  <2>2. op[t] = "connect" /\ wasRunning[t] = FALSE
    BY <1>1, <1>2, <1>3, <2>1 DEF CallerFits, ScheduleStatements, WaitStatements, LastStatements
  <2>3. /\ [wasRunning EXCEPT ![t] = FALSE] = wasRunning
        /\ [wasRunning EXCEPT ![t] = wasRunning[t]] = wasRunning
        /\ [op EXCEPT ![t] = op[t]] = op
        /\ [ret EXCEPT ![t] = "idle"] = ret
    BY <1>2, <1>3, <2>1, <2>2, CallersApart
  <2>4. CASE Leave(t, pc[t])
    <3>1. Returns(t, pc[t])
      BY <1>1, <1>3, <2>1, <2>3, <2>4 DEF Returns, CallerGoes, Leave, Goto
    <3> QED BY <1>1, <1>3, <2>2, <3>1
  <2>5. CASE \E s \in {"cas", "submitJob", "unschedule"} : pc' = [pc EXCEPT ![t] = s] /\ Stays
    <3>1. PICK s \in {"cas", "submitJob", "unschedule"} : pc' = [pc EXCEPT ![t] = s] /\ Stays
      BY <2>5
    <3>2. pc'[t] = s
      BY <1>2, <3>1
    <3>3. Proceeds(t, pc[t], pc'[t])
      BY <1>1, <2>3, <3>1, <3>2 DEF Proceeds, CallerGoes, Stays
    <3> QED BY <1>1, <1>3, <2>2, <3>2, <3>3
  <2> QED BY <1>1, <2>4, <2>5
<1>4. CASE t \in PoolWorkers
  <2>1. WorkerFits(pc[t], ret[t]) /\ t \notin Callers
    BY <1>4, WorkersApart DEF ShapeInv, CallShape
  <2>2. ret[t] \in {"jobDone", "wakeupDone"}
    BY <1>1, <2>1 DEF WorkerFits, ScheduleStatements, JobStatements, TickStatements
  <2>3. [ret EXCEPT ![t] = ret[t]] = ret
    BY <1>2
  <2>4. CASE Leave(t, pc[t])
    <3>1. WorkerGoes(t, ret[t], "idle")
      BY <1>1, <2>1, <2>4 DEF WorkerGoes, Leave, Goto
    <3> QED BY <1>1, <1>4, <2>2, <3>1
  <2>5. CASE \E s \in {"cas", "submitJob", "unschedule"} : pc' = [pc EXCEPT ![t] = s] /\ Stays
    <3>1. PICK s \in {"cas", "submitJob", "unschedule"} : pc' = [pc EXCEPT ![t] = s] /\ Stays
      BY <2>5
    <3>2. WorkerGoes(t, s, ret[t])
      BY <1>1, <2>3, <3>1 DEF WorkerGoes, Stays
    <3> QED BY <1>1, <1>4, <2>2, <3>2
  <2> QED BY <1>1, <2>4, <2>5
<1> QED BY <1>3, <1>4 DEF Threads

LEMMA ScheduleStepShape ==
    ASSUME ShapeInv, NEW t \in Threads, ScheduleStep(t)
    PROVE  ShapeInv'
<1>1. PumpInv' /\ CallTypes
  BY ScheduleStepKeepsToken DEF ShapeInv
<1>2. /\ \/ /\ t \in Callers /\ op[t] = "connect" /\ pc[t] \in ScheduleStatements
            /\ \/ Returns(t, pc[t])
               \/ /\ Proceeds(t, pc[t], pc'[t])
                  /\ pc'[t] \in {"cas", "submitJob", "unschedule"}
         \/ /\ t \in PoolWorkers /\ pc[t] \in ScheduleStatements
            /\ crossed' = crossed
            /\ ret[t] \in {"jobDone", "wakeupDone"}
            /\ \/ WorkerGoes(t, ret[t], "idle")
               \/ \E s \in {"cas", "submitJob", "unschedule"} : WorkerGoes(t, s, ret[t])
      /\ UNCHANGED <<mRunning, mIoPumpActive, peerStarted, poolOpen, quiet, crossed, session,
                     peer, starts, tried, wakeups, mPendingDelayedWakeups>>
  BY ScheduleSteps
<1>3. /\ CallShape' /\ Mixes' /\ op' \in [Callers -> Operations]
      /\ wasRunning' \in [Callers -> BOOLEAN] /\ crossed' \in BOOLEAN
  <2>1. CASE t \in Callers /\ op[t] = "connect" /\ Returns(t, pc[t])
    BY <2>1, ReturnsShape
  <2>2. CASE /\ t \in Callers /\ op[t] = "connect" /\ Proceeds(t, pc[t], pc'[t])
             /\ pc'[t] \in {"cas", "submitJob", "unschedule"}
    <3>1. wasRunning[t] = FALSE
      BY <2>2, IdleCaller
    <3>2. CallerFits(op[t], pc'[t], wasRunning[t])
      BY <2>2, <3>1 DEF CallerFits, ScheduleStatements
    <3> QED BY <2>2, <3>2, ProceedsShape
  <2>3. CASE t \in PoolWorkers /\ WorkerGoes(t, ret[t], "idle")
    <3>1. WorkerFits(ret[t], "idle")
      BY <1>2, <2>3, WorkersApart DEF WorkerFits, JobStatements
    <3>2. CallShape' /\ op' = op /\ wasRunning' = wasRunning
      BY <2>3, <3>1, WorkerFitsOn, WorkerGoesOn
    <3> QED BY <1>1, <1>2, <3>2, StayMixes DEF CallTypes
  <2>4. CASE /\ t \in PoolWorkers
             /\ \E s \in {"cas", "submitJob", "unschedule"} : WorkerGoes(t, s, ret[t])
    <3>1. PICK s \in {"cas", "submitJob", "unschedule"} : WorkerGoes(t, s, ret[t])
      BY <2>4
    <3>2. WorkerFits(s, ret[t])
      BY <1>2, <2>4, WorkersApart DEF WorkerFits, ScheduleStatements
    <3>3. CallShape' /\ op' = op /\ wasRunning' = wasRunning
      BY <2>4, <3>1, <3>2, WorkerFitsOn, WorkerGoesOn
    <3> QED BY <1>1, <1>2, <3>3, StayMixes DEF CallTypes
  <2> QED BY <1>2, <2>1, <2>2, <2>3, <2>4
<1>4. mPendingIoJobs' \in Int
  <2> USE <1>1 DEF CallTypes, counters
  <2>1. CASE ScheduleIoPump(t) \/ ClaimPump(t) \/ Unschedule(t)
    BY <2>1 DEF ScheduleIoPump, ClaimPump, Unschedule
  <2>2. CASE SubmitJob(t)
    BY <2>2 DEF SubmitJob
  <2> QED BY <2>1, <2>2 DEF ScheduleStep
<1> QED BY <1>1, <1>2, <1>3, <1>4 DEF ShapeInv, CallTypes

(* What a step of the pump is to the thread that takes it.                  *)
LEMMA PumpSteps ==
    ASSUME ShapeInv, NEW w \in PoolWorkers, PumpStep(w)
    PROVE  /\ ret[w] = "idle" /\ pc[w] \in {"idle", "wakeupDone"} \union JobStatements
           /\ \/ \E s \in {"idle"} \union JobStatements : WorkerGoes(w, s, "idle")
              \/ WorkerGoes(w, "schedule", "jobDone") /\ pc[w] = "recheck"
              \/ WorkerGoes(w, "schedule", "wakeupDone") /\ pc[w] = "idle"
           /\ UNCHANGED <<mRunning, mIoPumpActive, peerStarted, poolOpen, quiet, crossed,
                          attempts, starts, tried>>
           /\ wakeups' \in Nat /\ mPendingIoJobs' \in Int /\ mPendingDelayedWakeups' \in Int
<1>1. /\ ret \in [Threads -> {"idle", "jobDone", "wakeupDone"}] /\ w \in Threads
      /\ WorkerFits(pc[w], ret[w])
      /\ wakeups \in Nat /\ mPendingIoJobs \in Int /\ mPendingDelayedWakeups \in Int
  BY WorkersApart DEF ShapeInv, PumpInv, PumpTypes, CallTypes, CallShape
<1> DEFINE Stayed == /\ UNCHANGED <<mRunning, mIoPumpActive, peerStarted, poolOpen, quiet,
                                    crossed, attempts, starts, tried>>
                     /\ UNCHANGED <<op, wasRunning>>
<1>2. /\ pc[w] \in {"idle", "wakeupDone"} \union JobStatements /\ Stayed
      /\ \/ /\ UNCHANGED ret
            /\ \/ \E s \in {"idle"} \union JobStatements : pc' = [pc EXCEPT ![w] = s]
               \/ pc' = pc /\ pc[w] = "tick"
         \/ /\ pc[w] = "recheck" /\ pc' = [pc EXCEPT ![w] = "schedule"]
            /\ ret' = [ret EXCEPT ![w] = "jobDone"]
         \/ /\ pc[w] = "idle" /\ pc' = [pc EXCEPT ![w] = "schedule"]
            /\ ret' = [ret EXCEPT ![w] = "wakeupDone"]
  <2> USE DEF JobStatements, TickStatements, Goto, flags, counters, session, pool, peer, locals,
              history
  <2>1. CASE TakeJob(w)
    BY <2>1 DEF TakeJob
  <2>2. CASE DropFlag(w)
    BY <2>2 DEF DropFlag
  <2>3. CASE Receive(w)
    BY <2>3 DEF Receive
  <2>4. CASE EndSession(w)
    BY <2>4 DEF EndSession, Disconnect
  <2>5. CASE ClearSession(w)
    BY <2>5 DEF ClearSession
  <2>6. CASE TickEnds(w)
    BY <2>6 DEF TickEnds
  <2>7. CASE PumpAgain(w)
    BY <2>7 DEF PumpAgain
  <2>8. CASE JobDone(w)
    BY <2>8 DEF JobDone
  <2>9. CASE SubmitWakeup(w)
    BY <2>9 DEF SubmitWakeup
  <2>10. CASE TakeWakeup(w)
    BY <2>10 DEF TakeWakeup
  <2>11. CASE WakeupDone(w)
    BY <2>11 DEF WakeupDone
  <2> QED BY <2>1, <2>2, <2>3, <2>4, <2>5, <2>6, <2>7, <2>8, <2>9, <2>10, <2>11 DEF PumpStep
<1>3. ret[w] = "idle"
  BY <1>1, <1>2 DEF WorkerFits, ScheduleStatements, JobStatements, TickStatements
<1>4. [ret EXCEPT ![w] = "idle"] = ret /\ [pc EXCEPT ![w] = pc[w]] = pc
  BY <1>1, <1>3 DEF ShapeInv, PumpInv, PumpTypes
<1>5. \/ \E s \in {"idle"} \union JobStatements : WorkerGoes(w, s, "idle")
      \/ WorkerGoes(w, "schedule", "jobDone") /\ pc[w] = "recheck"
      \/ WorkerGoes(w, "schedule", "wakeupDone") /\ pc[w] = "idle"
  <2>1. CASE /\ UNCHANGED ret
             /\ \E s \in {"idle"} \union JobStatements : pc' = [pc EXCEPT ![w] = s]
    BY <1>2, <1>4, <2>1 DEF WorkerGoes
  <2>2. CASE UNCHANGED ret /\ pc' = pc /\ pc[w] = "tick"
    BY <1>2, <1>4, <2>2 DEF WorkerGoes, JobStatements, TickStatements
  <2> QED BY <1>2, <2>1, <2>2 DEF WorkerGoes
<1>6. wakeups' \in Nat /\ mPendingIoJobs' \in Int /\ mPendingDelayedWakeups' \in Int
  <2> USE <1>1 DEF counters, pool
  <2>1. CASE TakeJob(w) \/ DropFlag(w) \/ Receive(w) \/ EndSession(w) \/ ClearSession(w)
    BY <2>1 DEF TakeJob, DropFlag, Receive, EndSession, ClearSession
  <2>2. CASE TickEnds(w) \/ PumpAgain(w) \/ JobDone(w)
    BY <2>2 DEF TickEnds, PumpAgain, JobDone
  <2>3. CASE SubmitWakeup(w) \/ TakeWakeup(w) \/ WakeupDone(w)
    BY <2>3 DEF SubmitWakeup, TakeWakeup, WakeupDone
  <2> QED BY <2>1, <2>2, <2>3 DEF PumpStep
<1> QED BY <1>2, <1>3, <1>5, <1>6

LEMMA PumpStepShape ==
    ASSUME ShapeInv, NEW w \in PoolWorkers, PumpStep(w)
    PROVE  ShapeInv'
<1>1. PumpInv' /\ CallTypes
  BY PumpStepKeepsToken DEF ShapeInv
<1>2. PICK s, r : WorkerGoes(w, s, r) /\ WorkerFits(s, r)
  <2>1. CASE \E s \in {"idle"} \union JobStatements : WorkerGoes(w, s, "idle")
    BY <2>1 DEF WorkerFits
  <2>2. CASE WorkerGoes(w, "schedule", "jobDone") \/ WorkerGoes(w, "schedule", "wakeupDone")
    BY <2>2 DEF WorkerFits, ScheduleStatements
  <2> QED BY <2>1, <2>2, PumpSteps
<1>3. CallShape' /\ op' = op /\ wasRunning' = wasRunning
  BY <1>2, WorkerFitsOn, WorkerGoesOn
<1>4. UNCHANGED <<mRunning, mIoPumpActive, peerStarted, poolOpen, quiet, crossed>>
  BY PumpSteps
<1>5. Mixes'
  BY <1>3, <1>4, StayMixes
<1>6. wakeups' \in Nat /\ mPendingIoJobs' \in Int /\ mPendingDelayedWakeups' \in Int
  BY PumpSteps
<1> QED BY <1>1, <1>3, <1>4, <1>5, <1>6 DEF ShapeInv, CallTypes

LEMMA InitShape == Init => ShapeInv
<1> SUFFICES ASSUME Init PROVE ShapeInv
  OBVIOUS
<1>1. CallTypes
  <2>1. op \in [Callers -> Operations]
    BY DEF Init, Operations
  <2>2. wasRunning \in [Callers -> BOOLEAN]
    BY DEF Init
  <2>3. /\ mRunning \in BOOLEAN /\ mIoPumpActive \in BOOLEAN /\ peerStarted \in BOOLEAN
        /\ poolOpen \in BOOLEAN /\ quiet \in BOOLEAN /\ crossed \in BOOLEAN
    BY DEF Init
  <2>4. wakeups \in Nat /\ mPendingIoJobs \in Int /\ mPendingDelayedWakeups \in Int
    BY DEF Init
  <2> QED BY <2>1, <2>2, <2>3, <2>4 DEF CallTypes
<1>2. CallShape
  <2>1. \A c \in Callers : /\ op[c] = "none" /\ pc[c] = "idle" /\ wasRunning[c] = FALSE
                           /\ ret[c] = "idle"
    BY CallersApart DEF Init
  <2>2. \A w \in PoolWorkers : pc[w] = "idle" /\ ret[w] = "idle"
    BY WorkersApart DEF Init
  <2> QED BY <2>1, <2>2 DEF CallShape, CallerFits, WorkerFits
<1>3. Mixes
  BY DEF Init, Mixes
<1> QED BY <1>1, <1>2, <1>3, InitToken DEF ShapeInv

(* The peer, the owner of the pool, the application with a session it       *)
(* holds, and a step of something else.                                     *)
AppStep == \E s \in kept : AppReleases(s)
Elsewhere == PeerStep \/ ClosePool \/ AppStep \/ UNCHANGED vars

PeerFrame ==
    /\ UNCHANGED <<flags, counters, mSession, kept, ioJobs, wakeups, peerStarted, pc, locals,
                   history>>
    /\ connected' \subseteq connected

LEMMA OtherSteps ==
    ASSUME Elsewhere
    PROVE  PeerFrame /\ (poolOpen' = poolOpen \/ poolOpen' = FALSE)
<1>1. CASE PeerStep
  BY <1>1 DEF PeerStep, PeerAccepts, PeerFails, PeerLoses, PeerReceives, Arrives, PeerFrame,
              pool, session
<1>2. CASE ClosePool
  BY <1>2 DEF ClosePool, PeerFrame, session, peer
<1>4. CASE UNCHANGED vars
  BY <1>4 DEF PeerFrame, vars, pool, session, peer
<1>3. CASE AppStep
  BY <1>3 DEF AppStep, AppReleases, Disconnect, PeerFrame, pool
<1> QED BY <1>1, <1>2, <1>3, <1>4 DEF Elsewhere

LEMMA NextKeepsShape == ShapeInv /\ [Next]_vars => ShapeInv'
<1> SUFFICES ASSUME ShapeInv, [Next]_vars PROVE ShapeInv'
  OBVIOUS
<1>1. CASE \E c \in Callers : CallStep(c) \/ ScheduleStep(c)
  BY <1>1, CallersApart, CallStepShape, ScheduleStepShape
<1>2. CASE \E w \in PoolWorkers : ScheduleStep(w) \/ PumpStep(w)
  BY <1>2, WorkersApart, PumpStepShape, ScheduleStepShape
<1>3. CASE Elsewhere
  <2>1. PeerFrame /\ (poolOpen' = poolOpen \/ poolOpen' = FALSE)
    BY <1>3, OtherSteps
  <2>2. PumpInv'
    BY NextKeepsToken DEF ShapeInv
  <2> QED BY <2>1, <2>2 DEF ShapeInv, CallTypes, CallShape, Mixes, PeerFrame, flags, counters,
                            session, locals, history
<1> QED BY <1>1, <1>2, <1>3 DEF Next, Elsewhere, AppStep

(* The pump, statement by statement.                                        *)
LEMMA PumpWalks ==
    ASSUME ShapeInv, NEW w \in PoolWorkers
    PROVE  /\ TakeJob(w) =>
                 /\ pc[w] = "idle"
                 /\ \/ mRunning /\ mIoPumpActive /\ WorkerGoes(w, "tick", "idle")
                    \/ ~(mRunning /\ mIoPumpActive) /\ WorkerGoes(w, "dropFlag", "idle")
           /\ DropFlag(w) => pc[w] = "dropFlag" /\ WorkerGoes(w, "jobDone", "idle")
           /\ Receive(w) => /\ pc[w] = "tick"
                            /\ \E s \in {"tick", "endSession"} : WorkerGoes(w, s, "idle")
           /\ EndSession(w) => /\ pc[w] = "endSession"
                               /\ \E s \in {"tick", "clearSession"} : WorkerGoes(w, s, "idle")
           /\ ClearSession(w) => pc[w] = "clearSession" /\ WorkerGoes(w, "tick", "idle")
           /\ TickEnds(w) => pc[w] = "tick" /\ WorkerGoes(w, "recheck", "idle")
           /\ PumpAgain(w) =>
                 /\ pc[w] = "recheck"
                 /\ \/ WorkerGoes(w, "schedule", "jobDone")
                    \/ WorkerGoes(w, "submitWakeup", "idle")
                    \/ WorkerGoes(w, "jobDone", "idle") /\ ~(mRunning /\ mIoPumpActive)
           /\ JobDone(w) => pc[w] = "jobDone" /\ WorkerGoes(w, "idle", "idle")
           /\ SubmitWakeup(w) => pc[w] = "submitWakeup" /\ WorkerGoes(w, "jobDone", "idle")
           /\ TakeWakeup(w) => pc[w] = "idle" /\ WorkerGoes(w, "schedule", "wakeupDone")
           /\ WakeupDone(w) => pc[w] = "wakeupDone" /\ WorkerGoes(w, "idle", "idle")
<1>1. /\ ret \in [Threads -> {"idle", "jobDone", "wakeupDone"}] /\ w \in Threads
      /\ pc \in [Threads -> Statements]
  BY WorkersApart DEF ShapeInv, PumpInv, PumpTypes
<1>2. PumpStep(w) => ret[w] = "idle"
  BY PumpSteps
<1>3. /\ ret[w] = "idle" => [ret EXCEPT ![w] = "idle"] = ret
      /\ pc[w] = "tick" => [pc EXCEPT ![w] = "tick"] = pc
  BY <1>1
<1> USE DEF Goto, WorkerGoes, locals
<1>4. TakeJob(w) =>
         /\ pc[w] = "idle"
         /\ \/ mRunning /\ mIoPumpActive /\ WorkerGoes(w, "tick", "idle")
            \/ ~(mRunning /\ mIoPumpActive) /\ WorkerGoes(w, "dropFlag", "idle")
  BY <1>2, <1>3 DEF PumpStep, TakeJob
<1>5. DropFlag(w) => pc[w] = "dropFlag" /\ WorkerGoes(w, "jobDone", "idle")
  BY <1>2, <1>3 DEF PumpStep, DropFlag
<1>6. Receive(w) => /\ pc[w] = "tick"
                    /\ \E s \in {"tick", "endSession"} : WorkerGoes(w, s, "idle")
  BY <1>2, <1>3 DEF PumpStep, Receive
<1>7. EndSession(w) => /\ pc[w] = "endSession"
                       /\ \E s \in {"tick", "clearSession"} : WorkerGoes(w, s, "idle")
  BY <1>2, <1>3 DEF PumpStep, EndSession
<1>8. ClearSession(w) => pc[w] = "clearSession" /\ WorkerGoes(w, "tick", "idle")
  BY <1>2, <1>3 DEF PumpStep, ClearSession
<1>9. TickEnds(w) => pc[w] = "tick" /\ WorkerGoes(w, "recheck", "idle")
  BY <1>2, <1>3 DEF PumpStep, TickEnds
<1>10. PumpAgain(w) =>
          /\ pc[w] = "recheck"
          /\ \/ WorkerGoes(w, "schedule", "jobDone")
             \/ WorkerGoes(w, "submitWakeup", "idle")
             \/ WorkerGoes(w, "jobDone", "idle") /\ ~(mRunning /\ mIoPumpActive)
  BY <1>2, <1>3 DEF PumpStep, PumpAgain
<1>11. JobDone(w) => pc[w] = "jobDone" /\ WorkerGoes(w, "idle", "idle")
  BY <1>2, <1>3 DEF PumpStep, JobDone
<1>12. SubmitWakeup(w) => pc[w] = "submitWakeup" /\ WorkerGoes(w, "jobDone", "idle")
  BY <1>2, <1>3 DEF PumpStep, SubmitWakeup
<1>13. TakeWakeup(w) => pc[w] = "idle" /\ WorkerGoes(w, "schedule", "wakeupDone")
  BY <1>2, <1>3 DEF PumpStep, TakeWakeup
<1>14. WakeupDone(w) => pc[w] = "wakeupDone" /\ WorkerGoes(w, "idle", "idle")
  BY <1>2, <1>3 DEF PumpStep, WakeupDone
<1> QED BY <1>4, <1>5, <1>6, <1>7, <1>8, <1>9, <1>10, <1>11, <1>12, <1>13, <1>14

-----------------------------------------------------------------------------
(* The counters are exact: a job is counted until the pump that ran it is    *)
(* done, a wakeup until it has scheduled.                                    *)
InWakeup == {w \in PoolWorkers : pc[w] = "wakeupDone" \/ ret[w] = "wakeupDone"}

CountInv ==
    /\ mPendingIoJobs = ioJobs + Cardinality(InPump)
    /\ mPendingDelayedWakeups = wakeups + Cardinality(InWakeup)

JobHeld(s, r) == s \in JobStatements \/ r = "jobDone"
WakeupHeld(s, r) == s = "wakeupDone" \/ r = "wakeupDone"

LEMMA WorkerCounts ==
    ASSUME ShapeInv, NEW w \in PoolWorkers, NEW s, NEW r, WorkerGoes(w, s, r)
    PROVE  /\ Cardinality(InPump) \in Nat /\ Cardinality(InPump)' \in Nat
           /\ Cardinality(InPump)'
              = Cardinality(InPump) + One(JobHeld(s, r)) - One(JobHeld(pc[w], ret[w]))
           /\ Cardinality(InWakeup) \in Nat /\ Cardinality(InWakeup)' \in Nat
           /\ Cardinality(InWakeup)'
              = Cardinality(InWakeup) + One(WakeupHeld(s, r)) - One(WakeupHeld(pc[w], ret[w]))
<1>1. /\ pc'[w] = s /\ ret'[w] = r
      /\ \A t \in Threads \ {w} : pc'[t] = pc[t] /\ ret'[t] = ret[t]
  BY WorkerGoesOn
<1>2. IsFiniteSet(InPump) /\ IsFiniteSet(InWakeup)
  BY ClientThreadsAssumption, FS_Subset DEF InPump, InWakeup
<1>3. \A u : u # w => (u \in InPump <=> u \in InPump') /\ (u \in InWakeup <=> u \in InWakeup')
  BY <1>1, WorkersApart DEF InPump, InWakeup
<1>4. /\ w \in InPump <=> JobHeld(pc[w], ret[w])
      /\ w \in InWakeup <=> WakeupHeld(pc[w], ret[w])
  BY DEF InPump, InWakeup, JobHeld, WakeupHeld, JobStatements, TickStatements
<1>5. (w \in InPump' <=> JobHeld(s, r)) /\ (w \in InWakeup' <=> WakeupHeld(s, r))
  BY <1>1 DEF InPump, InWakeup, JobHeld, WakeupHeld, JobStatements, TickStatements
<1>6. /\ Cardinality(InPump) \in Nat /\ Cardinality(InPump') \in Nat
      /\ Cardinality(InPump') = Cardinality(InPump) + One(w \in InPump') - One(w \in InPump)
  BY <1>2, <1>3, CountMove
<1>7. /\ Cardinality(InWakeup) \in Nat /\ Cardinality(InWakeup') \in Nat
      /\ Cardinality(InWakeup')
         = Cardinality(InWakeup) + One(w \in InWakeup') - One(w \in InWakeup)
  BY <1>2, <1>3, CountMove
<1>8. /\ One(w \in InPump) = One(JobHeld(pc[w], ret[w]))
      /\ One(w \in InPump') = One(JobHeld(s, r))
      /\ One(w \in InWakeup) = One(WakeupHeld(pc[w], ret[w]))
      /\ One(w \in InWakeup') = One(WakeupHeld(s, r))
  BY <1>4, <1>5 DEF One
<1> QED BY <1>6, <1>7, <1>8

(* Nothing is held or given back.                                           *)
LEMMA WorkersStay ==
    ASSUME \A w \in PoolWorkers : pc'[w] = pc[w] /\ ret'[w] = ret[w]
    PROVE  InPump' = InPump /\ InWakeup' = InWakeup
BY DEF InPump, InWakeup

LEMMA CallStepRests ==
    ASSUME ShapeInv, NEW c \in Callers, CallStep(c)
    PROVE  /\ \A w \in PoolWorkers : pc'[w] = pc[w]
           /\ UNCHANGED <<ret, ioJobs, wakeups, poolOpen, mPendingIoJobs, mPendingDelayedWakeups,
                          mIoPumpScheduled>>
<1>1. UNCHANGED <<ret, ioJobs, wakeups, poolOpen, mPendingIoJobs, mPendingDelayedWakeups,
                  mIoPumpScheduled>>
  <2> USE DEF flags, counters, pool, locals
  <2>1. CASE StartBegin(c) \/ StartPeer(c)
    BY <2>1 DEF StartBegin, StartPeer
  <2>2. CASE ConnectBegin(c) \/ ConnectPeer(c) \/ Activate(c)
    BY <2>2 DEF ConnectBegin, ConnectPeer, Activate
  <2>3. CASE DisconnectBegin(c) \/ StopBegin(c) \/ Deactivate(c) \/ Wait(c)
    BY <2>3 DEF DisconnectBegin, StopBegin, Deactivate, Wait
  <2>4. CASE TeardownSession(c) \/ TeardownClear(c) \/ Finish(c)
    BY <2>4 DEF TeardownSession, TeardownClear, Finish
  <2> QED BY <2>1, <2>2, <2>3, <2>4 DEF CallStep
<1>2. pc' = pc \/ \E s : pc' = [pc EXCEPT ![c] = s]
  <2> USE DEF Goto, Return
  <2>1. CASE StartBegin(c) \/ StartPeer(c)
    BY <2>1 DEF StartBegin, StartPeer
  <2>2. CASE ConnectBegin(c) \/ ConnectPeer(c) \/ Activate(c)
    BY <2>2 DEF ConnectBegin, ConnectPeer, Activate
  <2>3. CASE DisconnectBegin(c) \/ StopBegin(c) \/ Deactivate(c) \/ Wait(c)
    BY <2>3 DEF DisconnectBegin, StopBegin, Deactivate, Wait
  <2>4. CASE TeardownSession(c) \/ TeardownClear(c) \/ Finish(c)
    BY <2>4 DEF TeardownSession, TeardownClear, Finish
  <2> QED BY <2>1, <2>2, <2>3, <2>4 DEF CallStep
<1>3. \A w \in PoolWorkers : w # c /\ w \in Threads
  BY WorkersApart
<1>4. pc \in [Threads -> Statements]
  BY DEF ShapeInv, PumpInv, PumpTypes
<1> QED BY <1>1, <1>2, <1>3, <1>4

LEMMA CallStepCounts ==
    ASSUME ShapeInv, CountInv, NEW c \in Callers, CallStep(c)
    PROVE  CountInv'
<1>1. InPump' = InPump /\ InWakeup' = InWakeup
  BY CallStepRests, WorkersStay
<1>2. UNCHANGED <<ioJobs, wakeups, mPendingIoJobs, mPendingDelayedWakeups>>
  BY CallStepRests
<1> QED BY <1>1, <1>2 DEF CountInv

LEMMA ScheduleStepCounts ==
    ASSUME ShapeInv, CountInv, NEW t \in Threads, ScheduleStep(t)
    PROVE  CountInv'
<1>1. /\ UNCHANGED <<wakeups, mPendingDelayedWakeups>>
      /\ \/ UNCHANGED <<ioJobs, mPendingIoJobs>>
         \/ ioJobs' = ioJobs + 1 /\ mPendingIoJobs' = mPendingIoJobs + 1
  <2> USE DEF counters, pool
  <2>1. CASE ScheduleIoPump(t) \/ ClaimPump(t) \/ Unschedule(t)
    BY <2>1 DEF ScheduleIoPump, ClaimPump, Unschedule
  <2>2. CASE SubmitJob(t)
    BY <2>2 DEF SubmitJob
  <2> QED BY <2>1, <2>2 DEF ScheduleStep
<1>2. Cardinality(InPump)' = Cardinality(InPump) /\ Cardinality(InWakeup)' = Cardinality(InWakeup)
  <2>1. CASE t \in Callers
    <3>1. \A w \in PoolWorkers : w # t /\ w \in Threads
      BY <2>1, WorkersApart
    <3>2. /\ pc \in [Threads -> Statements]
          /\ ret \in [Threads -> {"idle", "jobDone", "wakeupDone"}]
      BY DEF ShapeInv, PumpInv, PumpTypes
    <3>3. CallerGoes(t, "none", "idle", FALSE) \/ \E s : CallerGoes(t, op[t], s, wasRunning[t])
      BY <2>1, ScheduleSteps, CallersApart DEF Returns, Proceeds
    <3>4. \A w \in PoolWorkers : pc'[w] = pc[w] /\ ret'[w] = ret[w]
      BY <3>1, <3>2, <3>3 DEF CallerGoes
    <3> QED BY <3>4, WorkersStay
  <2>2. CASE t \in PoolWorkers
    <3>1. /\ pc[t] \in ScheduleStatements /\ ret[t] \in {"jobDone", "wakeupDone"}
          /\ \/ WorkerGoes(t, ret[t], "idle")
             \/ \E s \in {"cas", "submitJob", "unschedule"} : WorkerGoes(t, s, ret[t])
      BY <2>2, ScheduleSteps, WorkersApart
    <3>2. PICK s, r : /\ WorkerGoes(t, s, r)
                      /\ \/ s = ret[t] /\ r = "idle"
                         \/ s \in {"cas", "submitJob", "unschedule"} /\ r = ret[t]
      BY <3>1
    <3>3. /\ JobHeld(s, r) <=> JobHeld(pc[t], ret[t])
          /\ WakeupHeld(s, r) <=> WakeupHeld(pc[t], ret[t])
      BY <3>1, <3>2 DEF JobHeld, WakeupHeld, JobStatements, TickStatements, ScheduleStatements
    <3>4. /\ One(JobHeld(s, r)) = One(JobHeld(pc[t], ret[t]))
          /\ One(WakeupHeld(s, r)) = One(WakeupHeld(pc[t], ret[t]))
          /\ One(JobHeld(s, r)) \in Nat /\ One(WakeupHeld(s, r)) \in Nat
      BY <3>3 DEF One
    <3> QED BY <2>2, <3>2, <3>4, WorkerCounts
  <2> QED BY <2>1, <2>2 DEF Threads
<1>3. ioJobs \in Nat /\ mPendingIoJobs \in Int /\ Cardinality(InPump) \in Nat
  <2>1. IsFiniteSet(InPump)
    BY ClientThreadsAssumption, FS_Subset DEF InPump
  <2> QED BY <2>1, FS_CardinalityType DEF ShapeInv, PumpInv, PumpTypes, CallTypes
<1> QED BY <1>1, <1>2, <1>3 DEF CountInv

LEMMA PumpStepCounts ==
    ASSUME ShapeInv, CountInv, NEW w \in PoolWorkers, PumpStep(w)
    PROVE  CountInv'
<1> DEFINE Balances(s, r) ==
              /\ WorkerGoes(w, s, r)
              /\ mPendingIoJobs' - mPendingIoJobs
                 = (ioJobs' - ioJobs) + (One(JobHeld(s, r)) - One(JobHeld(pc[w], ret[w])))
              /\ mPendingDelayedWakeups' - mPendingDelayedWakeups
                 = (wakeups' - wakeups) + (One(WakeupHeld(s, r)) - One(WakeupHeld(pc[w], ret[w])))
<1>1. /\ ret[w] = "idle" /\ ioJobs \in Nat /\ wakeups \in Nat
      /\ mPendingIoJobs \in Int /\ mPendingDelayedWakeups \in Int
  BY PumpSteps DEF ShapeInv, PumpInv, PumpTypes, CallTypes
<1>2. /\ \A s, r : /\ JobHeld(s, r) => One(JobHeld(s, r)) = 1
                   /\ ~JobHeld(s, r) => One(JobHeld(s, r)) = 0
                   /\ WakeupHeld(s, r) => One(WakeupHeld(s, r)) = 1
                   /\ ~WakeupHeld(s, r) => One(WakeupHeld(s, r)) = 0
  BY DEF One
<1>3. /\ \A s \in JobStatements : JobHeld(s, "idle") /\ ~WakeupHeld(s, "idle")
      /\ ~JobHeld("idle", "idle") /\ ~WakeupHeld("idle", "idle")
      /\ JobHeld("schedule", "jobDone") /\ ~WakeupHeld("schedule", "jobDone")
      /\ ~JobHeld("schedule", "wakeupDone") /\ WakeupHeld("schedule", "wakeupDone")
      /\ ~JobHeld("wakeupDone", "idle") /\ WakeupHeld("wakeupDone", "idle")
  BY DEF JobHeld, WakeupHeld, JobStatements, TickStatements
<1>4. \E s, r : Balances(s, r)
  <2> USE <1>1 DEF flags, counters, pool
  <2>1. CASE TakeJob(w)
    <3>1. PICK s \in {"tick", "dropFlag"} : WorkerGoes(w, s, "idle")
      BY <2>1, PumpWalks
    <3>2. pc[w] = "idle" /\ s \in JobStatements
      BY <2>1, PumpWalks DEF JobStatements, TickStatements
    <3>3. UNCHANGED <<mPendingIoJobs, mPendingDelayedWakeups, wakeups>> /\ ioJobs' = ioJobs - 1
      BY <2>1 DEF TakeJob
    <3>4. /\ One(JobHeld(s, "idle")) = 1 /\ One(JobHeld(pc[w], ret[w])) = 0
          /\ One(WakeupHeld(s, "idle")) = 0 /\ One(WakeupHeld(pc[w], ret[w])) = 0
      BY <1>2, <1>3, <3>2
    <3> QED BY <3>1, <3>3, <3>4
  <2>2. CASE DropFlag(w) \/ Receive(w) \/ EndSession(w) \/ ClearSession(w) \/ TickEnds(w)
    <3>1. PICK s \in JobStatements : WorkerGoes(w, s, "idle")
      BY <2>2, PumpWalks DEF JobStatements, TickStatements
    <3>2. pc[w] \in JobStatements
      BY <2>2, PumpWalks DEF JobStatements, TickStatements
    <3>3. UNCHANGED <<mPendingIoJobs, mPendingDelayedWakeups, wakeups, ioJobs>>
      BY <2>2 DEF DropFlag, Receive, EndSession, ClearSession, TickEnds
    <3>4. /\ One(JobHeld(s, "idle")) = 1 /\ One(JobHeld(pc[w], ret[w])) = 1
          /\ One(WakeupHeld(s, "idle")) = 0 /\ One(WakeupHeld(pc[w], ret[w])) = 0
      BY <1>2, <1>3, <3>2
    <3> QED BY <3>1, <3>3, <3>4
  <2>3. CASE PumpAgain(w)
    <3>1. PICK s, r : /\ WorkerGoes(w, s, r)
                      /\ \/ s \in JobStatements /\ r = "idle"
                         \/ s = "schedule" /\ r = "jobDone"
      BY <2>3, PumpWalks DEF JobStatements
    <3>2. pc[w] \in JobStatements
      BY <2>3, PumpWalks DEF JobStatements
    <3>3. UNCHANGED <<mPendingIoJobs, mPendingDelayedWakeups, wakeups, ioJobs>>
      BY <2>3 DEF PumpAgain
    <3>4. /\ One(JobHeld(s, r)) = 1 /\ One(JobHeld(pc[w], ret[w])) = 1
          /\ One(WakeupHeld(s, r)) = 0 /\ One(WakeupHeld(pc[w], ret[w])) = 0
      BY <1>2, <1>3, <3>1, <3>2
    <3> QED BY <3>1, <3>3, <3>4
  <2>4. CASE JobDone(w)
    <3>1. WorkerGoes(w, "idle", "idle") /\ pc[w] \in JobStatements
      BY <2>4, PumpWalks DEF JobStatements
    <3>2. /\ UNCHANGED <<mPendingDelayedWakeups, wakeups, ioJobs>>
          /\ mPendingIoJobs' = mPendingIoJobs - 1
      BY <2>4 DEF JobDone
    <3>3. /\ One(JobHeld("idle", "idle")) = 0 /\ One(JobHeld(pc[w], ret[w])) = 1
          /\ One(WakeupHeld("idle", "idle")) = 0 /\ One(WakeupHeld(pc[w], ret[w])) = 0
      BY <1>2, <1>3, <3>1
    <3> QED BY <3>1, <3>2, <3>3
  <2>5. CASE SubmitWakeup(w)
    <3>1. /\ WorkerGoes(w, "jobDone", "idle") /\ pc[w] \in JobStatements
          /\ "jobDone" \in JobStatements
      BY <2>5, PumpWalks DEF JobStatements
    <3>2. /\ UNCHANGED <<mPendingIoJobs, ioJobs>>
          /\ \/ /\ wakeups' = wakeups + 1
                /\ mPendingDelayedWakeups' = mPendingDelayedWakeups + 1
             \/ UNCHANGED <<wakeups, mPendingDelayedWakeups>>
      BY <2>5 DEF SubmitWakeup
    <3>3. /\ One(JobHeld("jobDone", "idle")) = 1 /\ One(JobHeld(pc[w], ret[w])) = 1
          /\ One(WakeupHeld("jobDone", "idle")) = 0 /\ One(WakeupHeld(pc[w], ret[w])) = 0
      BY <1>2, <1>3, <3>1
    <3> QED BY <3>1, <3>2, <3>3
  <2>6. CASE TakeWakeup(w)
    <3>1. WorkerGoes(w, "schedule", "wakeupDone") /\ pc[w] = "idle"
      BY <2>6, PumpWalks
    <3>2. /\ UNCHANGED <<mPendingIoJobs, mPendingDelayedWakeups, ioJobs>>
          /\ wakeups' = wakeups - 1
      BY <2>6 DEF TakeWakeup
    <3>3. /\ One(JobHeld("schedule", "wakeupDone")) = 0 /\ One(JobHeld(pc[w], ret[w])) = 0
          /\ One(WakeupHeld("schedule", "wakeupDone")) = 1 /\ One(WakeupHeld(pc[w], ret[w])) = 0
      BY <1>2, <1>3, <3>1
    <3> QED BY <3>1, <3>2, <3>3
  <2>7. CASE WakeupDone(w)
    <3>1. WorkerGoes(w, "idle", "idle") /\ pc[w] = "wakeupDone"
      BY <2>7, PumpWalks
    <3>2. /\ UNCHANGED <<mPendingIoJobs, wakeups, ioJobs>>
          /\ mPendingDelayedWakeups' = mPendingDelayedWakeups - 1
      BY <2>7 DEF WakeupDone
    <3>3. /\ One(JobHeld("idle", "idle")) = 0 /\ One(JobHeld(pc[w], ret[w])) = 0
          /\ One(WakeupHeld("idle", "idle")) = 0 /\ One(WakeupHeld(pc[w], ret[w])) = 1
      BY <1>2, <1>3, <3>1
    <3> QED BY <3>1, <3>2, <3>3
  <2> QED BY <2>1, <2>2, <2>3, <2>4, <2>5, <2>6, <2>7 DEF PumpStep
<1>5. PICK s, r : Balances(s, r)
  BY <1>4
<1>6. /\ Cardinality(InPump) \in Nat
      /\ Cardinality(InPump)'
         = Cardinality(InPump) + One(JobHeld(s, r)) - One(JobHeld(pc[w], ret[w]))
      /\ Cardinality(InWakeup) \in Nat
      /\ Cardinality(InWakeup)'
         = Cardinality(InWakeup) + One(WakeupHeld(s, r)) - One(WakeupHeld(pc[w], ret[w]))
  BY <1>5, WorkerCounts
<1>7. /\ One(JobHeld(s, r)) \in Nat /\ One(JobHeld(pc[w], ret[w])) \in Nat
      /\ One(WakeupHeld(s, r)) \in Nat /\ One(WakeupHeld(pc[w], ret[w])) \in Nat
  BY DEF One
<1>8. /\ ioJobs' \in Nat /\ wakeups' \in Nat
      /\ mPendingIoJobs' \in Int /\ mPendingDelayedWakeups' \in Int
  BY PumpSteps, PumpStepShape DEF ShapeInv, PumpInv, PumpTypes
<1>9. mPendingIoJobs' = ioJobs' + Cardinality(InPump)'
  <2>1. PICK n \in Nat, x \in Nat, y \in Nat :
           /\ n = Cardinality(InPump) /\ x = One(JobHeld(s, r)) /\ y = One(JobHeld(pc[w], ret[w]))
    BY <1>6, <1>7
  <2>2. Cardinality(InPump)' = n + x - y
    BY <1>6, <2>1
  <2>3. mPendingIoJobs = ioJobs + n
    BY <2>1 DEF CountInv
  <2>4. mPendingIoJobs' - mPendingIoJobs = (ioJobs' - ioJobs) + (x - y)
    BY <1>5, <2>1
  <2> HIDE DEF Balances
  <2>5. PICK m \in Int, mm \in Int, j \in Nat, jj \in Nat :
           m = mPendingIoJobs /\ mm = mPendingIoJobs' /\ j = ioJobs /\ jj = ioJobs'
    BY <1>1, <1>8
  <2>6. m = j + n /\ mm - m = (jj - j) + (x - y)
    BY <2>3, <2>4, <2>5
  <2>7. mm = jj + (n + x - y)
    BY <2>6
  <2> QED BY <2>2, <2>5, <2>7
<1>10. mPendingDelayedWakeups' = wakeups' + Cardinality(InWakeup)'
  <2>1. PICK n \in Nat, x \in Nat, y \in Nat :
           /\ n = Cardinality(InWakeup) /\ x = One(WakeupHeld(s, r)) /\ y = One(WakeupHeld(pc[w], ret[w]))
    BY <1>6, <1>7
  <2>2. Cardinality(InWakeup)' = n + x - y
    BY <1>6, <2>1
  <2>3. mPendingDelayedWakeups = wakeups + n
    BY <2>1 DEF CountInv
  <2>4. mPendingDelayedWakeups' - mPendingDelayedWakeups = (wakeups' - wakeups) + (x - y)
    BY <1>5, <2>1
  <2> HIDE DEF Balances
  <2>5. PICK m \in Int, mm \in Int, j \in Nat, jj \in Nat :
           m = mPendingDelayedWakeups /\ mm = mPendingDelayedWakeups' /\ j = wakeups /\ jj = wakeups'
    BY <1>1, <1>8
  <2>6. m = j + n /\ mm - m = (jj - j) + (x - y)
    BY <2>3, <2>4, <2>5
  <2>7. mm = jj + (n + x - y)
    BY <2>6
  <2> QED BY <2>2, <2>5, <2>7
<1> QED BY <1>9, <1>10 DEF CountInv

LEMMA InitCounts == Init => CountInv
<1> SUFFICES ASSUME Init PROVE CountInv
  OBVIOUS
<1>1. \A w \in PoolWorkers : pc[w] = "idle" /\ ret[w] = "idle"
  BY WorkersApart DEF Init
<1>2. InPump = {} /\ InWakeup = {}
  BY <1>1 DEF InPump, InWakeup
<1>3. Cardinality(InPump) = 0 /\ Cardinality(InWakeup) = 0
  BY <1>2, FS_EmptySet
<1> QED BY <1>3 DEF Init, CountInv

LEMMA NextKeepsCounts == ShapeInv /\ CountInv /\ [Next]_vars => CountInv'
<1> SUFFICES ASSUME ShapeInv, CountInv, [Next]_vars PROVE CountInv'
  OBVIOUS
<1>1. CASE \E c \in Callers : CallStep(c) \/ ScheduleStep(c)
  BY <1>1, CallersApart, CallStepCounts, ScheduleStepCounts
<1>2. CASE \E w \in PoolWorkers : ScheduleStep(w) \/ PumpStep(w)
  BY <1>2, WorkersApart, PumpStepCounts, ScheduleStepCounts
<1>3. CASE Elsewhere
  <2>1. PeerFrame
    BY <1>3, OtherSteps
  <2>2. UNCHANGED <<pc, ret, ioJobs, wakeups, mPendingIoJobs, mPendingDelayedWakeups>>
    BY <2>1 DEF PeerFrame, counters, locals
  <2> QED BY <2>2 DEF CountInv, InPump, InWakeup
<1> QED BY <1>1, <1>2, <1>3 DEF Next, Elsewhere, AppStep

-----------------------------------------------------------------------------
(* Whoever has set the flag will run the pump, or gives the flag back.       *)
FlagInv == mIoPumpScheduled => ioJobs = 1 \/ \E t \in Threads : Holds(t)

(* Nothing of the pump is left but wakeups that will find it inactive.       *)
Calm ==
    /\ ioJobs = 0 /\ InPump = {}
    /\ \A t \in Threads : pc[t] \notin {"cas", "submitJob", "unschedule"}
Still == Calm /\ ~mIoPumpActive

(* Every session is disconnected but those the application holds.            *)
Ended == connected \subseteq kept \ {mSession, None}
Empty == mSession = None /\ Ended

Waits(c) == pc[c] \in {"waitWakeups", "waitJobs"}

(* What a caller knows at its statement, when no call met one it does not    *)
(* mix with: one that waits, that the pump is inactive, and then that its    *)
(* wakeups turn back; one that tears down, that the pump is still.           *)
CallerKnows(c) ==
    /\ Waits(c) => ~mIoPumpActive
    /\ pc[c] = "waitJobs" => \A w \in PoolWorkers : ret[w] = "wakeupDone" => pc[w] = "schedule"
    /\ pc[c] \in LastStatements => Still
    /\ pc[c] = "clear" => Ended
    /\ pc[c] = "finish" => Empty
    /\ op[c] = "connect" /\ pc[c] # "connectPeer" => peerStarted
    /\ op[c] = "start" => ~peerStarted /\ mRunning /\ \A d \in Callers : op[d] # "stop"
    /\ op[c] = "stop" /\ ~wasRunning[c] => ~peerStarted

(* What holds whoever is where: an inactive pump is calm or waited for; a    *)
(* peer that is not started has nothing; and so has a system that is quiet.  *)
PumpKnows ==
    /\ ~mIoPumpActive => Calm \/ \E c \in Callers : Waits(c)
    /\ ~peerStarted => Still /\ Empty
    /\ ~mRunning => ~peerStarted \/ \E c \in Callers : wasRunning[c]
    /\ quiet => Still /\ Empty /\ \A c \in Callers : op[c] # "connect"
    /\ \A t \in Threads : pc[t] = "dropFlag" => ~(mRunning /\ mIoPumpActive)

StillInv == PumpKnows /\ \A c \in Callers : CallerKnows(c)

(* Where the calls start and lead to.                                       *)
CallStatements ==
    {"idle", "startup", "connectPeer", "activate", "schedule"} \union WaitStatements
    \union LastStatements

LEMMA CallStepCallers ==
    ASSUME ShapeInv, NEW c \in Callers, CallStep(c)
    PROVE  /\ \A t \in Threads \ {c} : pc'[t] = pc[t]
           /\ \A d \in Callers \ {c} : op'[d] = op[d] /\ wasRunning'[d] = wasRunning[d]
           /\ pc[c] \in CallStatements \ {"schedule"} /\ pc'[c] \in CallStatements
           /\ ~crossed' => ~crossed
<1>0. /\ pc \in [Threads -> Statements] /\ op \in [Callers -> Operations]
      /\ wasRunning \in [Callers -> BOOLEAN] /\ crossed \in BOOLEAN /\ c \in Threads
  BY CallersApart DEF ShapeInv, PumpInv, PumpTypes, CallTypes
<1>1. \/ Rests /\ pc[c] = "idle"
      \/ \E o, s, w : CallerGoes(c, o, s, w) /\ s \in CallStatements
  <2>1. CASE StartBegin(c) \/ ConnectBegin(c)
    <3>1. pc[c] = "idle"
      BY <2>1 DEF StartBegin, ConnectBegin, Goto
    <3> QED BY <2>1, <3>1, CallSteps DEF Begins, CallStatements
  <2>2. CASE StartPeer(c) \/ ConnectPeer(c) \/ Activate(c)
    BY <2>2, CallSteps DEF Returns, Proceeds, CallStatements
  <2>3. CASE DisconnectBegin(c) \/ StopBegin(c) \/ Deactivate(c)
    BY <2>3, CallSteps DEF Begins, Proceeds, CallStatements, WaitStatements, LastStatements
  <2>4. CASE Wait(c) \/ TeardownSession(c) \/ TeardownClear(c) \/ Finish(c)
    BY <2>4, CallSteps DEF Returns, Proceeds, CallStatements, WaitStatements, LastStatements
  <2> QED BY <2>1, <2>2, <2>3, <2>4 DEF CallStep
<1>2. /\ \A t \in Threads \ {c} : pc'[t] = pc[t]
      /\ \A d \in Callers \ {c} : op'[d] = op[d] /\ wasRunning'[d] = wasRunning[d]
  BY <1>0, <1>1 DEF CallerGoes, Rests
<1>3. pc[c] \in CallStatements \ {"schedule"}
  <2> USE DEF CallStatements, WaitStatements, LastStatements, Goto, Return
  <2>1. CASE StartBegin(c) \/ ConnectBegin(c) \/ StartPeer(c) \/ ConnectPeer(c) \/ Activate(c)
    BY <2>1 DEF StartBegin, ConnectBegin, StartPeer, ConnectPeer, Activate
  <2>2. CASE DisconnectBegin(c) \/ StopBegin(c) \/ Deactivate(c)
    BY <2>2 DEF DisconnectBegin, StopBegin, Deactivate
  <2>3. CASE Wait(c) \/ TeardownSession(c) \/ TeardownClear(c) \/ Finish(c)
    BY <2>3 DEF Wait, TeardownSession, TeardownClear, Finish
  <2> QED BY <2>1, <2>2, <2>3 DEF CallStep
<1>4. pc'[c] \in CallStatements
  BY <1>0, <1>1 DEF CallerGoes, Rests, CallStatements
<1>5. ~crossed' => ~crossed
  <2>1. CASE StartBegin(c) \/ ConnectBegin(c) \/ DisconnectBegin(c) \/ StopBegin(c)
    BY <1>0, <2>1, CallSteps DEF Rests, Begins, Enter
  <2>2. CASE StartPeer(c) \/ ConnectPeer(c) \/ Activate(c) \/ Deactivate(c)
    BY <1>0, <2>2, CallSteps DEF Returns, Proceeds
  <2>3. CASE Wait(c) \/ TeardownSession(c) \/ TeardownClear(c) \/ Finish(c)
    BY <1>0, <2>3, CallSteps DEF Returns, Proceeds
  <2> QED BY <2>1, <2>2, <2>3 DEF CallStep
<1> QED BY <1>2, <1>3, <1>4, <1>5

LEMMA CalmCalls ==
    ASSUME ShapeInv, NEW c \in Callers, CallStep(c)
    PROVE  Calm' <=> Calm
<1>1. InPump' = InPump /\ ioJobs' = ioJobs
  BY CallStepRests, WorkersStay
<1>2. \A s \in CallStatements : s \notin {"cas", "submitJob", "unschedule"}
  BY DEF CallStatements, WaitStatements, LastStatements
<1>3. \A t \in Threads : pc'[t] \in {"cas", "submitJob", "unschedule"}
                         <=> pc[t] \in {"cas", "submitJob", "unschedule"}
  BY <1>2, CallStepCallers
<1> QED BY <1>1, <1>3 DEF Calm

(* A schedule finds the pump inactive and returns.                          *)
LEMMA CalmSchedule ==
    ASSUME ShapeInv, Calm, ~mIoPumpActive, NEW t \in Threads, ScheduleStep(t)
    PROVE  /\ Calm' /\ UNCHANGED session
           /\ pc[t] = "schedule" /\ pc'[t] \in {"idle", "wakeupDone"} /\ ret'[t] = "idle"
<1>0. /\ pc \in [Threads -> Statements]
      /\ ret \in [Threads -> {"idle", "jobDone", "wakeupDone"}]
  BY DEF ShapeInv, PumpInv, PumpTypes
<1>1. ScheduleIoPump(t)
  BY DEF ScheduleStep, Calm, ClaimPump, SubmitJob, Unschedule, Goto, Leave
<1>2. /\ pc[t] = "schedule" /\ pc' = [pc EXCEPT ![t] = ret[t]] /\ ret' = [ret EXCEPT ![t] = "idle"]
      /\ UNCHANGED <<ioJobs, session>>
  BY <1>1 DEF ScheduleIoPump, Leave, Goto, pool
<1>3. ret[t] \in {"idle", "wakeupDone"}
  <2>1. CASE t \in PoolWorkers
    BY <1>0, <2>1 DEF Calm, InPump
  <2>2. CASE t \in Callers
    BY <2>2 DEF ShapeInv, CallShape
  <2> QED BY <2>1, <2>2 DEF Threads
<1>4. pc'[t] \in {"idle", "wakeupDone"} /\ ret'[t] = "idle"
  BY <1>0, <1>2, <1>3
<1>5. \A u \in Threads \ {t} : pc'[u] = pc[u] /\ ret'[u] = ret[u]
  BY <1>0, <1>2
<1>6. InPump' = {}
  <2>1. \A w \in PoolWorkers : w \notin InPump'
    <3> SUFFICES ASSUME NEW w \in PoolWorkers PROVE w \notin InPump'
      OBVIOUS
    <3>1. w \in Threads /\ w \notin InPump
      BY WorkersApart DEF Calm
    <3>2. CASE w = t
      BY <1>4, <3>2 DEF InPump
    <3>3. CASE w # t
      BY <1>5, <3>1, <3>3 DEF InPump
    <3> QED BY <3>2, <3>3
  <2> QED BY <2>1 DEF InPump
<1> QED BY <1>2, <1>4, <1>5, <1>6 DEF Calm

(* Of the pump only wakeups go on.                                          *)
LEMMA CalmPump ==
    ASSUME ShapeInv, Calm, NEW w \in PoolWorkers, PumpStep(w)
    PROVE  /\ Calm' /\ UNCHANGED <<session, peer>>
           /\ pc'[w] \in {"schedule", "idle"}
<1>0. /\ pc \in [Threads -> Statements]
      /\ ret \in [Threads -> {"idle", "jobDone", "wakeupDone"}] /\ w \in Threads
  BY WorkersApart DEF ShapeInv, PumpInv, PumpTypes
<1>1. w \notin InPump /\ ioJobs = 0
  BY DEF Calm
<1>2. TakeWakeup(w) \/ WakeupDone(w)
  <2>1. ~TakeJob(w)
    BY <1>1 DEF TakeJob
  <2>2. /\ ~DropFlag(w) /\ ~Receive(w) /\ ~EndSession(w) /\ ~ClearSession(w)
        /\ ~TickEnds(w) /\ ~PumpAgain(w) /\ ~JobDone(w) /\ ~SubmitWakeup(w)
    BY <1>1, PumpWalks DEF InPump
  <2> QED BY <2>1, <2>2 DEF PumpStep
<1>3. UNCHANGED <<ioJobs, session, peer>>
  BY <1>2 DEF TakeWakeup, WakeupDone, pool
<1>4. PICK s \in {"schedule", "idle"}, r \in {"wakeupDone", "idle"} : WorkerGoes(w, s, r)
  BY <1>2, PumpWalks
<1>5. /\ pc'[w] = s /\ ret'[w] = r
      /\ \A t \in Threads \ {w} : pc'[t] = pc[t] /\ ret'[t] = ret[t]
  BY <1>4, WorkerGoesOn
<1>6. InPump' = {}
  <2>1. \A v \in PoolWorkers : v \notin InPump'
    <3> SUFFICES ASSUME NEW v \in PoolWorkers PROVE v \notin InPump'
      OBVIOUS
    <3>1. v \in Threads /\ v \notin InPump
      BY WorkersApart DEF Calm
    <3>2. CASE w = v
      BY <1>5, <3>2 DEF InPump
    <3>3. CASE w # v
      BY <1>5, <3>1, <3>3 DEF InPump
    <3> QED BY <3>2, <3>3
  <2> QED BY <2>1 DEF InPump
<1> QED BY <1>1, <1>3, <1>5, <1>6 DEF Calm

-----------------------------------------------------------------------------
(* FlagInv is kept.                                                         *)
LEMMA CallStepFlag ==
    ASSUME ShapeInv, FlagInv, NEW c \in Callers, CallStep(c)
    PROVE  FlagInv'
<1>1. UNCHANGED <<ioJobs, mIoPumpScheduled>>
  BY CallStepRests
<1>2. \A s \in CallStatements : s \notin HoldStatements
  BY DEF CallStatements, WaitStatements, LastStatements, HoldStatements
<1>3. \A t \in Threads : Holds(t) => Holds(t)'
  BY <1>2, CallStepCallers DEF Holds
<1> QED BY <1>1, <1>3 DEF FlagInv

LEMMA ScheduleStepFlag ==
    ASSUME ShapeInv, FlagInv, NEW t \in Threads, ScheduleStep(t)
    PROVE  FlagInv'
<1>0. pc \in [Threads -> Statements] /\ ioJobs \in {0, 1}
  BY DEF ShapeInv, PumpInv, PumpTypes, PumpToken
<1>1. \A u \in Threads \ {t} : pc'[u] = pc[u]
  BY <1>0 DEF ScheduleStep, ScheduleIoPump, ClaimPump, SubmitJob, Unschedule, Goto, Leave
<1> USE DEF Goto, Leave, Stays, flags, pool
<1>2. CASE ScheduleIoPump(t) \/ (ClaimPump(t) /\ mIoPumpScheduled)
  <2>1. UNCHANGED <<ioJobs, mIoPumpScheduled>> /\ ~Holds(t)
    BY <1>2 DEF ScheduleIoPump, ClaimPump, Holds, HoldStatements
  <2> QED BY <1>1, <2>1 DEF FlagInv, Holds
<1>3. CASE ClaimPump(t) /\ ~mIoPumpScheduled
  <2>1. pc'[t] = "submitJob"
    BY <1>0, <1>3 DEF ClaimPump
  <2> QED BY <2>1 DEF FlagInv, Holds, HoldStatements
<1>4. CASE SubmitJob(t)
  <2>1. ioJobs = 0
    BY <1>0, <1>4 DEF SubmitJob, Holds, HoldStatements, ShapeInv, PumpInv, PumpToken
  <2>2. ioJobs' = 1 \/ pc'[t] = "unschedule"
    BY <1>0, <1>4, <2>1 DEF SubmitJob
  <2> QED BY <2>2 DEF FlagInv, Holds, HoldStatements
<1>5. CASE Unschedule(t)
  <2>1. mIoPumpScheduled' = FALSE
    BY <1>5 DEF Unschedule
  <2> QED BY <2>1 DEF FlagInv
<1> QED BY <1>2, <1>3, <1>4, <1>5 DEF ScheduleStep

LEMMA PumpStepFlag ==
    ASSUME ShapeInv, FlagInv, NEW w \in PoolWorkers, PumpStep(w)
    PROVE  FlagInv'
<1>0. w \in Threads /\ pc \in [Threads -> Statements]
  BY WorkersApart DEF ShapeInv, PumpInv, PumpTypes
<1>1. \A u \in Threads \ {w} : pc'[u] = pc[u]
  <2>1. PICK s, r : WorkerGoes(w, s, r)
    BY PumpSteps
  <2> QED BY <2>1, WorkerGoesOn
<1>2. CASE DropFlag(w) \/ TickEnds(w)
  <2>1. mIoPumpScheduled' = FALSE
    BY <1>2 DEF DropFlag, TickEnds
  <2> QED BY <2>1 DEF FlagInv
<1>3. CASE TakeJob(w) \/ Receive(w) \/ EndSession(w) \/ ClearSession(w)
  <2>1. PICK s \in {"tick", "endSession", "clearSession", "dropFlag"} : WorkerGoes(w, s, "idle")
    BY <1>3, PumpWalks
  <2>2. Holds(w)'
    BY <2>1, WorkerGoesOn DEF Holds, HoldStatements
  <2> QED BY <1>0, <2>2 DEF FlagInv
<1>4. CASE PumpAgain(w) \/ JobDone(w) \/ SubmitWakeup(w) \/ TakeWakeup(w) \/ WakeupDone(w)
  <2>1. UNCHANGED <<ioJobs, mIoPumpScheduled>>
    BY <1>4 DEF PumpAgain, JobDone, SubmitWakeup, TakeWakeup, WakeupDone, flags, pool
  <2>2. ~Holds(w)
    BY <1>4, PumpWalks DEF Holds, HoldStatements
  <2> QED BY <1>1, <2>1, <2>2 DEF FlagInv, Holds
<1> QED BY <1>2, <1>3, <1>4 DEF PumpStep

-----------------------------------------------------------------------------
(* What the pump and the schedules are to the callers, and to what they      *)
(* know: StillInv is kept.                                                   *)
PumpMoves(t) ==
    /\ t \in Threads
    /\ \/ ScheduleStep(t)
       \/ t \in PoolWorkers /\ PumpStep(t)

LEMMA PumpCallers ==
    ASSUME ShapeInv, NEW t, PumpMoves(t)
    PROVE  /\ \A d \in Callers :
                 \/ pc'[d] = pc[d] /\ op'[d] = op[d]
                 \/ /\ op[d] = "connect" /\ pc[d] \in ScheduleStatements
                    /\ op'[d] \in {"connect", "none"}
                    /\ pc'[d] \in {"idle", "cas", "submitJob", "unschedule"}
           /\ \A u \in Threads \ {t} : pc'[u] = pc[u] /\ ret'[u] = ret[u]
           /\ UNCHANGED <<wasRunning, mRunning, mIoPumpActive, peerStarted, poolOpen, quiet, crossed,
                          attempts, starts, tried>>
<1>0. /\ pc \in [Threads -> Statements] /\ op \in [Callers -> Operations]
      /\ ret \in [Threads -> {"idle", "jobDone", "wakeupDone"}]
      /\ wasRunning \in [Callers -> BOOLEAN] /\ t \in Threads
  BY DEF ShapeInv, PumpInv, PumpTypes, CallTypes, PumpMoves
<1>1. CASE t \in PoolWorkers
  <2>1. \E s, r : WorkerGoes(t, s, r)
    BY <1>1, ScheduleSteps, PumpSteps, WorkersApart DEF PumpMoves
  <2>2. UNCHANGED <<mRunning, mIoPumpActive, peerStarted, poolOpen, quiet, crossed, attempts,
                    starts, tried>>
    BY <1>1, ScheduleSteps, PumpSteps DEF PumpMoves, peer
  <2> QED BY <1>1, <2>1, <2>2, WorkerGoesOn
<1>2. CASE t \in Callers
  <2>1. ScheduleStep(t)
    BY <1>2, CallersApart DEF PumpMoves
  <2>2. /\ op[t] = "connect" /\ pc[t] \in ScheduleStatements
        /\ \/ Returns(t, pc[t])
           \/ Proceeds(t, pc[t], pc'[t]) /\ pc'[t] \in {"cas", "submitJob", "unschedule"}
        /\ UNCHANGED <<mRunning, mIoPumpActive, peerStarted, poolOpen, quiet, crossed, session,
                       peer, starts, tried>>
    BY <1>2, <2>1, ScheduleSteps, CallersApart
  <2>3. wasRunning[t] = FALSE
    BY <1>2, <2>2, IdleCaller
  <2>4. PICK o \in {"none", "connect"}, s \in {"idle", "cas", "submitJob", "unschedule"} :
           CallerGoes(t, o, s, FALSE)
    BY <2>2, <2>3 DEF Returns, Proceeds
  <2>5. /\ pc' = [pc EXCEPT ![t] = s] /\ op' = [op EXCEPT ![t] = o] /\ ret' = ret
        /\ wasRunning' = wasRunning
    BY <1>0, <1>2, <2>3, <2>4 DEF CallerGoes
  <2>6. pc'[t] = s /\ op'[t] = o /\ \A u \in Threads \ {t} : pc'[u] = pc[u] /\ ret'[u] = ret[u]
    BY <1>0, <1>2, <2>5
  <2>7. \A d \in Callers \ {t} : pc'[d] = pc[d] /\ op'[d] = op[d]
    BY <1>0, <2>5, CallersApart
  <2> QED BY <1>2, <2>2, <2>5, <2>6, <2>7 DEF peer
<1> QED BY <1>0, <1>1, <1>2 DEF Threads

(* An inactive pump that is calm stays calm.                                *)
LEMMA CalmStays ==
    ASSUME ShapeInv, Calm, ~mIoPumpActive, NEW t, PumpMoves(t)
    PROVE  Calm' /\ UNCHANGED session
BY CalmSchedule, CalmPump DEF PumpMoves

(* A wakeup that is at its first statement when the pump is inactive turns  *)
(* back.                                                                    *)
LEMMA WakeupTurns ==
    ASSUME ShapeInv, ~mIoPumpActive, NEW t, PumpMoves(t),
           \A w \in PoolWorkers : ret[w] = "wakeupDone" => pc[w] = "schedule"
    PROVE  \A w \in PoolWorkers : ret'[w] = "wakeupDone" => pc'[w] = "schedule"
<1>0. /\ ret \in [Threads -> {"idle", "jobDone", "wakeupDone"}] /\ t \in Threads
      /\ pc \in [Threads -> Statements]
  BY DEF ShapeInv, PumpInv, PumpTypes, PumpMoves
<1> SUFFICES ASSUME t \in PoolWorkers, ret'[t] = "wakeupDone" PROVE pc'[t] = "schedule"
  BY PumpCallers, WorkersApart
<1>1. CASE ScheduleStep(t)
  <2>1. CASE pc[t] = "schedule"
    <3>1. Leave(t, "schedule")
      BY <1>1, <2>1 DEF ScheduleStep, ScheduleIoPump, ClaimPump, SubmitJob, Unschedule, Goto, Leave
    <3> QED BY <1>0, <3>1 DEF Leave
  <2>2. CASE pc[t] # "schedule"
    <3>1. ret'[t] = "idle" \/ ret'[t] = ret[t]
      <4>1. PICK s, r : WorkerGoes(t, s, r) /\ r \in {"idle", ret[t]}
        BY <1>1, ScheduleSteps, WorkersApart
      <4> QED BY <4>1, WorkerGoesOn
    <3> QED BY <2>2, <3>1
  <2> QED BY <2>1, <2>2
<1>2. CASE PumpStep(t)
  <2>1. PICK s, r : WorkerGoes(t, s, r) /\ (r = "idle" \/ s = "schedule")
    BY <1>2, PumpSteps
  <2> QED BY <2>1, WorkerGoesOn
<1> QED BY <1>1, <1>2 DEF PumpMoves

LEMMA PumpMovesStill ==
    ASSUME ShapeInv, StillInv, NEW t, PumpMoves(t)
    PROVE  StillInv'
<1>1. /\ \A d \in Callers :
            \/ pc'[d] = pc[d] /\ op'[d] = op[d]
            \/ /\ op[d] = "connect" /\ pc[d] \in ScheduleStatements
               /\ op'[d] \in {"connect", "none"}
               /\ pc'[d] \in {"idle", "cas", "submitJob", "unschedule"}
      /\ \A u \in Threads \ {t} : pc'[u] = pc[u] /\ ret'[u] = ret[u]
      /\ UNCHANGED <<wasRunning, mRunning, mIoPumpActive, peerStarted, quiet>>
  BY PumpCallers
<1>2. Still => Still' /\ UNCHANGED <<mSession, connected, kept>>
  BY <1>1, CalmStays DEF Still, session
<1>3. Still /\ Empty => Still' /\ Empty'
  BY <1>2 DEF Empty, Ended
<1>4. ASSUME NEW c \in Callers PROVE CallerKnows(c)'
  <2>0. CallerKnows(c)
    BY DEF StillInv
  <2>1. CASE pc'[c] = pc[c] /\ op'[c] = op[c]
    <3>1. Waits(c)' => ~mIoPumpActive'
      BY <1>1, <2>0, <2>1 DEF CallerKnows, Waits
    <3>2. pc'[c] = "waitJobs" => \A w \in PoolWorkers : ret'[w] = "wakeupDone" => pc'[w] = "schedule"
      BY <2>0, <2>1, WakeupTurns DEF CallerKnows, Waits
    <3>3. /\ pc'[c] \in LastStatements => Still'
          /\ pc'[c] = "clear" => Ended'
          /\ pc'[c] = "finish" => Empty'
      BY <1>2, <2>0, <2>1 DEF CallerKnows, LastStatements, Empty, Ended
    <3>4. /\ op'[c] = "connect" /\ pc'[c] # "connectPeer" => peerStarted'
          /\ op'[c] = "start" => ~peerStarted' /\ mRunning' /\ \A d \in Callers : op'[d] # "stop"
          /\ op'[c] = "stop" /\ ~wasRunning'[c] => ~peerStarted'
      BY <1>1, <2>0, <2>1 DEF CallerKnows
    <3> QED BY <3>1, <3>2, <3>3, <3>4 DEF CallerKnows
  <2>2. CASE /\ op[c] = "connect" /\ pc[c] \in ScheduleStatements
             /\ op'[c] \in {"connect", "none"}
             /\ pc'[c] \in {"idle", "cas", "submitJob", "unschedule"}
    <3>1. peerStarted'
      BY <1>1, <2>0, <2>2 DEF CallerKnows, ScheduleStatements
    <3> QED BY <2>2, <3>1 DEF CallerKnows, Waits, LastStatements
  <2> QED BY <1>1, <2>1, <2>2
<1>5. ~mIoPumpActive' => Calm' \/ \E c \in Callers : Waits(c)'
  <2>1. \A c \in Callers : Waits(c) => Waits(c)'
    BY <1>1 DEF Waits, ScheduleStatements
  <2> QED BY <1>1, <1>2, <2>1 DEF StillInv, PumpKnows, Still
<1>6. /\ ~peerStarted' => Still' /\ Empty'
      /\ ~mRunning' => ~peerStarted' \/ \E c \in Callers : wasRunning'[c]
      /\ quiet' => Still' /\ Empty' /\ \A c \in Callers : op'[c] # "connect"
  BY <1>1, <1>3 DEF StillInv, PumpKnows
<1>7. \A u \in Threads : pc'[u] = "dropFlag" => ~(mRunning' /\ mIoPumpActive')
  <2> SUFFICES ASSUME NEW u \in Threads, pc'[u] = "dropFlag", pc[u] # "dropFlag"
               PROVE  ~(mRunning /\ mIoPumpActive)
    BY <1>1 DEF StillInv, PumpKnows
  <2>1. u = t
    BY <1>1
  <2>2. ~ScheduleStep(t)
    <3>1. ASSUME ScheduleStep(t) PROVE pc'[t] # "dropFlag"
      <4>1. CASE t \in Callers
        BY <1>1, <4>1, CallersApart, <2>1
      <4>2. CASE t \in PoolWorkers
        <5>1. \E s \in {"jobDone", "wakeupDone", "cas", "submitJob", "unschedule"} :
                 \E r : WorkerGoes(t, s, r)
          BY <3>1, <4>2, ScheduleSteps, WorkersApart DEF PumpMoves
        <5> QED BY <4>2, <5>1, WorkerGoesOn
      <4> QED BY <2>1, <4>1, <4>2 DEF Threads
    <3> QED BY <2>1, <3>1
  <2>3. TakeJob(t) \/ (~TakeJob(t) /\ PumpStep(t))
    BY <2>2 DEF PumpMoves
  <2>4. t \in PoolWorkers
    BY <2>2 DEF PumpMoves
  <2>5. CASE ~TakeJob(t) /\ PumpStep(t)
    <3>1. PICK s, r : WorkerGoes(t, s, r) /\ s # "dropFlag"
      BY <2>4, <2>5, PumpWalks DEF PumpStep
    <3> QED BY <2>1, <2>4, <3>1, WorkerGoesOn
  <2>6. CASE TakeJob(t)
    <3>1. \/ WorkerGoes(t, "tick", "idle")
          \/ ~(mRunning /\ mIoPumpActive)
      BY <2>4, <2>6, PumpWalks
    <3>2. WorkerGoes(t, "tick", "idle") => pc'[t] # "dropFlag"
      BY <2>4, WorkerGoesOn
    <3> QED BY <2>1, <3>1, <3>2
  <2> QED BY <2>3, <2>5, <2>6
<1> QED BY <1>4, <1>5, <1>6, <1>7 DEF StillInv, PumpKnows

-----------------------------------------------------------------------------
(* What the calls do to the flags, the session and the peer.                 *)
LEMMA CallEffects ==
    ASSUME NEW c \in Callers
    PROVE  /\ StartBegin(c) => UNCHANGED <<mIoPumpActive, peerStarted, quiet, session>>
           /\ StartPeer(c) => /\ UNCHANGED <<mIoPumpActive, quiet, session>>
                              /\ \/ peerStarted' = TRUE /\ mRunning' = mRunning
                                 \/ mRunning' = FALSE /\ peerStarted' = peerStarted
           /\ ConnectBegin(c) => /\ UNCHANGED <<mRunning, mIoPumpActive, peerStarted, session>>
                                 /\ quiet' = FALSE
           /\ ConnectPeer(c) => /\ UNCHANGED <<flags, peerStarted, quiet, session>>
                                /\ peerStarted \/ Return(c, "connectPeer")
           /\ Activate(c) => /\ UNCHANGED <<mRunning, peerStarted, quiet, session>>
                             /\ mIoPumpActive' = TRUE
           /\ DisconnectBegin(c) => UNCHANGED <<flags, peerStarted, quiet, session>>
           /\ StopBegin(c) => /\ UNCHANGED <<mIoPumpActive, peerStarted, quiet, session>>
                              /\ mRunning' = FALSE /\ \A d \in Callers : op[d] # "start"
           /\ Deactivate(c) => /\ UNCHANGED <<mRunning, peerStarted, quiet, session>>
                               /\ mIoPumpActive' = FALSE
           /\ Wait(c) => /\ UNCHANGED <<flags, peerStarted, quiet, session>>
                         /\ \/ pc[c] = "waitWakeups" /\ mPendingDelayedWakeups = 0
                            \/ pc[c] = "waitJobs" /\ mPendingIoJobs = 0
           /\ TeardownSession(c) => /\ UNCHANGED <<flags, peerStarted, quiet, mSession, kept>>
                                    /\ connected' \in {connected, connected \ {mSession}}
                                    /\ mSession # None => connected' = connected \ {mSession}
                                    /\ mSession = None => Goto(c, "teardown", "finish")
                                    /\ mSession # None => Goto(c, "teardown", "clear")
           /\ TeardownClear(c) => /\ UNCHANGED <<flags, peerStarted, quiet>>
                                  /\ mSession' = None
                                  /\ mSession \notin connected
                                     => UNCHANGED <<connected, kept, link>>
           /\ Finish(c) => /\ UNCHANGED <<flags, session>>
                           /\ quiet' = (quiet \/ op[c] = "disconnect" \/ wasRunning[c])
                           /\ peerStarted' = IF wasRunning[c] THEN FALSE ELSE peerStarted
<1> USE DEF flags, session, peer, history, locals
<1>1. StartBegin(c) => UNCHANGED <<mIoPumpActive, peerStarted, quiet, session>>
  BY DEF StartBegin
<1>2. StartPeer(c) => /\ UNCHANGED <<mIoPumpActive, quiet, session>>
                      /\ \/ peerStarted' = TRUE /\ mRunning' = mRunning
                         \/ mRunning' = FALSE /\ peerStarted' = peerStarted
  BY DEF StartPeer
<1>3. ConnectBegin(c) => /\ UNCHANGED <<mRunning, mIoPumpActive, peerStarted, session>>
                         /\ quiet' = FALSE
  BY DEF ConnectBegin
<1>4. ConnectPeer(c) => /\ UNCHANGED <<flags, peerStarted, quiet, session>>
                        /\ peerStarted \/ Return(c, "connectPeer")
  BY DEF ConnectPeer
<1>5. Activate(c) => /\ UNCHANGED <<mRunning, peerStarted, quiet, session>>
                     /\ mIoPumpActive' = TRUE
  BY DEF Activate
<1>6. DisconnectBegin(c) => UNCHANGED <<flags, peerStarted, quiet, session>>
  BY DEF DisconnectBegin
<1>7. StopBegin(c) => /\ UNCHANGED <<mIoPumpActive, peerStarted, quiet, session>>
                      /\ mRunning' = FALSE /\ \A d \in Callers : op[d] # "start"
  BY DEF StopBegin
<1>8. Deactivate(c) => /\ UNCHANGED <<mRunning, peerStarted, quiet, session>>
                       /\ mIoPumpActive' = FALSE
  BY DEF Deactivate
<1>9. Wait(c) => /\ UNCHANGED <<flags, peerStarted, quiet, session>>
                 /\ \/ pc[c] = "waitWakeups" /\ mPendingDelayedWakeups = 0
                    \/ pc[c] = "waitJobs" /\ mPendingIoJobs = 0
  BY DEF Wait, Goto
<1>10. TeardownSession(c) => /\ UNCHANGED <<flags, peerStarted, quiet, mSession, kept>>
                             /\ connected' \in {connected, connected \ {mSession}}
                             /\ mSession # None => connected' = connected \ {mSession}
                             /\ mSession = None => Goto(c, "teardown", "finish")
                             /\ mSession # None => Goto(c, "teardown", "clear")
  BY DEF TeardownSession, Disconnect
<1>11. TeardownClear(c) => /\ UNCHANGED <<flags, peerStarted, quiet>>
                           /\ mSession' = None
                           /\ mSession \notin connected => UNCHANGED <<connected, kept, link>>
  BY DEF TeardownClear, StoreSession, CloseConnection
<1>12. Finish(c) => /\ UNCHANGED <<flags, session>>
                    /\ quiet' = (quiet \/ op[c] = "disconnect" \/ wasRunning[c])
                    /\ peerStarted' = IF wasRunning[c] THEN FALSE ELSE peerStarted
  BY DEF Finish
<1> QED BY <1>1, <1>2, <1>3, <1>4, <1>5, <1>6, <1>7, <1>8, <1>9, <1>10, <1>11, <1>12

(* What the other callers know stays true in a step of c.                    *)
LEMMA OthersKnow ==
    ASSUME ShapeInv, StillInv, NEW c \in Callers, CallStep(c),
           connected' \subseteq connected, mSession' \in {mSession, None}, UNCHANGED kept,
           NEW d \in Callers, d # c,
           Waits(d) \/ pc[d] \in LastStatements => ~mIoPumpActive',
           op[d] = "connect" /\ pc[d] # "connectPeer" => peerStarted',
           op[d] = "start" => ~peerStarted' /\ mRunning' /\ op'[c] # "stop",
           op[d] = "stop" /\ ~wasRunning[d] => ~peerStarted'
    PROVE  CallerKnows(d)'
<1>1. pc'[d] = pc[d] /\ op'[d] = op[d] /\ wasRunning'[d] = wasRunning[d] /\ ret' = ret
  BY CallStepCallers, CallStepRests, CallersApart
<1>2. /\ CallerKnows(d) /\ (Still /\ ~mIoPumpActive' => Still')
      /\ (Ended => Ended') /\ (Empty => Empty')
  BY CalmCalls DEF StillInv, Still, Empty, Ended
<1>3. Waits(d)' => ~mIoPumpActive'
  BY <1>1 DEF Waits
<1>4. pc'[d] = "waitJobs" => \A w \in PoolWorkers : ret'[w] = "wakeupDone" => pc'[w] = "schedule"
  BY <1>1, <1>2, CallStepRests DEF CallerKnows
<1>5. /\ pc'[d] \in LastStatements => Still'
      /\ pc'[d] = "clear" => Ended'
      /\ pc'[d] = "finish" => Empty'
  BY <1>1, <1>2 DEF CallerKnows
<1>6. op'[d] = "start" => \A e \in Callers : op'[e] # "stop"
  BY <1>1, <1>2, CallStepCallers DEF CallerKnows
<1> QED BY <1>1, <1>3, <1>4, <1>5, <1>6 DEF CallerKnows

(* The pump is calm once both counters were seen at zero.                    *)
LEMMA WaitedFor ==
    ASSUME ShapeInv, CountInv, StillInv, ~crossed, NEW c \in Callers,
           pc[c] = "waitJobs", mPendingIoJobs = 0
    PROVE  Still
<1>1. IsFiniteSet(InPump) /\ ioJobs \in Nat
  BY ClientThreadsAssumption, FS_Subset DEF InPump, ShapeInv, PumpInv, PumpTypes
<1>2. Cardinality(InPump) \in Nat /\ (Cardinality(InPump) = 0 <=> InPump = {})
  BY <1>1, CountZero
<1>3. ioJobs = 0 /\ InPump = {}
  BY <1>1, <1>2 DEF CountInv
<1>4. CallerKnows(c) /\ op[c] \in {"disconnect", "stop"}
  BY IdleCaller DEF StillInv, CallerFits, ScheduleStatements, LastStatements
<1>5. \A t \in Threads : pc[t] \notin {"cas", "submitJob", "unschedule"}
  <2>1. ASSUME NEW d \in Callers PROVE pc[d] \notin {"cas", "submitJob", "unschedule"}
    <3>1. op[d] # "connect"
      BY <1>4 DEF ShapeInv, Mixes
    <3> QED BY <3>1, IdleCaller DEF CallerFits, WaitStatements, LastStatements
  <2>2. ASSUME NEW w \in PoolWorkers PROVE pc[w] \notin {"cas", "submitJob", "unschedule"}
    <3>1. WorkerFits(pc[w], ret[w]) /\ ret[w] # "jobDone"
      BY <1>3 DEF ShapeInv, CallShape, InPump
    <3>2. ret[w] = "wakeupDone" => pc[w] = "schedule"
      BY <1>4 DEF CallerKnows
    <3> QED BY <3>1, <3>2 DEF WorkerFits, JobStatements, TickStatements
  <2> QED BY <2>1, <2>2 DEF Threads
<1> QED BY <1>3, <1>4, <1>5 DEF Still, Calm, CallerKnows, Waits

LEMMA WakeupsGone ==
    ASSUME ShapeInv, CountInv, mPendingDelayedWakeups = 0
    PROVE  \A w \in PoolWorkers : ret[w] # "wakeupDone"
<1>1. IsFiniteSet(InWakeup) /\ wakeups \in Nat
  BY ClientThreadsAssumption, FS_Subset DEF InWakeup, ShapeInv, CallTypes
<1>2. Cardinality(InWakeup) \in Nat /\ (Cardinality(InWakeup) = 0 <=> InWakeup = {})
  BY <1>1, CountZero
<1>3. InWakeup = {}
  BY <1>1, <1>2 DEF CountInv
<1> QED BY <1>3 DEF InWakeup

(* A call that changes none of the flags.                                    *)
SameFlags == UNCHANGED <<mRunning, mIoPumpActive, peerStarted>>

LEMMA SameFlagsStill ==
    ASSUME ShapeInv, StillInv, NEW c \in Callers, CallStep(c), SameFlags,
           connected' \subseteq connected, mSession' \in {mSession, None}, UNCHANGED kept,
           op'[c] = "stop" => op[c] = "stop",
           Waits(c) => Waits(c)' \/ Calm,
           wasRunning[c] => wasRunning'[c],
           quiet' => Still' /\ Empty' /\ \A d \in Callers : op'[d] # "connect",
           CallerKnows(c)'
    PROVE  StillInv'
<1>1. /\ \A t \in Threads \ {c} : pc'[t] = pc[t]
      /\ \A d \in Callers \ {c} : op'[d] = op[d] /\ wasRunning'[d] = wasRunning[d]
      /\ pc'[c] \in CallStatements /\ c \in Threads /\ \A d \in Callers : d \in Threads
  BY CallStepCallers, CallersApart
<1>2. (Calm' <=> Calm) /\ (Still' <=> Still) /\ (Empty => Empty')
  BY CalmCalls DEF SameFlags, Still, Empty, Ended
<1>3. ASSUME NEW d \in Callers, d # c PROVE CallerKnows(d)'
  <2>1. CallerKnows(d)
    BY DEF StillInv
  <2>2. Waits(d) \/ pc[d] \in LastStatements => ~mIoPumpActive'
    BY <2>1 DEF CallerKnows, Still, SameFlags
  <2>3. op[d] = "connect" /\ pc[d] # "connectPeer" => peerStarted'
    BY <2>1 DEF CallerKnows, SameFlags
  <2>4. op[d] = "start" => ~peerStarted' /\ mRunning' /\ op'[c] # "stop"
    BY <2>1 DEF CallerKnows, SameFlags
  <2>5. op[d] = "stop" /\ ~wasRunning[d] => ~peerStarted'
    BY <2>1 DEF CallerKnows, SameFlags
  <2> QED BY <1>3, <2>2, <2>3, <2>4, <2>5, OthersKnow
<1>4. ~mIoPumpActive' => Calm' \/ \E d \in Callers : Waits(d)'
  <2>1. \A d \in Callers : Waits(d) => Waits(d)' \/ Calm
    BY <1>1 DEF Waits
  <2> QED BY <1>2, <2>1 DEF StillInv, PumpKnows, SameFlags
<1>5. ~peerStarted' => Still' /\ Empty'
  BY <1>2 DEF StillInv, PumpKnows, SameFlags
<1>6. ~mRunning' => ~peerStarted' \/ \E d \in Callers : wasRunning'[d]
  BY <1>1 DEF StillInv, PumpKnows, SameFlags
<1>7. \A t \in Threads : pc'[t] = "dropFlag" => ~(mRunning' /\ mIoPumpActive')
  <2>1. pc'[c] # "dropFlag"
    BY <1>1 DEF CallStatements, WaitStatements, LastStatements
  <2> QED BY <1>1, <2>1 DEF StillInv, PumpKnows, SameFlags
<1>8. \A d \in Callers : CallerKnows(d)'
  BY <1>3
<1> QED BY <1>4, <1>5, <1>6, <1>7, <1>8 DEF StillInv, PumpKnows

(* A session that is connected is the one stored, or the application's.      *)
Owned == connected \subseteq ({mSession} \union kept) \ {None}

LEMMA ConnectKeepsStill ==
    ASSUME ShapeInv, StillInv, ~crossed', NEW c \in Callers,
           ConnectBegin(c) \/ ConnectPeer(c) \/ DisconnectBegin(c)
    PROVE  StillInv'
<1>1. CallStep(c)
  BY DEF CallStep
<1>2. /\ SameFlags /\ UNCHANGED session /\ quiet' \in {quiet, FALSE}
      /\ ConnectBegin(c) => quiet' = FALSE
      /\ ConnectPeer(c) => peerStarted \/ Return(c, "connectPeer")
  BY CallEffects DEF SameFlags, flags
<1>3. /\ op \in [Callers -> Operations] /\ pc \in [Threads -> Statements]
      /\ wasRunning \in [Callers -> BOOLEAN] /\ c \in Threads /\ quiet \in BOOLEAN
      /\ op[c] = "none" <=> pc[c] = "idle"
      /\ op[c] # "stop" => wasRunning[c] = FALSE
      /\ CallerFits(op[c], pc[c], wasRunning[c])
  BY IdleCaller, CallersApart DEF ShapeInv, PumpInv, PumpTypes, CallTypes
<1>4. \/ Rests /\ ConnectBegin(c)
      \/ Begins(c, "connect", "connectPeer") /\ ConnectBegin(c)
      \/ Proceeds(c, "connectPeer", "activate") /\ ConnectPeer(c)
      \/ Returns(c, "connectPeer") /\ ConnectPeer(c)
      \/ Begins(c, "disconnect", "deactivate") /\ DisconnectBegin(c)
  BY CallSteps
<1>5. CASE Rests /\ ConnectBegin(c)
  <2>1. CallerKnows(c)' /\ wasRunning'[c] = wasRunning[c] /\ Waits(c)' = Waits(c)
        /\ op'[c] = op[c]
    <3>1. (Still' <=> Still) /\ (Empty' <=> Empty) /\ (Ended' <=> Ended)
      BY <1>1, <1>2, CalmCalls DEF Still, Empty, Ended, SameFlags, session
    <3>2. CallerKnows(c)
      BY DEF StillInv
    <3>3. UNCHANGED <<pc, op, wasRunning, ret>> /\ UNCHANGED <<mRunning, mIoPumpActive, peerStarted>>
      BY <1>2, <1>5 DEF Rests, SameFlags, session
    <3> QED BY <3>1, <3>2, <3>3 DEF CallerKnows, Waits
  <2> QED BY <1>1, <1>2, <1>5, <2>1, SameFlagsStill DEF session
<1>6. CASE Begins(c, "connect", "connectPeer") /\ ConnectBegin(c)
  <2>1. pc'[c] = "connectPeer" /\ op'[c] = "connect" /\ wasRunning'[c] = FALSE /\ pc[c] = "idle"
    BY <1>3, <1>6 DEF Begins, CallerGoes
  <2>2. CallerKnows(c)'
    BY <2>1 DEF CallerKnows, Waits, LastStatements
  <2> QED BY <1>1, <1>2, <1>3, <1>6, <2>1, <2>2, SameFlagsStill DEF session, Waits
<1>7. CASE Proceeds(c, "connectPeer", "activate") /\ ConnectPeer(c)
  <2>0. op[c] = "connect"
    BY <1>3, <1>7 DEF Proceeds, CallerFits, WaitStatements, LastStatements, ScheduleStatements
  <2>1. pc'[c] = "activate" /\ op'[c] = "connect" /\ wasRunning'[c] = FALSE /\ pc[c] = "connectPeer"
    BY <1>3, <1>7, <2>0 DEF Proceeds, CallerGoes
  <2>2. ~Return(c, "connectPeer")
    BY <1>3, <2>1 DEF Return, Goto
  <2>3. CallerKnows(c)'
    BY <1>2, <1>7, <2>1, <2>2 DEF CallerKnows, Waits, LastStatements, SameFlags
  <2>4. ~quiet'
    BY <1>2, <2>0 DEF StillInv, PumpKnows
  <2> QED BY <1>1, <1>2, <1>3, <2>0, <2>1, <2>3, <2>4, SameFlagsStill DEF session, Waits
<1>8. CASE Returns(c, "connectPeer") /\ ConnectPeer(c)
  <2>0. op[c] = "connect"
    BY <1>3, <1>8 DEF Returns, CallerFits, WaitStatements, LastStatements, ScheduleStatements
  <2>1. pc'[c] = "idle" /\ op'[c] = "none" /\ wasRunning'[c] = FALSE /\ pc[c] = "connectPeer"
    BY <1>3, <1>8 DEF Returns, CallerGoes
  <2>2. CallerKnows(c)'
    BY <2>1 DEF CallerKnows, Waits, LastStatements
  <2>3. ~quiet'
    BY <1>2, <2>0 DEF StillInv, PumpKnows
  <2> QED BY <1>1, <1>2, <1>3, <2>0, <2>1, <2>2, <2>3, SameFlagsStill DEF session, Waits
<1>9. CASE Begins(c, "disconnect", "deactivate") /\ DisconnectBegin(c)
  <2>1. pc'[c] = "deactivate" /\ op'[c] = "disconnect" /\ wasRunning'[c] = FALSE /\ pc[c] = "idle"
    BY <1>3, <1>9 DEF Begins, CallerGoes
  <2>2. CallerKnows(c)'
    BY <2>1 DEF CallerKnows, Waits, LastStatements
  <2>3. quiet' => Still' /\ Empty' /\ \A d \in Callers : op'[d] # "connect"
    <3>1. (Still' <=> Still) /\ (Empty' <=> Empty) /\ quiet' = quiet
      BY <1>1, <1>2, <1>9, CalmCalls, CallEffects DEF Still, Empty, Ended, SameFlags, session
    <3>2. \A d \in Callers : op'[d] = op[d] \/ op'[d] = "disconnect"
      BY <1>1, <2>1, CallStepCallers
    <3> QED BY <3>1, <3>2 DEF StillInv, PumpKnows
  <2> QED BY <1>1, <1>2, <1>3, <2>1, <2>2, <2>3, SameFlagsStill DEF session, Waits
<1> QED BY <1>4, <1>5, <1>6, <1>7, <1>8, <1>9

LEMMA EndKeepsStill ==
    ASSUME ShapeInv, CountInv, StillInv, Owned, ~crossed', NEW c \in Callers,
           Wait(c) \/ TeardownSession(c) \/ TeardownClear(c)
    PROVE  StillInv'
<1>1. CallStep(c) /\ ~crossed
  BY CallStepCallers DEF CallStep
<1>2. /\ op \in [Callers -> Operations] /\ pc \in [Threads -> Statements]
      /\ wasRunning \in [Callers -> BOOLEAN] /\ c \in Threads
      /\ CallerFits(op[c], pc[c], wasRunning[c])
  BY IdleCaller, CallersApart DEF ShapeInv, PumpInv, PumpTypes, CallTypes
<1>3. SameFlags /\ quiet' = quiet /\ mSession' \in {mSession, None}
  BY CallEffects DEF SameFlags, flags, session
<1>4. connected' \subseteq connected /\ UNCHANGED kept
  <2>1. CASE Wait(c)
    BY <2>1, CallEffects DEF session
  <2>2. CASE TeardownSession(c)
    BY <2>2, CallEffects
  <2>3. CASE TeardownClear(c)
    <3>1. Ended
      BY <2>3 DEF TeardownClear, Goto, StillInv, CallerKnows
    <3>2. mSession \notin connected
      BY <3>1 DEF Ended
    <3> QED BY <2>3, <3>2, CallEffects
  <2> QED BY <2>1, <2>2, <2>3
<1>5. (Still' <=> Still) /\ (Ended => Ended') /\ (Empty => Empty')
  BY <1>1, <1>3, <1>4, CalmCalls DEF Still, SameFlags, Empty, Ended
<1>6. PICK from \in {"waitWakeups", "waitJobs", "teardown", "clear"}, s \in Statements :
         /\ Proceeds(c, from, s)
         /\ \/ Wait(c) /\ from = "waitWakeups" /\ s = "waitJobs"
            \/ Wait(c) /\ from = "waitJobs" /\ s = "teardown"
            \/ TeardownSession(c) /\ from = "teardown" /\ s \in {"finish", "clear"}
            \/ TeardownClear(c) /\ from = "clear" /\ s = "finish"
  <2>1. {"waitJobs", "teardown", "finish", "clear"} \subseteq Statements
    BY DEF Statements, FreeStatements
  <2> QED BY <2>1, CallSteps
<1>7. /\ pc[c] = from /\ pc'[c] = s /\ op' = op /\ wasRunning' = wasRunning /\ ret' = ret
      /\ op[c] \in {"disconnect", "stop"}
  <2>1. pc[c] = from /\ pc'[c] = s /\ op' = op /\ wasRunning' = wasRunning /\ ret' = ret
    BY <1>2, <1>6 DEF Proceeds, CallerGoes
  <2> QED BY <1>2, <2>1 DEF CallerFits, ScheduleStatements
<1>8. quiet' => Still' /\ Empty' /\ \A d \in Callers : op'[d] # "connect"
  BY <1>3, <1>5, <1>7 DEF StillInv, PumpKnows
<1>9. CallerKnows(c)
  BY DEF StillInv
<1>10. op'[c] = "stop" /\ ~wasRunning'[c] => ~peerStarted'
  BY <1>3, <1>7, <1>9 DEF CallerKnows, SameFlags
<1>11. CASE Wait(c) /\ from = "waitWakeups" /\ s = "waitJobs"
  <2>1. mPendingDelayedWakeups = 0
    BY <1>7, <1>11, CallEffects
  <2>2. \A w \in PoolWorkers : ret'[w] # "wakeupDone"
    BY <1>7, <2>1, WakeupsGone
  <2>3. ~mIoPumpActive'
    BY <1>3, <1>7, <1>9, <1>11 DEF CallerKnows, Waits, SameFlags
  <2>4. CallerKnows(c)'
    BY <1>7, <1>10, <1>11, <2>2, <2>3 DEF CallerKnows, LastStatements
  <2>5. Waits(c)'
    BY <1>7, <1>11 DEF Waits
  <2> QED BY <1>1, <1>3, <1>4, <1>7, <1>8, <2>4, <2>5, SameFlagsStill
<1>12. CASE Wait(c) /\ from = "waitJobs" /\ s = "teardown"
  <2>1. mPendingIoJobs = 0
    BY <1>7, <1>12, CallEffects
  <2>2. Still
    BY <1>1, <1>7, <1>12, <2>1, WaitedFor
  <2>3. CallerKnows(c)'
    BY <1>5, <1>7, <1>10, <1>12, <2>2 DEF CallerKnows, Waits, LastStatements
  <2> QED BY <1>1, <1>3, <1>4, <1>7, <1>8, <2>2, <2>3, SameFlagsStill DEF Still
<1>13. CASE TeardownSession(c) /\ from = "teardown" /\ s \in {"finish", "clear"}
  <2>1. Still
    BY <1>7, <1>9, <1>13 DEF CallerKnows, LastStatements
  <2>2. Ended' /\ (s = "finish" => Empty')
    <3>1. CASE mSession = None
      <4>1. Empty
        BY <3>1 DEF Owned, Empty, Ended
      <4> QED BY <1>5, <4>1 DEF Empty
    <3>2. CASE mSession # None
      <4>1. Ended'
        BY <1>13, <3>2, CallEffects DEF Owned, Ended
      <4>2. s = "clear"
        <5>1. pc'[c] = "clear"
          BY <1>2, <1>13, <3>2, CallEffects DEF Goto
        <5> QED BY <1>7, <5>1
      <4> QED BY <4>1, <4>2
    <3> QED BY <3>1, <3>2
  <2>3. CallerKnows(c)'
    BY <1>5, <1>7, <1>10, <1>13, <2>1, <2>2 DEF CallerKnows, Waits, LastStatements
  <2> QED BY <1>1, <1>3, <1>4, <1>7, <1>8, <2>1, <2>3, SameFlagsStill DEF Still
<1>14. CASE TeardownClear(c) /\ from = "clear" /\ s = "finish"
  <2>1. Still /\ Ended
    BY <1>7, <1>9, <1>14 DEF CallerKnows, LastStatements
  <2>2. Empty'
    BY <1>5, <1>14, <2>1, CallEffects DEF Empty
  <2>3. CallerKnows(c)'
    BY <1>5, <1>7, <1>10, <1>14, <2>1, <2>2 DEF CallerKnows, Waits, LastStatements
  <2> QED BY <1>1, <1>3, <1>4, <1>7, <1>8, <2>1, <2>3, SameFlagsStill DEF Still
<1> QED BY <1>6, <1>11, <1>12, <1>13, <1>14

LEMMA FinishKeepsStill ==
    ASSUME ShapeInv, StillInv, ~crossed', NEW c \in Callers, Finish(c)
    PROVE  StillInv'
<1>1. CallStep(c) /\ ~crossed
  BY CallStepCallers DEF CallStep
<1>2. /\ op \in [Callers -> Operations] /\ pc \in [Threads -> Statements]
      /\ wasRunning \in [Callers -> BOOLEAN] /\ c \in Threads
      /\ CallerFits(op[c], pc[c], wasRunning[c]) /\ CallerKnows(c) /\ peerStarted \in BOOLEAN
  BY IdleCaller, CallersApart DEF ShapeInv, PumpInv, PumpTypes, CallTypes, StillInv
<1>3. /\ UNCHANGED <<mRunning, mIoPumpActive, mSession, connected, kept>>
      /\ quiet' = (quiet \/ op[c] = "disconnect" \/ wasRunning[c])
      /\ peerStarted' = IF wasRunning[c] THEN FALSE ELSE peerStarted
  BY CallEffects DEF flags, session
<1>4. /\ pc[c] = "finish" /\ pc'[c] = "idle" /\ op'[c] = "none" /\ wasRunning'[c] = FALSE
      /\ op[c] \in {"disconnect", "stop"}
  <2>1. Returns(c, "finish")
    BY CallSteps
  <2>2. pc[c] = "finish" /\ pc'[c] = "idle" /\ op'[c] = "none" /\ wasRunning'[c] = FALSE
    BY <1>2, <2>1 DEF Returns, CallerGoes
  <2> QED BY <1>2, <2>2 DEF CallerFits, ScheduleStatements, WaitStatements
<1>5. Still /\ Empty /\ Still' /\ Empty'
  <2>1. Still /\ Empty
    BY <1>2, <1>4 DEF CallerKnows, LastStatements
  <2> QED BY <1>1, <1>3, <2>1, CalmCalls DEF Still, Empty, Ended
<1>6. \A d \in Callers : op[d] # "connect" /\ op'[d] # "connect"
  <2>1. \A d \in Callers : op[d] # "connect"
    BY <1>1, <1>4 DEF ShapeInv, Mixes
  <2> QED BY <1>1, <1>4, <2>1, CallStepCallers
<1>7. CallerKnows(c)'
  BY <1>4 DEF CallerKnows, Waits, LastStatements
<1>8. CASE ~wasRunning[c]
  <2>1. SameFlags
    BY <1>3, <1>8 DEF SameFlags
  <2> QED BY <1>1, <1>3, <1>4, <1>5, <1>6, <1>7, <1>8, <2>1, SameFlagsStill DEF Waits
<1>9. CASE wasRunning[c]
  <2>1. peerStarted' = FALSE
    BY <1>3, <1>9
  <2>2. ASSUME NEW d \in Callers, d # c PROVE CallerKnows(d)'
    <3>1. CallerKnows(d)
      BY DEF StillInv
    <3>2. op[d] = "start" => mRunning'
      BY <1>3, <3>1 DEF CallerKnows
    <3> QED BY <1>1, <1>3, <1>4, <1>5, <1>6, <2>1, <2>2, <3>2, OthersKnow DEF Still
  <2>3. \A t \in Threads : pc'[t] = "dropFlag" => ~(mRunning' /\ mIoPumpActive')
    BY <1>5 DEF Still
  <2>4. PumpKnows'
    BY <1>5, <1>6, <2>1, <2>3 DEF PumpKnows, Still
  <2>5. \A d \in Callers : CallerKnows(d)'
    BY <1>7, <2>2
  <2> QED BY <2>4, <2>5 DEF StillInv
<1> QED BY <1>8, <1>9

LEMMA StartKeepsStill ==
    ASSUME ShapeInv, StillInv, ~crossed', NEW c \in Callers, StartBegin(c) \/ StartPeer(c)
    PROVE  StillInv'
<1>1. CallStep(c) /\ ~crossed
  BY CallStepCallers DEF CallStep
<1>2. /\ op \in [Callers -> Operations] /\ pc \in [Threads -> Statements]
      /\ wasRunning \in [Callers -> BOOLEAN] /\ c \in Threads
      /\ CallerFits(op[c], pc[c], wasRunning[c]) /\ CallerKnows(c)
      /\ peerStarted \in BOOLEAN /\ mRunning \in BOOLEAN
  BY IdleCaller, CallersApart DEF ShapeInv, PumpInv, PumpTypes, CallTypes, StillInv
<1>3. UNCHANGED <<mIoPumpActive, quiet, mSession, connected, kept>>
  BY CallEffects DEF session
<1>4. (Calm' <=> Calm) /\ (Still' <=> Still) /\ (Ended' <=> Ended) /\ (Empty' <=> Empty)
  BY <1>1, <1>3, CalmCalls DEF Still, Empty, Ended
<1>5. /\ \A t \in Threads \ {c} : pc'[t] = pc[t]
      /\ \A d \in Callers \ {c} : op'[d] = op[d] /\ wasRunning'[d] = wasRunning[d]
      /\ pc'[c] \in CallStatements /\ \A d \in Callers : d \in Threads
  BY <1>1, CallStepCallers, CallersApart
<1>6. CASE StartBegin(c) /\ Rests
  <2>1. SameFlags
    <3>1. mRunning' = TRUE /\ (mRunning \/ Begins(c, "start", "startup"))
      BY <1>6, CallSteps
    <3>2. ~Begins(c, "start", "startup")
      BY <1>2, <1>6 DEF Begins, CallerGoes, Rests
    <3> QED BY <1>2, <1>6, <3>1, <3>2, CallEffects DEF SameFlags
  <2>2. UNCHANGED <<pc, op, wasRunning, ret>>
    BY <1>6 DEF Rests
  <2>3. CallerKnows(c)'
    BY <1>2, <1>3, <1>4, <2>1, <2>2 DEF CallerKnows, SameFlags, Waits
  <2> QED BY <1>1, <1>3, <1>4, <2>1, <2>2, <2>3, SameFlagsStill DEF StillInv, PumpKnows, Waits
<1>7. CASE StartBegin(c) /\ Begins(c, "start", "startup") /\ ~mRunning
  <2>1. \A d \in Callers : op[d] = "none" /\ pc[d] = "idle" /\ wasRunning[d] = FALSE
    <3>1. \A d \in Callers : op[d] = "none"
      BY <1>7, CallSteps
    <3> QED BY <3>1, IdleCaller
  <2>2. ~peerStarted /\ Still /\ Empty
    BY <1>7, <2>1 DEF StillInv, PumpKnows
  <2>3. /\ pc'[c] = "startup" /\ op'[c] = "start" /\ mRunning' = TRUE
        /\ UNCHANGED peerStarted
    BY <1>2, <1>7, CallSteps, CallEffects DEF Begins, CallerGoes
  <2>4. \A d \in Callers : op'[d] # "stop" /\ op'[d] # "connect"
    BY <1>5, <2>1, <2>3
  <2>5. CallerKnows(c)'
    BY <2>2, <2>3, <2>4 DEF CallerKnows, Waits, LastStatements
  <2>6. ASSUME NEW d \in Callers, d # c PROVE CallerKnows(d)'
    BY <1>1, <1>3, <2>1, <2>2, <2>6, OthersKnow DEF Still
  <2>7. \A t \in Threads : pc'[t] = "dropFlag" => ~(mRunning' /\ mIoPumpActive')
    BY <1>3, <2>2 DEF Still
  <2>8. PumpKnows'
    BY <1>4, <2>2, <2>3, <2>4, <2>7 DEF PumpKnows, Still
  <2>9. \A d \in Callers : CallerKnows(d)'
    BY <2>5, <2>6
  <2> QED BY <2>8, <2>9 DEF StillInv
<1>8. CASE StartPeer(c)
  <2>1. pc[c] = "startup" /\ pc'[c] = "idle" /\ op'[c] = "none" /\ wasRunning'[c] = FALSE
    BY <1>2, <1>8, CallSteps DEF Returns, CallerGoes
  <2>2. op[c] = "start" /\ wasRunning[c] = FALSE
    BY <1>2, <2>1, IdleCaller
          DEF CallerFits, ScheduleStatements, WaitStatements, LastStatements
  <2>3. ~peerStarted /\ mRunning /\ Still /\ Empty /\ \A d \in Callers : op[d] # "stop"
    BY <1>2, <2>2 DEF CallerKnows, StillInv, PumpKnows
  <2>4. \/ peerStarted' = TRUE /\ mRunning' = mRunning
        \/ mRunning' = FALSE /\ peerStarted' = peerStarted
    BY <1>8, CallEffects
  <2>5. \A d \in Callers \ {c} : op[d] # "start"
    BY <2>2 DEF ShapeInv, Mixes
  <2>6. CallerKnows(c)'
    BY <2>1 DEF CallerKnows, Waits, LastStatements
  <2>7. ASSUME NEW d \in Callers, d # c PROVE CallerKnows(d)'
    <3>1. op[d] = "connect" /\ pc[d] # "connectPeer" => peerStarted'
      BY <2>3 DEF StillInv, CallerKnows
    <3> QED BY <1>1, <1>3, <2>3, <2>5, <2>7, <3>1, OthersKnow DEF Still
  <2>8. ~mRunning' => ~peerStarted' \/ \E d \in Callers : wasRunning'[d]
    BY <2>3, <2>4
  <2>9. \A t \in Threads : pc'[t] = "dropFlag" => ~(mRunning' /\ mIoPumpActive')
    BY <1>3, <2>3 DEF Still
  <2>10. quiet' => Still' /\ Empty' /\ \A d \in Callers : op'[d] # "connect"
    BY <1>3, <1>4, <1>5, <2>1 DEF StillInv, PumpKnows
  <2>11. PumpKnows'
    BY <1>4, <2>3, <2>8, <2>9, <2>10 DEF PumpKnows, Still
  <2>12. \A d \in Callers : CallerKnows(d)'
    BY <2>6, <2>7
  <2> QED BY <2>11, <2>12 DEF StillInv
<1> QED BY <1>6, <1>7, <1>8, CallSteps

LEMMA ActivateKeepsStill ==
    ASSUME ShapeInv, StillInv, ~crossed', NEW c \in Callers, Activate(c)
    PROVE  StillInv'
<1>1. CallStep(c) /\ ~crossed
  BY CallStepCallers DEF CallStep
<1>2. /\ op \in [Callers -> Operations] /\ pc \in [Threads -> Statements]
      /\ wasRunning \in [Callers -> BOOLEAN] /\ c \in Threads
      /\ CallerFits(op[c], pc[c], wasRunning[c]) /\ CallerKnows(c)
  BY IdleCaller, CallersApart DEF ShapeInv, PumpInv, PumpTypes, CallTypes, StillInv
<1>3. UNCHANGED <<mRunning, peerStarted, quiet, mSession, connected, kept>> /\ mIoPumpActive' = TRUE
  BY CallEffects DEF session
<1>4. /\ pc[c] = "activate" /\ pc'[c] = "schedule" /\ op' = op /\ wasRunning' = wasRunning
      /\ op[c] = "connect"
  <2>1. pc[c] = "activate" /\ pc'[c] = "schedule" /\ op' = op /\ wasRunning' = wasRunning
    <3>1. Proceeds(c, "activate", "schedule")
      BY CallSteps
    <3> QED BY <1>2, <3>1 DEF Proceeds, CallerGoes
  <2> QED BY <1>2, <2>1 DEF CallerFits, ScheduleStatements, WaitStatements, LastStatements
<1>5. peerStarted /\ ~quiet
  BY <1>2, <1>4 DEF CallerKnows, StillInv, PumpKnows
<1>6. \A d \in Callers : op[d] \notin {"disconnect", "stop"}
  BY <1>1, <1>4 DEF ShapeInv, Mixes
<1>7. \A d \in Callers : ~Waits(d) /\ pc[d] \notin LastStatements
  BY <1>6, IdleCaller DEF CallerFits, Waits, ScheduleStatements, LastStatements
<1>8. CallerKnows(c)'
  BY <1>3, <1>4, <1>5 DEF CallerKnows, Waits, LastStatements
<1>9. ASSUME NEW d \in Callers, d # c PROVE CallerKnows(d)'
  <2>1. CallerKnows(d)
    BY DEF StillInv
  <2>2. op[d] # "start"
    BY <1>5, <2>1 DEF CallerKnows
  <2> QED BY <1>1, <1>3, <1>5, <1>6, <1>7, <1>9, <2>2, OthersKnow
<1>10. \A t \in Threads : pc'[t] = "dropFlag" => ~(mRunning' /\ mIoPumpActive')
  <2> SUFFICES ASSUME NEW t \in Threads, pc'[t] = "dropFlag" PROVE ~mRunning
    BY <1>3
  <2>1. t # c /\ pc[t] = "dropFlag"
    BY <1>1, <1>4, CallStepCallers
  <2>2. t \in PoolWorkers
    BY <2>1, IdleCaller DEF Threads, CallerFits, ScheduleStatements, WaitStatements, LastStatements
  <2>3. ~Calm
    BY <2>1, <2>2 DEF Calm, InPump
  <2>4. mIoPumpActive
    BY <1>7, <2>3 DEF StillInv, PumpKnows
  <2> QED BY <2>1, <2>4 DEF StillInv, PumpKnows
<1>11. ~mRunning' => ~peerStarted' \/ \E d \in Callers : wasRunning'[d]
  BY <1>3, <1>4 DEF StillInv, PumpKnows
<1>12. PumpKnows'
  BY <1>3, <1>5, <1>10, <1>11 DEF PumpKnows
<1>13. \A d \in Callers : CallerKnows(d)'
  BY <1>8, <1>9
<1> QED BY <1>12, <1>13 DEF StillInv

LEMMA DeactivateKeepsStill ==
    ASSUME ShapeInv, StillInv, ~crossed', NEW c \in Callers, Deactivate(c)
    PROVE  StillInv'
<1>1. CallStep(c) /\ ~crossed
  BY CallStepCallers DEF CallStep
<1>2. /\ op \in [Callers -> Operations] /\ pc \in [Threads -> Statements]
      /\ wasRunning \in [Callers -> BOOLEAN] /\ c \in Threads
      /\ CallerFits(op[c], pc[c], wasRunning[c]) /\ CallerKnows(c)
  BY IdleCaller, CallersApart DEF ShapeInv, PumpInv, PumpTypes, CallTypes, StillInv
<1>3. /\ UNCHANGED <<mRunning, peerStarted, quiet, mSession, connected, kept>>
      /\ mIoPumpActive' = FALSE
  BY CallEffects DEF session
<1>4. /\ pc[c] = "deactivate" /\ pc'[c] = "waitWakeups" /\ op' = op /\ wasRunning' = wasRunning
      /\ op[c] \in {"disconnect", "stop"}
  <2>1. pc[c] = "deactivate" /\ pc'[c] = "waitWakeups" /\ op' = op /\ wasRunning' = wasRunning
    <3>1. Proceeds(c, "deactivate", "waitWakeups")
      BY CallSteps
    <3> QED BY <1>2, <3>1 DEF Proceeds, CallerGoes
  <2> QED BY <1>2, <2>1 DEF CallerFits, ScheduleStatements, WaitStatements, LastStatements
<1>5. (Still => Still') /\ (Empty' <=> Empty)
  BY <1>1, <1>3, CalmCalls DEF Still, Empty, Ended
<1>6. CallerKnows(c)'
  BY <1>2, <1>3, <1>4 DEF CallerKnows, Waits, LastStatements
<1>7. ASSUME NEW d \in Callers, d # c PROVE CallerKnows(d)'
  <2>1. CallerKnows(d)
    BY DEF StillInv
  <2>2. op[d] = "start" => op'[c] # "stop"
    BY <1>4, <2>1 DEF CallerKnows
  <2>3. op[d] = "connect" /\ pc[d] # "connectPeer" => peerStarted'
    BY <1>3, <2>1 DEF CallerKnows
  <2>4. op[d] = "start" => ~peerStarted' /\ mRunning'
    BY <1>3, <2>1 DEF CallerKnows
  <2>5. op[d] = "stop" /\ ~wasRunning[d] => ~peerStarted'
    BY <1>3, <2>1 DEF CallerKnows
  <2> QED BY <1>1, <1>3, <1>7, <2>2, <2>3, <2>4, <2>5, OthersKnow
<1>8. \E d \in Callers : Waits(d)'
  BY <1>4 DEF Waits
<1>9. /\ ~peerStarted' => Still' /\ Empty'
      /\ ~mRunning' => ~peerStarted' \/ \E d \in Callers : wasRunning'[d]
      /\ quiet' => Still' /\ Empty' /\ \A d \in Callers : op'[d] # "connect"
  BY <1>3, <1>4, <1>5 DEF StillInv, PumpKnows
<1>10. PumpKnows'
  BY <1>3, <1>8, <1>9 DEF PumpKnows
<1>11. \A d \in Callers : CallerKnows(d)'
  BY <1>6, <1>7
<1> QED BY <1>10, <1>11 DEF StillInv

LEMMA StopKeepsStill ==
    ASSUME ShapeInv, StillInv, ~crossed', NEW c \in Callers, StopBegin(c)
    PROVE  StillInv'
<1>1. CallStep(c) /\ ~crossed
  BY CallStepCallers DEF CallStep
<1>2. /\ op \in [Callers -> Operations] /\ pc \in [Threads -> Statements]
      /\ wasRunning \in [Callers -> BOOLEAN] /\ c \in Threads /\ mRunning \in BOOLEAN
  BY CallersApart DEF ShapeInv, PumpInv, PumpTypes, CallTypes
<1>3. /\ UNCHANGED <<mIoPumpActive, peerStarted, quiet, mSession, connected, kept>>
      /\ mRunning' = FALSE /\ \A d \in Callers : op[d] # "start"
  BY CallEffects DEF session
<1>4. /\ pc'[c] = (IF mRunning THEN "deactivate" ELSE "teardown") /\ op'[c] = "stop"
      /\ wasRunning'[c] = mRunning /\ op[c] = "none" /\ pc[c] = "idle" /\ wasRunning[c] = FALSE
  <2>1. Begins(c, "stop", IF mRunning THEN "deactivate" ELSE "teardown")
    BY CallSteps
  <2> QED BY <1>2, <2>1, IdleCaller DEF Begins, CallerGoes
<1>5. (Calm' <=> Calm) /\ (Still' <=> Still) /\ (Empty' <=> Empty)
  BY <1>1, <1>3, CalmCalls DEF Still, Empty, Ended
<1>6. /\ \A t \in Threads \ {c} : pc'[t] = pc[t]
      /\ \A d \in Callers \ {c} : op'[d] = op[d] /\ wasRunning'[d] = wasRunning[d]
      /\ \A d \in Callers : d \in Threads
  BY <1>1, CallStepCallers, CallersApart
<1>7. \A d \in Callers \ {c} : wasRunning[d] = FALSE
  <2>1. Mixes'
    BY <1>1, CallStepShape DEF ShapeInv
  <2>2. \A d \in Callers \ {c} : op[d] # "stop"
    BY <1>4, <1>6, <2>1 DEF Mixes
  <2> QED BY <2>2, IdleCaller
<1>8. ~mRunning => ~peerStarted /\ Still /\ Empty
  BY <1>4, <1>7 DEF StillInv, PumpKnows
<1>9. CallerKnows(c)'
  <2>1. CASE mRunning
    BY <1>4, <2>1 DEF CallerKnows, Waits, LastStatements
  <2>2. CASE ~mRunning
    BY <1>3, <1>4, <1>5, <1>8, <2>2 DEF CallerKnows, Waits
  <2> QED BY <2>1, <2>2
<1>10. ASSUME NEW d \in Callers, d # c PROVE CallerKnows(d)'
  <2>1. CallerKnows(d)
    BY DEF StillInv
  <2>2. Waits(d) \/ pc[d] \in LastStatements => ~mIoPumpActive'
    BY <1>3, <2>1 DEF CallerKnows, Still
  <2>3. op[d] = "connect" /\ pc[d] # "connectPeer" => peerStarted'
    BY <1>3, <2>1 DEF CallerKnows
  <2>4. op[d] = "stop" /\ ~wasRunning[d] => ~peerStarted'
    BY <1>3, <2>1 DEF CallerKnows
  <2> QED BY <1>1, <1>3, <1>10, <2>2, <2>3, <2>4, OthersKnow
<1>11. ~mIoPumpActive' => Calm' \/ \E d \in Callers : Waits(d)'
  <2>1. \A d \in Callers : Waits(d) => Waits(d)'
    BY <1>4, <1>6 DEF Waits
  <2> QED BY <1>3, <1>5, <2>1 DEF StillInv, PumpKnows
<1>12. ~mRunning' => ~peerStarted' \/ \E d \in Callers : wasRunning'[d]
  BY <1>3, <1>4, <1>8
<1>13. quiet' => Still' /\ Empty' /\ \A d \in Callers : op'[d] # "connect"
  BY <1>3, <1>4, <1>5, <1>6 DEF StillInv, PumpKnows
<1>14. ~peerStarted' => Still' /\ Empty'
  BY <1>3, <1>5 DEF StillInv, PumpKnows
<1>15. PumpKnows'
  BY <1>3, <1>11, <1>12, <1>13, <1>14 DEF PumpKnows
<1>16. \A d \in Callers : CallerKnows(d)'
  BY <1>9, <1>10
<1> QED BY <1>15, <1>16 DEF StillInv

LEMMA CallStepStill ==
    ASSUME ShapeInv, CountInv, StillInv, Owned, ~crossed', NEW c \in Callers, CallStep(c)
    PROVE  StillInv'
BY ConnectKeepsStill, EndKeepsStill, FinishKeepsStill, StartKeepsStill, ActivateKeepsStill,
   DeactivateKeepsStill, StopKeepsStill DEF CallStep

LEMMA PeerFrameStill ==
    ASSUME StillInv, PeerFrame
    PROVE  StillInv'
<1>1. /\ UNCHANGED <<mRunning, mIoPumpActive, mSession, kept, ioJobs, peerStarted, pc, ret, op,
                     wasRunning, quiet>>
      /\ connected' \subseteq connected
  BY DEF PeerFrame, flags, locals, history
<1>2. InPump' = InPump
  BY <1>1 DEF InPump
<1>3. (Calm' <=> Calm) /\ (Still' <=> Still) /\ (Ended => Ended') /\ (Empty => Empty')
  BY <1>1, <1>2 DEF Calm, Still, Empty, Ended
<1>4. PumpKnows'
  BY <1>1, <1>3 DEF StillInv, PumpKnows, Waits
<1>5. \A c \in Callers : CallerKnows(c)'
  BY <1>1, <1>3 DEF StillInv, CallerKnows, Waits
<1> QED BY <1>4, <1>5 DEF StillInv

-----------------------------------------------------------------------------
(* What the peer has to say: the line q of packets that wait for Receive,    *)
(* the connection l, the attempts A of the n that were made; and the session *)
(* m, the connected sessions K, and the connections M that were missed.      *)
Packets == [kind : {"accepted", "failed", "lost", "data"}, of : Nat]

Accepts(q, i) == q[i].kind = "accepted"

(* A connection of a session that is not disconnected is the last the peer   *)
(* accepted, so that its session is the one stored; any other was not heard  *)
(* of, or is the last the line will tell of.                                 *)
LineInv(q, l, A, n, m, K, M) ==
    /\ q \in Seq(Packets) /\ n \in Nat
    /\ A \subseteq 1..n /\ l \in 0..n /\ l \notin A /\ K \subseteq (1..n) \ A
    /\ \A i \in DOMAIN q : Accepts(q, i) => q[i].of \in (1..n) \ A
    /\ l \in K => l = m /\ \A i \in DOMAIN q : ~Accepts(q, i)
    /\ \A i, k \in DOMAIN q : Accepts(q, i) /\ Accepts(q, k) /\ q[i].of = l => k <= i
    /\ l # None => l \in M \/ l \in K \/ \E i \in DOMAIN q : Accepts(q, i) /\ q[i].of = l

LEMMA AppendIs ==
    ASSUME NEW q \in Seq(Packets), NEW p \in Packets
    PROVE  /\ Append(q, p) \in Seq(Packets) /\ Len(q) \in Nat
           /\ DOMAIN q = 1..Len(q) /\ DOMAIN Append(q, p) = 1..(Len(q) + 1)
           /\ Append(q, p)[Len(q) + 1] = p
           /\ \A i \in 1..Len(q) : Append(q, p)[i] = q[i]
OBVIOUS

LEMMA TailIs ==
    ASSUME NEW q \in Seq(Packets), q # <<>>
    PROVE  /\ Tail(q) \in Seq(Packets) /\ Len(q) \in Nat \ {0}
           /\ DOMAIN q = 1..Len(q) /\ DOMAIN Tail(q) = 1..(Len(q) - 1)
           /\ \A i \in 1..(Len(q) - 1) : Tail(q)[i] = q[i + 1]
           /\ Head(q) = q[1] /\ q[1] \in Packets
OBVIOUS

(* The peer puts a packet in the line: the one connection it accepts, or     *)
(* something else, and then it keeps the connection or loses it.             *)
LEMMA LineAccepts ==
    ASSUME NEW q, NEW l, NEW A, NEW n, NEW m, NEW K, NEW M, LineInv(q, l, A, n, m, K, M),
           NEW a \in A
    PROVE  LineInv(Append(q, [kind |-> "accepted", of |-> a]), a, A \ {a}, n, m, K, M)
<1> DEFINE p == [kind |-> "accepted", of |-> a]
           r == Append(q, p)
<1>0. q \in Seq(Packets) /\ n \in Nat /\ a \in 1..n /\ a \notin K
  BY DEF LineInv
<1>1. p \in Packets
  BY <1>0 DEF Packets
<1>2. /\ r \in Seq(Packets) /\ Len(q) \in Nat
      /\ DOMAIN q = 1..Len(q) /\ DOMAIN r = 1..(Len(q) + 1)
      /\ r[Len(q) + 1] = p /\ \A i \in 1..Len(q) : r[i] = q[i]
  BY <1>0, <1>1, AppendIs
<1>3. p.kind = "accepted" /\ p.of = a
  OBVIOUS
<1> HIDE DEF r, p
<1>4. /\ Accepts(r, Len(q) + 1) /\ r[Len(q) + 1].of = a
      /\ \A i \in 1..Len(q) : Accepts(r, i) => r[i].of \in (1..n) \ A
  BY <1>2, <1>3 DEF Accepts, LineInv
<1>5. \A i \in 1..(Len(q) + 1) : i \in 1..Len(q) \/ i = Len(q) + 1
  BY <1>2
<1>6. \A i \in DOMAIN r : Accepts(r, i) => r[i].of \in (1..n) \ (A \ {a})
  BY <1>0, <1>2, <1>4, <1>5
<1>7. \A i, k \in DOMAIN r : Accepts(r, i) /\ Accepts(r, k) /\ r[i].of = a => k <= i
  <2>1. \A i \in DOMAIN r : Accepts(r, i) /\ r[i].of = a => i = Len(q) + 1
    BY <1>2, <1>4, <1>5
  <2> QED BY <1>2, <2>1
<1>8. A \ {a} \subseteq 1..n /\ a \in 0..n /\ K \subseteq (1..n) \ (A \ {a}) /\ a \notin A \ {a}
  BY <1>0 DEF LineInv
<1>9. LineInv(r, a, A \ {a}, n, m, K, M)
  BY <1>0, <1>2, <1>4, <1>6, <1>7, <1>8 DEF LineInv
<1> QED BY <1>9 DEF r, p

LEMMA LineSays ==
    ASSUME NEW q, NEW l, NEW A, NEW n, NEW m, NEW K, NEW M, LineInv(q, l, A, n, m, K, M),
           NEW p \in Packets, p.kind # "accepted", NEW ll \in {l, None}, NEW B \in SUBSET A
    PROVE  LineInv(Append(q, p), ll, B, n, m, K, M)
<1> DEFINE r == Append(q, p)
<1>0. q \in Seq(Packets) /\ n \in Nat
  BY DEF LineInv
<1>1. /\ r \in Seq(Packets) /\ Len(q) \in Nat
      /\ DOMAIN q = 1..Len(q) /\ DOMAIN r = 1..(Len(q) + 1)
      /\ r[Len(q) + 1] = p /\ \A i \in 1..Len(q) : r[i] = q[i]
  BY <1>0, AppendIs
<1> HIDE DEF r
<1>2. \A i \in DOMAIN r : Accepts(r, i) => i \in DOMAIN q /\ Accepts(q, i) /\ r[i] = q[i]
  <2>1. \A i \in 1..(Len(q) + 1) : i \in 1..Len(q) \/ i = Len(q) + 1
    BY <1>1
  <2> QED BY <1>1, <2>1 DEF Accepts
<1>3. \A i \in DOMAIN q : i \in DOMAIN r /\ (Accepts(q, i) => Accepts(r, i)) /\ r[i] = q[i]
  BY <1>1 DEF Accepts
<1>4. B \subseteq 1..n /\ ll \in 0..n /\ ll \notin B /\ K \subseteq (1..n) \ B /\ None \notin K
  BY <1>0 DEF LineInv, None
<1>5. \A i \in DOMAIN r : Accepts(r, i) => r[i].of \in (1..n) \ B /\ r[i].of # None
  BY <1>0, <1>2 DEF LineInv, None
<1>6. ll \in K => ll = m /\ \A i \in DOMAIN r : ~Accepts(r, i)
  BY <1>2, <1>4 DEF LineInv
<1>7. \A i, k \in DOMAIN r : Accepts(r, i) /\ Accepts(r, k) /\ r[i].of = ll => k <= i
  BY <1>2, <1>5 DEF LineInv
<1>8. ll # None => ll \in M \/ ll \in K \/ \E i \in DOMAIN r : Accepts(r, i) /\ r[i].of = ll
  BY <1>3 DEF LineInv
<1>9. LineInv(r, ll, B, n, m, K, M)
  BY <1>0, <1>1, <1>4, <1>5, <1>6, <1>7, <1>8 DEF LineInv
<1> QED BY <1>9 DEF r

(* Receive takes the first packet: a session it accepts is stored, and what  *)
(* the limits hold back is missed; a session that is replaced may close the  *)
(* connection.                                                               *)
LEMMA LineReceived ==
    ASSUME NEW q, NEW l, NEW A, NEW n, NEW m, NEW K, NEW M, LineInv(q, l, A, n, m, K, M),
           q # <<>>, NEW ll \in {l, None}, NEW mm, NEW KK, NEW MM, M \subseteq MM,
           \/ /\ Accepts(q, 1) /\ mm = q[1].of
              /\ q[1].of \in KK /\ KK \subseteq K \union {q[1].of}
           \/ mm = m /\ KK = K /\ ll = l /\ (Accepts(q, 1) => q[1].of \in MM)
    PROVE  LineInv(Tail(q), ll, A, n, mm, KK, MM)
<1> DEFINE r == Tail(q)
<1>0. q \in Seq(Packets) /\ n \in Nat /\ A \subseteq 1..n /\ K \subseteq (1..n) \ A
  BY DEF LineInv
<1>1. /\ r \in Seq(Packets) /\ Len(q) \in Nat \ {0}
      /\ DOMAIN q = 1..Len(q) /\ DOMAIN r = 1..(Len(q) - 1)
      /\ \A i \in 1..(Len(q) - 1) : r[i] = q[i + 1]
  BY <1>0, TailIs
<1> HIDE DEF r
<1>2. \A i \in DOMAIN r : /\ i \in Nat /\ i + 1 \in DOMAIN q /\ i + 1 # 1 /\ ~(i + 1 <= 1)
                          /\ (Accepts(r, i) <=> Accepts(q, i + 1)) /\ r[i].of = q[i + 1].of
  BY <1>1 DEF Accepts
<1>3. 1 \in DOMAIN q /\ \A i \in DOMAIN q : i = 1 \/ \E k \in DOMAIN r : i = k + 1
  <2>1. \A i \in DOMAIN q : i # 1 => i - 1 \in DOMAIN r /\ i = (i - 1) + 1
    BY <1>1
  <2> QED BY <1>1, <2>1
<1>4. Accepts(q, 1) => q[1].of \in (1..n) \ A
  BY <1>3 DEF LineInv
<1>5. ll \in 0..n /\ ll \notin A /\ KK \subseteq (1..n) \ A /\ None \notin KK
  <2>1. ll \in 0..n /\ ll \notin A
    BY <1>0 DEF LineInv, None
  <2>2. KK \subseteq (1..n) \ A
    BY <1>0, <1>4
  <2> QED BY <1>0, <2>1, <2>2 DEF None
<1>6. \A i \in DOMAIN r : Accepts(r, i) => r[i].of \in (1..n) \ A /\ r[i].of # None
  BY <1>0, <1>2 DEF LineInv, None
<1>7. \A i, k \in DOMAIN r : Accepts(r, i) /\ Accepts(r, k) /\ r[i].of = ll => k <= i
  <2> SUFFICES ASSUME NEW i \in DOMAIN r, NEW k \in DOMAIN r, Accepts(r, i), Accepts(r, k),
                      r[i].of = ll
               PROVE  k <= i
    OBVIOUS
  <2>1. ll = l
    BY <1>6
  <2>2. k + 1 <= i + 1
    BY <1>2, <2>1 DEF LineInv
  <2> QED BY <1>2, <2>2
<1>8. ASSUME ll \in KK PROVE ll = mm /\ \A i \in DOMAIN r : ~Accepts(r, i)
  <2>1. ll = l
    BY <1>5, <1>8
  <2>2. CASE l \in K
    <3>1. l = m /\ \A i \in DOMAIN q : ~Accepts(q, i)
      BY <2>2 DEF LineInv
    <3> QED BY <1>2, <1>3, <2>1, <3>1
  <2>3. CASE l \notin K
    <3>1. Accepts(q, 1) /\ mm = q[1].of /\ l = q[1].of
      BY <1>8, <2>1, <2>3
    <3>2. \A k \in DOMAIN q : Accepts(q, k) => k <= 1
      BY <1>3, <3>1 DEF LineInv
    <3> QED BY <1>2, <2>1, <3>1, <3>2
  <2> QED BY <2>2, <2>3
<1>9. ASSUME ll # None
      PROVE  ll \in MM \/ ll \in KK \/ \E i \in DOMAIN r : Accepts(r, i) /\ r[i].of = ll
  <2>1. l \in M \/ l \in K \/ \E i \in DOMAIN q : Accepts(q, i) /\ q[i].of = l
    BY <1>9 DEF LineInv
  <2>2. CASE l \in K
    <3>1. ~Accepts(q, 1)
      BY <1>3, <2>2 DEF LineInv
    <3> QED BY <1>9, <2>2, <3>1
  <2>3. CASE \E i \in DOMAIN q : Accepts(q, i) /\ q[i].of = l
    <3>1. PICK i \in DOMAIN q : Accepts(q, i) /\ q[i].of = l
      BY <2>3
    <3>2. CASE i = 1
      BY <1>9, <3>1, <3>2
    <3>3. CASE \E k \in DOMAIN r : i = k + 1
      BY <1>2, <1>9, <3>1, <3>3
    <3> QED BY <1>3, <3>2, <3>3
  <2> QED BY <1>9, <2>1, <2>2, <2>3
<1>10. LineInv(r, ll, A, n, mm, KK, MM)
  BY <1>0, <1>1, <1>5, <1>6, <1>7, <1>8, <1>9 DEF LineInv
<1> QED BY <1>10 DEF r

(* Sessions are disconnected, forgotten, or both, and the connection closes  *)
(* unless it is another's.                                                   *)
LEMMA LineEnds ==
    ASSUME NEW q, NEW l, NEW A, NEW n, NEW m, NEW K, NEW M, LineInv(q, l, A, n, m, K, M),
           NEW ll \in {l, None}, NEW mm, NEW KK \in SUBSET K, ll \in KK => mm = m,
           ll # None /\ ll \in K => ll \in KK
    PROVE  LineInv(q, ll, A, n, mm, KK, M)
<1>1. /\ None \notin K /\ None \notin A /\ None \in 0..n
      /\ \A i \in DOMAIN q : Accepts(q, i) => q[i].of # None
  BY DEF LineInv, None
<1>2. /\ ll \in 0..n /\ ll \notin A /\ KK \subseteq (1..n) \ A
      /\ ll \in KK => ll = mm /\ \A i \in DOMAIN q : ~Accepts(q, i)
  BY <1>1 DEF LineInv
<1>3. \A i, k \in DOMAIN q : Accepts(q, i) /\ Accepts(q, k) /\ q[i].of = ll => k <= i
  BY <1>1 DEF LineInv
<1>4. ll # None => ll \in M \/ ll \in KK \/ \E i \in DOMAIN q : Accepts(q, i) /\ q[i].of = ll
  BY DEF LineInv
<1> QED BY <1>2, <1>3, <1>4 DEF LineInv

(* An attempt is made; the peer is shut down.                                *)
LEMMA LineGoesOn ==
    ASSUME NEW q, NEW l, NEW A, NEW n, NEW m, NEW K, NEW M, LineInv(q, l, A, n, m, K, M)
    PROVE  /\ LineInv(q, l, A \union {n + 1}, n + 1, m, K, M)
           /\ LineInv(<<>>, None, {}, n, m, K, M)
<1>0. n \in Nat /\ A \subseteq 1..n /\ l \in 0..n /\ K \subseteq (1..n) \ A /\ q \in Seq(Packets)
  BY DEF LineInv
<1>1. LineInv(q, l, A \union {n + 1}, n + 1, m, K, M)
  <2>1. /\ n + 1 \in Nat /\ A \union {n + 1} \subseteq 1..(n + 1)
        /\ l \in 0..(n + 1) /\ l # n + 1
    BY <1>0
  <2>2. \A x : x \in (1..n) \ A => x \in (1..(n + 1)) \ (A \union {n + 1})
    BY <1>0
  <2>3. /\ K \subseteq (1..(n + 1)) \ (A \union {n + 1})
        /\ \A i \in DOMAIN q : Accepts(q, i) => q[i].of \in (1..(n + 1)) \ (A \union {n + 1})
    BY <1>0, <2>2 DEF LineInv
  <2> QED BY <2>1, <2>3 DEF LineInv
<1>2. LineInv(<<>>, None, {}, n, m, K, M)
  <2>1. <<>> \in Seq(Packets) /\ DOMAIN <<>> = {} /\ 0 \in 0..n /\ 0 \notin K
    BY <1>0
  <2> QED BY <1>0, <2>1 DEF LineInv, None
<1> QED BY <1>1, <1>2

-----------------------------------------------------------------------------
(* The session, the connection and what waits for Receive; a session that    *)
(* is about to be cleared is disconnected.                                   *)
SessionInv ==
    /\ LineInv(inbox, link, attempts, tried, mSession, connected, missed)
    /\ Owned
    /\ \A t \in Threads : pc[t] = "clearSession" => mSession \notin connected

(* A step outside of all this.                                               *)
LEMMA SessionRests ==
    ASSUME SessionInv, UNCHANGED <<session, link, attempts, inbox, tried, missed>>,
           \A t \in Threads : pc'[t] = "clearSession" => pc[t] = "clearSession"
    PROVE  SessionInv'
BY DEF SessionInv, Owned, session

(* What closes a connection, and what replaces a session that is             *)
(* disconnected by none.                                                     *)
LEMMA Closes ==
    ASSUME NEW s, CloseConnection(s)
    PROVE  /\ link' \in {link, None}
           /\ s \notin connected => link' = link
           /\ s \in connected /\ link' # None => link' # s
BY DEF CloseConnection

LEMMA ClearsNone ==
    ASSUME StoreSession(None), mSession \notin connected
    PROVE  mSession' = None /\ UNCHANGED <<connected, kept, link>>
BY DEF StoreSession, CloseConnection

LEMMA SessionOfCalls ==
    ASSUME NEW c \in Callers, CallStep(c)
    PROVE  \/ UNCHANGED <<session, link, attempts, inbox, tried, missed>>
           \/ /\ ConnectPeer(c) /\ UNCHANGED <<session, link, inbox, missed>>
              /\ attempts' = attempts \union {tried + 1} /\ tried' = tried + 1
           \/ /\ TeardownSession(c) /\ mSession # None /\ Disconnect(mSession)
              /\ UNCHANGED <<mSession, kept, attempts, inbox, tried, missed>>
           \/ /\ TeardownClear(c) /\ pc[c] = "clear" /\ StoreSession(None)
              /\ UNCHANGED <<attempts, inbox, tried, missed>>
           \/ /\ Finish(c) /\ UNCHANGED <<session, tried, missed>>
              /\ attempts' = {} /\ link' = None /\ inbox' = <<>>
<1> USE DEF session, peer, history, locals, Goto, Return
<1>1. CASE StartBegin(c) \/ StartPeer(c) \/ ConnectBegin(c) \/ Activate(c) \/ DisconnectBegin(c)
  BY <1>1 DEF StartBegin, StartPeer, ConnectBegin, Activate, DisconnectBegin
<1>2. CASE StopBegin(c) \/ Deactivate(c) \/ Wait(c)
  BY <1>2 DEF StopBegin, Deactivate, Wait
<1>3. CASE ConnectPeer(c)
  BY <1>3 DEF ConnectPeer
<1>4. CASE TeardownSession(c)
  BY <1>4 DEF TeardownSession
<1>5. CASE TeardownClear(c)
  BY <1>5 DEF TeardownClear
<1>6. CASE Finish(c)
  BY <1>6 DEF Finish
<1> QED BY <1>1, <1>2, <1>3, <1>4, <1>5, <1>6 DEF CallStep

(* The stored session is disconnected, whoever does it.                      *)
LEMMA DisconnectSession ==
    ASSUME SessionInv, Disconnect(mSession), UNCHANGED <<mSession, kept, attempts, inbox, tried,
                                                         missed>>
    PROVE  SessionInv'
<1>1. /\ LineInv(inbox, link, attempts, tried, mSession, connected, missed) /\ Owned
      /\ connected' = connected \ {mSession} /\ CloseConnection(mSession)
  BY DEF SessionInv, Disconnect
<1>2. link \in connected => link = mSession
  BY <1>1 DEF LineInv
<1>3. LineInv(inbox, link', attempts, tried, mSession, connected', missed)
  BY <1>1, <1>2, Closes, LineEnds
<1>4. Owned' /\ mSession' \notin connected'
  BY <1>1 DEF Owned
<1> QED BY <1>3, <1>4 DEF SessionInv

(* A session that is disconnected is forgotten.                              *)
LEMMA ForgetSession ==
    ASSUME SessionInv, StoreSession(None), mSession \notin connected,
           UNCHANGED <<attempts, inbox, tried, missed>>
    PROVE  SessionInv'
<1>1. /\ LineInv(inbox, link, attempts, tried, mSession, connected, missed) /\ Owned
      /\ mSession' = None /\ UNCHANGED <<connected, kept, link>>
  BY ClearsNone DEF SessionInv
<1>2. link \notin connected
  BY <1>1 DEF LineInv
<1>3. LineInv(inbox, link, attempts, tried, None, connected, missed)
  BY <1>1, <1>2, LineEnds
<1>4. Owned' /\ mSession' \notin connected'
  BY <1>1 DEF Owned
<1> QED BY <1>1, <1>3, <1>4 DEF SessionInv

LEMMA CallStepSession ==
    ASSUME ShapeInv, StillInv, SessionInv, NEW c \in Callers, CallStep(c)
    PROVE  SessionInv'
<1>1. \A t \in Threads : pc'[t] = "clearSession" => pc[t] = "clearSession"
  <2>1. "clearSession" \notin CallStatements
    BY DEF CallStatements, WaitStatements, LastStatements
  <2> QED BY <2>1, CallStepCallers
<1>2. /\ LineInv(inbox, link, attempts, tried, mSession, connected, missed) /\ Owned
  BY DEF SessionInv
<1>3. CASE UNCHANGED <<session, link, attempts, inbox, tried, missed>>
  BY <1>1, <1>3, SessionRests
<1>4. CASE /\ UNCHANGED <<session, link, inbox, missed>>
           /\ attempts' = attempts \union {tried + 1} /\ tried' = tried + 1
  <2>1. LineInv(inbox, link, attempts', tried', mSession, connected, missed)
    BY <1>2, <1>4, LineGoesOn
  <2> QED BY <1>1, <1>2, <1>4, <2>1 DEF SessionInv, Owned, session
<1>5. CASE /\ Disconnect(mSession)
           /\ UNCHANGED <<mSession, kept, attempts, inbox, tried, missed>>
  BY <1>5, DisconnectSession
<1>6. CASE /\ pc[c] = "clear" /\ StoreSession(None)
           /\ UNCHANGED <<attempts, inbox, tried, missed>>
  <2>1. mSession \notin connected
    BY <1>6 DEF StillInv, CallerKnows, Ended
  <2> QED BY <1>6, <2>1, ForgetSession
<1>7. CASE /\ UNCHANGED <<session, tried, missed>>
           /\ attempts' = {} /\ link' = None /\ inbox' = <<>>
  <2>1. LineInv(inbox', link', attempts', tried, mSession, connected, missed)
    BY <1>2, <1>7, LineGoesOn
  <2> QED BY <1>1, <1>2, <1>7, <2>1 DEF SessionInv, Owned, session
<1> QED BY <1>3, <1>4, <1>5, <1>6, <1>7, SessionOfCalls

LEMMA ScheduleStepSession ==
    ASSUME ShapeInv, SessionInv, NEW t \in Threads, ScheduleStep(t)
    PROVE  SessionInv'
<1>1. PumpMoves(t)
  BY DEF PumpMoves
<1>2. UNCHANGED <<session, link, attempts, inbox, tried>> /\ pc[t] \in ScheduleStatements
  BY ScheduleSteps DEF peer
<1>3. UNCHANGED missed
  BY DEF ScheduleStep, ScheduleIoPump, ClaimPump, SubmitJob, Unschedule, history
<1>4. pc'[t] # "clearSession"
  <2>1. CASE t \in Callers
    BY <1>1, <2>1, PumpCallers, <1>2 DEF ScheduleStatements
  <2>2. CASE t \in PoolWorkers
    <3>1. \E s \in {"jobDone", "wakeupDone", "cas", "submitJob", "unschedule"} :
             \E r : WorkerGoes(t, s, r)
      BY <2>2, ScheduleSteps, WorkersApart
    <3> QED BY <2>2, <3>1, WorkerGoesOn
  <2> QED BY <2>1, <2>2 DEF Threads
<1>5. \A u \in Threads : pc'[u] = "clearSession" => pc[u] = "clearSession"
  BY <1>1, <1>4, PumpCallers
<1> QED BY <1>2, <1>3, <1>5, SessionRests

LEMMA ReceiveSession ==
    ASSUME ShapeInv, SessionInv, NEW w \in PoolWorkers, Receive(w)
    PROVE  SessionInv'
<1>0. w \in Threads /\ pc \in [Threads -> Statements] /\ pc[w] = "tick"
  BY WorkersApart, PumpWalks DEF ShapeInv, PumpInv, PumpTypes
<1>1. /\ LineInv(inbox, link, attempts, tried, mSession, connected, missed) /\ Owned
      /\ inbox \in Seq(Packets)
  BY DEF SessionInv, LineInv
<1>2. inbox # <<>> /\ inbox' = Tail(inbox) /\ UNCHANGED <<attempts, tried>>
  BY DEF Receive
<1>3. Head(inbox) = inbox[1] /\ 1 \in DOMAIN inbox
  BY <1>1, <1>2, TailIs
<1>4. \A t \in Threads : pc'[t] # "clearSession"
  <2>1. Holds(w)
    BY <1>0 DEF Holds, HoldStatements
  <2>2. \A t \in Threads \ {w} : ~Holds(t)
    BY <1>0, <2>1 DEF ShapeInv, PumpInv, PumpToken
  <2>3. pc' = pc \/ pc' = [pc EXCEPT ![w] = "endSession"]
    BY DEF Receive, Goto
  <2> QED BY <1>0, <2>2, <2>3 DEF Holds, HoldStatements
<1>5. CASE inbox[1].kind = "accepted" /\ UNCHANGED missed /\ StoreSession(inbox[1].of)
  <2>1. Accepts(inbox, 1)
    BY <1>5 DEF Accepts
  <2>2. inbox[1].of # None /\ mSession' = inbox[1].of
    BY <1>1, <1>3, <1>5, <2>1 DEF LineInv, None, StoreSession
  <2>3. /\ link' \in {link, None}
        /\ \/ /\ connected' = (connected \ {mSession}) \union {inbox[1].of}
              /\ UNCHANGED kept
           \/ /\ kept' = kept \union {mSession}
              /\ connected' = connected \union {inbox[1].of}
    BY <1>5, <2>2, Closes DEF StoreSession
  <2>4. Owned'
    BY <1>1, <2>2, <2>3 DEF Owned
  <2>5. LineInv(inbox', link', attempts', tried', mSession', connected', missed')
    BY <1>1, <1>2, <1>5, <2>1, <2>2, <2>3, LineReceived
  <2> QED BY <1>4, <2>4, <2>5 DEF SessionInv
<1>6. CASE /\ missed' = IF inbox[1].kind = "accepted" THEN missed \union {inbox[1].of} ELSE missed
           /\ UNCHANGED <<session, link>>
  <2>1. missed \subseteq missed' /\ (Accepts(inbox, 1) => inbox[1].of \in missed')
    BY <1>6 DEF Accepts
  <2>2. LineInv(inbox', link', attempts', tried', mSession', connected', missed')
    BY <1>1, <1>2, <1>6, <2>1, LineReceived DEF session
  <2> QED BY <1>1, <1>4, <1>6, <2>2 DEF SessionInv, Owned, session
<1> QED BY <1>3, <1>5, <1>6 DEF Receive

LEMMA PumpStepSession ==
    ASSUME ShapeInv, SessionInv, NEW w \in PoolWorkers, PumpStep(w)
    PROVE  SessionInv'
<1>1. CASE Receive(w)
  BY <1>1, ReceiveSession
<1>2. CASE EndSession(w) /\ mSession # None
  <2>1. /\ Disconnect(mSession)
        /\ UNCHANGED <<mSession, kept, attempts, inbox, tried, missed>>
    BY <1>2 DEF EndSession, history
  <2> QED BY <2>1, DisconnectSession
<1>3. CASE ClearSession(w)
  <2>1. mSession \notin connected
    BY <1>3, WorkersApart DEF SessionInv, ClearSession, Goto
  <2>2. StoreSession(None) /\ UNCHANGED <<attempts, inbox, tried, missed>>
    BY <1>3 DEF ClearSession, history
  <2> QED BY <2>1, <2>2, ForgetSession
<1>4. CASE \/ TakeJob(w) \/ DropFlag(w) \/ TickEnds(w) \/ PumpAgain(w) \/ JobDone(w)
           \/ SubmitWakeup(w) \/ TakeWakeup(w) \/ WakeupDone(w)
           \/ EndSession(w) /\ mSession = None
  <2>1. UNCHANGED <<session, link, attempts, inbox, tried, missed>>
    BY <1>4 DEF TakeJob, DropFlag, TickEnds, PumpAgain, JobDone, SubmitWakeup, TakeWakeup,
                WakeupDone, EndSession, session, peer, history
  <2>2. PICK s, r : WorkerGoes(w, s, r) /\ s # "clearSession"
    <3>1. CASE EndSession(w) /\ mSession = None
      <4>1. pc' = [pc EXCEPT ![w] = "tick"]
        BY <3>1 DEF EndSession, Goto
      <4>2. PICK s \in {"tick", "clearSession"} : WorkerGoes(w, s, "idle")
        BY <3>1, PumpWalks
      <4>3. pc'[w] = s /\ pc'[w] = "tick"
        BY <4>1, <4>2, WorkerGoesOn, WorkersApart DEF ShapeInv, PumpInv, PumpTypes
      <4> QED BY <4>2, <4>3
    <3>2. CASE TakeJob(w) \/ DropFlag(w) \/ TickEnds(w) \/ JobDone(w) \/ SubmitWakeup(w)
      BY <3>2, PumpWalks
    <3>3. CASE PumpAgain(w)
      BY <3>3, PumpWalks
    <3>4. CASE TakeWakeup(w) \/ WakeupDone(w)
      BY <3>4, PumpWalks
    <3> QED BY <1>4, <3>1, <3>2, <3>3, <3>4
  <2>3. \A u \in Threads : pc'[u] = "clearSession" => pc[u] = "clearSession"
    BY <2>2, WorkerGoesOn
  <2> QED BY <2>1, <2>3, SessionRests
<1> QED BY <1>1, <1>2, <1>3, <1>4 DEF PumpStep

LEMMA PeerStepSession ==
    ASSUME SessionInv, PeerStep
    PROVE  SessionInv'
<1>1. UNCHANGED <<session, pc, tried, missed>>
  BY DEF PeerStep, PeerAccepts, PeerFails, PeerLoses, PeerReceives, Arrives, history
<1>2. LineInv(inbox, link, attempts, tried, mSession, connected, missed)
  BY DEF SessionInv
<1>3. LineInv(inbox', link', attempts', tried, mSession, connected, missed)
  <2>1. ASSUME NEW a \in Attempts, PeerAccepts(a)
        PROVE  LineInv(inbox', link', attempts', tried, mSession, connected, missed)
    <3>1. /\ a \in attempts /\ link' = a /\ attempts' = attempts \ {a}
          /\ inbox' = Append(inbox, [kind |-> "accepted", of |-> a])
      BY <2>1 DEF PeerAccepts, Arrives
    <3> QED BY <1>2, <3>1, LineAccepts
  <2>2. ASSUME (\E a \in Attempts : PeerFails(a)) \/ PeerLoses \/ PeerReceives
        PROVE  LineInv(inbox', link', attempts', tried, mSession, connected, missed)
    <3>1. PICK p \in Packets : /\ p.kind # "accepted" /\ inbox' = Append(inbox, p)
                               /\ link' \in {link, None} /\ attempts' \in SUBSET attempts
      <4>1. \A k \in {"failed", "lost", "data"} : /\ [kind |-> k, of |-> None] \in Packets
                                                  /\ [kind |-> k, of |-> None].kind # "accepted"
        BY DEF Packets, None
      <4> QED BY <2>2, <4>1 DEF PeerFails, PeerLoses, PeerReceives, Arrives
    <3> QED BY <1>2, <3>1, LineSays
  <2> QED BY <2>1, <2>2 DEF PeerStep
<1> QED BY <1>1, <1>2, <1>3 DEF SessionInv, Owned, session

LEMMA AppStepSession ==
    ASSUME SessionInv, AppStep
    PROVE  SessionInv'
<1>1. PICK s \in connected : AppReleases(s)
  BY DEF AppStep, AppReleases
<1>2. /\ connected' = connected \ {s} /\ CloseConnection(s)
      /\ UNCHANGED <<mSession, kept, attempts, inbox, tried, missed, pc>>
  BY <1>1 DEF AppReleases, Disconnect, history
<1>3. LineInv(inbox, link, attempts, tried, mSession, connected, missed)
  BY DEF SessionInv
<1>4. LineInv(inbox, link', attempts, tried, mSession, connected', missed)
  BY <1>2, <1>3, Closes, LineEnds
<1> QED BY <1>2, <1>4 DEF SessionInv, Owned

-----------------------------------------------------------------------------
(* All of it together.  Once a call has met one it does not mix with,        *)
(* nothing is said of the session and of who is still.                       *)
NetInv ==
    /\ ShapeInv /\ CountInv /\ FlagInv
    /\ ~crossed => StillInv /\ SessionInv

LEMMA InitNet == Init => NetInv
<1> SUFFICES ASSUME Init PROVE NetInv
  OBVIOUS
<1>1. ShapeInv /\ CountInv
  BY InitShape, InitCounts
<1>2. /\ \A t \in Threads : pc[t] = "idle" /\ ret[t] = "idle"
      /\ \A c \in Callers : op[c] = "none" /\ pc[c] = "idle" /\ wasRunning[c] = FALSE
  BY CallersApart DEF Init
<1>3. FlagInv
  BY <1>2 DEF FlagInv, Init
<1>4. Still /\ Empty
  <2>1. InPump = {}
    BY <1>2, WorkersApart DEF InPump
  <2> QED BY <1>2, <2>1 DEF Still, Calm, Empty, Ended, Init
<1>5. StillInv
  <2>1. PumpKnows
    BY <1>2, <1>4 DEF PumpKnows, Still, Init
  <2>2. ASSUME NEW c \in Callers PROVE CallerKnows(c)
    BY <1>2 DEF CallerKnows, Waits, LastStatements
  <2> QED BY <2>1, <2>2 DEF StillInv
<1>6. SessionInv
  <2>1. inbox = <<>> /\ link = None /\ attempts = {} /\ tried = 0 /\ connected = {}
    BY DEF Init
  <2>2. inbox \in Seq(Packets) /\ DOMAIN inbox = {}
    BY <2>1
  <2>3. LineInv(inbox, link, attempts, tried, mSession, connected, missed)
    BY <2>1, <2>2 DEF LineInv, None
  <2> QED BY <2>1, <2>3 DEF SessionInv, Owned
<1> QED BY <1>1, <1>3, <1>5, <1>6 DEF NetInv

LEMMA NextKeepsFlag == ShapeInv /\ FlagInv /\ [Next]_vars => FlagInv'
<1> SUFFICES ASSUME ShapeInv, FlagInv, [Next]_vars PROVE FlagInv'
  OBVIOUS
<1>1. CASE \E c \in Callers : CallStep(c) \/ ScheduleStep(c)
  BY <1>1, CallersApart, CallStepFlag, ScheduleStepFlag
<1>2. CASE \E w \in PoolWorkers : ScheduleStep(w) \/ PumpStep(w)
  BY <1>2, WorkersApart, PumpStepFlag, ScheduleStepFlag
<1>3. CASE Elsewhere
  <2>1. UNCHANGED <<mIoPumpScheduled, ioJobs, pc>>
    BY <1>3, OtherSteps DEF PeerFrame, flags
  <2> QED BY <2>1 DEF FlagInv, Holds
<1> QED BY <1>1, <1>2, <1>3 DEF Next, Elsewhere, AppStep

LEMMA NextKeepsSession ==
    ASSUME NetInv, [Next]_vars, ~crossed'
    PROVE  StillInv' /\ SessionInv'
<1>1. ShapeInv /\ CountInv
  BY DEF NetInv
<1>2. CASE \E c \in Callers : CallStep(c)
  <2>1. PICK c \in Callers : CallStep(c)
    BY <1>2
  <2>2. ~crossed
    BY <1>1, <2>1, CallStepCallers
  <2>3. StillInv /\ SessionInv /\ Owned
    BY <2>2 DEF NetInv, SessionInv
  <2>4. StillInv'
    BY <1>1, <2>1, <2>3, CallStepStill
  <2>5. SessionInv'
    BY <1>1, <2>1, <2>3, CallStepSession
  <2> QED BY <2>4, <2>5
<1>3. CASE \E t : PumpMoves(t)
  <2>1. PICK t : PumpMoves(t)
    BY <1>3
  <2>2. ~crossed
    BY <1>1, <2>1, PumpCallers
  <2>3. StillInv /\ SessionInv
    BY <2>2 DEF NetInv
  <2>4. StillInv'
    BY <1>1, <2>1, <2>3, PumpMovesStill
  <2>5. SessionInv'
    BY <1>1, <2>1, <2>3, ScheduleStepSession, PumpStepSession DEF PumpMoves
  <2> QED BY <2>4, <2>5
<1>4. CASE Elsewhere
  <2>1. PeerFrame
    BY <1>4, OtherSteps
  <2>2. ~crossed
    BY <2>1 DEF PeerFrame, history
  <2>3. StillInv /\ SessionInv
    BY <2>2 DEF NetInv
  <2>4. StillInv'
    BY <2>1, <2>3, PeerFrameStill
  <2>5. SessionInv'
    <3>1. CASE PeerStep
      BY <2>3, <3>1, PeerStepSession
    <3>2. CASE AppStep
      BY <2>3, <3>2, AppStepSession
    <3>3. CASE ClosePool \/ UNCHANGED vars
      <4>1. UNCHANGED <<session, link, attempts, inbox, tried, missed, pc>>
        BY <3>3 DEF ClosePool, vars, peer, history
      <4> QED BY <2>3, <4>1, SessionRests
    <3> QED BY <1>4, <3>1, <3>2, <3>3 DEF Elsewhere
  <2> QED BY <2>4, <2>5
<1> QED BY <1>2, <1>3, <1>4, CallersApart, WorkersApart DEF Next, PumpMoves, Elsewhere, AppStep

LEMMA NextKeepsNet == NetInv /\ [Next]_vars => NetInv'
<1> SUFFICES ASSUME NetInv, [Next]_vars PROVE NetInv'
  OBVIOUS
<1>1. ShapeInv' /\ CountInv' /\ FlagInv'
  BY NextKeepsShape, NextKeepsCounts, NextKeepsFlag DEF NetInv
<1>2. ~crossed' => StillInv' /\ SessionInv'
  BY NextKeepsSession
<1> QED BY <1>1, <1>2 DEF NetInv

(* Over any number of calls, attempts and restarts, of calls that mix: a    *)
(* disconnect, or a stop that found the system running, tears the session   *)
(* down while nobody receives, and leaves no session, no connection that    *)
(* was heard of and nothing of the pump, but the sessions the application   *)
(* holds, which have no connection (ClientNetworkSystem.cpp:70-84, 106-115, *)
(* 411-429).                                                                *)
THEOREM DisconnectEndsAll == Spec => []DisconnectQuiesces
<1>1. NetInv => DisconnectQuiesces
  <2> SUFFICES ASSUME NetInv, ~crossed
               PROVE  /\ quiet => /\ mSession = None /\ connected \subseteq kept
                                  /\ link # None => link \notin connected /\ Unheard(link)
                                  /\ ioJobs = 0 /\ InPump = {} /\ mPendingIoJobs = 0
                      /\ \A c \in At({"teardown", "clear", "finish"}) :
                            op[c] = "disconnect" \/ wasRunning[c] => InTick = {}
    BY DEF DisconnectQuiesces
  <2>1. ShapeInv /\ CountInv /\ StillInv /\ SessionInv
    BY DEF NetInv
  <2>2. ASSUME quiet
        PROVE  /\ mSession = None /\ connected \subseteq kept
               /\ link # None => link \notin connected /\ Unheard(link)
               /\ ioJobs = 0 /\ InPump = {} /\ mPendingIoJobs = 0
    <3>1. Still /\ Empty
      BY <2>1, <2>2 DEF StillInv, PumpKnows
    <3>2. ioJobs = 0 /\ InPump = {}
      BY <3>1 DEF Still, Calm
    <3>3. mPendingIoJobs = 0
      BY <2>1, <3>2, FS_EmptySet DEF CountInv
    <3>4. link # None => link \notin connected /\ Unheard(link)
      BY <2>1, <3>1 DEF SessionInv, LineInv, Accepts, Unheard, Empty
    <3> QED BY <3>1, <3>2, <3>3, <3>4 DEF Empty, Ended
  <2>3. ASSUME NEW c \in At({"teardown", "clear", "finish"}) PROVE InTick = {}
    <3>1. c \in Threads /\ pc[c] \in LastStatements
      BY DEF At, LastStatements
    <3>2. c \in Callers
      <4>1. ASSUME c \in PoolWorkers PROVE FALSE
        BY <2>1, <3>1, <4>1 DEF ShapeInv, CallShape, WorkerFits, JobStatements, TickStatements,
                                ScheduleStatements, LastStatements
      <4> QED BY <3>1, <4>1 DEF Threads
    <3>3. InPump = {}
      BY <2>1, <3>1, <3>2 DEF StillInv, CallerKnows, Still, Calm
    <3>4. \A d \in Callers : pc[d] \notin TickStatements
      BY <2>1 DEF ShapeInv, CallShape, CallerFits, TickStatements, ScheduleStatements,
                  WaitStatements, LastStatements
    <3>5. \A w \in PoolWorkers : pc[w] \notin TickStatements
      BY <3>3 DEF InPump, TickStatements
    <3> QED BY <3>4, <3>5 DEF InTick, At, Threads, TickStatements
  <2> QED BY <2>2, <2>3
<1> QED BY <1>1, InitNet, NextKeepsNet, PTL DEF Spec

-----------------------------------------------------------------------------
(* What will run the pump again: a job, a wakeup, or a thread on its way.    *)
GoStatements ==
    {"schedule", "cas", "submitJob", "tick", "endSession", "clearSession", "dropFlag",
     "recheck", "submitWakeup"}
Goes == ioJobs > 0 \/ wakeups > 0 \/ \E t \in Threads : pc[t] \in GoStatements
Wanted ==
    /\ mRunning /\ mIoPumpActive /\ poolOpen /\ ~crossed
    /\ ~refused /\ \A t \in Threads : pc[t] # "unschedule"

GoInv == Wanted => Goes

(* A thread that is elsewhere in between is still there after.               *)
LEMMA OthersGo ==
    ASSUME NEW t \in Threads, \A u \in Threads \ {t} : pc'[u] = pc[u],
           UNCHANGED <<ioJobs, wakeups>>, Goes, pc[t] \notin GoStatements
    PROVE  Goes'
BY DEF Goes

(* The calls: the pump is wanted from activate on, and a system that starts  *)
(* has not been activated.                                                   *)
LEMMA CallStepGoes ==
    ASSUME NetInv, GoInv, NEW c \in Callers, CallStep(c), Wanted'
    PROVE  Goes'
<1>1. /\ \A t \in Threads \ {c} : pc'[t] = pc[t]
      /\ pc[c] \notin GoStatements /\ pc[c] # "unschedule" /\ ~crossed
  BY CallStepCallers DEF NetInv, CallStatements, WaitStatements, LastStatements, GoStatements,
                         Wanted
<1>2. UNCHANGED <<ioJobs, wakeups, poolOpen>>
  BY CallStepRests DEF NetInv
<1>3. CASE Activate(c)
  <2>1. pc'[c] = "schedule"
    BY <1>3, CallersApart DEF Activate, Goto, NetInv, ShapeInv, PumpInv, PumpTypes
  <2> QED BY <2>1, CallersApart DEF Goes, GoStatements
<1>4. CASE ~Activate(c) /\ mRunning /\ mIoPumpActive
  <2>1. refused' = refused
    <3> USE DEF history
    <3>1. CASE StartBegin(c) \/ StartPeer(c) \/ ConnectBegin(c) \/ ConnectPeer(c)
      BY <3>1 DEF StartBegin, StartPeer, ConnectBegin, ConnectPeer
    <3>2. CASE DisconnectBegin(c) \/ StopBegin(c) \/ Deactivate(c) \/ Wait(c)
      BY <3>2 DEF DisconnectBegin, StopBegin, Deactivate, Wait
    <3>3. CASE TeardownSession(c) \/ TeardownClear(c) \/ Finish(c)
      BY <3>3 DEF TeardownSession, TeardownClear, Finish
    <3> QED BY <1>4, <3>1, <3>2, <3>3 DEF CallStep
  <2>2. Wanted
    BY <1>1, <1>2, <1>4, <2>1 DEF Wanted
  <2> QED BY <1>1, <1>2, <2>2, OthersGo, CallersApart DEF GoInv
<1>5. CASE ~Activate(c) /\ ~(mRunning /\ mIoPumpActive)
  <2>1. CASE StartBegin(c)
    <3>1. /\ \A d \in Callers : op[d] = "none"
          /\ mIoPumpActive' = mIoPumpActive
      BY <2>1, CallEffects, CallSteps DEF NetInv
    <3>2. mIoPumpActive /\ ~mRunning
      BY <1>5, <3>1 DEF Wanted
    <3>3. StillInv /\ ShapeInv
      BY <1>1 DEF NetInv
    <3>4. \A d \in Callers : ~wasRunning[d]
      BY <3>1, <3>3, IdleCaller
    <3>5. ~mIoPumpActive
      BY <3>2, <3>3, <3>4 DEF StillInv, PumpKnows, Still
    <3> QED BY <3>2, <3>5
  <2>2. CASE ~StartBegin(c)
    <3>1. (mRunning' => mRunning) /\ (mIoPumpActive' => mIoPumpActive)
      BY <1>5, <2>2, CallEffects DEF CallStep, flags
    <3> QED BY <1>5, <3>1 DEF Wanted
  <2> QED BY <2>1, <2>2
<1> QED BY <1>3, <1>4, <1>5

(* Whoever is at "cas" and finds the flag set leaves the pump to the one who *)
(* set it.                                                                   *)
LEMMA ScheduleStepGoes ==
    ASSUME NetInv, GoInv, NEW t \in Threads, ScheduleStep(t), Wanted, Wanted'
    PROVE  Goes'
<1>1. \A u \in Threads \ {t} : pc'[u] = pc[u]
  BY PumpCallers DEF NetInv, PumpMoves
<1>2. /\ pc \in [Threads -> Statements] /\ ioJobs \in Nat /\ wakeups \in Nat /\ Goes
      /\ pc[t] # "unschedule" /\ pc'[t] # "unschedule"
  BY DEF NetInv, ShapeInv, PumpInv, PumpTypes, CallTypes, GoInv, Wanted
<1>3. CASE ScheduleIoPump(t)
  <2>1. pc'[t] = "cas"
    BY <1>2, <1>3 DEF ScheduleIoPump, Goto, Wanted
  <2> QED BY <2>1 DEF Goes, GoStatements
<1>4. CASE ClaimPump(t)
  <2>1. UNCHANGED <<ioJobs, wakeups>> /\ pc[t] = "cas"
    BY <1>4 DEF ClaimPump, Goto, Leave, pool
  <2>2. CASE mIoPumpScheduled
    <3>1. ioJobs = 1 \/ \E u \in Threads : Holds(u) /\ pc[u] # "unschedule"
      BY <2>2 DEF NetInv, FlagInv, Wanted
    <3>2. CASE ioJobs = 1
      BY <2>1, <3>2 DEF Goes
    <3>3. CASE \E u \in Threads : Holds(u) /\ pc[u] # "unschedule"
      <4>1. PICK u \in Threads : Holds(u) /\ pc[u] # "unschedule"
        BY <3>3
      <4>2. pc[u] \in GoStatements /\ u # t
        BY <2>1, <4>1 DEF Holds, HoldStatements, GoStatements
      <4> QED BY <1>1, <4>2 DEF Goes
    <3> QED BY <3>1, <3>2, <3>3
  <2>3. CASE ~mIoPumpScheduled
    <3>1. pc'[t] = "submitJob"
      BY <1>2, <1>4, <2>3 DEF ClaimPump, Goto
    <3> QED BY <3>1 DEF Goes, GoStatements
  <2> QED BY <2>2, <2>3
<1>5. CASE SubmitJob(t)
  <2>1. ioJobs' = ioJobs + 1
    BY <1>2, <1>5 DEF SubmitJob, Goto
  <2> QED BY <1>2, <2>1 DEF Goes
<1>6. CASE Unschedule(t)
  BY <1>2, <1>6 DEF Unschedule, Leave, Goto
<1> QED BY <1>3, <1>4, <1>5, <1>6 DEF ScheduleStep

LEMMA PumpStepGoes ==
    ASSUME NetInv, GoInv, NEW w \in PoolWorkers, PumpStep(w), Wanted
    PROVE  Goes'
<1>1. /\ \A u \in Threads \ {w} : pc'[u] = pc[u]
      /\ w \in Threads
  BY PumpCallers, WorkersApart DEF NetInv, PumpMoves
<1>2. ShapeInv /\ wakeups \in Nat /\ Goes /\ pc[w] # "dropFlag" /\ mRunning /\ mIoPumpActive
  BY <1>1 DEF NetInv, ShapeInv, CallTypes, GoInv, Wanted, StillInv, PumpKnows
<1>3. CASE JobDone(w) \/ WakeupDone(w)
  <2>1. UNCHANGED <<ioJobs, wakeups>> /\ pc[w] \in {"jobDone", "wakeupDone"}
    BY <1>3 DEF JobDone, WakeupDone, Goto, pool
  <2> QED BY <1>1, <1>2, <2>1, OthersGo DEF GoStatements
<1>4. CASE SubmitWakeup(w)
  <2>1. wakeups' = wakeups + 1
    BY <1>4 DEF SubmitWakeup, Wanted
  <2> QED BY <1>2, <2>1 DEF Goes
<1>5. CASE TakeJob(w) \/ Receive(w) \/ EndSession(w) \/ ClearSession(w) \/ TickEnds(w)
           \/ PumpAgain(w) \/ TakeWakeup(w)
  <2>1. pc'[w] \in {"tick", "endSession", "clearSession", "recheck", "schedule", "submitWakeup"}
    <3>1. \E s \in {"tick", "endSession", "clearSession", "recheck", "schedule", "submitWakeup"} :
             \E r : WorkerGoes(w, s, r)
      BY <1>2, <1>5, PumpWalks
    <3> QED BY <1>2, <3>1, WorkerGoesOn
  <2> QED BY <1>1, <2>1 DEF Goes, GoStatements
<1>6. CASE DropFlag(w)
  BY <1>2, <1>6 DEF DropFlag, Goto
<1> QED BY <1>3, <1>4, <1>5, <1>6 DEF PumpStep

(* Whoever gives the flag back has been refused.                             *)
LEMMA RefusalIsKept ==
    ASSUME NetInv, NEW t, PumpMoves(t), ~refused'
    PROVE  ~refused /\ pc[t] # "unschedule"
<1>1. CASE ScheduleStep(t)
  BY <1>1 DEF ScheduleStep, ScheduleIoPump, ClaimPump, SubmitJob, Unschedule, Goto, Leave, history
<1>2. CASE t \in PoolWorkers /\ PumpStep(t)
  <2>1. pc[t] # "unschedule"
    BY <1>2, PumpSteps DEF NetInv, JobStatements, TickStatements
  <2>2. refused' = refused
    <3> USE DEF history
    <3>1. CASE TakeJob(t) \/ DropFlag(t) \/ Receive(t) \/ EndSession(t) \/ ClearSession(t)
      BY <3>1 DEF TakeJob, DropFlag, Receive, EndSession, ClearSession
    <3>2. CASE TickEnds(t) \/ PumpAgain(t) \/ JobDone(t)
      BY <3>2 DEF TickEnds, PumpAgain, JobDone
    <3>3. CASE SubmitWakeup(t) \/ TakeWakeup(t) \/ WakeupDone(t)
      BY <3>3 DEF SubmitWakeup, TakeWakeup, WakeupDone
    <3> QED BY <1>2, <3>1, <3>2, <3>3 DEF PumpStep
  <2> QED BY <2>1, <2>2
<1> QED BY <1>1, <1>2 DEF PumpMoves

LEMMA NextKeepsGoing == NetInv /\ GoInv /\ [Next]_vars => GoInv'
<1> SUFFICES ASSUME NetInv, GoInv, [Next]_vars, Wanted' PROVE Goes'
  BY DEF GoInv
<1>1. CASE \E c \in Callers : CallStep(c)
  BY <1>1, CallStepGoes
<1>2. CASE \E t : PumpMoves(t)
  <2>1. PICK t : PumpMoves(t)
    BY <1>2
  <2>2. Wanted
    <3>1. UNCHANGED <<mRunning, mIoPumpActive, poolOpen, crossed>>
      BY <2>1, PumpCallers DEF NetInv
    <3>2. ~refused /\ pc[t] # "unschedule" /\ \A u \in Threads \ {t} : pc'[u] = pc[u]
      BY <2>1, RefusalIsKept, PumpCallers DEF NetInv, Wanted
    <3> QED BY <3>1, <3>2 DEF Wanted
  <2> QED BY <2>1, <2>2, ScheduleStepGoes, PumpStepGoes DEF PumpMoves
<1>3. CASE Elsewhere
  <2>1. PeerFrame /\ (poolOpen' = poolOpen \/ poolOpen' = FALSE)
    BY <1>3, OtherSteps
  <2>2. UNCHANGED <<mRunning, mIoPumpActive, crossed, refused, ioJobs, wakeups, pc>>
    BY <2>1 DEF PeerFrame, flags, history
  <2> QED BY <2>1, <2>2 DEF GoInv, Wanted, Goes
<1> QED BY <1>1, <1>2, <1>3, CallersApart, WorkersApart DEF Next, PumpMoves, Elsewhere, AppStep

(* Over any number of calls, attempts and restarts, of calls that mix: while *)
(* a connection is wanted on an open pool, and the pool has not refused the  *)
(* pump since, something will run it again (ClientNetworkSystem.cpp:86-104,  *)
(* 285-336).                                                                 *)
THEOREM PumpIsKept == Spec => []PumpNeverLost
<1>1. Init => GoInv
  BY DEF Init, GoInv, Wanted
<1>2. NetInv /\ GoInv => PumpNeverLost
  <2> SUFFICES ASSUME NetInv, GoInv, Wanted PROVE Continuations > 0
    BY DEF PumpNeverLost, Wanted, At
  <2>1. ioJobs \in Nat /\ wakeups \in Nat /\ Goes
    BY DEF NetInv, ShapeInv, PumpInv, PumpTypes, CallTypes, GoInv
  <2>2. PICK A : A = At(GoStatements)
    OBVIOUS
  <2>3. IsFiniteSet(A)
    BY <2>2, ClientThreadsAssumption, FS_Subset, FS_Union DEF At, Threads
  <2>4. Cardinality(A) \in Nat /\ (Cardinality(A) = 0 <=> A = {})
    BY <2>3, CountZero
  <2>5. A # {} <=> \E t \in Threads : pc[t] \in GoStatements
    BY <2>2 DEF At
  <2>6. ioJobs + wakeups + Cardinality(A) > 0
    <3>1. PICK i \in Nat, k \in Nat, n \in Nat : i = ioJobs /\ k = wakeups /\ n = Cardinality(A)
      BY <2>1, <2>4
    <3>2. i > 0 \/ k > 0 \/ n > 0
      BY <2>1, <2>4, <2>5, <3>1 DEF Goes
    <3> QED BY <3>1, <3>2
  <2> QED BY <2>2, <2>6 DEF Continuations, GoStatements
<1> QED BY <1>1, <1>2, InitNet, NextKeepsNet, NextKeepsGoing, PTL DEF Spec
=============================================================================
