-------------------------- MODULE ServerLifecycle --------------------------
(***************************************************************************)
(* start, stop and the two pumps of ServerNetworkSystem                    *)
(* (src/sculk/protocol/connection/ServerNetworkSystem.cpp and its header): *)
(* the thread that receives packets, the flush pump that keeps itself      *)
(* going through jobs and delayed wakeups on the thread pool, and the      *)
(* three counters stop waits for.                                          *)
(*                                                                         *)
(* The pool is seen through what ThreadPool promises (TaskService): it     *)
(* runs what it accepts, once, on some worker.  It refuses everything when *)
(* its owner has stopped it, and a task for now also while it is open,     *)
(* when its queue has no room for it (ThreadPool.hpp:139-141); a wakeup    *)
(* needs no room in that queue.  Jobs, wakeups and session tasks in the    *)
(* pool are told apart by their kind only, so the pool is three counts.    *)
(* A wakeup may start at any time: the delay of a real one elapses, and a  *)
(* stopping pool runs it early.  A strand whose pool refuses runs the task *)
(* in place, unless a drain under way takes it; it refuses a task itself   *)
(* when it is full.                                                        *)
(*                                                                         *)
(* In ServerSessions: the contents of the flush schedule, the tasks that   *)
(* call mOnConnected and mOnDisconnected (counted nowhere), and the empty  *)
(* packet, whose session the receiving thread disconnects before it        *)
(* removes it.  Left out: that start and stop clear the flush schedule.    *)
(*                                                                         *)
(* start is not called while another start or stop is in progress; stop    *)
(* and disconnectClient are called from any number of threads.             *)
(***************************************************************************)
EXTENDS Integers, FiniteSets

CONSTANTS Callers,          (* threads that call start, stop, disconnectClient *)
          PoolWorkers,      (* threads of the pool                          *)
          Sessions,         (* clients that may connect, each once          *)
          MaxStarts,        (* bound: calls of start                        *)
          MaxPackets        (* bound: session tasks pending at a time       *)

ASSUME ThreadsAssumption ==
    Callers \intersect PoolWorkers = {} /\ IsFiniteSet(Callers) /\ IsFiniteSet(PoolWorkers)
ASSUME BoundsAssumption == MaxStarts \in Nat /\ MaxPackets \in Nat \ {0}

Threads == Callers \union PoolWorkers

VARIABLES
    mRunning, mFlushPumpScheduled,
    mPendingFlushJobs, mPendingFlushWakeups, mPendingSessionPacketTasks,
    mIoPumpThread,   (* "none" (not joinable) or the next statement of the thread *)
    stopRequested,   (* its stop token                                            *)
    peerStarted,     (* RakPeer is between Startup and Shutdown                   *)
    poolOpen,        (* the pool accepts submissions                              *)
    pumpJobs, wakeups, sessionTasks,   (* what the pool holds of each kind        *)
    pc,              (* thread -> its next statement                              *)
    ret,             (* thread in scheduleFlushPump -> the statement it returns to*)
    progressed,      (* worker -> local of flushPumpTask                          *)
    wasRunning,      (* caller -> local of stop                                   *)
    contexts,        (* thread -> sessions it holds: collected for teardown, or   *)
                     (* taken out of the map and not disconnected yet             *)
    ioContexts,      (* the same of the receiving thread                          *)
    mSessionContexts,(* sessions in the map                                       *)
    connected,       (* sessions whose disconnect has not been called             *)
    arrived,         (* sessions ever created                                     *)
    starts,
    quiet,           (* a stop that found the system running has returned, and    *)
                     (* start was not called since                                *)
    alone,           (* no two calls of stop overlapped                           *)
    leftover,        (* a stop returned while a wakeup was left                   *)
    failedOver,      (* a start failed while something was about to run the pump  *)
    refused          (* the last to claim the pump had its job refused            *)

counters == <<mPendingFlushJobs, mPendingFlushWakeups, mPendingSessionPacketTasks>>
queued   == <<pumpJobs, wakeups, sessionTasks>>
io       == <<mIoPumpThread, stopRequested, ioContexts>>
peer     == <<peerStarted, poolOpen>>
sessions == <<mSessionContexts, connected, arrived>>
locals   == <<ret, progressed, wasRunning, contexts>>
history  == <<starts, quiet, alone, leftover, failedOver, refused>>
vars == <<mRunning, mFlushPumpScheduled, counters, queued, io, peer, sessions,
          pc, locals, history>>

Init ==
    /\ mRunning = FALSE /\ mFlushPumpScheduled = FALSE
    /\ mPendingFlushJobs = 0 /\ mPendingFlushWakeups = 0 /\ mPendingSessionPacketTasks = 0
    /\ mIoPumpThread = "none" /\ stopRequested = FALSE
    /\ peerStarted = FALSE /\ poolOpen = TRUE
    /\ pumpJobs = 0 /\ wakeups = 0 /\ sessionTasks = 0
    /\ pc = [t \in Threads |-> "idle"]
    /\ ret = [t \in Threads |-> "idle"]
    /\ progressed = [w \in PoolWorkers |-> FALSE]
    /\ wasRunning = [c \in Callers |-> FALSE]
    /\ contexts = [t \in Threads |-> {}] /\ ioContexts = {}
    /\ mSessionContexts = {} /\ connected = {} /\ arrived = {}
    /\ starts = 0 /\ quiet = FALSE /\ alone = TRUE
    /\ leftover = FALSE /\ failedOver = FALSE /\ refused = FALSE

Goto(t, from, to) == pc[t] = from /\ pc' = [pc EXCEPT ![t] = to]

InStart == {"startup", "startFails", "scheduleIo", "schedule", "cas", "countJob",
            "submitJob", "uncountJob", "unschedule"}
InStop  == {"join", "joined", "waitWakeups", "waitJobs", "waitSessions", "collect",
            "disconnect", "collectKeys", "remove", "shutdown"}

(* Threads whose next statement is one of these.                            *)
At(statements) == {t \in Threads : pc[t] \in statements}

(* Workers inside a pump job, inside a wakeup.                              *)
InPump == {w \in PoolWorkers :
              \/ pc[w] \in {"tick", "dropFlag", "enqueueFlush", "uncountFlush", "recheck",
                            "countWakeup", "submitWakeup", "uncountWakeup", "jobDone"}
              \/ ret[w] = "jobDone"}
InWakeup == {w \in PoolWorkers : pc[w] = "wakeupDone" \/ ret[w] = "wakeupDone"}

(* What will call scheduleFlushPump or run the pump again.                  *)
Continuations ==
    pumpJobs + wakeups
    + Cardinality(At({"schedule", "cas", "countJob", "submitJob", "tick", "dropFlag",
                      "enqueueFlush", "uncountFlush", "recheck", "countWakeup",
                      "submitWakeup"}))

-----------------------------------------------------------------------------
(* start                                                                    *)
StartBegin(c) ==
    /\ starts < MaxStarts
    /\ \A d \in Callers : pc[d] \notin InStart \union InStop
    /\ Goto(c, "idle", IF mRunning THEN "idle" ELSE "startup")
    /\ mRunning' = TRUE
    /\ starts' = starts + 1
    /\ quiet' = (quiet /\ mRunning)
    /\ UNCHANGED <<alone, leftover, failedOver, refused, mFlushPumpScheduled, counters, queued,
                   io, peer, sessions, locals>>

(* Startup of a peer that is not started succeeds, or fails (port in use).  *)
StartPeer(c) ==
    /\ \/ ~peerStarted /\ Goto(c, "startup", "scheduleIo") /\ peerStarted' = TRUE
       \/ Goto(c, "startup", "startFails") /\ UNCHANGED peerStarted
    /\ UNCHANGED <<mRunning, mFlushPumpScheduled, counters, queued, io, poolOpen, sessions,
                   locals, history>>

StartFails(c) ==
    /\ Goto(c, "startFails", "idle")
    /\ mRunning' = FALSE
    /\ failedOver' = (failedOver \/ Continuations > 0)
    /\ UNCHANGED <<mFlushPumpScheduled, counters, queued, io, peer, sessions, locals,
                   starts, quiet, alone, leftover, refused>>

ScheduleIoPump(c) ==
    /\ Goto(c, "scheduleIo", "schedule")
    /\ ret' = [ret EXCEPT ![c] = "idle"]
    /\ IF mRunning /\ mIoPumpThread = "none"
       THEN mIoPumpThread' = "loop" /\ stopRequested' = FALSE /\ UNCHANGED ioContexts
       ELSE UNCHANGED io
    /\ UNCHANGED <<mRunning, mFlushPumpScheduled, counters, queued, peer, sessions,
                   progressed, wasRunning, contexts, history>>

-----------------------------------------------------------------------------
(* scheduleFlushPump and submitFlushJob, called by start, by the pump and   *)
(* by its wakeups                                                           *)
Leave(t, from) == Goto(t, from, ret[t]) /\ ret' = [ret EXCEPT ![t] = "idle"]

ScheduleFlushPump(t) ==
    /\ IF mRunning THEN Goto(t, "schedule", "cas") /\ UNCHANGED ret ELSE Leave(t, "schedule")
    /\ UNCHANGED <<mRunning, mFlushPumpScheduled, counters, queued, io, peer, sessions,
                   progressed, wasRunning, contexts, history>>

ClaimPump(t) ==
    /\ IF mFlushPumpScheduled
       THEN Leave(t, "cas") /\ UNCHANGED refused
       ELSE Goto(t, "cas", "countJob") /\ refused' = FALSE /\ UNCHANGED ret
    /\ mFlushPumpScheduled' = TRUE
    /\ UNCHANGED <<mRunning, counters, queued, io, peer, sessions, progressed, wasRunning,
                   contexts, starts, quiet, alone, leftover, failedOver>>

(* <action>_<bug>: a plausible mistake in the action of that name, not part *)
(* of the machine; it shows that a property notices it.                     *)

(* The job is submitted without being counted. *)
CountJob_Skipped(t) ==
    /\ Goto(t, "countJob", "submitJob")
    /\ UNCHANGED <<mRunning, mFlushPumpScheduled, counters, queued, io, peer, sessions,
                   locals, history>>

CountJob(t) ==
    /\ Goto(t, "countJob", "submitJob")
    /\ mPendingFlushJobs' = mPendingFlushJobs + 1
    /\ UNCHANGED <<mRunning, mFlushPumpScheduled, mPendingFlushWakeups,
                   mPendingSessionPacketTasks, queued, io, peer, sessions, locals, history>>

(* An open pool may refuse too, when the push to its queue fails.           *)
SubmitJob(t) ==
    /\ \/ poolOpen /\ Leave(t, "submitJob") /\ pumpJobs' = pumpJobs + 1
       \/ Goto(t, "submitJob", "uncountJob") /\ UNCHANGED <<pumpJobs, ret>>
    /\ UNCHANGED <<mRunning, mFlushPumpScheduled, counters, wakeups, sessionTasks, io, peer,
                   sessions, progressed, wasRunning, contexts, history>>

(* A refused job stays counted. *)
UncountJob_Skipped(t) ==
    /\ Goto(t, "uncountJob", "unschedule")
    /\ UNCHANGED <<mRunning, mFlushPumpScheduled, counters, queued, io, peer, sessions,
                   locals, history>>

UncountJob(t) ==
    /\ Goto(t, "uncountJob", "unschedule")
    /\ mPendingFlushJobs' = mPendingFlushJobs - 1
    /\ UNCHANGED <<mRunning, mFlushPumpScheduled, mPendingFlushWakeups,
                   mPendingSessionPacketTasks, queued, io, peer, sessions, locals, history>>

Unschedule(t) ==
    /\ Leave(t, "unschedule")
    /\ mFlushPumpScheduled' = FALSE
    /\ refused' = TRUE
    /\ UNCHANGED <<mRunning, counters, queued, io, peer, sessions, progressed, wasRunning,
                   contexts, starts, quiet, alone, leftover, failedOver>>

-----------------------------------------------------------------------------
(* The pool takes up a job, a wakeup or a session task                      *)
TakeJob(w) ==
    /\ pumpJobs > 0
    /\ Goto(w, "idle", IF mRunning THEN "tick" ELSE "dropFlag")
    /\ pumpJobs' = pumpJobs - 1
    /\ progressed' = [progressed EXCEPT ![w] = FALSE]
    /\ UNCHANGED <<mRunning, mFlushPumpScheduled, counters, wakeups, sessionTasks, io, peer,
                   sessions, ret, wasRunning, contexts, history>>

TakeWakeup(w) ==
    /\ wakeups > 0
    /\ Goto(w, "idle", "schedule")
    /\ ret' = [ret EXCEPT ![w] = "wakeupDone"]
    /\ wakeups' = wakeups - 1
    /\ UNCHANGED <<mRunning, mFlushPumpScheduled, counters, pumpJobs, sessionTasks, io, peer,
                   sessions, progressed, wasRunning, contexts, history>>

(* A session leaves the map; the thread that took it out, or whose task     *)
(* came too late to do so, disconnects it in a later step.                  *)
RemoveSession(s) ==
    /\ mSessionContexts' = mSessionContexts \ {s}
    /\ UNCHANGED <<connected, arrived>>

(* A session task may end its session (a disconnection notice, a limit).    *)
TakeSessionTask(w) ==
    /\ sessionTasks > 0
    /\ sessionTasks' = sessionTasks - 1
    /\ \/ Goto(w, "idle", "sessionDone") /\ UNCHANGED <<sessions, contexts>>
       \/ \E s \in arrived : /\ Goto(w, "idle", "closeSession")
                             /\ RemoveSession(s)
                             /\ contexts' = [contexts EXCEPT ![w] = {s}]
    /\ UNCHANGED <<mRunning, mFlushPumpScheduled, counters, pumpJobs, wakeups, io, peer,
                   ret, progressed, wasRunning, history>>

(* The thread disconnects the session it holds.                             *)
CloseHeld(t, from, to) ==
    /\ Goto(t, from, to)
    /\ connected' = connected \ contexts[t]
    /\ contexts' = [contexts EXCEPT ![t] = {}]
    /\ UNCHANGED <<mRunning, mFlushPumpScheduled, counters, queued, io, peer,
                   mSessionContexts, arrived, ret, progressed, wasRunning, history>>

CloseSession(w) == CloseHeld(w, "closeSession", "sessionDone")

JobDone(w) ==
    /\ Goto(w, "jobDone", "idle")
    /\ mPendingFlushJobs' = mPendingFlushJobs - 1
    /\ UNCHANGED <<mRunning, mFlushPumpScheduled, mPendingFlushWakeups,
                   mPendingSessionPacketTasks, queued, io, peer, sessions, locals, history>>

(* A refused wakeup stays counted. *)
WakeupDone_Refused(w) ==
    /\ \/ Goto(w, "wakeupDone", "idle") /\ mPendingFlushWakeups' = mPendingFlushWakeups - 1
       \/ Goto(w, "uncountWakeup", "jobDone") /\ UNCHANGED mPendingFlushWakeups
    /\ UNCHANGED <<mRunning, mFlushPumpScheduled, mPendingFlushJobs,
                   mPendingSessionPacketTasks, queued, io, peer, sessions, locals, history>>

(* A wakeup ran, or was refused.                                            *)
WakeupDone(w) ==
    /\ \/ Goto(w, "wakeupDone", "idle")
       \/ Goto(w, "uncountWakeup", "jobDone")
    /\ mPendingFlushWakeups' = mPendingFlushWakeups - 1
    /\ UNCHANGED <<mRunning, mFlushPumpScheduled, mPendingFlushJobs,
                   mPendingSessionPacketTasks, queued, io, peer, sessions, locals, history>>

(* A session task ran, on a worker or in place, or the strand refused it.   *)
SessionTaskDone(w) ==
    /\ \/ Goto(w, "sessionDone", "idle")
       \/ Goto(w, "uncountFlush", "tick")
    /\ mPendingSessionPacketTasks' = mPendingSessionPacketTasks - 1
    /\ UNCHANGED <<mRunning, mFlushPumpScheduled, mPendingFlushJobs, mPendingFlushWakeups,
                   queued, io, peer, sessions, locals, history>>

-----------------------------------------------------------------------------
(* flushPumpTask                                                            *)

(* The flag stays up in a pump that finds the system stopped. *)
DropFlag_Kept(w) ==
    /\ Goto(w, "dropFlag", "jobDone")
    /\ UNCHANGED <<mRunning, mFlushPumpScheduled, counters, queued, io, peer, sessions,
                   locals, history>>

DropFlag(w) ==
    /\ Goto(w, "dropFlag", "jobDone")
    /\ mFlushPumpScheduled' = FALSE
    /\ UNCHANGED <<mRunning, counters, queued, io, peer, sessions, locals, history>>

(* flushTickOnce gives one more session that is due a flush task ...        *)
FlushSession(w) ==
    /\ mPendingSessionPacketTasks < MaxPackets
    /\ Goto(w, "tick", "enqueueFlush")
    /\ mPendingSessionPacketTasks' = mPendingSessionPacketTasks + 1
    /\ UNCHANGED <<mRunning, mFlushPumpScheduled, mPendingFlushJobs, mPendingFlushWakeups,
                   queued, io, peer, sessions, locals, history>>

(* ... which the strand takes, runs in place, or refuses.  It runs it in    *)
(* place when the pool, open or not, refuses its drain; it takes it also on *)
(* a closed pool, when a drain is under way.                                *)
EnqueueFlush(w) ==
    /\ LET InPool  == Goto(w, "enqueueFlush", "tick") /\ sessionTasks' = sessionTasks + 1
           InPlace == Goto(w, "enqueueFlush", "uncountFlush") /\ UNCHANGED sessionTasks
       IN \/ (InPool \/ InPlace) /\ progressed' = [progressed EXCEPT ![w] = TRUE]
          \/ Goto(w, "enqueueFlush", "uncountFlush") /\ UNCHANGED <<sessionTasks, progressed>>
    /\ UNCHANGED <<mRunning, mFlushPumpScheduled, counters, pumpJobs, wakeups, io, peer,
                   sessions, ret, wasRunning, contexts, history>>

(* Nothing more is due, or the budget of the tick is spent.                 *)
TickEnds(w) ==
    /\ Goto(w, "tick", "recheck")
    /\ mFlushPumpScheduled' = FALSE
    /\ UNCHANGED <<mRunning, counters, queued, io, peer, sessions, locals, history>>

(* A pump that made no progress does not come back. *)
PumpAgain_NoWakeup(w) ==
    /\ IF mRunning /\ progressed[w]
       THEN Goto(w, "recheck", "schedule") /\ ret' = [ret EXCEPT ![w] = "jobDone"]
       ELSE Goto(w, "recheck", "jobDone") /\ UNCHANGED ret
    /\ progressed' = [progressed EXCEPT ![w] = FALSE]
    /\ UNCHANGED <<mRunning, mFlushPumpScheduled, counters, queued, io, peer, sessions,
                   wasRunning, contexts, history>>

PumpAgain(w) ==
    /\ \/ mRunning /\ progressed[w] /\ Goto(w, "recheck", "schedule")
          /\ ret' = [ret EXCEPT ![w] = "jobDone"]
       \/ mRunning /\ ~progressed[w] /\ Goto(w, "recheck", "countWakeup") /\ UNCHANGED ret
       \/ ~mRunning /\ Goto(w, "recheck", "jobDone") /\ UNCHANGED ret
    /\ progressed' = [progressed EXCEPT ![w] = FALSE]
    /\ UNCHANGED <<mRunning, mFlushPumpScheduled, counters, queued, io, peer, sessions,
                   wasRunning, contexts, history>>

(* scheduleFlushPumpAfter *)
CountWakeup(w) ==
    /\ Goto(w, "countWakeup", "submitWakeup")
    /\ mPendingFlushWakeups' = mPendingFlushWakeups + 1
    /\ UNCHANGED <<mRunning, mFlushPumpScheduled, mPendingFlushJobs,
                   mPendingSessionPacketTasks, queued, io, peer, sessions, locals, history>>

(* No return after scheduleFlushPumpAfter. *)
SubmitWakeup_FallsThrough(w) ==
    /\ poolOpen
    /\ Goto(w, "submitWakeup", "schedule")
    /\ ret' = [ret EXCEPT ![w] = "jobDone"]
    /\ wakeups' = wakeups + 1
    /\ UNCHANGED <<mRunning, mFlushPumpScheduled, counters, pumpJobs, sessionTasks, io, peer,
                   sessions, progressed, wasRunning, contexts, history>>

(* submitAfter puts the wakeup on a heap that always has room: an open pool *)
(* takes it (ThreadPool.hpp:167-190).                                       *)
SubmitWakeup(w) ==
    /\ \/ poolOpen /\ Goto(w, "submitWakeup", "jobDone") /\ wakeups' = wakeups + 1
       \/ ~poolOpen /\ Goto(w, "submitWakeup", "uncountWakeup") /\ UNCHANGED wakeups
    /\ UNCHANGED <<mRunning, mFlushPumpScheduled, counters, pumpJobs, sessionTasks, io, peer,
                   sessions, locals, history>>

-----------------------------------------------------------------------------
(* ioPumpThreadMain                                                         *)
IoLoop ==
    /\ mIoPumpThread = "loop"
    /\ mIoPumpThread' = IF mRunning /\ ~stopRequested THEN "receive" ELSE "exited"
    /\ UNCHANGED <<mRunning, mFlushPumpScheduled, counters, queued, stopRequested, ioContexts,
                   peer, sessions, pc, locals, history>>

(* No packet (left).                                                        *)
IoIdle ==
    /\ mIoPumpThread = "receive"
    /\ mIoPumpThread' = "loop"
    /\ UNCHANGED <<mRunning, mFlushPumpScheduled, counters, queued, stopRequested, ioContexts,
                   peer, sessions, pc, locals, history>>

IoNewConnection(s) ==
    /\ mIoPumpThread = "receive"
    /\ s \notin arrived
    /\ mSessionContexts' = mSessionContexts \union {s}
    /\ connected' = connected \union {s}
    /\ arrived' = arrived \union {s}
    /\ UNCHANGED <<mRunning, mFlushPumpScheduled, counters, queued, io, peer,
                   pc, locals, history>>

IoPacket ==
    /\ mIoPumpThread = "receive"
    /\ mSessionContexts # {}
    /\ mPendingSessionPacketTasks < MaxPackets
    /\ mIoPumpThread' = "enqueue"
    /\ mPendingSessionPacketTasks' = mPendingSessionPacketTasks + 1
    /\ UNCHANGED <<mRunning, mFlushPumpScheduled, mPendingFlushJobs, mPendingFlushWakeups,
                   queued, stopRequested, ioContexts, peer, sessions, pc, locals, history>>

(* The strand takes the task of the packet, runs it in place (where it may  *)
(* end the session), or refuses it.                                         *)
IoEnqueue ==
    /\ mIoPumpThread = "enqueue"
    /\ \/ /\ mIoPumpThread' = "receive" /\ sessionTasks' = sessionTasks + 1
          /\ UNCHANGED <<sessions, ioContexts>>
       \/ \E s \in arrived : /\ mIoPumpThread' = "close" /\ ioContexts' = {s}
                             /\ RemoveSession(s) /\ UNCHANGED sessionTasks
       \/ mIoPumpThread' = "uncount" /\ UNCHANGED <<sessionTasks, sessions, ioContexts>>
    /\ UNCHANGED <<mRunning, mFlushPumpScheduled, counters, pumpJobs, wakeups, stopRequested,
                   peer, pc, locals, history>>

IoClose ==
    /\ mIoPumpThread = "close"
    /\ mIoPumpThread' = "uncount"
    /\ connected' = connected \ ioContexts /\ ioContexts' = {}
    /\ UNCHANGED <<mRunning, mFlushPumpScheduled, counters, queued, stopRequested, peer,
                   mSessionContexts, arrived, pc, locals, history>>

(* The task ran in place, or was refused.                                   *)
IoUncount ==
    /\ mIoPumpThread = "uncount"
    /\ mIoPumpThread' = "receive"
    /\ mPendingSessionPacketTasks' = mPendingSessionPacketTasks - 1
    /\ UNCHANGED <<mRunning, mFlushPumpScheduled, mPendingFlushJobs, mPendingFlushWakeups,
                   queued, stopRequested, ioContexts, peer, sessions, pc, locals, history>>

-----------------------------------------------------------------------------
(* stop                                                                     *)
Stays == UNCHANGED <<mFlushPumpScheduled, counters, queued, arrived, poolOpen, ret,
                     progressed, starts, failedOver, refused>>

StopBegin(c) ==
    /\ \A d \in Callers : pc[d] \notin InStart
    /\ Goto(c, "idle", IF mRunning THEN "join" ELSE "collect")
    /\ wasRunning' = [wasRunning EXCEPT ![c] = mRunning]
    /\ mRunning' = FALSE
    /\ alone' = (alone /\ \A d \in Callers : pc[d] \notin InStop)
    /\ UNCHANGED <<io, peerStarted, mSessionContexts, connected, contexts, quiet,
                   leftover>> /\ Stays

StopRequest(c) ==
    /\ Goto(c, "join", IF mIoPumpThread = "none" THEN "waitWakeups" ELSE "joined")
    /\ stopRequested' = (mIoPumpThread # "none")
    /\ UNCHANGED <<mRunning, mIoPumpThread, ioContexts, peerStarted, mSessionContexts, connected,
                   wasRunning, contexts, quiet, alone, leftover>> /\ Stays

(* The receiving thread is told to stop, but not waited for. *)
StopJoin_Detached(c) ==
    /\ Goto(c, "joined", "waitWakeups")
    /\ UNCHANGED <<mRunning, io, peerStarted, mSessionContexts, connected,
                   wasRunning, contexts, quiet, alone, leftover>> /\ Stays

StopJoin(c) ==
    /\ mIoPumpThread = "exited"
    /\ Goto(c, "joined", "waitWakeups")
    /\ mIoPumpThread' = "none" /\ stopRequested' = FALSE
    /\ UNCHANGED <<mRunning, ioContexts, peerStarted, mSessionContexts, connected,
                   wasRunning, contexts, quiet, alone, leftover>> /\ Stays

(* The jobs are waited for before the wakeups. *)
StopWait_JobsFirst(c) ==
    /\ \/ mPendingFlushJobs = 0 /\ Goto(c, "waitWakeups", "waitJobs")
       \/ mPendingFlushWakeups = 0 /\ Goto(c, "waitJobs", "waitSessions")
       \/ mPendingSessionPacketTasks = 0 /\ Goto(c, "waitSessions", "collect")
    /\ UNCHANGED <<mRunning, io, peerStarted, mSessionContexts, connected,
                   wasRunning, contexts, quiet, alone, leftover>> /\ Stays

(* Each wait ends when it sees its counter at zero; what the counter does   *)
(* later is nobody's business.                                              *)
StopWait(c) ==
    /\ \/ mPendingFlushWakeups = 0 /\ Goto(c, "waitWakeups", "waitJobs")
       \/ mPendingFlushJobs = 0 /\ Goto(c, "waitJobs", "waitSessions")
       \/ mPendingSessionPacketTasks = 0 /\ Goto(c, "waitSessions", "collect")
    /\ UNCHANGED <<mRunning, io, peerStarted, mSessionContexts, connected,
                   wasRunning, contexts, quiet, alone, leftover>> /\ Stays

(* disconnectAllSessionsForTeardown: the contexts, then the keys            *)
StopCollect(c) ==
    /\ \/ Goto(c, "collect", "disconnect")
       \/ Goto(c, "collectKeys", "remove")
    /\ contexts' = [contexts EXCEPT ![c] = mSessionContexts]
    /\ UNCHANGED <<mRunning, io, peerStarted, mSessionContexts, connected,
                   wasRunning, quiet, alone, leftover>> /\ Stays

StopDisconnect(c) ==
    /\ \/ /\ contexts[c] = {}
          /\ Goto(c, "disconnect", "collectKeys")
          /\ UNCHANGED <<connected, contexts>>
       \/ \E s \in contexts[c] :
             /\ pc[c] = "disconnect" /\ UNCHANGED pc
             /\ connected' = connected \ {s}
             /\ contexts' = [contexts EXCEPT ![c] = @ \ {s}]
    /\ UNCHANGED <<mRunning, io, peerStarted, mSessionContexts, wasRunning, quiet, alone,
                   leftover>> /\ Stays

StopRemove(c) ==
    /\ \/ /\ contexts[c] = {}
          /\ Goto(c, "remove", "shutdown")
          /\ UNCHANGED <<mSessionContexts, contexts>>
       \/ \E s \in contexts[c] :
             /\ pc[c] = "remove" /\ UNCHANGED pc
             /\ mSessionContexts' = mSessionContexts \ {s}
             /\ contexts' = [contexts EXCEPT ![c] = @ \ {s}]
    /\ UNCHANGED <<mRunning, io, peerStarted, connected, wasRunning, quiet, alone,
                   leftover>> /\ Stays

StopReturn(c) ==
    /\ Goto(c, "shutdown", "idle")
    /\ peerStarted' = (peerStarted /\ ~wasRunning[c])
    /\ quiet' = (quiet \/ wasRunning[c])
    /\ wasRunning' = [wasRunning EXCEPT ![c] = FALSE]
    /\ leftover' = (leftover \/ (wasRunning[c] /\ (wakeups > 0 \/ InWakeup # {})))
    /\ UNCHANGED <<mRunning, io, mSessionContexts, connected, contexts, alone>> /\ Stays

-----------------------------------------------------------------------------
(* disconnectClient, of a client in the map                                 *)
DisconnectClient(c, s) ==
    /\ s \in mSessionContexts
    /\ Goto(c, "idle", "disconnectErased")
    /\ RemoveSession(s)
    /\ contexts' = [contexts EXCEPT ![c] = {s}]
    /\ UNCHANGED <<mRunning, mFlushPumpScheduled, counters, queued, io, peer,
                   ret, progressed, wasRunning, history>>

CloseErased(c) == CloseHeld(c, "disconnectErased", "idle")

(* The owner of a pool it shares with the system stops the pool.            *)
ClosePool ==
    /\ poolOpen
    /\ poolOpen' = FALSE
    /\ UNCHANGED <<mRunning, mFlushPumpScheduled, counters, queued, io, peerStarted,
                   sessions, pc, locals, history>>

-----------------------------------------------------------------------------
ScheduleStep(t) ==
    \/ ScheduleFlushPump(t) \/ ClaimPump(t) \/ CountJob(t) \/ SubmitJob(t)
    \/ UncountJob(t) \/ Unschedule(t)

StartStep(c) == StartPeer(c) \/ StartFails(c) \/ ScheduleIoPump(c) \/ ScheduleStep(c)

StopStep(c) ==
    \/ StopRequest(c) \/ StopJoin(c) \/ StopWait(c) \/ StopCollect(c)
    \/ StopDisconnect(c) \/ StopRemove(c) \/ StopReturn(c)

PumpStep(w) ==
    \/ DropFlag(w) \/ EnqueueFlush(w) \/ TickEnds(w) \/ PumpAgain(w)
    \/ CountWakeup(w) \/ SubmitWakeup(w) \/ JobDone(w) \/ WakeupDone(w)
    \/ CloseSession(w) \/ SessionTaskDone(w)

TakeStep(w) == TakeJob(w) \/ TakeWakeup(w) \/ TakeSessionTask(w)

IoStep == IoLoop \/ IoIdle \/ IoEnqueue \/ IoClose \/ IoUncount

Next ==
    \/ \E c \in Callers : StartBegin(c) \/ StartStep(c) \/ StopBegin(c) \/ StopStep(c)
    \/ \E w \in PoolWorkers : ScheduleStep(w) \/ PumpStep(w) \/ TakeStep(w) \/ FlushSession(w)
    \/ IoStep \/ IoPacket
    \/ \E s \in Sessions : IoNewConnection(s) \/ \E c \in Callers : DisconnectClient(c, s)
    \/ \E c \in Callers : CloseErased(c)
    \/ ClosePool

Spec == Init /\ [][Next]_vars

(* Threads are scheduled, Receive runs out of packets, a tick ends (it has  *)
(* a budget), and the pool runs every kind of task it accepted.  Nobody has *)
(* to call start or stop, to connect or to send.                            *)
Fairness ==
    /\ \A c \in Callers : WF_vars(StartStep(c)) /\ WF_vars(StopStep(c)) /\ WF_vars(CloseErased(c))
    /\ \A w \in PoolWorkers : WF_vars(ScheduleStep(w)) /\ WF_vars(PumpStep(w))
                            /\ SF_vars(TickEnds(w))
    /\ SF_vars(\E w \in PoolWorkers : TakeJob(w))
    /\ SF_vars(\E w \in PoolWorkers : TakeWakeup(w))
    /\ SF_vars(\E w \in PoolWorkers : TakeSessionTask(w))
    /\ WF_vars(IoLoop) /\ SF_vars(IoIdle) /\ WF_vars(IoEnqueue)
    /\ WF_vars(IoClose) /\ WF_vars(IoUncount)

FairSpec == Spec /\ Fairness

-----------------------------------------------------------------------------
TypeOK ==
    /\ mRunning \in BOOLEAN /\ mFlushPumpScheduled \in BOOLEAN
    /\ mPendingFlushJobs \in Nat /\ mPendingFlushWakeups \in Nat
    /\ mPendingSessionPacketTasks \in Nat
    /\ mIoPumpThread \in {"none", "loop", "receive", "enqueue", "close", "uncount", "exited"}
    /\ stopRequested \in BOOLEAN /\ peerStarted \in BOOLEAN /\ poolOpen \in BOOLEAN
    /\ pumpJobs \in Nat /\ wakeups \in Nat /\ sessionTasks \in Nat
    /\ pc \in [Threads -> InStart \union InStop \union
                  {"idle", "tick", "dropFlag", "enqueueFlush", "uncountFlush", "recheck",
                   "countWakeup", "submitWakeup", "uncountWakeup", "wakeupDone", "jobDone",
                   "closeSession", "sessionDone", "disconnectErased"}]
    /\ ret \in [Threads -> {"idle", "jobDone", "wakeupDone"}]
    /\ progressed \in [PoolWorkers -> BOOLEAN]
    /\ wasRunning \in [Callers -> BOOLEAN]
    /\ contexts \in [Threads -> SUBSET Sessions] /\ ioContexts \subseteq Sessions
    /\ mSessionContexts \subseteq Sessions
    /\ connected \subseteq Sessions /\ arrived \subseteq Sessions
    /\ starts \in 0..MaxStarts /\ quiet \in BOOLEAN /\ alone \in BOOLEAN
    /\ leftover \in BOOLEAN /\ failedOver \in BOOLEAN /\ refused \in BOOLEAN

(* The three counters stop waits for are exact at every step, refusals      *)
(* included (ServerNetworkSystem.hpp:245-264, .cpp:664-678, 575-601,        *)
(* 750-810).                                                                *)
CountsAreExact ==
    /\ mPendingFlushJobs =
          pumpJobs + Cardinality(InPump) + Cardinality(At({"submitJob", "uncountJob"}))
    /\ mPendingFlushWakeups =
          wakeups + Cardinality(InWakeup) + Cardinality(At({"submitWakeup", "uncountWakeup"}))
    /\ mPendingSessionPacketTasks =
          sessionTasks
          + Cardinality(At({"enqueueFlush", "uncountFlush", "closeSession", "sessionDone"}))
          + (IF mIoPumpThread \in {"enqueue", "close", "uncount"} THEN 1 ELSE 0)

(* While the system runs on an open pool the flush pump is lost only when   *)
(* the pool refuses its job: otherwise some job, wakeup or thread will run  *)
(* it again (.cpp:627-678).  Whoever claimed the pump and is refused gives  *)
(* the flag back and leaves nobody to run it until somebody claims it again *)
(* (.cpp:637-639), on an open pool too.  Not so once a start failed while a *)
(* wakeup of the life before had started the pump: the pump finds the       *)
(* system stopped (.cpp:643-646), and when the next start finds its flag    *)
(* still up it leaves the pump to it (.cpp:632-635).                        *)
PumpNeverLost ==
    mRunning /\ poolOpen /\ ~failedOver /\ ~refused =>
       \/ Continuations > 0
       \/ At({"startup", "startFails", "scheduleIo", "uncountJob", "unschedule"}) # {}

(* There is one pump: as long as no stop left a wakeup behind, jobs,        *)
(* wakeups and threads that would run it again are at most one, so the pump *)
(* does not multiply, however often the system is started (.cpp:632-635,    *)
(* 650-661).                                                                *)
OnePump == ~leftover => Continuations <= 1

(* A stop that found the system running leaves no pump job and no session   *)
(* task behind (.cpp:259-261).                                              *)
StopQuiesces ==
    quiet => /\ pumpJobs = 0 /\ InPump = {} /\ mPendingFlushJobs = 0
             /\ sessionTasks = 0 /\ mPendingSessionPacketTasks = 0
             /\ mIoPumpThread = "none"

(* "Stops the server network system and waits for in-flight work to finish" *)
(* (ServerNetworkSystem.hpp:120): after it nothing of the system is left in *)
(* the pool, wakeups included.                                              *)
NoWorkAfterStop == quiet => wakeups = 0 /\ InWakeup = {}

(* A stop that found the system running leaves no session in the map and    *)
(* none connected (.cpp:251-257, 704-725), but for one that a call of       *)
(* disconnectClient still at work took out of the map: stop waits for the   *)
(* session tasks that end sessions and not for that call (.cpp:499-505).    *)
(* Sessions the receiving thread creates while stop is under way are among  *)
(* those closed.  Not so once two stops overlapped: the one that found the  *)
(* system stopped tears down while the receiving thread still runs, and can *)
(* take a session out of the map that it never disconnected.                *)
SessionsClosed ==
    quiet /\ alone =>
       /\ mSessionContexts = {}
       /\ connected \subseteq UNION {contexts[c] : c \in At({"disconnectErased"})}

(* Every stop returns, whether or not the pool has been stopped before.     *)
StopReturns == \A c \in Callers : pc[c] \in InStop ~> pc[c] = "idle"

(* While the system runs on an open pool the flush pump ticks again and     *)
(* again, unless its job is refused (.cpp:637-639).                         *)
PumpTicks ==
    []<>(\/ ~mRunning \/ ~poolOpen \/ failedOver \/ refused
         \/ \E w \in PoolWorkers : pc[w] = "tick")
=============================================================================
