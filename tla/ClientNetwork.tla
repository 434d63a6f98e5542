--------------------------- MODULE ClientNetwork ---------------------------
(***************************************************************************)
(* start, stop, connect, disconnect and the pump of ClientNetworkSystem    *)
(* (src/sculk/protocol/connection/ClientNetworkSystem.cpp and its header). *)
(*                                                                         *)
(* The pump is a job on the thread pool that receives what the peer has,   *)
(* and comes back as a job, or as a wakeup when there was nothing to do.   *)
(* It goes on while the system runs and mIoPumpActive is set, which        *)
(* connect does; disconnect and stop clear it and wait for both counters.  *)
(*                                                                         *)
(* The pool is seen as in ServerLifecycle: it runs what it accepts, once,  *)
(* a wakeup at any time; it refuses when its owner has stopped it, and an  *)
(* open pool may refuse a job too, when its queue has no room for it       *)
(* (ThreadPool.hpp:133-141).  The RakPeer is external: an attempt to       *)
(* connect is accepted while the one connection Startup allows is free, or *)
(* fails; a connection is lost at any time; packets wait in inbox for      *)
(* Receive.  Packets are compared with the limits before anything else, so *)
(* that a notice can be over them as well as a batch ("data", which module *)
(* Session decodes); an empty packet is like one over the limits.  The     *)
(* application may hold the pointer that getSession gave it.               *)
(* What the application's callbacks do, and the strand they are called on, *)
(* is left out: they are code of the application.  A counter is raised     *)
(* together with the submission it stands for: nobody reads it in between  *)
(* but a waiter, who would only wait longer.                               *)
(* start is not called while another call is in progress; the others are   *)
(* called from any number of threads, but not from the pump.               *)
(***************************************************************************)
EXTENDS Integers, Sequences, FiniteSets

CONSTANTS Callers,        (* threads that call the four operations          *)
          PoolWorkers,    (* threads of the pool                            *)
          MaxStarts,      (* bound: calls of start                          *)
          MaxConnects,    (* bound: attempts to connect                     *)
          MaxInbox        (* bound: packets that wait for Receive           *)

ASSUME ClientThreadsAssumption ==
    /\ IsFiniteSet(Callers) /\ IsFiniteSet(PoolWorkers)
    /\ Callers \intersect PoolWorkers = {}
ASSUME ClientBoundsAssumption == MaxStarts \in Nat /\ MaxConnects \in Nat /\ MaxInbox \in Nat

Threads == Callers \union PoolWorkers
Attempts == 1..MaxConnects
None == 0                 (* no session, no connection                      *)

VARIABLES
    mRunning, mIoPumpActive, mIoPumpScheduled,
    mPendingIoJobs, mPendingDelayedWakeups,
    mSession,             (* the session, named by the attempt it came from *)
    connected,            (* sessions whose disconnect was not called       *)
    kept,                 (* sessions that were replaced while connected,   *)
                          (* and that the application held                  *)
    ioJobs, wakeups, poolOpen,      (* the pool                             *)
    peerStarted, attempts, link, inbox,   (* the peer: in-flight attempts,  *)
                          (* the connection it has, packets for Receive     *)
    pc,                   (* thread -> its next statement                   *)
    ret,                  (* thread in scheduleIoPump -> where it returns   *)
    progressed,           (* worker -> local of ioPumpTask                  *)
    op,                   (* caller -> the operation it is in               *)
    wasRunning,           (* caller -> local of stop                        *)
    starts, tried,        (* calls of start; attempts made                  *)
    quiet,                (* a disconnect, or a stop that found the system  *)
                          (* running, has returned and no connect began     *)
    crossed,              (* a connect met a disconnect or a stop, or two   *)
                          (* stops met                                      *)
    missed,               (* connections whose notice the limits held back  *)
    refused               (* a job was refused and no connect has asked for *)
                          (* the pump since                                 *)

flags    == <<mRunning, mIoPumpActive, mIoPumpScheduled>>
counters == <<mPendingIoJobs, mPendingDelayedWakeups>>
session  == <<mSession, connected, kept>>
pool     == <<ioJobs, wakeups, poolOpen>>
peer     == <<peerStarted, attempts, link, inbox>>
locals   == <<ret, progressed, op, wasRunning>>
history  == <<starts, tried, quiet, crossed, missed, refused>>
vars == <<flags, counters, session, pool, peer, pc, locals, history>>

Init ==
    /\ mRunning = FALSE /\ mIoPumpActive = FALSE /\ mIoPumpScheduled = FALSE
    /\ mPendingIoJobs = 0 /\ mPendingDelayedWakeups = 0
    /\ mSession = None /\ connected = {} /\ kept = {}
    /\ ioJobs = 0 /\ wakeups = 0 /\ poolOpen = TRUE
    /\ peerStarted = FALSE /\ attempts = {} /\ link = None /\ inbox = <<>>
    /\ pc = [t \in Threads |-> "idle"]
    /\ ret = [t \in Threads |-> "idle"]
    /\ progressed = [w \in PoolWorkers |-> FALSE]
    /\ op = [c \in Callers |-> "none"]
    /\ wasRunning = [c \in Callers |-> FALSE]
    /\ starts = 0 /\ tried = 0 /\ quiet = FALSE /\ crossed = FALSE
    /\ missed = {} /\ refused = FALSE

Goto(t, from, to) == pc[t] = from /\ pc' = [pc EXCEPT ![t] = to]

(* c enters the operation o; some pairs of operations do not mix.           *)
Enter(c, o) ==
    /\ op' = [op EXCEPT ![c] = o]
    /\ crossed' = (crossed \/ \E d \in Callers \ {c} :
                      \/ o = "connect" /\ op[d] \in {"disconnect", "stop"}
                      \/ o \in {"disconnect", "stop"} /\ op[d] = "connect"
                      \/ o = "stop" /\ op[d] = "stop")
Return(c, from) == Goto(c, from, "idle") /\ op' = [op EXCEPT ![c] = "none"]

(* Session::disconnect: the first one closes the connection to the server   *)
(* of the session, which may be a later one to the same server by then.     *)
CloseConnection(s) ==
    IF s \in connected THEN link' \in {None} \union ({link} \ {s}) ELSE UNCHANGED link
Disconnect(s) ==
    /\ connected' = connected \ {s}
    /\ CloseConnection(s)

(* mSession.store: ~Session disconnects the session that was there, unless  *)
(* the application still holds it.                                          *)
StoreSession(s) ==
    /\ mSession' = s
    /\ \/ /\ connected' = (connected \ {mSession}) \union ({s} \ {None})
          /\ CloseConnection(mSession)
          /\ UNCHANGED kept
       \/ /\ mSession \in connected
          /\ kept' = kept \union {mSession}
          /\ connected' = connected \union ({s} \ {None})
          /\ UNCHANGED link

(* The application lets go of a session it held, and ~Session disconnects.  *)
AppReleases(s) ==
    /\ s \in kept \intersect connected
    /\ Disconnect(s)
    /\ UNCHANGED <<flags, counters, mSession, kept, pool, peerStarted, attempts, inbox, pc,
                   locals, history>>

-----------------------------------------------------------------------------
(* start                                                                    *)
StartBegin(c) ==
    /\ starts < MaxStarts
    /\ \A d \in Callers : op[d] = "none"
    /\ IF mRunning THEN pc[c] = "idle" /\ UNCHANGED <<pc, op, crossed>>
       ELSE Goto(c, "idle", "startup") /\ Enter(c, "start")
    /\ mRunning' = TRUE
    /\ starts' = starts + 1
    /\ UNCHANGED <<mIoPumpActive, mIoPumpScheduled, counters, session, pool, peer,
                   ret, progressed, wasRunning, tried, quiet, missed, refused>>

(* Startup succeeds on a peer that is not started, or fails.                *)
StartPeer(c) ==
    /\ \/ ~peerStarted /\ Return(c, "startup") /\ peerStarted' = TRUE /\ UNCHANGED mRunning
       \/ Return(c, "startup") /\ mRunning' = FALSE /\ UNCHANGED peerStarted
    /\ UNCHANGED <<mIoPumpActive, mIoPumpScheduled, counters, session, pool, attempts, link,
                   inbox, ret, progressed, wasRunning, history>>

-----------------------------------------------------------------------------
(* connect                                                                  *)
ConnectBegin(c) ==
    /\ tried < MaxConnects
    /\ IF mRunning /\ mSession = None
       THEN Goto(c, "idle", "connectPeer") /\ Enter(c, "connect")
       ELSE pc[c] = "idle" /\ UNCHANGED <<pc, op, crossed>>
    /\ quiet' = FALSE
    /\ UNCHANGED <<flags, counters, session, pool, peer, ret, progressed, wasRunning,
                   starts, tried, missed, refused>>

(* The peer takes the attempt, or refuses it at once.                       *)
ConnectPeer(c) ==
    /\ \/ /\ peerStarted /\ tried < MaxConnects
          /\ Goto(c, "connectPeer", "activate")
          /\ tried' = tried + 1
          /\ attempts' = attempts \union {tried'}
          /\ UNCHANGED op
       \/ Return(c, "connectPeer") /\ UNCHANGED <<tried, attempts>>
    /\ UNCHANGED <<flags, counters, session, pool, peerStarted, link, inbox,
                   ret, progressed, wasRunning, starts, quiet, crossed, missed, refused>>

Activate(c) ==
    /\ Goto(c, "activate", "schedule")
    /\ mIoPumpActive' = TRUE
    /\ refused' = FALSE
    /\ UNCHANGED <<mRunning, mIoPumpScheduled, counters, session, pool, peer, locals, starts,
                   tried, quiet, crossed, missed>>

-----------------------------------------------------------------------------
(* scheduleIoPump and submitIoJob, called by connect, by the pump and by    *)
(* its wakeups                                                              *)
Leave(t, from) ==
    /\ Goto(t, from, ret[t])
    /\ ret' = [ret EXCEPT ![t] = "idle"]
    /\ op' = IF t \in Callers THEN [op EXCEPT ![t] = "none"] ELSE op
Stays == UNCHANGED <<ret, op>>

ScheduleIoPump(t) ==
    /\ IF mRunning /\ mIoPumpActive THEN Goto(t, "schedule", "cas") /\ Stays
       ELSE Leave(t, "schedule")
    /\ UNCHANGED <<flags, counters, session, pool, peer, progressed, wasRunning, history>>

(* <action>_<bug>: a plausible mistake in the action of that name, not part *)
(* of the machine; it shows that a property notices it.                     *)

(* The flag is set, whoever set it before. *)
ClaimPump_Store(t) ==
    /\ Goto(t, "cas", "submitJob") /\ Stays
    /\ mIoPumpScheduled' = TRUE
    /\ UNCHANGED <<mRunning, mIoPumpActive, counters, session, pool, peer, progressed,
                   wasRunning, history>>

ClaimPump(t) ==
    /\ IF mIoPumpScheduled THEN Leave(t, "cas") ELSE Goto(t, "cas", "submitJob") /\ Stays
    /\ mIoPumpScheduled' = TRUE
    /\ UNCHANGED <<mRunning, mIoPumpActive, counters, session, pool, peer, progressed,
                   wasRunning, history>>

(* A closed pool refuses the job, an open one may.                          *)
SubmitJob(t) ==
    /\ \/ /\ poolOpen
          /\ Leave(t, "submitJob")
          /\ ioJobs' = ioJobs + 1 /\ mPendingIoJobs' = mPendingIoJobs + 1
       \/ Goto(t, "submitJob", "unschedule") /\ Stays /\ UNCHANGED <<ioJobs, mPendingIoJobs>>
    /\ UNCHANGED <<flags, mPendingDelayedWakeups, session, wakeups, poolOpen, peer, progressed,
                   wasRunning, history>>

Unschedule(t) ==
    /\ Leave(t, "unschedule")
    /\ mIoPumpScheduled' = FALSE
    /\ refused' = TRUE
    /\ UNCHANGED <<mRunning, mIoPumpActive, counters, session, pool, peer, progressed,
                   wasRunning, starts, tried, quiet, crossed, missed>>

-----------------------------------------------------------------------------
(* ioPumpTask                                                               *)
TakeJob(w) ==
    /\ ioJobs > 0
    /\ Goto(w, "idle", IF mRunning /\ mIoPumpActive THEN "tick" ELSE "dropFlag")
    /\ ioJobs' = ioJobs - 1
    /\ progressed' = [progressed EXCEPT ![w] = FALSE]
    /\ UNCHANGED <<flags, counters, session, wakeups, poolOpen, peer, ret, op, wasRunning,
                   history>>

(* The flag stays up in a pump that finds it is to stop. *)
DropFlag_Kept(w) ==
    /\ Goto(w, "dropFlag", "jobDone")
    /\ UNCHANGED <<flags, counters, session, pool, peer, locals, history>>

DropFlag(w) ==
    /\ Goto(w, "dropFlag", "jobDone")
    /\ mIoPumpScheduled' = FALSE
    /\ UNCHANGED <<mRunning, mIoPumpActive, counters, session, pool, peer, locals, history>>

(* Receive and processIncomingPacket.  A packet over a limit, of whatever   *)
(* kind, goes no further; the session ends then, unless the callback for    *)
(* limits wants it to go on.                                                *)
Receive(w) ==
    /\ inbox # <<>>
    /\ inbox' = Tail(inbox)
    /\ progressed' = [progressed EXCEPT ![w] = TRUE]
    /\ LET packet == Head(inbox)
       IN \/ /\ packet.kind = "accepted"
             /\ pc[w] = "tick" /\ UNCHANGED <<pc, missed>>
             /\ StoreSession(packet.of)
          \* lost, failed or over a limit; data or over a limit
          \/ /\ \/ Goto(w, "tick", "endSession")
                \/ pc[w] = "tick" /\ UNCHANGED pc
             /\ missed' = IF packet.kind = "accepted" THEN missed \union {packet.of} ELSE missed
             /\ UNCHANGED <<session, link>>
    /\ UNCHANGED <<flags, counters, pool, peerStarted, attempts, ret, op, wasRunning, starts,
                   tried, quiet, crossed, refused>>

(* disconnectSession of processIncomingPacket: whatever session there is.   *)
EndSession(w) ==
    /\ IF mSession = None THEN Goto(w, "endSession", "tick") /\ UNCHANGED <<connected, link>>
       ELSE Goto(w, "endSession", "clearSession") /\ Disconnect(mSession)
    /\ UNCHANGED <<flags, counters, mSession, kept, pool, peerStarted, attempts, inbox, locals,
                   history>>

ClearSession(w) ==
    /\ Goto(w, "clearSession", "tick")
    /\ StoreSession(None)
    /\ UNCHANGED <<flags, counters, pool, peerStarted, attempts, inbox, locals, history>>

(* Nothing is left to receive; flushIfDue may have had something to send.   *)
TickEnds(w) ==
    /\ inbox = <<>>
    /\ Goto(w, "tick", "recheck")
    /\ \/ UNCHANGED progressed
       \/ mSession # None /\ progressed' = [progressed EXCEPT ![w] = TRUE]
    /\ mIoPumpScheduled' = FALSE
    /\ UNCHANGED <<mRunning, mIoPumpActive, counters, session, pool, peer, ret, op,
                   wasRunning, history>>

PumpAgain(w) ==
    /\ LET goesOn == mRunning /\ mIoPumpActive
       IN \/ goesOn /\ progressed[w] /\ Goto(w, "recheck", "schedule")
             /\ ret' = [ret EXCEPT ![w] = "jobDone"]
          \/ goesOn /\ ~progressed[w] /\ Goto(w, "recheck", "submitWakeup") /\ UNCHANGED ret
          \/ ~goesOn /\ Goto(w, "recheck", "jobDone") /\ UNCHANGED ret
    /\ progressed' = [progressed EXCEPT ![w] = FALSE]
    /\ UNCHANGED <<flags, counters, session, pool, peer, op, wasRunning, history>>

JobDone(w) ==
    /\ Goto(w, "jobDone", "idle")
    /\ mPendingIoJobs' = mPendingIoJobs - 1
    /\ UNCHANGED <<flags, mPendingDelayedWakeups, session, pool, peer, locals, history>>

(* scheduleIoPumpAfter                                                      *)
(* submitAfter has no queue to fill: an open pool takes every wakeup        *)
(* (ThreadPool.hpp:150-190).                                                *)
SubmitWakeup(w) ==
    /\ Goto(w, "submitWakeup", "jobDone")
    /\ IF poolOpen
       THEN wakeups' = wakeups + 1 /\ mPendingDelayedWakeups' = mPendingDelayedWakeups + 1
       ELSE UNCHANGED <<wakeups, mPendingDelayedWakeups>>
    /\ UNCHANGED <<flags, mPendingIoJobs, session, ioJobs, poolOpen, peer, locals, history>>

TakeWakeup(w) ==
    /\ wakeups > 0
    /\ Goto(w, "idle", "schedule")
    /\ ret' = [ret EXCEPT ![w] = "wakeupDone"]
    /\ wakeups' = wakeups - 1
    /\ UNCHANGED <<flags, counters, session, ioJobs, poolOpen, peer, progressed, op,
                   wasRunning, history>>

WakeupDone(w) ==
    /\ Goto(w, "wakeupDone", "idle")
    /\ mPendingDelayedWakeups' = mPendingDelayedWakeups - 1
    /\ UNCHANGED <<flags, mPendingIoJobs, session, pool, peer, locals, history>>

-----------------------------------------------------------------------------
(* disconnect and stop                                                      *)
DisconnectBegin(c) ==
    /\ Goto(c, "idle", "deactivate") /\ Enter(c, "disconnect")
    /\ UNCHANGED <<flags, counters, session, pool, peer, ret, progressed, wasRunning,
                   starts, tried, quiet, missed, refused>>

StopBegin(c) ==
    /\ \A d \in Callers : op[d] # "start"
    /\ Goto(c, "idle", IF mRunning THEN "deactivate" ELSE "teardown") /\ Enter(c, "stop")
    /\ wasRunning' = [wasRunning EXCEPT ![c] = mRunning]
    /\ mRunning' = FALSE
    /\ UNCHANGED <<mIoPumpActive, mIoPumpScheduled, counters, session, pool, peer,
                   ret, progressed, starts, tried, quiet, missed, refused>>

Deactivate(c) ==
    /\ Goto(c, "deactivate", "waitWakeups")
    /\ mIoPumpActive' = FALSE
    /\ UNCHANGED <<mRunning, mIoPumpScheduled, counters, session, pool, peer, locals, history>>

(* Only the wakeups are waited for. *)
Wait_NotForJobs(c) ==
    /\ \/ mPendingDelayedWakeups = 0 /\ Goto(c, "waitWakeups", "waitJobs")
       \/ Goto(c, "waitJobs", "teardown")
    /\ UNCHANGED <<flags, counters, session, pool, peer, locals, history>>

(* waitForPendingDelayedWakeups, then waitForPendingIoJobs: each ends when  *)
(* it sees its counter at zero.                                             *)
Wait(c) ==
    /\ \/ mPendingDelayedWakeups = 0 /\ Goto(c, "waitWakeups", "waitJobs")
       \/ mPendingIoJobs = 0 /\ Goto(c, "waitJobs", "teardown")
    /\ UNCHANGED <<flags, counters, session, pool, peer, locals, history>>

(* disconnectSessionForTeardown                                             *)
TeardownSession(c) ==
    /\ IF mSession = None THEN Goto(c, "teardown", "finish") /\ UNCHANGED <<connected, link>>
       ELSE Goto(c, "teardown", "clear") /\ Disconnect(mSession)
    /\ UNCHANGED <<flags, counters, mSession, kept, pool, peerStarted, attempts, inbox, locals,
                   history>>

TeardownClear(c) ==
    /\ Goto(c, "clear", "finish")
    /\ StoreSession(None)
    /\ UNCHANGED <<flags, counters, pool, peerStarted, attempts, inbox, locals, history>>

(* A stop that found the system running shuts the peer down, which forgets  *)
(* its attempts, its connection and its packets.                            *)
Finish(c) ==
    /\ Return(c, "finish")
    /\ quiet' = (quiet \/ op[c] = "disconnect" \/ wasRunning[c])
    /\ wasRunning' = [wasRunning EXCEPT ![c] = FALSE]
    /\ IF wasRunning[c]
       THEN peerStarted' = FALSE /\ attempts' = {} /\ link' = None /\ inbox' = <<>>
       ELSE UNCHANGED peer
    /\ UNCHANGED <<flags, counters, session, pool, ret, progressed, starts, tried, crossed,
                   missed, refused>>

-----------------------------------------------------------------------------
(* The peer, and the owner of a pool the system shares                      *)
Arrives(packets) ==
    /\ Len(inbox) < MaxInbox
    /\ inbox' = Append(inbox, packets)
    /\ UNCHANGED <<flags, counters, session, pool, peerStarted, pc, locals, history>>

PeerAccepts(a) ==
    /\ a \in attempts /\ link = None
    /\ link' = a /\ attempts' = attempts \ {a}
    /\ Arrives([kind |-> "accepted", of |-> a])

PeerFails(a) ==
    /\ a \in attempts
    /\ attempts' = attempts \ {a}
    /\ Arrives([kind |-> "failed", of |-> None]) /\ UNCHANGED link

PeerLoses ==
    /\ link # None
    /\ link' = None
    /\ Arrives([kind |-> "lost", of |-> None]) /\ UNCHANGED attempts

PeerReceives ==
    /\ link # None
    /\ Arrives([kind |-> "data", of |-> None]) /\ UNCHANGED <<link, attempts>>

ClosePool ==
    /\ poolOpen
    /\ poolOpen' = FALSE
    /\ UNCHANGED <<flags, counters, session, ioJobs, wakeups, peer, pc, locals, history>>

-----------------------------------------------------------------------------
CallStep(c) ==
    \/ StartBegin(c) \/ StartPeer(c)
    \/ ConnectBegin(c) \/ ConnectPeer(c) \/ Activate(c)
    \/ DisconnectBegin(c) \/ StopBegin(c) \/ Deactivate(c) \/ Wait(c)
    \/ TeardownSession(c) \/ TeardownClear(c) \/ Finish(c)

ScheduleStep(t) ==
    \/ ScheduleIoPump(t) \/ ClaimPump(t) \/ SubmitJob(t) \/ Unschedule(t)

PumpStep(w) ==
    \/ TakeJob(w) \/ DropFlag(w) \/ Receive(w) \/ EndSession(w) \/ ClearSession(w)
    \/ TickEnds(w) \/ PumpAgain(w) \/ JobDone(w)
    \/ SubmitWakeup(w) \/ TakeWakeup(w) \/ WakeupDone(w)

PeerStep ==
    \/ \E a \in Attempts : PeerAccepts(a) \/ PeerFails(a)
    \/ PeerLoses \/ PeerReceives

Next ==
    \/ \E c \in Callers : CallStep(c) \/ ScheduleStep(c)
    \/ \E w \in PoolWorkers : ScheduleStep(w) \/ PumpStep(w)
    \/ PeerStep \/ ClosePool
    \/ \E s \in kept : AppReleases(s)

Spec == Init /\ [][Next]_vars

-----------------------------------------------------------------------------
At(statements) == {t \in Threads : pc[t] \in statements}
InTick == At({"tick", "endSession", "clearSession"})
InPump == {w \in PoolWorkers :
              \/ pc[w] \in {"tick", "endSession", "clearSession", "dropFlag", "recheck",
                            "submitWakeup", "jobDone"}
              \/ ret[w] = "jobDone"}

(* Two threads never receive at once, however many pumps and wakeups there  *)
(* are and whoever calls what: mRawIngressWindowPackets and the order of    *)
(* packets rely on it and have no lock (ClientNetworkSystem.cpp:269-320).   *)
TickIsExclusive == \A t, u \in InTick : t = u

(* What will call scheduleIoPump or run the pump again.                     *)
Continuations ==
    ioJobs + wakeups
    + Cardinality(At({"schedule", "cas", "submitJob", "tick", "endSession", "clearSession",
                      "dropFlag", "recheck", "submitWakeup"}))

(* While a connection is wanted on an open pool the pump is not lost, from  *)
(* one attempt to the next and over restarts (.cpp:86-104, 285-336); unless *)
(* a connect met the end of the attempt before it, or the open pool refused *)
(* the pump, which then comes back with the next connect and not before     *)
(* (.cpp:295-297).                                                          *)
PumpNeverLost ==
    /\ mRunning /\ mIoPumpActive /\ poolOpen /\ ~crossed
    /\ ~refused /\ At({"unschedule"}) = {}
    => Continuations > 0

(* The peer has said that it accepted the connection l, and nobody has      *)
(* heard it yet, or the limits kept it from being heard.                    *)
Unheard(l) ==
    \/ l \in missed
    \/ \E i \in DOMAIN inbox : inbox[i].kind = "accepted" /\ inbox[i].of = l

(* disconnect and stop tear the session down while nobody receives, and     *)
(* leave no session, no connection that was heard of and no job of the pump *)
(* behind (.cpp:70-84, 106-115), until connect is called again; unless the  *)
(* calls met one they do not mix with.  A session that was replaced before  *)
(* it ended, because its loss went over the limits (.cpp:411-429), is the   *)
(* application's if it holds it, and has no connection.                     *)
DisconnectQuiesces ==
    ~crossed =>
       /\ quiet => /\ mSession = None /\ connected \subseteq kept
                   /\ link # None => link \notin connected /\ Unheard(link)
                   /\ ioJobs = 0 /\ InPump = {} /\ mPendingIoJobs = 0
       /\ \A c \in At({"teardown", "clear", "finish"}) :
             op[c] = "disconnect" \/ wasRunning[c] => InTick = {}
=============================================================================
