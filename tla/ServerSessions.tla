--------------------------- MODULE ServerSessions ---------------------------
(***************************************************************************)
(* The sessions of ServerNetworkSystem and the schedule of their flushes   *)
(* (src/sculk/protocol/connection/ServerNetworkSystem.cpp): the thread     *)
(* that receives packets creates a session per connection and hands its    *)
(* packets to the strand of the session; tasks on strands, the receiving   *)
(* thread and callers of disconnectClient all remove sessions, by GUID;    *)
(* the flush pump gives a session that is due a flush task, which          *)
(* schedules the next one.                                                 *)
(*                                                                         *)
(* A strand is what SerialExecutor promises as long as the pool refuses no *)
(* drain of it (TaskStrand): one task at a time, the tasks of one producer *)
(* in order.  mFlushScheduleCommands is a concurrent queue with the same   *)
(* order.  When an entry of the heap is due is left open.                  *)
(* RakPeer is seen through link: a client connects again only once its     *)
(* connection was lost or closed and, unless early, its last session was   *)
(* removed and nothing of it is under way any more.                        *)
(***************************************************************************)
EXTENDS Integers, Sequences, FiniteSets

CONSTANTS Guids, Workers, Clients, Io,
          Reconnects,       (* whether a client is back early: TRUE, FALSE or both *)
          MayRefuse,        (* may a strand refuse a task?                         *)
          MaxSessions,      (* bound: connections altogether                       *)
          MaxQueued,        (* bound: tasks of the receiving thread in a strand    *)
          MaxCommands,      (* bound: commands a caller of disconnectClient has    *)
                            (* queued at a time, early callers and others          *)
          MaxTokens         (* bound: flushes scheduled altogether                 *)

ASSUME ThreadsAssumption == Io \notin Workers \union Clients /\ Workers \intersect Clients = {}
ASSUME FlagsAssumption == Reconnects \subseteq BOOLEAN /\ MayRefuse \in BOOLEAN
ASSUME BoundsAssumption == MaxSessions \in Nat /\ MaxQueued \in Nat
                           /\ MaxCommands \in [BOOLEAN -> Nat] /\ MaxTokens \in Nat

Threads == Workers \union Clients \union {Io}
Sessions == 1..MaxSessions
None == 0     (* no session, no GUID, no token *)
ASSUME GuidsAssumption == None \notin Guids

VARIABLES
    mSessionContexts,   (* GUID -> its session, or None                       *)
    mConnected,         (* sessions that are connected                        *)
    guidOf,             (* session -> GUID; one entry per session created     *)
    link,               (* GUIDs RakPeer has a connection with                *)
    mFlushScheduleCommands, (* producer -> commands [mKind, mGuid] it queued  *)
    mFlushDueHeap,      (* entries [mGuid, mToken]                            *)
    mFlushDueTokens,    (* GUID -> token, or None                             *)
    mNextFlushToken,
    strand,             (* session -> producer -> tasks queued                *)
    thread,             (* thread -> [pc, guid, session, removed, why]        *)
    toldConnected,      (* sessions mOnConnected was called for               *)
    toldDisconnected,   (* session -> calls of mOnDisconnected for it         *)
    early,              (* a client may be back before its last session ended *)
    stray               (* GUIDs for which a call of disconnectClient began   *)
                        (* before their session was in the table              *)

schedule == <<mFlushScheduleCommands, mFlushDueHeap, mFlushDueTokens, mNextFlushToken>>
table    == <<mSessionContexts, mConnected, guidOf, link>>
told     == <<toldConnected, toldDisconnected>>
env      == <<told, early, stray>>
vars     == <<table, schedule, strand, thread, env>>

Idle == [pc |-> "idle", guid |-> None, session |-> None, removed |-> None, why |-> "none"]

Init ==
    /\ mSessionContexts = [g \in Guids |-> None]
    /\ mConnected = {} /\ guidOf = <<>> /\ link = {}
    /\ mFlushScheduleCommands = [t \in Threads |-> <<>>]
    /\ mFlushDueHeap = {}
    /\ mFlushDueTokens = [g \in Guids |-> None]
    /\ mNextFlushToken = 1
    /\ strand = [s \in Sessions |-> [t \in Threads |-> <<>>]]
    /\ thread = [t \in Threads |-> Idle]
    /\ toldConnected = {} /\ toldDisconnected = [s \in Sessions |-> 0]
    /\ early \in Reconnects
    /\ stray = {}

Step(t, from, to) == thread[t].pc = from /\ thread' = [thread EXCEPT ![t].pc = to]

(* A worker ends its task, the others their call.                           *)
Finish(t) == thread' = [thread EXCEPT ![t] = Idle]

(* TaskStrand::enqueue by t, and its refusal                                *)
Enqueue(t, s, task) == strand' = [strand EXCEPT ![s][t] = Append(@, task)]

(* scheduleSessionFlushAt and cancelSessionFlush                            *)
Command(t, kind, g) ==
    mFlushScheduleCommands' =
        [mFlushScheduleCommands EXCEPT ![t] = Append(@, [mKind |-> kind, mGuid |-> g])]

(* Session::disconnect, which closes the connection RakPeer has with the    *)
(* GUID of the session: once, by the first caller.                          *)
Disconnect(s) ==
    /\ mConnected' = mConnected \ {s}
    /\ link' = IF s \in mConnected THEN link \ {guidOf[s]} ELSE link

-----------------------------------------------------------------------------
(* processIncomingPacket                                                    *)
Created == DOMAIN guidOf

(* Nothing a thread of these does or did for the GUID is under way.         *)
Through(threads, g) ==
    \A t \in threads :
       /\ thread[t].guid # g
       /\ \A i \in DOMAIN mFlushScheduleCommands[t] : mFlushScheduleCommands[t][i].mGuid # g

(* The last session of the GUID was removed and nothing of it is under way; *)
(* the application may be about to disconnect the GUID all the same.        *)
Settled(g) ==
    /\ mSessionContexts[g] = None
    /\ \A e \in mFlushDueHeap : e.mGuid = g => mFlushDueTokens[g] # e.mToken
    /\ \A s \in Created : guidOf[s] = g => \A t \in Threads : strand[s][t] = <<>>
    /\ Through(Threads \ Clients, g)
    /\ \A c \in Clients : thread[c].guid = g => thread[c].pc \in {"cancel", "erase"}

IoConnect(g) ==
    /\ thread[Io] = Idle
    /\ g \notin link
    /\ early \/ Settled(g)
    /\ stray' = IF Through(Clients, g) THEN stray \ {g} ELSE stray \union {g}
    /\ Len(guidOf) < MaxSessions
    /\ guidOf' = Append(guidOf, g)
    /\ link' = link \union {g}
    /\ mConnected' = mConnected \union {Len(guidOf) + 1}
    /\ thread' = [thread EXCEPT ![Io] =
                    [Idle EXCEPT !.pc = "upsert", !.guid = g, !.session = Len(guidOf) + 1]]
    /\ UNCHANGED <<mSessionContexts, schedule, strand, told, early>>

(* <action>_<bug>: a plausible mistake in the action of that name, not part *)
(* of the machine; it shows that a property notices it.                     *)

(* The GUID is kept where the session should be. *)
IoUpsert_WrongValue ==
    /\ Step(Io, "upsert", "scheduleFirst")
    /\ mSessionContexts' = [mSessionContexts EXCEPT ![thread[Io].guid] = thread[Io].guid]
    /\ UNCHANGED <<mConnected, guidOf, link, schedule, strand, env>>

IoUpsert ==
    /\ Step(Io, "upsert", "scheduleFirst")
    /\ mSessionContexts' = [mSessionContexts EXCEPT ![thread[Io].guid] = thread[Io].session]
    /\ UNCHANGED <<mConnected, guidOf, link, schedule, strand, env>>

IoScheduleFirst ==
    /\ Step(Io, "scheduleFirst", "announce")
    /\ Command(Io, "Schedule", thread[Io].guid)
    /\ UNCHANGED <<table, mFlushDueHeap, mFlushDueTokens, mNextFlushToken, strand, env>>

(* mOnConnected on the strand, or at once when the strand refuses it.       *)
IoAnnounce ==
    /\ thread[Io].pc = "announce"
    /\ Finish(Io)
    /\ LET s == thread[Io].session
       IN \/ Enqueue(Io, s, "connected") /\ UNCHANGED told
          \/ /\ MayRefuse
             /\ toldConnected' = toldConnected \union {s}
             /\ UNCHANGED <<strand, toldDisconnected>>
    /\ UNCHANGED <<table, schedule, early, stray>>

(* A packet of a client: the notice that its connection is lost, one that   *)
(* will exceed a limit, or an empty one.  The context is looked up first;   *)
(* empty packets are dealt with at once, with no context by closing the     *)
(* connection.  The application may let packets beyond a limit pass.        *)
IoReceive(g, packet) ==
    /\ thread[Io] = Idle
    /\ g \in link
    /\ mSessionContexts[g] # None => Len(strand[mSessionContexts[g]][Io]) < MaxQueued
    /\ LET s == mSessionContexts[g]
       IN /\ link' = IF packet = "lost" \/ (packet = "empty" /\ s = None)
                     THEN link \ {g} ELSE link
          /\ thread' = IF s = None THEN thread
                       ELSE [thread EXCEPT ![Io] =
                               [Idle EXCEPT !.pc = IF packet = "empty" THEN "closeFirst" ELSE "pass",
                                            !.guid = g, !.session = s, !.why = packet]]
    /\ UNCHANGED <<mSessionContexts, mConnected, guidOf, schedule, strand, env>>

(* The strand takes the packet, or refuses it and the packet is dropped.    *)
IoPass ==
    /\ thread[Io].pc = "pass"
    /\ Finish(Io)
    /\ \/ Enqueue(Io, thread[Io].session, thread[Io].why)
       \/ MayRefuse /\ UNCHANGED strand
    /\ UNCHANGED <<table, schedule, env>>

IoCloseFirst ==
    /\ Step(Io, "closeFirst", "cancel")
    /\ Disconnect(thread[Io].session)
    /\ UNCHANGED <<mSessionContexts, guidOf, schedule, strand, env>>

-----------------------------------------------------------------------------
(* Removal: removeSessionContext cancels the flush and erases the context   *)
(* of the GUID; whoever got it disconnects it and reports it.  The          *)
(* application may call disconnectClient for any GUID at any time: also one *)
(* that is not in the table has its flush cancelled.                        *)
DisconnectClient(c, g) ==
    /\ thread[c] = Idle
    /\ Len(mFlushScheduleCommands[c]) < MaxCommands[early]      (* bound *)
    /\ stray' = IF mSessionContexts[g] = None THEN stray \union {g} ELSE stray
    /\ thread' = [thread EXCEPT ![c] = [Idle EXCEPT !.pc = "cancel", !.guid = g, !.why = "client"]]
    /\ UNCHANGED <<table, schedule, strand, told, early>>

RemoveCancel(t) ==
    /\ Step(t, "cancel", "erase")
    /\ Command(t, "Cancel", thread[t].guid)
    /\ UNCHANGED <<table, mFlushDueHeap, mFlushDueTokens, mNextFlushToken, strand, env>>

(* The context seen earlier is taken for the one erased. *)
RemoveErase_Remembered(t) ==
    /\ thread[t].pc = "erase"
    /\ LET g == thread[t].guid
           r == IF thread[t].session # None THEN thread[t].session ELSE mSessionContexts[g]
       IN /\ mSessionContexts' = [mSessionContexts EXCEPT ![g] = None]
          /\ IF thread[t].why = "empty" \/ (thread[t].why = "client" /\ r = None)
             THEN Finish(t)
             ELSE thread' = [thread EXCEPT ![t].pc = "close", ![t].removed = r]
    /\ UNCHANGED <<mConnected, guidOf, link, schedule, strand, env>>

RemoveErase(t) ==
    /\ thread[t].pc = "erase"
    /\ LET g == thread[t].guid
           r == mSessionContexts[g]
       IN /\ mSessionContexts' = [mSessionContexts EXCEPT ![g] = None]
          /\ IF thread[t].why = "empty" \/ (thread[t].why = "client" /\ r = None)
             THEN Finish(t)
             ELSE thread' = [thread EXCEPT ![t].pc = "close", ![t].removed = r]
    /\ UNCHANGED <<mConnected, guidOf, link, schedule, strand, env>>

(* Who gets no context disconnects nothing. *)
RemoveClose_OwnOnly(t) ==
    /\ thread[t].pc = "close"
    /\ IF thread[t].session # None THEN Disconnect(thread[t].session) ELSE UNCHANGED <<mConnected, link>>
    /\ IF thread[t].removed # None /\ thread[t].why \in {"client", "lost"}
       THEN thread' = [thread EXCEPT ![t].pc = "report"]
       ELSE Finish(t)
    /\ UNCHANGED <<mSessionContexts, guidOf, schedule, strand, env>>

(* A limit that was exceeded is not reported through mOnDisconnected.       *)
RemoveClose(t) ==
    /\ thread[t].pc = "close"
    /\ Disconnect(IF thread[t].removed # None THEN thread[t].removed ELSE thread[t].session)
    /\ IF thread[t].removed # None /\ thread[t].why \in {"client", "lost"}
       THEN thread' = [thread EXCEPT ![t].pc = "report"]
       ELSE Finish(t)
    /\ UNCHANGED <<mSessionContexts, guidOf, schedule, strand, env>>

RemoveReport(t) ==
    /\ thread[t].pc = "report"
    /\ Finish(t)
    /\ LET r == thread[t].removed
       IN \/ Enqueue(t, r, "disconnected") /\ UNCHANGED toldDisconnected
          \/ /\ MayRefuse
             /\ toldDisconnected' = [toldDisconnected EXCEPT ![r] = @ + 1]
             /\ UNCHANGED strand
    /\ UNCHANGED <<table, schedule, toldConnected, early, stray>>

-----------------------------------------------------------------------------
(* Tasks of a strand: processSessionPacket, the callbacks and flushes.      *)
(* Limits are looked at before the kind of the packet: a notice of loss     *)
(* beyond a limit ends the session as any such packet does, or is ignored   *)
(* when the application lets it pass.                                       *)
InStrand(s) == \E w \in Workers : thread[w].pc # "idle" /\ thread[w].session = s
                                    /\ thread[w].why \in {"lost", "over", "flush"}

TaskBegin(w, s, t) ==
    /\ thread[w] = Idle
    /\ ~InStrand(s)
    /\ strand[s][t] # <<>>
    /\ strand' = [strand EXCEPT ![s][t] = Tail(@)]
    /\ LET task == Head(strand[s][t])
           Do(pc, why) == thread' = [thread EXCEPT ![w] =
               [Idle EXCEPT !.pc = pc, !.guid = guidOf[s], !.session = s, !.why = why]]
       IN \/ task = "connected" /\ toldConnected' = toldConnected \union {s}
             /\ UNCHANGED <<toldDisconnected, thread>>
          \/ task = "disconnected"
             /\ toldDisconnected' = [toldDisconnected EXCEPT ![s] = @ + 1]
             /\ UNCHANGED <<toldConnected, thread>>
          \/ task = "flush" /\ Do("flush", task) /\ UNCHANGED told
          \/ task = "lost" /\ Do("cancel", "lost") /\ UNCHANGED told
          \/ task \in {"lost", "over"} /\ Do("cancel", "over") /\ UNCHANGED told
          \/ task \in {"lost", "over"} /\ UNCHANGED <<thread, told>>
    /\ UNCHANGED <<table, schedule, early, stray>>

(* After flushIfDue: is the session still connected? *)
FlushTask(w) ==
    /\ Step(w, "flush", IF thread[w].session \in mConnected THEN "again" ELSE "never")
    /\ UNCHANGED <<table, schedule, strand, env>>

(* The flush is not scheduled again. *)
FlushCommand_Forgets(w) ==
    /\ thread[w].pc \in {"again", "never"}
    /\ Finish(w)
    /\ Command(w, "Cancel", thread[w].guid)
    /\ UNCHANGED <<table, mFlushDueHeap, mFlushDueTokens, mNextFlushToken, strand, env>>

FlushCommand(w) ==
    /\ thread[w].pc \in {"again", "never"}
    /\ Finish(w)
    /\ Command(w, IF thread[w].pc = "again" THEN "Schedule" ELSE "Cancel", thread[w].guid)
    /\ UNCHANGED <<table, mFlushDueHeap, mFlushDueTokens, mNextFlushToken, strand, env>>

-----------------------------------------------------------------------------
(* applyFlushScheduleCommandUnlocked, by the pump at the beginning of a     *)
(* turn, and by anyone else whose command finds no room in the queue: it    *)
(* drains the queue and applies its command then, which is to queue the     *)
(* command and to drain the queue at once.                                  *)
DrainCommand(t) ==
    /\ mFlushScheduleCommands[t] # <<>>
    /\ Head(mFlushScheduleCommands[t]).mKind = "Schedule" => mNextFlushToken <= MaxTokens
    /\ mFlushScheduleCommands' = [mFlushScheduleCommands EXCEPT ![t] = Tail(@)]
    /\ LET command == Head(mFlushScheduleCommands[t])
           g == command.mGuid
       IN IF command.mKind = "Schedule"
          THEN /\ mFlushDueTokens' = [mFlushDueTokens EXCEPT ![g] = mNextFlushToken]
               /\ mFlushDueHeap' =
                     mFlushDueHeap \union {[mGuid |-> g, mToken |-> mNextFlushToken]}
               /\ mNextFlushToken' = mNextFlushToken + 1
          ELSE /\ mFlushDueTokens' = [mFlushDueTokens EXCEPT ![g] = None]
               /\ UNCHANGED <<mFlushDueHeap, mNextFlushToken>>
    /\ UNCHANGED <<table, strand, thread, env>>

-----------------------------------------------------------------------------
(* flushTickOnce; the pump is one (ServerLifecycle)                         *)
InTick == {"drain", "lookup", "check", "give", "refused", "tickAgain", "tickCancel"}

TickBegin(w) ==
    /\ thread[w] = Idle
    /\ \A v \in Workers : thread[v].pc \notin InTick
    /\ mFlushDueHeap # {} \/ \E t \in Threads : mFlushScheduleCommands[t] # <<>>
    /\ thread' = [thread EXCEPT ![w] = [Idle EXCEPT !.pc = "drain"]]
    /\ UNCHANGED <<table, schedule, strand, env>>

(* The token of an entry is not looked at. *)
TickPop_AnyToken(w, e) ==
    /\ thread[w].pc = "drain"
    /\ e \in mFlushDueHeap
    /\ mFlushDueHeap' = mFlushDueHeap \ {e}
    /\ thread' = [thread EXCEPT ![w].pc = "lookup", ![w].guid = e.mGuid]
    /\ UNCHANGED <<table, mFlushScheduleCommands, mFlushDueTokens, mNextFlushToken, strand, env>>

(* An entry whose token is not the one of its GUID was superseded.  What is *)
(* queued after the drain of the turn is not seen.                          *)
TickPop(w, e) ==
    /\ thread[w].pc = "drain"
    /\ e \in mFlushDueHeap
    /\ mFlushDueHeap' = mFlushDueHeap \ {e}
    /\ thread' = IF mFlushDueTokens[e.mGuid] = e.mToken
                 THEN [thread EXCEPT ![w].pc = "lookup", ![w].guid = e.mGuid]
                 ELSE thread
    /\ UNCHANGED <<table, mFlushScheduleCommands, mFlushDueTokens, mNextFlushToken, strand, env>>

(* Nothing (more) is due, or the budget of the tick is spent.               *)
TickEnd(w) ==
    /\ thread[w].pc = "drain"
    /\ Finish(w)
    /\ UNCHANGED <<table, schedule, strand, env>>

(* The schedule keeps a GUID that has no session. *)
TickLookup_NoCancel(w) ==
    /\ thread[w].pc = "lookup"
    /\ LET s == mSessionContexts[thread[w].guid]
       IN thread' = IF s = None THEN [thread EXCEPT ![w] = [Idle EXCEPT !.pc = "drain"]]
                    ELSE [thread EXCEPT ![w].pc = "check", ![w].session = s]
    /\ UNCHANGED <<table, schedule, strand, env>>

TickLookup(w) ==
    /\ thread[w].pc = "lookup"
    /\ LET s == mSessionContexts[thread[w].guid]
       IN thread' = IF s = None THEN [thread EXCEPT ![w].pc = "tickCancel"]
                    ELSE [thread EXCEPT ![w].pc = "check", ![w].session = s]
    /\ UNCHANGED <<table, schedule, strand, env>>

TickCheck(w) ==
    /\ \/ Step(w, "check", IF thread[w].session \in mConnected THEN "give" ELSE "tickCancel")
       \/ Step(w, "refused", IF thread[w].session \in mConnected THEN "tickAgain" ELSE "tickCancel")
    /\ UNCHANGED <<table, schedule, strand, env>>

NextEntry(w) == thread' = [thread EXCEPT ![w] = [Idle EXCEPT !.pc = "drain"]]

TickGive(w) ==
    /\ thread[w].pc = "give"
    /\ \/ Enqueue(w, thread[w].session, "flush") /\ NextEntry(w)
       \/ MayRefuse /\ thread' = [thread EXCEPT ![w].pc = "refused"] /\ UNCHANGED strand
    /\ UNCHANGED <<table, schedule, env>>

TickCommand(w) ==
    /\ thread[w].pc \in {"tickAgain", "tickCancel"}
    /\ NextEntry(w)
    /\ Command(w, IF thread[w].pc = "tickAgain" THEN "Schedule" ELSE "Cancel", thread[w].guid)
    /\ UNCHANGED <<table, mFlushDueHeap, mFlushDueTokens, mNextFlushToken, strand, env>>

(* ~Session, once nothing refers to the session any more. *)
Held(s) ==
    \/ \E g \in Guids : mSessionContexts[g] = s
    \/ \E t \in Threads : strand[s][t] # <<>>
    \/ \E t \in Threads : s \in {thread[t].session, thread[t].removed}

Destroy(s) ==
    /\ s \in mConnected /\ ~Held(s)
    /\ Disconnect(s)
    /\ UNCHANGED <<mSessionContexts, guidOf, schedule, strand, thread, env>>

-----------------------------------------------------------------------------
IoStep ==
    \/ \E g \in Guids : IoConnect(g) \/ \E p \in {"lost", "over", "empty"} : IoReceive(g, p)
    \/ IoUpsert \/ IoScheduleFirst \/ IoAnnounce \/ IoPass \/ IoCloseFirst

RemoveStep(t) == RemoveCancel(t) \/ RemoveErase(t) \/ RemoveClose(t) \/ RemoveReport(t)

StrandStep(w) ==
    \/ \E s \in Sessions, t \in Threads : TaskBegin(w, s, t)
    \/ FlushTask(w) \/ FlushCommand(w)

TickStep(w) ==
    \/ TickBegin(w) \/ TickLookup(w) \/ TickCheck(w) \/ TickGive(w) \/ TickCommand(w)
    \/ \E e \in mFlushDueHeap : TickPop(w, e)
    \/ TickEnd(w)

Next ==
    \/ IoStep
    \/ \E c \in Clients, g \in Guids : DisconnectClient(c, g)
    \/ \E t \in Threads : RemoveStep(t) \/ DrainCommand(t)
    \/ \E w \in Workers : StrandStep(w) \/ TickStep(w)
    \/ \E s \in Sessions : Destroy(s)

Spec == Init /\ [][Next]_vars

-----------------------------------------------------------------------------
Commands == [mKind : {"Schedule", "Cancel"}, mGuid : Guids]

TypeOK ==
    /\ mSessionContexts \in [Guids -> Sessions \union {None}]
    /\ mConnected \subseteq Sessions
    /\ guidOf \in Seq(Guids) /\ Len(guidOf) <= MaxSessions
    /\ link \subseteq Guids
    /\ mFlushScheduleCommands \in [Threads -> Seq(Commands)]
    /\ mFlushDueHeap \subseteq [mGuid : Guids, mToken : 1..MaxTokens]
    /\ mFlushDueTokens \in [Guids -> 0..MaxTokens]
    /\ mNextFlushToken \in 1..(MaxTokens + 1)
    /\ strand \in [Sessions -> [Threads -> Seq({"connected", "disconnected", "lost", "over", "flush"})]]
    /\ thread \in [Threads ->
          [pc : InTick \union {"idle", "upsert", "scheduleFirst", "announce", "pass", "closeFirst",
                               "cancel", "erase", "close", "report", "flush", "again", "never"},
           guid : Guids \union {None}, session : Sessions \union {None},
           removed : Sessions \union {None},
           why : {"none", "client", "lost", "over", "empty", "flush"}]]
    /\ early \in Reconnects
    /\ toldConnected \subseteq Sessions
    /\ toldDisconnected \in [Sessions -> Nat]
    /\ stray \subseteq Guids

(* Where the next flush of a GUID, or of a session, is: in a command, in    *)
(* the heap, in the hands of the pump, or in the strand.                    *)
CommandsFor(kind, g) ==
    UNION {{t} \X {i \in DOMAIN mFlushScheduleCommands[t] :
                      mFlushScheduleCommands[t][i] = [mKind |-> kind, mGuid |-> g]} : t \in Threads}
LiveEntries(g) == {e \in mFlushDueHeap : e.mGuid = g /\ mFlushDueTokens[g] = e.mToken}
InHand(g) == {w \in Workers : thread[w].guid = g /\
                 thread[w].pc \in {"lookup", "check", "give", "refused", "tickAgain", "flush", "again"}}
TasksOf(s, task) ==
    UNION {{t} \X {i \in DOMAIN strand[s][t] : strand[s][t][i] = task} : t \in Threads}
FlushTasks(s) == TasksOf(s, "flush")

Flushes(s) ==
    Cardinality(CommandsFor("Schedule", guidOf[s])) + Cardinality(LiveEntries(guidOf[s]))
    + Cardinality(InHand(guidOf[s])) + Cardinality(FlushTasks(s))

(* The session is in the table, connected, and nobody is adding or removing *)
(* it.                                                                      *)
Established(s) ==
    /\ s \in mConnected /\ mSessionContexts[guidOf[s]] = s
    /\ \A t \in Threads : thread[t].guid = guidOf[s] =>
          thread[t].pc \notin {"upsert", "scheduleFirst", "cancel", "erase"}

(* The flush schedule never forgets an established session: what it sends   *)
(* would stay in its queue for ever (.cpp:303-372, 534-605, 965-977).  Not  *)
(* so when the application called disconnectClient for the GUID before the  *)
(* session was in the table: the call finds nobody to disconnect, and yet   *)
(* the Cancel it queued can come after the first Schedule of the session    *)
(* (.cpp:499-503, 967).                                                     *)
FlushNeverLost ==
    ~early => \A s \in Created : Established(s) /\ guidOf[s] \notin stray => Flushes(s) > 0

(* A session is flushed along one line: its flushes do not multiply, and no *)
(* two of its flush tasks are queued at once (.cpp:557-561, 582).           *)
OneFlush == ~early => \A s \in Created : Established(s) => Flushes(s) <= 1

(* A GUID that has no session keeps no token for ever: a live entry, a      *)
(* command or a thread on its way will erase it (.cpp:568-571, 590, 967).   *)
NoTokenLeak ==
    \A g \in Guids :
       mFlushDueTokens[g] # None /\ mSessionContexts[g] = None =>
          \/ LiveEntries(g) # {}
          \/ CommandsFor("Schedule", g) \union CommandsFor("Cancel", g) # {}
          \/ \E t \in Threads : thread[t].guid = g
          \/ \E s \in Created : guidOf[s] = g /\ FlushTasks(s) # {}

(* However many threads remove a session at once, mOnDisconnected is called *)
(* for it at most once (.cpp:499-516, 880-901, 965-977).                    *)
ReportedOnce ==
    \A s \in Created :
       toldDisconnected[s]
       + Cardinality({t \in Threads : thread[t].pc = "report" /\ thread[t].removed = s})
       + Cardinality(TasksOf(s, "disconnected")) <= 1

(* A session that is connected is in the table or about to be put there, or *)
(* the thread that took it out is about to disconnect it: none is left to   *)
(* its destructor (.cpp:499-506, 736-745, 833-840, 880-885).                *)
RemovedIsClosed ==
    ~early => \A s \in mConnected :
       \/ mSessionContexts[guidOf[s]] = s
       \/ thread[Io].pc = "upsert" /\ thread[Io].session = s
       \/ \E t \in Threads : thread[t].pc = "close" /\ thread[t].removed = s

(* "Sets the callback invoked when a client disconnects."                   *)
(* (ServerNetworkSystem.hpp:135): it has been called, or will be, for every *)
(* announced session that was removed and disconnected.                     *)
EveryDisconnectReported ==
    \A s \in toldConnected \ mConnected :
       \/ mSessionContexts[guidOf[s]] = s
       \/ \E t \in Threads : s \in {thread[t].session, thread[t].removed}
       \/ \E t \in Threads : strand[s][t] # <<>>
       \/ toldDisconnected[s] > 0
=============================================================================
