------------------------- MODULE ServerSessionsProofs -------------------------
(***************************************************************************)
(* Theorems about ServerSessions, for any GUIDs, workers and callers of    *)
(* disconnectClient, and any bounds; and about the due times of FlushDue.  *)
(***************************************************************************)
EXTENDS ServerSessions, FlushDue, FiniteSetTheorems, SequenceTheorems, TLAPS

-----------------------------------------------------------------------------
(* The shape of a state: what a thread knows at each of its statements.     *)
Of(s, g) == s \in Created /\ guidOf[s] = g

IoStatements == {"upsert", "scheduleFirst", "announce", "pass", "closeFirst"}
Removing == {"cancel", "erase", "close", "report"}
Flushing == {"flush", "again", "never"}
WithSession == IoStatements \union Flushing \union {"check", "give", "refused", "tickAgain"}

Records ==
    [pc : InTick \union IoStatements \union Removing \union Flushing \union {"idle"},
     guid : Guids \union {None}, session : Sessions \union {None},
     removed : Sessions \union {None},
     why : {"none", "client", "lost", "over", "empty", "flush"}]

RecordOK(t, r) ==
    /\ r \in Records
    /\ r.pc = "idle" => r = Idle
    /\ r.pc = "drain" => r = [Idle EXCEPT !.pc = "drain"]
    /\ r.pc \notin {"idle", "drain"} => r.guid \in Guids
    /\ r.pc \in IoStatements => t = Io
    /\ r.pc \in InTick \union Flushing => t \in Workers
    /\ r.pc \in WithSession => Of(r.session, r.guid)
    /\ r.pc \in Removing =>
          \/ r.why = "client" /\ r.session = None
          \/ r.why \in {"lost", "over", "empty"} /\ Of(r.session, r.guid)
    /\ r.why = "empty" => t = Io
    /\ r.pc = "closeFirst" => r.why = "empty"
    /\ r.pc = "pass" => r.why \in {"lost", "over"}
    /\ r.pc \in {"close", "report"} =>
          r.why # "empty" /\ (r.removed # None => Of(r.removed, r.guid))
    /\ r.pc = "close" /\ r.why = "client" => r.removed # None
    /\ r.pc = "report" => r.removed # None
    /\ r.pc \notin {"close", "report"} => r.removed = None

TableTypes ==
    /\ mSessionContexts \in [Guids -> Sessions \union {None}]
    /\ mConnected \subseteq Sessions
    /\ guidOf \in Seq(Guids) /\ Len(guidOf) <= MaxSessions
    /\ link \subseteq Guids
ScheduleTypes ==
    /\ mFlushScheduleCommands \in [Threads -> Seq(Commands)]
    /\ mFlushDueHeap \subseteq [mGuid : Guids, mToken : 1..MaxTokens]
    /\ mFlushDueTokens \in [Guids -> 0..MaxTokens]
    /\ mNextFlushToken \in 1..(MaxTokens + 1)
StrandTypes ==
    strand \in [Sessions -> [Threads -> Seq({"connected", "disconnected", "lost", "over", "flush"})]]
ToldTypes ==
    /\ early \in Reconnects
    /\ toldConnected \subseteq Sessions
    /\ toldDisconnected \in [Sessions -> Nat]
    /\ stray \subseteq Guids
ThreadsOK ==
    /\ thread \in [Threads -> Records]
    /\ \A t \in Threads : RecordOK(t, thread[t])

(* Only sessions that were created are in the table, connected or at work.  *)
KnownTable ==
    /\ \A g \in Guids : mSessionContexts[g] # None => Of(mSessionContexts[g], g)
    /\ mConnected \subseteq Created
KnownStrands == \A s \in Sessions \ Created : \A t \in Threads : strand[s][t] = <<>>

Shape == /\ TableTypes /\ ScheduleTypes /\ StrandTypes /\ ToldTypes /\ ThreadsOK
         /\ KnownTable /\ KnownStrands

LEMMA CreatedSessions ==
    ASSUME TableTypes
    PROVE  /\ Created = 1..Len(guidOf) /\ Created \subseteq Sessions /\ None \notin Created
           /\ \A s \in Created : guidOf[s] \in Guids
<1>1. guidOf \in Seq(Guids) /\ Len(guidOf) \in Nat /\ Len(guidOf) <= MaxSessions
  BY DEF TableTypes
<1>2. Created = 1..Len(guidOf)
  BY <1>1 DEF Created
<1>3. \A s \in Created : guidOf[s] \in Guids
  BY <1>1, <1>2
<1> QED BY <1>1, <1>2, <1>3, BoundsAssumption DEF Sessions, None

LEMMA InitShape == Init => Shape
<1> SUFFICES ASSUME Init PROVE Shape
  OBVIOUS
<1>1. TableTypes
  BY BoundsAssumption DEF Init, TableTypes, None
<1>2. ScheduleTypes
  BY BoundsAssumption DEF Init, ScheduleTypes, None
<1>3. StrandTypes /\ ToldTypes
  BY DEF Init, StrandTypes, ToldTypes
<1>4. ThreadsOK
  <2>1. Idle \in Records
    BY DEF Idle, Records, None
  <2>2. \A t \in Threads : RecordOK(t, Idle)
    BY <2>1 DEF RecordOK, Idle, WithSession, IoStatements, Removing, Flushing, InTick, None
  <2> QED BY <2>1, <2>2 DEF Init, ThreadsOK
<1>5. KnownTable /\ KnownStrands
  BY DEF Init, KnownTable, KnownStrands, None, Created
<1> QED BY <1>1, <1>2, <1>3, <1>4, <1>5 DEF Shape

(* A thread moves, and sessions stay what they are.                         *)
LEMMA ThreadStep ==
    ASSUME ThreadsOK, NEW t \in Threads, NEW r, RecordOK(t, r),
           thread' = [thread EXCEPT ![t] = r], guidOf' = guidOf
    PROVE  ThreadsOK'
<1>1. \A u \in Threads : RecordOK(u, thread'[u])
  BY DEF ThreadsOK
<1>2. \A u, x : RecordOK(u, x)' <=> RecordOK(u, x)
  BY DEF RecordOK, Of, Created
<1>3. r \in Records
  BY DEF RecordOK
<1> QED BY <1>1, <1>2, <1>3 DEF ThreadsOK

LEMMA ThreadsStay == ASSUME ThreadsOK, UNCHANGED <<thread, guidOf>> PROVE ThreadsOK'
<1>1. \A u, x : RecordOK(u, x)' <=> RecordOK(u, x)
  BY DEF RecordOK, Of, Created
<1> QED BY <1>1 DEF ThreadsOK

(* What of the shape a step leaves alone.                                   *)
LEMMA TableStays ==
    ASSUME Shape, UNCHANGED <<mSessionContexts, guidOf>>, mConnected' \subseteq mConnected,
           link' \subseteq link
    PROVE  TableTypes' /\ KnownTable'
<1>1. TableTypes /\ KnownTable
  BY DEF Shape
<1>2. TableTypes'
  BY <1>1 DEF TableTypes
<1>3. KnownTable'
  BY <1>1 DEF KnownTable, Of, Created
<1> QED BY <1>2, <1>3

LEMMA ScheduleStays ==
    ASSUME Shape, UNCHANGED schedule
    PROVE  ScheduleTypes'
<1>1. ScheduleTypes
  BY DEF Shape
<1> QED BY <1>1 DEF ScheduleTypes, schedule

LEMMA StrandsStay ==
    ASSUME Shape, UNCHANGED <<strand, guidOf>>
    PROVE  StrandTypes' /\ KnownStrands'
<1>1. StrandTypes /\ KnownStrands
  BY DEF Shape
<1> QED BY <1>1 DEF StrandTypes, KnownStrands, Created

LEMMA ToldStays ==
    ASSUME Shape, UNCHANGED env
    PROVE  ToldTypes'
<1>1. ToldTypes
  BY DEF Shape
<1> QED BY <1>1 DEF ToldTypes, env, told

LEMMA CommandTypes ==
    ASSUME Shape, NEW t \in Threads, NEW kind \in {"Schedule", "Cancel"}, NEW g \in Guids,
           Command(t, kind, g), UNCHANGED <<mFlushDueHeap, mFlushDueTokens, mNextFlushToken>>
    PROVE  ScheduleTypes'
<1>1. ScheduleTypes
  BY DEF Shape
<1>2. [mKind |-> kind, mGuid |-> g] \in Commands
  BY DEF Commands
<1>3. Append(mFlushScheduleCommands[t], [mKind |-> kind, mGuid |-> g]) \in Seq(Commands)
  BY <1>1, <1>2 DEF ScheduleTypes
<1>4. mFlushScheduleCommands' \in [Threads -> Seq(Commands)]
  BY <1>1, <1>3 DEF ScheduleTypes, Command
<1> QED BY <1>1, <1>4 DEF ScheduleTypes

LEMMA EnqueueTypes ==
    ASSUME Shape, NEW t \in Threads, NEW s \in Created,
           NEW task \in {"connected", "disconnected", "lost", "over", "flush"},
           Enqueue(t, s, task), guidOf' = guidOf
    PROVE  StrandTypes' /\ KnownStrands'
<1>1. StrandTypes /\ KnownStrands /\ s \in Sessions
  BY CreatedSessions DEF Shape
<1>2. Append(strand[s][t], task) \in Seq({"connected", "disconnected", "lost", "over", "flush"})
  BY <1>1 DEF StrandTypes
<1>3. StrandTypes'
  BY <1>1, <1>2 DEF StrandTypes, Enqueue
<1>4. KnownStrands'
  BY <1>1 DEF StrandTypes, KnownStrands, Enqueue, Created
<1> QED BY <1>3, <1>4

(* A thread that finishes, or goes on to the next entry, is well.           *)
LEMMA IdleIsOK ==
    \A t \in Threads : /\ RecordOK(t, Idle)
                       /\ t \in Workers => RecordOK(t, [Idle EXCEPT !.pc = "drain"])
<1>1. Idle \in Records /\ [Idle EXCEPT !.pc = "drain"] \in Records
  BY DEF Idle, Records, None, InTick
<1> QED BY <1>1 DEF RecordOK, Idle, WithSession, IoStatements, Removing, Flushing, InTick, None

LEMMA FinishKeeps ==
    ASSUME Shape, NEW t \in Threads, Finish(t), guidOf' = guidOf
    PROVE  ThreadsOK'
<1>1. ThreadsOK /\ RecordOK(t, Idle)
  BY IdleIsOK DEF Shape
<1> QED BY <1>1, ThreadStep DEF Finish

LEMMA NextEntryKeeps ==
    ASSUME Shape, NEW w \in Workers, NextEntry(w), guidOf' = guidOf
    PROVE  ThreadsOK'
<1>1. w \in Threads
  BY DEF Threads
<1>2. ThreadsOK /\ RecordOK(w, [Idle EXCEPT !.pc = "drain"])
  BY <1>1, IdleIsOK DEF Shape
<1> QED BY <1>1, <1>2, ThreadStep DEF NextEntry

(* A step of one thread that keeps the sessions' table.                     *)
LEMMA PlainStep ==
    ASSUME Shape, ThreadsOK', ScheduleTypes', StrandTypes' /\ KnownStrands', ToldTypes',
           UNCHANGED <<mSessionContexts, guidOf>>, mConnected' \subseteq mConnected,
           link' \subseteq link
    PROVE  Shape'
BY TableStays DEF Shape

(* processIncomingPacket (ServerNetworkSystem.cpp:700-860).                 *)
LEMMA IoConnectShape ==
    ASSUME Shape, NEW g \in Guids, IoConnect(g)
    PROVE  Shape'
<1>n. PICK n : n = Len(guidOf) + 1
  OBVIOUS
<1> DEFINE r == [Idle EXCEPT !.pc = "upsert", !.guid = g, !.session = n]
<1>0. /\ TableTypes /\ ThreadsOK /\ KnownTable /\ KnownStrands /\ StrandTypes
      /\ Len(guidOf) \in Nat /\ Len(guidOf) < MaxSessions
  BY DEF Shape, IoConnect, TableTypes
<1>1. /\ guidOf' = Append(guidOf, g) /\ link' = link \union {g}
      /\ mConnected' = mConnected \union {n} /\ thread' = [thread EXCEPT ![Io] = r]
      /\ UNCHANGED <<mSessionContexts, schedule, strand, told, early>>
      /\ stray' \subseteq stray \union {g}
  BY <1>n DEF IoConnect
<1>2. /\ n \in Sessions /\ n # None /\ n \notin Created
      /\ Created' = Created \union {n}
      /\ \A s \in Created : guidOf'[s] = guidOf[s]
      /\ guidOf'[n] = g
  <2>1. Created = 1..Len(guidOf) /\ n \in Nat /\ n # 0 /\ guidOf \in Seq(Guids)
    BY <1>0, <1>n, CreatedSessions DEF TableTypes
  <2>2. Len(guidOf') = n /\ guidOf' \in Seq(Guids)
    BY <1>1, <1>n, <2>1
  <2>3. Created' = 1..n
    BY <2>2 DEF Created
  <2>4. \A s \in 1..Len(guidOf) : guidOf'[s] = guidOf[s]
    BY <1>1, <2>1
  <2>5. guidOf'[n] = g
    BY <1>1, <1>n, <2>1
  <2> QED BY <1>0, <1>n, <2>1, <2>3, <2>4, <2>5, BoundsAssumption DEF Sessions, None
<1>3. TableTypes'
  <2>1. guidOf' \in Seq(Guids) /\ Len(guidOf') <= MaxSessions
    BY <1>0, <1>1, BoundsAssumption DEF TableTypes
  <2> QED BY <1>0, <1>1, <1>2, <2>1 DEF TableTypes
<1>4. \A s, x : Of(s, x) => Of(s, x)'
  BY <1>2 DEF Of
<1>5. KnownTable'
  BY <1>0, <1>1, <1>2, <1>4 DEF KnownTable
<1>6. KnownStrands'
  BY <1>0, <1>1, <1>2 DEF KnownStrands
<1>7. ThreadsOK'
  <2>1. \A u, x : RecordOK(u, x) => RecordOK(u, x)'
    BY <1>4 DEF RecordOK
  <2>2. r \in Records
    BY <1>2 DEF Records, Idle, IoStatements, None
  <2>3. RecordOK(Io, r)'
    <3>1. Of(n, g)'
      BY <1>2 DEF Of
    <3> QED BY <2>2, <3>1
            DEF RecordOK, Idle, WithSession, IoStatements, Removing, Flushing, InTick, None
  <2> HIDE DEF r
  <2> QED BY <1>0, <1>1, <2>1, <2>2, <2>3 DEF ThreadsOK
<1>8. ScheduleTypes' /\ ToldTypes'
  BY <1>1, ScheduleStays DEF Shape, ToldTypes, told
<1>9. StrandTypes'
  BY <1>0, <1>1 DEF StrandTypes
<1> QED BY <1>3, <1>5, <1>6, <1>7, <1>8, <1>9 DEF Shape

LEMMA IoUpsertShape ==
    ASSUME Shape, IoUpsert
    PROVE  Shape'
<1>0. /\ Io \in Threads /\ ThreadsOK /\ TableTypes /\ KnownTable
      /\ RecordOK(Io, thread[Io]) /\ thread[Io].pc = "upsert"
  BY DEF Shape, ThreadsOK, IoUpsert, Step, Threads
<1>1. Of(thread[Io].session, thread[Io].guid) /\ thread[Io].guid \in Guids
      /\ thread[Io].session \in Sessions
  BY <1>0, CreatedSessions DEF RecordOK, WithSession, IoStatements, Of
<1>2. RecordOK(Io, [thread[Io] EXCEPT !.pc = "scheduleFirst"])
  BY <1>0 DEF RecordOK, Records, WithSession, IoStatements, Removing, Flushing, InTick
<1>3. ThreadsOK'
  BY <1>0, <1>2, ThreadStep DEF IoUpsert, Step
<1>4. TableTypes' /\ KnownTable'
  <2>1. TableTypes'
    BY <1>0, <1>1 DEF IoUpsert, TableTypes
  <2>2. KnownTable'
    BY <1>0, <1>1 DEF IoUpsert, TableTypes, KnownTable, Of, Created
  <2> QED BY <2>1, <2>2
<1>5. ScheduleTypes' /\ ToldTypes' /\ StrandTypes' /\ KnownStrands'
  BY ScheduleStays, ToldStays, StrandsStay DEF IoUpsert
<1> QED BY <1>3, <1>4, <1>5 DEF Shape

LEMMA IoScheduleFirstShape ==
    ASSUME Shape, IoScheduleFirst
    PROVE  Shape'
<1>0. /\ Io \in Threads /\ ThreadsOK
      /\ RecordOK(Io, thread[Io]) /\ thread[Io].pc = "scheduleFirst"
  BY DEF Shape, ThreadsOK, IoScheduleFirst, Step, Threads
<1>1. thread[Io].guid \in Guids
  BY <1>0 DEF RecordOK
<1>2. RecordOK(Io, [thread[Io] EXCEPT !.pc = "announce"])
  BY <1>0 DEF RecordOK, Records, WithSession, IoStatements, Removing, Flushing, InTick
<1>3. ThreadsOK'
  BY <1>0, <1>2, ThreadStep DEF IoScheduleFirst, Step, table
<1>4. ScheduleTypes'
  BY <1>0, <1>1, CommandTypes DEF IoScheduleFirst
<1>5. ToldTypes' /\ StrandTypes' /\ KnownStrands'
  BY ToldStays, StrandsStay DEF IoScheduleFirst, table
<1> QED BY <1>3, <1>4, <1>5, PlainStep DEF IoScheduleFirst, table

LEMMA IoAnnounceShape ==
    ASSUME Shape, IoAnnounce
    PROVE  Shape'
<1>0. /\ Io \in Threads /\ RecordOK(Io, thread[Io]) /\ thread[Io].pc = "announce"
      /\ UNCHANGED <<table, schedule, early>> /\ Finish(Io)
  BY DEF Shape, ThreadsOK, IoAnnounce, Threads
<1>1. thread[Io].session \in Created /\ thread[Io].session \in Sessions
  BY <1>0, CreatedSessions DEF Shape, RecordOK, WithSession, IoStatements, Of
<1>2. ThreadsOK'
  BY <1>0, FinishKeeps DEF table
<1>3. StrandTypes' /\ KnownStrands'
  BY <1>0, <1>1, EnqueueTypes, StrandsStay DEF IoAnnounce, table
<1>4. ToldTypes'
  BY <1>1 DEF Shape, ToldTypes, IoAnnounce, told
<1> QED BY <1>0, <1>2, <1>3, <1>4, ScheduleStays, PlainStep DEF table

LEMMA IoReceiveShape ==
    ASSUME Shape, NEW g \in Guids, NEW packet \in {"lost", "over", "empty"}, IoReceive(g, packet)
    PROVE  Shape'
<1> DEFINE s == mSessionContexts[g]
           r == [Idle EXCEPT !.pc = IF packet = "empty" THEN "closeFirst" ELSE "pass",
                             !.guid = g, !.session = s, !.why = packet]
<1>0. /\ Io \in Threads /\ ThreadsOK /\ KnownTable /\ TableTypes
      /\ thread' = IF s = None THEN thread ELSE [thread EXCEPT ![Io] = r]
      /\ link' \subseteq link
      /\ UNCHANGED <<mSessionContexts, mConnected, guidOf, schedule, strand, env>>
  BY DEF Shape, IoReceive, Threads
<1>1. ThreadsOK'
  <2>1. CASE s = None
    BY <1>0, <2>1, ThreadsStay
  <2>2. CASE s # None
    <3>1. Of(s, g) /\ s \in Sessions
      BY <1>0, <2>2, CreatedSessions DEF KnownTable, Of
    <3> HIDE DEF s
    <3>2. r \in Records
      BY <3>1 DEF Records, Idle, IoStatements, None
    <3>3. RecordOK(Io, r)
      BY <3>1, <3>2 DEF RecordOK, Idle, WithSession, IoStatements, Removing, Flushing, InTick, None
    <3> HIDE DEF r
    <3> QED BY <1>0, <2>2, <3>3, ThreadStep
  <2> QED BY <2>1, <2>2
<1> QED BY <1>0, <1>1, ScheduleStays, ToldStays, StrandsStay, PlainStep

LEMMA IoPassShape ==
    ASSUME Shape, IoPass
    PROVE  Shape'
<1>0. /\ Io \in Threads /\ RecordOK(Io, thread[Io]) /\ thread[Io].pc = "pass"
      /\ UNCHANGED <<table, schedule, env>> /\ Finish(Io)
  BY DEF Shape, ThreadsOK, IoPass, Threads
<1>1. thread[Io].session \in Created /\ thread[Io].why \in {"lost", "over"}
  BY <1>0 DEF RecordOK, WithSession, IoStatements, Of
<1>2. ThreadsOK'
  BY <1>0, FinishKeeps DEF table
<1>3. StrandTypes' /\ KnownStrands'
  BY <1>0, <1>1, EnqueueTypes, StrandsStay DEF IoPass, table
<1> QED BY <1>0, <1>2, <1>3, ScheduleStays, ToldStays, PlainStep DEF table

LEMMA DisconnectKeepsLess ==
    ASSUME NEW s, Disconnect(s)
    PROVE  mConnected' \subseteq mConnected /\ link' \subseteq link
BY DEF Disconnect

LEMMA IoCloseFirstShape ==
    ASSUME Shape, IoCloseFirst
    PROVE  Shape'
<1>0. /\ Io \in Threads /\ ThreadsOK
      /\ RecordOK(Io, thread[Io]) /\ thread[Io].pc = "closeFirst"
  BY DEF Shape, ThreadsOK, IoCloseFirst, Step, Threads
<1>1. RecordOK(Io, [thread[Io] EXCEPT !.pc = "cancel"])
  BY <1>0 DEF RecordOK, Records, WithSession, IoStatements, Removing, Flushing, InTick
<1>2. ThreadsOK'
  BY <1>0, <1>1, ThreadStep DEF IoCloseFirst, Step
<1> QED BY <1>2, DisconnectKeepsLess, ScheduleStays, ToldStays, StrandsStay, PlainStep
        DEF IoCloseFirst

(* disconnectClient and removeSessionContext (:499-516, 880-901, 965-977).  *)
LEMMA DisconnectClientShape ==
    ASSUME Shape, NEW c \in Clients, NEW g \in Guids, DisconnectClient(c, g)
    PROVE  Shape'
<1> DEFINE r == [Idle EXCEPT !.pc = "cancel", !.guid = g, !.why = "client"]
<1>0. /\ c \in Threads /\ ThreadsOK /\ thread' = [thread EXCEPT ![c] = r]
      /\ UNCHANGED <<table, schedule, strand, told, early>>
      /\ stray' \subseteq stray \union {g}
  BY DEF Shape, DisconnectClient, Threads
<1>1. RecordOK(c, r)
  <2>1. r \in Records
    BY DEF Records, Idle, Removing, None
  <2> QED BY <2>1
          DEF RecordOK, Idle, WithSession, IoStatements, Removing, Flushing, InTick, None
<1> HIDE DEF r
<1>2. ThreadsOK'
  BY <1>0, <1>1, ThreadStep DEF table
<1>3. ToldTypes'
  BY <1>0 DEF Shape, ToldTypes, told
<1> QED BY <1>0, <1>2, <1>3, ScheduleStays, StrandsStay, PlainStep DEF table

LEMMA RemoveCancelShape ==
    ASSUME Shape, NEW t \in Threads, RemoveCancel(t)
    PROVE  Shape'
<1>0. ThreadsOK /\ RecordOK(t, thread[t]) /\ thread[t].pc = "cancel"
  BY DEF Shape, ThreadsOK, RemoveCancel, Step
<1>1. thread[t].guid \in Guids /\ RecordOK(t, [thread[t] EXCEPT !.pc = "erase"])
  BY <1>0 DEF RecordOK, Records, WithSession, IoStatements, Removing, Flushing, InTick
<1>2. ThreadsOK'
  BY <1>0, <1>1, ThreadStep DEF RemoveCancel, Step, table
<1>3. ScheduleTypes'
  BY <1>1, CommandTypes DEF RemoveCancel
<1>4. ToldTypes' /\ StrandTypes' /\ KnownStrands'
  BY ToldStays, StrandsStay DEF RemoveCancel, table
<1> QED BY <1>2, <1>3, <1>4, PlainStep DEF RemoveCancel, table

(* What RemoveErase makes of its thread.                                    *)
LEMMA EraseEffect ==
    ASSUME Shape, NEW t \in Threads, RemoveErase(t)
    PROVE  LET g == thread[t].guid
               r == mSessionContexts[g]
               done == thread[t].why = "empty" \/ (thread[t].why = "client" /\ r = None)
           IN /\ g \in Guids /\ r \in Sessions \union {None} /\ (r # None => Of(r, g))
              /\ thread[t].pc = "erase"
              /\ mSessionContexts' = [mSessionContexts EXCEPT ![g] = None]
              /\ UNCHANGED <<mConnected, guidOf, link, schedule, strand, env>>
              /\ done => thread' = [thread EXCEPT ![t] = Idle]
              /\ ~done => thread' = [thread EXCEPT ![t] =
                                       [thread[t] EXCEPT !.pc = "close", !.removed = r]]
<1>1. thread[t].pc = "erase" /\ thread[t].guid \in Guids
  BY DEF Shape, ThreadsOK, RecordOK, RemoveErase
<1>2. /\ mSessionContexts[thread[t].guid] \in Sessions \union {None}
      /\ mSessionContexts[thread[t].guid] # None =>
            Of(mSessionContexts[thread[t].guid], thread[t].guid)
  BY <1>1 DEF Shape, TableTypes, KnownTable
<1> QED BY <1>1, <1>2 DEF RemoveErase, Finish

LEMMA RemoveEraseShape ==
    ASSUME Shape, NEW t \in Threads, RemoveErase(t)
    PROVE  Shape'
<1> DEFINE g == thread[t].guid
           r == mSessionContexts[g]
           done == thread[t].why = "empty" \/ (thread[t].why = "client" /\ r = None)
           x == [thread[t] EXCEPT !.pc = "close", !.removed = r]
<1>0. /\ ThreadsOK /\ TableTypes /\ KnownTable /\ RecordOK(t, thread[t])
      /\ g \in Guids /\ r \in Sessions \union {None} /\ (r # None => Of(r, g))
      /\ thread[t].pc = "erase"
      /\ mSessionContexts' = [mSessionContexts EXCEPT ![g] = None]
      /\ UNCHANGED <<mConnected, guidOf, link, schedule, strand, env>>
      /\ done => thread' = [thread EXCEPT ![t] = Idle]
      /\ ~done => thread' = [thread EXCEPT ![t] = x]
  BY EraseEffect DEF Shape, ThreadsOK
<1>1. ~done => RecordOK(t, x)
  BY <1>0 DEF RecordOK, Records, WithSession, IoStatements, Removing, Flushing, InTick
<1>2. ThreadsOK'
  <2>1. RecordOK(t, Idle)
    BY IdleIsOK
  <2> HIDE DEF done, x
  <2>2. CASE done
    BY <1>0, <2>1, <2>2, ThreadStep
  <2>3. CASE ~done
    BY <1>0, <1>1, <2>3, ThreadStep
  <2> QED BY <2>2, <2>3
<1>3. TableTypes'
  BY <1>0 DEF TableTypes
<1>4. KnownTable'
  BY <1>0 DEF TableTypes, KnownTable, Of, Created
<1>5. ScheduleTypes' /\ ToldTypes' /\ StrandTypes' /\ KnownStrands'
  BY <1>0, ScheduleStays, ToldStays, StrandsStay
<1> QED BY <1>2, <1>3, <1>4, <1>5 DEF Shape

LEMMA RemoveCloseShape ==
    ASSUME Shape, NEW t \in Threads, RemoveClose(t)
    PROVE  Shape'
<1>0. ThreadsOK /\ RecordOK(t, thread[t]) /\ thread[t].pc = "close"
  BY DEF Shape, ThreadsOK, RemoveClose
<1>1. ThreadsOK'
  <2>1. CASE thread[t].removed # None /\ thread[t].why \in {"client", "lost"}
    <3>1. thread' = [thread EXCEPT ![t] = [thread[t] EXCEPT !.pc = "report"]]
      BY <2>1 DEF RemoveClose
    <3>2. RecordOK(t, [thread[t] EXCEPT !.pc = "report"])
      BY <1>0, <2>1 DEF RecordOK, Records, WithSession, IoStatements, Removing, Flushing, InTick
    <3> QED BY <1>0, <3>1, <3>2, ThreadStep DEF RemoveClose
  <2>2. CASE ~(thread[t].removed # None /\ thread[t].why \in {"client", "lost"})
    BY <2>2, FinishKeeps DEF RemoveClose
  <2> QED BY <2>1, <2>2
<1> QED BY <1>1, DisconnectKeepsLess, ScheduleStays, ToldStays, StrandsStay, PlainStep
        DEF RemoveClose

LEMMA RemoveReportShape ==
    ASSUME Shape, NEW t \in Threads, RemoveReport(t)
    PROVE  Shape'
<1>0. /\ RecordOK(t, thread[t]) /\ thread[t].pc = "report"
      /\ UNCHANGED <<table, schedule, toldConnected, early>> /\ Finish(t)
  BY DEF Shape, ThreadsOK, RemoveReport
<1>1. thread[t].removed \in Created /\ thread[t].removed \in Sessions
  BY <1>0, CreatedSessions DEF Shape, RecordOK, Of
<1>2. ThreadsOK'
  BY <1>0, FinishKeeps DEF table
<1>3. StrandTypes' /\ KnownStrands'
  BY <1>0, <1>1, EnqueueTypes, StrandsStay DEF RemoveReport, table
<1>4. ToldTypes'
  BY <1>0, <1>1 DEF Shape, ToldTypes, RemoveReport
<1> QED BY <1>0, <1>2, <1>3, <1>4, ScheduleStays, PlainStep DEF table

(* Tasks of a strand (:534-605, 862-1000).  What a worker that takes a task *)
(* becomes, and what it reports.                                            *)
StrandWork(g, s, pc, why) ==
    [Idle EXCEPT !.pc = pc, !.guid = g, !.session = s, !.why = why]

LEMMA TaskEffect ==
    ASSUME Shape, NEW w \in Workers, NEW s \in Sessions, NEW t \in Threads, TaskBegin(w, s, t)
    PROVE  LET task == Head(strand[s][t])
           IN /\ s \in Created /\ guidOf[s] \in Guids
              /\ thread[w] = Idle /\ strand[s][t] # <<>>
              /\ strand' = [strand EXCEPT ![s][t] = Tail(@)]
              /\ UNCHANGED <<table, schedule, early, stray>>
              /\ \/ /\ thread' = thread
                    /\ task # "flush"
                    /\ toldConnected' \subseteq toldConnected \union {s}
                    /\ toldDisconnected' = IF task = "disconnected"
                          THEN [toldDisconnected EXCEPT ![s] = @ + 1] ELSE toldDisconnected
                 \/ /\ UNCHANGED told /\ task # "disconnected"
                    /\ \/ /\ task = "flush"
                          /\ thread' = [thread EXCEPT ![w] = StrandWork(guidOf[s], s, "flush", "flush")]
                       \/ /\ task \in {"lost", "over"}
                          /\ \E why \in {"lost", "over"} :
                                thread' = [thread EXCEPT ![w] =
                                             StrandWork(guidOf[s], s, "cancel", why)]
<1>1. s \in Created
  BY DEF Shape, KnownStrands, TaskBegin
<1>2. guidOf[s] \in Guids
  BY <1>1, CreatedSessions DEF Shape
<1> QED BY <1>1, <1>2 DEF TaskBegin, told, StrandWork

LEMMA StrandWorkOK ==
    ASSUME Shape, NEW w \in Workers, NEW s \in Created,
           NEW pc \in {"flush", "cancel"}, NEW why \in {"lost", "over", "flush"},
           pc = "flush" <=> why = "flush"
    PROVE  RecordOK(w, StrandWork(guidOf[s], s, pc, why))
<1>1. s \in Sessions /\ guidOf[s] \in Guids /\ Of(s, guidOf[s])
  BY CreatedSessions DEF Shape, Of
<1>2. StrandWork(guidOf[s], s, pc, why) \in Records
  BY <1>1 DEF StrandWork, Records, Idle, Flushing, Removing, None
<1> QED BY <1>1, <1>2 DEF StrandWork, RecordOK, Idle, WithSession, IoStatements, Removing,
                          Flushing, InTick, None

LEMMA TaskBeginShape ==
    ASSUME Shape, NEW w \in Workers, NEW s \in Sessions, NEW t \in Threads, TaskBegin(w, s, t)
    PROVE  Shape'
<1>0. /\ s \in Created /\ w \in Threads /\ ThreadsOK /\ StrandTypes /\ KnownStrands /\ ToldTypes
      /\ strand' = [strand EXCEPT ![s][t] = Tail(@)] /\ strand[s][t] # <<>>
      /\ UNCHANGED <<table, schedule, early>>
  BY TaskEffect DEF Shape, Threads
<1>1. ThreadsOK'
  <2>1. CASE thread' = thread
    BY <1>0, <2>1, ThreadsStay DEF table
  <2>2. CASE thread' = [thread EXCEPT ![w] = StrandWork(guidOf[s], s, "flush", "flush")]
    <3>1. RecordOK(w, StrandWork(guidOf[s], s, "flush", "flush"))
      BY <1>0, StrandWorkOK
    <3> QED BY <1>0, <2>2, <3>1, ThreadStep DEF table
  <2>3. CASE \E why \in {"lost", "over"} :
                thread' = [thread EXCEPT ![w] = StrandWork(guidOf[s], s, "cancel", why)]
    <3>1. PICK why \in {"lost", "over"} :
                thread' = [thread EXCEPT ![w] = StrandWork(guidOf[s], s, "cancel", why)]
      BY <2>3
    <3>2. RecordOK(w, StrandWork(guidOf[s], s, "cancel", why))
      BY <1>0, StrandWorkOK
    <3> QED BY <1>0, <3>1, <3>2, ThreadStep DEF table
  <2> QED BY <2>1, <2>2, <2>3, TaskEffect
<1>2. StrandTypes' /\ KnownStrands'
  <2>1. Tail(strand[s][t]) \in Seq({"connected", "disconnected", "lost", "over", "flush"})
    BY <1>0 DEF StrandTypes
  <2> QED BY <1>0, <2>1 DEF StrandTypes, KnownStrands, table, Created
<1>3. ToldTypes'
  <2>1. /\ toldConnected' \subseteq toldConnected \union {s}
        /\ UNCHANGED <<early, stray>>
        /\ \/ toldDisconnected' = toldDisconnected
           \/ toldDisconnected' = [toldDisconnected EXCEPT ![s] = @ + 1]
    BY TaskEffect DEF told
  <2> QED BY <1>0, <2>1 DEF ToldTypes
<1> QED BY <1>0, <1>1, <1>2, <1>3, ScheduleStays, PlainStep DEF table

LEMMA FlushTaskShape ==
    ASSUME Shape, NEW w \in Workers, FlushTask(w)
    PROVE  Shape'
<1>1. PICK pc \in {"again", "never"} :
         /\ thread[w].pc = "flush" /\ thread' = [thread EXCEPT ![w] = [thread[w] EXCEPT !.pc = pc]]
         /\ UNCHANGED <<table, schedule, strand, env>>
  BY DEF FlushTask, Step
<1>2. w \in Threads /\ ThreadsOK /\ RecordOK(w, thread[w])
  BY DEF Shape, ThreadsOK, Threads
<1>3. RecordOK(w, [thread[w] EXCEPT !.pc = pc])
  BY <1>1, <1>2 DEF RecordOK, Records, WithSession, IoStatements, Removing, Flushing, InTick
<1>4. ThreadsOK'
  BY <1>1, <1>2, <1>3, ThreadStep DEF table
<1> QED BY <1>1, <1>4, ScheduleStays, ToldStays, StrandsStay, PlainStep DEF table

LEMMA FlushCommandShape ==
    ASSUME Shape, NEW w \in Workers, FlushCommand(w)
    PROVE  Shape'
<1>0. /\ w \in Threads /\ RecordOK(w, thread[w]) /\ thread[w].pc \in {"again", "never"}
      /\ Finish(w) /\ UNCHANGED <<table, mFlushDueHeap, mFlushDueTokens, mNextFlushToken, strand, env>>
  BY DEF Shape, ThreadsOK, Threads, FlushCommand
<1>1. thread[w].guid \in Guids
  BY <1>0 DEF RecordOK
<1>2. ScheduleTypes'
  BY <1>0, <1>1, CommandTypes DEF FlushCommand
<1>3. ThreadsOK'
  BY <1>0, FinishKeeps DEF table
<1> QED BY <1>0, <1>2, <1>3, ToldStays, StrandsStay, PlainStep DEF table

(* flushTickOnce (:318-372, 534-605).                                       *)
LEMMA TickBeginShape ==
    ASSUME Shape, NEW w \in Workers, TickBegin(w) \/ TickEnd(w)
    PROVE  Shape'
<1>1. /\ w \in Threads /\ ThreadsOK
      /\ \E r \in {Idle, [Idle EXCEPT !.pc = "drain"]} : thread' = [thread EXCEPT ![w] = r]
      /\ UNCHANGED <<table, schedule, strand, env>>
  BY DEF Shape, Threads, TickBegin, TickEnd, Finish
<1>2. ThreadsOK'
  BY <1>1, IdleIsOK, ThreadStep DEF table
<1> QED BY <1>1, <1>2, ScheduleStays, ToldStays, StrandsStay, PlainStep DEF table

LEMMA DrainCommandShape ==
    ASSUME Shape, NEW t \in Threads, DrainCommand(t)
    PROVE  Shape'
<1>1. ScheduleTypes
  BY DEF Shape
<1>2. /\ Head(mFlushScheduleCommands[t]) \in Commands
      /\ Tail(mFlushScheduleCommands[t]) \in Seq(Commands)
  BY <1>1 DEF ScheduleTypes, DrainCommand
<1>3. mFlushScheduleCommands' \in [Threads -> Seq(Commands)]
  BY <1>1, <1>2 DEF ScheduleTypes, DrainCommand
<1>4. Head(mFlushScheduleCommands[t]).mGuid \in Guids
  BY <1>2 DEF Commands
<1>5. ScheduleTypes'
  <2>1. CASE Head(mFlushScheduleCommands[t]).mKind = "Schedule"
    <3>1. /\ mNextFlushToken \in 1..MaxTokens
          /\ mNextFlushToken' = mNextFlushToken + 1
          /\ mFlushDueTokens' = [mFlushDueTokens EXCEPT
                                   ![Head(mFlushScheduleCommands[t]).mGuid] = mNextFlushToken]
          /\ mFlushDueHeap' = mFlushDueHeap \union
                {[mGuid |-> Head(mFlushScheduleCommands[t]).mGuid, mToken |-> mNextFlushToken]}
      BY <1>1, <2>1, BoundsAssumption DEF DrainCommand, ScheduleTypes
    <3>2. mNextFlushToken' \in 1..(MaxTokens + 1) /\ mNextFlushToken \in 0..MaxTokens
      BY <3>1, BoundsAssumption
    <3>3. [mGuid |-> Head(mFlushScheduleCommands[t]).mGuid, mToken |-> mNextFlushToken]
             \in [mGuid : Guids, mToken : 1..MaxTokens]
      BY <1>4, <3>1
    <3> QED BY <1>1, <1>3, <1>4, <3>1, <3>2, <3>3 DEF ScheduleTypes
  <2>2. CASE Head(mFlushScheduleCommands[t]).mKind # "Schedule"
    <3>1. /\ mFlushDueTokens' = [mFlushDueTokens EXCEPT
                                   ![Head(mFlushScheduleCommands[t]).mGuid] = None]
          /\ UNCHANGED <<mFlushDueHeap, mNextFlushToken>>
      BY <2>2 DEF DrainCommand
    <3> QED BY <1>1, <1>3, <1>4, <3>1, BoundsAssumption DEF ScheduleTypes, None
  <2> QED BY <2>1, <2>2
<1>6. UNCHANGED <<table, strand, thread, env>> /\ ThreadsOK
  BY DEF DrainCommand, Shape
<1> QED BY <1>5, <1>6, ThreadsStay, ToldStays, StrandsStay, PlainStep DEF table

LEMMA TickPopShape ==
    ASSUME Shape, NEW w \in Workers, NEW e \in mFlushDueHeap, TickPop(w, e)
    PROVE  Shape'
<1>0. /\ w \in Threads /\ ThreadsOK /\ RecordOK(w, thread[w]) /\ thread[w].pc = "drain"
      /\ ScheduleTypes
      /\ mFlushDueHeap' = mFlushDueHeap \ {e}
      /\ UNCHANGED <<table, mFlushScheduleCommands, mFlushDueTokens, mNextFlushToken, strand, env>>
      /\ \/ thread' = thread
         \/ thread' = [thread EXCEPT ![w] = [thread[w] EXCEPT !.pc = "lookup", !.guid = e.mGuid]]
  BY DEF Shape, ThreadsOK, Threads, TickPop
<1>1. e.mGuid \in Guids
  BY <1>0 DEF ScheduleTypes
<1>2. RecordOK(w, [thread[w] EXCEPT !.pc = "lookup", !.guid = e.mGuid])
  BY <1>0, <1>1
     DEF RecordOK, Records, Idle, WithSession, IoStatements, Removing, Flushing, InTick, None
<1>3. ThreadsOK'
  BY <1>0, <1>2, ThreadStep, ThreadsStay DEF table
<1>4. ScheduleTypes'
  BY <1>0 DEF ScheduleTypes
<1> QED BY <1>0, <1>3, <1>4, ToldStays, StrandsStay, PlainStep DEF table

LEMMA TickLookupShape ==
    ASSUME Shape, NEW w \in Workers, TickLookup(w)
    PROVE  Shape'
<1>0. /\ w \in Threads /\ ThreadsOK /\ RecordOK(w, thread[w]) /\ thread[w].pc = "lookup"
      /\ UNCHANGED <<table, schedule, strand, env>>
  BY DEF Shape, ThreadsOK, Threads, TickLookup
<1>1. thread[w].guid \in Guids
  BY <1>0 DEF RecordOK
<1>2. PICK s : s = mSessionContexts[thread[w].guid]
  OBVIOUS
<1>3. s # None => Of(s, thread[w].guid) /\ s \in Sessions
  BY <1>1, <1>2 DEF Shape, KnownTable, TableTypes
<1>4. CASE s = None
  <2>1. thread' = [thread EXCEPT ![w] = [thread[w] EXCEPT !.pc = "tickCancel"]]
    BY <1>2, <1>4 DEF TickLookup
  <2>2. RecordOK(w, [thread[w] EXCEPT !.pc = "tickCancel"])
    BY <1>0 DEF RecordOK, Records, WithSession, IoStatements, Removing, Flushing, InTick
  <2>3. ThreadsOK'
    BY <1>0, <2>1, <2>2, ThreadStep DEF table
  <2> QED BY <1>0, <2>3, ScheduleStays, ToldStays, StrandsStay, PlainStep DEF table
<1>5. CASE s # None
  <2>1. thread' = [thread EXCEPT ![w] = [thread[w] EXCEPT !.pc = "check", !.session = s]]
    BY <1>2, <1>5 DEF TickLookup
  <2>2. RecordOK(w, [thread[w] EXCEPT !.pc = "check", !.session = s])
    BY <1>0, <1>3, <1>5
       DEF RecordOK, Records, WithSession, IoStatements, Removing, Flushing, InTick
  <2>3. ThreadsOK'
    BY <1>0, <2>1, <2>2, ThreadStep DEF table
  <2> QED BY <1>0, <2>3, ScheduleStays, ToldStays, StrandsStay, PlainStep DEF table
<1> QED BY <1>4, <1>5

LEMMA TickCheckShape ==
    ASSUME Shape, NEW w \in Workers, TickCheck(w)
    PROVE  Shape'
<1>1. PICK pc \in {"give", "tickAgain", "tickCancel"} :
         /\ thread[w].pc \in {"check", "refused"}
         /\ thread' = [thread EXCEPT ![w] = [thread[w] EXCEPT !.pc = pc]]
         /\ UNCHANGED <<table, schedule, strand, env>>
  BY DEF TickCheck, Step
<1>2. w \in Threads /\ ThreadsOK /\ RecordOK(w, thread[w])
  BY DEF Shape, ThreadsOK, Threads
<1>3. RecordOK(w, [thread[w] EXCEPT !.pc = pc])
  BY <1>1, <1>2 DEF RecordOK, Records, WithSession, IoStatements, Removing, Flushing, InTick
<1>4. ThreadsOK'
  BY <1>1, <1>2, <1>3, ThreadStep DEF table
<1> QED BY <1>1, <1>4, ScheduleStays, ToldStays, StrandsStay, PlainStep DEF table

LEMMA TickGiveShape ==
    ASSUME Shape, NEW w \in Workers, TickGive(w)
    PROVE  Shape'
<1>0. /\ w \in Threads /\ ThreadsOK /\ RecordOK(w, thread[w]) /\ thread[w].pc = "give"
      /\ UNCHANGED <<table, schedule, env>>
  BY DEF Shape, ThreadsOK, Threads, TickGive
<1>1. thread[w].session \in Created
  BY <1>0 DEF RecordOK, WithSession, Of
<1>2. CASE Enqueue(w, thread[w].session, "flush") /\ NextEntry(w)
  <2>1. ThreadsOK' /\ StrandTypes' /\ KnownStrands'
    BY <1>0, <1>1, <1>2, NextEntryKeeps, EnqueueTypes DEF table
  <2> QED BY <1>0, <2>1, ScheduleStays, ToldStays, PlainStep DEF table
<1>3. CASE thread' = [thread EXCEPT ![w].pc = "refused"] /\ UNCHANGED strand
  <2>1. RecordOK(w, [thread[w] EXCEPT !.pc = "refused"])
    BY <1>0 DEF RecordOK, Records, WithSession, IoStatements, Removing, Flushing, InTick
  <2>2. ThreadsOK'
    BY <1>0, <1>3, <2>1, ThreadStep DEF table
  <2> QED BY <1>0, <1>3, <2>2, ScheduleStays, ToldStays, StrandsStay, PlainStep DEF table
<1> QED BY <1>2, <1>3 DEF TickGive

LEMMA TickCommandShape ==
    ASSUME Shape, NEW w \in Workers, TickCommand(w)
    PROVE  Shape'
<1>0. /\ w \in Threads /\ RecordOK(w, thread[w]) /\ thread[w].pc \in {"tickAgain", "tickCancel"}
      /\ NextEntry(w)
      /\ UNCHANGED <<table, mFlushDueHeap, mFlushDueTokens, mNextFlushToken, strand, env>>
  BY DEF Shape, ThreadsOK, Threads, TickCommand
<1>1. thread[w].guid \in Guids
  BY <1>0 DEF RecordOK
<1>2. ScheduleTypes'
  BY <1>0, <1>1, CommandTypes DEF TickCommand
<1>3. ThreadsOK'
  BY <1>0, NextEntryKeeps DEF table
<1> QED BY <1>0, <1>2, <1>3, ToldStays, StrandsStay, PlainStep DEF table

LEMMA DestroyShape ==
    ASSUME Shape, NEW s \in Sessions, Destroy(s)
    PROVE  Shape'
<1>1. /\ UNCHANGED <<mSessionContexts, guidOf, schedule, strand, thread, env>>
      /\ Disconnect(s) /\ ThreadsOK
  BY DEF Destroy, Shape
<1> QED BY <1>1, ThreadsStay, DisconnectKeepsLess, ScheduleStays, ToldStays, StrandsStay, PlainStep

LEMMA NextKeepsShape == Shape /\ [Next]_vars => Shape'
<1> SUFFICES ASSUME Shape, [Next]_vars PROVE Shape'
  OBVIOUS
<1>1. CASE IoStep
  BY <1>1, IoConnectShape, IoReceiveShape, IoUpsertShape, IoScheduleFirstShape, IoAnnounceShape,
     IoPassShape, IoCloseFirstShape DEF IoStep
<1>2. CASE \E c \in Clients, g \in Guids : DisconnectClient(c, g)
  BY <1>2, DisconnectClientShape
<1>3. CASE \E t \in Threads : RemoveStep(t) \/ DrainCommand(t)
  BY <1>3, RemoveCancelShape, RemoveEraseShape, RemoveCloseShape, RemoveReportShape, DrainCommandShape
     DEF RemoveStep
<1>4. CASE \E w \in Workers : StrandStep(w)
  BY <1>4, TaskBeginShape, FlushTaskShape, FlushCommandShape DEF StrandStep
<1>5. CASE \E w \in Workers : TickStep(w)
  BY <1>5, TickBeginShape, TickPopShape, TickLookupShape, TickCheckShape,
     TickGiveShape, TickCommandShape DEF TickStep
<1>6. CASE \E s \in Sessions : Destroy(s)
  BY <1>6, DestroyShape
<1>7. CASE UNCHANGED vars
  BY <1>7, ThreadsStay, ScheduleStays, ToldStays, StrandsStay, PlainStep
     DEF vars, table, Shape
<1> QED BY <1>1, <1>2, <1>3, <1>4, <1>5, <1>6, <1>7 DEF Next

(* Table, schedule, strands and threads keep their types: a session is      *)
(* looked up, given tasks and reported only once it was created             *)
(* (ServerNetworkSystem.cpp:534-605, 700-1000).                             *)
THEOREM TypeCorrect == Spec => []TypeOK
<1>1. Shape => TypeOK
  <2> SUFFICES ASSUME Shape PROVE TypeOK
    OBVIOUS
  <2>1. thread \in [Threads ->
          [pc : InTick \union {"idle", "upsert", "scheduleFirst", "announce", "pass", "closeFirst",
                               "cancel", "erase", "close", "report", "flush", "again", "never"},
           guid : Guids \union {None}, session : Sessions \union {None},
           removed : Sessions \union {None},
           why : {"none", "client", "lost", "over", "empty", "flush"}]]
    <3>1. thread \in [Threads -> Records]
      BY DEF Shape, ThreadsOK
    <3>2. InTick \union IoStatements \union Removing \union Flushing \union {"idle"}
          = InTick \union {"idle", "upsert", "scheduleFirst", "announce", "pass", "closeFirst",
                           "cancel", "erase", "close", "report", "flush", "again", "never"}
      BY DEF IoStatements, Removing, Flushing
    <3> QED BY <3>1, <3>2 DEF Records
  <2> QED BY <2>1 DEF Shape, TypeOK, TableTypes, ScheduleTypes, StrandTypes, ToldTypes
<1> QED BY <1>1, InitShape, NextKeepsShape, PTL DEF Spec

-----------------------------------------------------------------------------
(* The right to report the end of a session is in the table with it, then   *)
(* with the one thread that took it out, then in a task, then used up.      *)
Fresh(s) == thread[Io].pc = "upsert" /\ thread[Io].session = s
Kept(s)  == mSessionContexts[guidOf[s]] = s \/ Fresh(s)
Takes(t, s) == thread[t].removed = s
Task(task, s, t, i) == i \in DOMAIN strand[s][t] /\ strand[s][t][i] = task
Notice(s, t, i) == Task("disconnected", s, t, i)
Noticed(s) == \E t \in Threads, i \in Nat : Notice(s, t, i)

OneReport ==
    \A s \in Created :
       /\ Fresh(s) => mSessionContexts[guidOf[s]] # s
       /\ Kept(s) => /\ \A t \in Threads : ~Takes(t, s)
                     /\ ~Noticed(s) /\ toldDisconnected[s] = 0
       /\ \A t, u \in Threads : Takes(t, s) /\ Takes(u, s) => t = u
       /\ \A t \in Threads : Takes(t, s) => ~Noticed(s) /\ toldDisconnected[s] = 0
       /\ \A t, u \in Threads, i, j \in Nat : Notice(s, t, i) /\ Notice(s, u, j) => t = u /\ i = j
       /\ Noticed(s) => toldDisconnected[s] = 0
       /\ toldDisconnected[s] \in {0, 1}

NoneReported == \A s \in Sessions \ Created : toldDisconnected[s] = 0

ReportInv == Shape /\ OneReport /\ NoneReported

LEMMA InitReport == Init => ReportInv
<1>1. Init => OneReport /\ NoneReported
  BY DEF Init, OneReport, NoneReported, Created
<1> QED BY <1>1, InitShape DEF ReportInv

(* The tasks in a strand after one is put in, or one is taken out.          *)
LEMMA TaskAdded ==
    ASSUME StrandTypes, NEW t \in Threads, NEW s \in Sessions,
           NEW x \in {"connected", "disconnected", "lost", "over", "flush"}, Enqueue(t, s, x)
    PROVE  \A task : \A r \in Sessions, u \in Threads, i \in Nat :
              Task(task, r, u, i)' <=> \/ Task(task, r, u, i)
                                       \/ /\ task = x /\ r = s /\ u = t
                                          /\ i = Len(strand[s][t]) + 1
<1>1. strand[s][t] \in Seq({"connected", "disconnected", "lost", "over", "flush"})
  BY DEF StrandTypes
<1>2. /\ strand' \in [Sessions -> [Threads ->
                         Seq({"connected", "disconnected", "lost", "over", "flush"})]]
      /\ strand'[s][t] = Append(strand[s][t], x)
      /\ \A r \in Sessions, u \in Threads : r # s \/ u # t => strand'[r][u] = strand[r][u]
  <2>1. Append(strand[s][t], x) \in Seq({"connected", "disconnected", "lost", "over", "flush"})
    BY <1>1
  <2> QED BY <2>1 DEF StrandTypes, Enqueue
<1>3. \A i \in Nat : /\ i \in DOMAIN strand'[s][t]
                        <=> i \in DOMAIN strand[s][t] \/ i = Len(strand[s][t]) + 1
                     /\ i \in DOMAIN strand[s][t] => strand'[s][t][i] = strand[s][t][i]
                     /\ i = Len(strand[s][t]) + 1 => strand'[s][t][i] = x
                                                     /\ i \notin DOMAIN strand[s][t]
  BY <1>1, <1>2
<1> QED BY <1>2, <1>3 DEF Task

LEMMA TaskTaken ==
    ASSUME StrandTypes, NEW t \in Threads, NEW s \in Sessions, strand[s][t] # <<>>,
           strand' = [strand EXCEPT ![s][t] = Tail(@)]
    PROVE  /\ Task(Head(strand[s][t]), s, t, 1)
           /\ \A task : \A r \in Sessions, u \in Threads, i \in Nat :
                 Task(task, r, u, i)' <=> IF r = s /\ u = t THEN i # 0 /\ Task(task, r, u, i + 1)
                                                            ELSE Task(task, r, u, i)
<1>1. strand[s][t] \in Seq({"connected", "disconnected", "lost", "over", "flush"})
  BY DEF StrandTypes
<1>2. /\ strand'[s][t] = Tail(strand[s][t])
      /\ \A r \in Sessions, u \in Threads : r # s \/ u # t => strand'[r][u] = strand[r][u]
  BY DEF StrandTypes
<1>3. \A i \in Nat : /\ i \in DOMAIN strand'[s][t]
                        <=> i # 0 /\ i + 1 \in DOMAIN strand[s][t]
                     /\ i \in DOMAIN strand'[s][t] => strand'[s][t][i] = strand[s][t][i + 1]
  <2>1. PICK q : q = strand[s][t]
    OBVIOUS
  <2>2. /\ q \in Seq({"connected", "disconnected", "lost", "over", "flush"}) /\ q # <<>>
        /\ Len(q) \in Nat /\ DOMAIN q = 1..Len(q)
    BY <1>1, <2>1
  <2>3. /\ DOMAIN Tail(q) = 1..(Len(q) - 1)
        /\ \A i \in 1..(Len(q) - 1) : Tail(q)[i] = q[i + 1]
    BY <2>2
  <2>4. \A i \in Nat : i \in 1..(Len(q) - 1) <=> i # 0 /\ i + 1 \in 1..Len(q)
    BY <2>2
  <2>5. strand'[s][t] = Tail(q)
    BY <1>2, <2>1
  <2>6. \A i \in Nat : /\ i \in DOMAIN Tail(q) <=> i # 0 /\ i + 1 \in DOMAIN q
                       /\ i \in DOMAIN Tail(q) => Tail(q)[i] = q[i + 1]
    BY <2>2, <2>3, <2>4
  <2> QED BY <2>1, <2>5, <2>6
<1>4. Task(Head(strand[s][t]), s, t, 1)
  BY <1>1 DEF Task
<1>5. \A task : \A i \in Nat : Task(task, s, t, i)' <=> i # 0 /\ Task(task, s, t, i + 1)
  BY <1>3 DEF Task
<1>6. \A task : \A r \in Sessions, u \in Threads, i \in Nat :
         r # s \/ u # t => (Task(task, r, u, i)' <=> Task(task, r, u, i))
  BY <1>2 DEF Task
<1> QED BY <1>4, <1>5, <1>6

(* Most steps take no session out of the table and report none.             *)
LEMMA ReportStays ==
    ASSUME ReportInv, Shape', UNCHANGED <<guidOf, mSessionContexts, toldDisconnected>>,
           \A s \in Created : Fresh(s)' => Fresh(s),
           \A t \in Threads, s \in Created : Takes(t, s)' => Takes(t, s),
           \A s \in Created, t \in Threads, i \in Nat : Notice(s, t, i)' => Notice(s, t, i)
    PROVE  ReportInv'
<1>1. Created' = Created
  BY DEF Created
<1>2. \A s \in Created : (Noticed(s)' => Noticed(s)) /\ (Kept(s)' => Kept(s))
  BY DEF Noticed, Kept
<1>3. OneReport'
  BY <1>1, <1>2 DEF ReportInv, OneReport
<1>4. NoneReported'
  BY <1>1 DEF ReportInv, NoneReported
<1> QED BY <1>3, <1>4 DEF ReportInv

LEMMA QuietStep ==
    ASSUME ReportInv, Shape', UNCHANGED <<guidOf, mSessionContexts, toldDisconnected>>,
           \/ thread' = thread
           \/ \E t \in Threads : \E x :
                 /\ thread' = [thread EXCEPT ![t] = x]
                 /\ x.pc # "upsert" /\ x.removed \in {None, thread[t].removed},
           \/ strand' = strand
           \/ \E t \in Threads, s \in Sessions, task \in {"connected", "lost", "over", "flush"} :
                 Enqueue(t, s, task)
    PROVE  ReportInv'
<1>1. ThreadsOK /\ StrandTypes /\ None \notin Created /\ Created \subseteq Sessions /\ Io \in Threads
  BY CreatedSessions DEF ReportInv, Shape, Threads
<1>2. \A s \in Created : (Fresh(s)' => Fresh(s)) /\ \A t \in Threads : Takes(t, s)' => Takes(t, s)
  <2>1. CASE thread' = thread
    BY <2>1 DEF Fresh, Takes
  <2>2. ASSUME NEW t \in Threads, NEW x, thread' = [thread EXCEPT ![t] = x],
               x.pc # "upsert", x.removed \in {None, thread[t].removed}
        PROVE  \A s \in Created : /\ Fresh(s)' => Fresh(s)
                                  /\ \A u \in Threads : Takes(u, s)' => Takes(u, s)
    <3>1. \A u \in Threads : thread'[u] = IF u = t THEN x ELSE thread[u]
      BY <1>1, <2>2 DEF ThreadsOK
    <3> QED BY <1>1, <2>2, <3>1 DEF Fresh, Takes
  <2> QED BY <2>1, <2>2
<1>3. \A s \in Created, t \in Threads, i \in Nat : Notice(s, t, i)' => Notice(s, t, i)
  <2>1. CASE strand' = strand
    BY <2>1 DEF Notice, Task
  <2>2. ASSUME NEW t \in Threads, NEW s \in Sessions,
               NEW task \in {"connected", "lost", "over", "flush"}, Enqueue(t, s, task)
        PROVE  \A r \in Created, u \in Threads, i \in Nat : Notice(r, u, i)' => Notice(r, u, i)
    <3>1. \A r \in Sessions, u \in Threads, i \in Nat :
             Task("disconnected", r, u, i)' => Task("disconnected", r, u, i)
      BY <1>1, <2>2, TaskAdded
    <3> QED BY <1>1, <3>1 DEF Notice
  <2> QED BY <2>1, <2>2
<1> QED BY <1>2, <1>3, ReportStays

LEMMA IoConnectReports ==
    ASSUME ReportInv, NEW g \in Guids, IoConnect(g)
    PROVE  ReportInv'
<1>n. PICK n : n = Len(guidOf) + 1
  OBVIOUS
<1>0. /\ TableTypes /\ ThreadsOK /\ KnownTable /\ KnownStrands /\ StrandTypes /\ Shape
      /\ OneReport /\ NoneReported /\ Io \in Threads
  BY DEF ReportInv, Shape, Threads
<1>1. /\ UNCHANGED <<mSessionContexts, strand, toldDisconnected>> /\ thread[Io] = Idle
      /\ \A t \in Threads : /\ t # Io => thread'[t] = thread[t]
                            /\ t = Io => /\ thread'[t].pc = "upsert" /\ thread'[t].session = n
                                         /\ thread'[t].removed = None
  BY <1>0, <1>n DEF IoConnect, Idle, ThreadsOK, env, told
<1>2. /\ n \in Sessions /\ n # None /\ n \notin Created /\ None \notin Created
      /\ Created' = Created \union {n}
      /\ \A s \in Created : guidOf'[s] = guidOf[s]
      /\ guidOf'[n] = g
  <2>1. Created = 1..Len(guidOf) /\ Len(guidOf) \in Nat /\ Len(guidOf) < MaxSessions
        /\ guidOf \in Seq(Guids) /\ guidOf' = Append(guidOf, g)
    BY <1>0, CreatedSessions DEF TableTypes, IoConnect
  <2>2. Len(guidOf') = n /\ guidOf' \in Seq(Guids) /\ guidOf'[n] = g
        /\ \A s \in 1..Len(guidOf) : guidOf'[s] = guidOf[s]
    BY <2>1, <1>n
  <2>3. Created' = 1..n
    BY <2>2 DEF Created
  <2> QED BY <1>n, <2>1, <2>2, <2>3, BoundsAssumption DEF Sessions, None
<1>3. \A s \in Created : /\ ~Fresh(s)' /\ (Kept(s)' => Kept(s)) /\ (Noticed(s)' <=> Noticed(s))
                         /\ \A t \in Threads : Takes(t, s)' => Takes(t, s)
                         /\ \A t \in Threads, i \in Nat : Notice(s, t, i)' <=> Notice(s, t, i)
  BY <1>0, <1>1, <1>2 DEF Fresh, Kept, Noticed, Takes, Notice, Task
<1>4. mSessionContexts[g] # n
  BY <1>2, <1>0 DEF KnownTable, Of
<1>5. \A t \in Threads : ~Takes(t, n)'
  BY <1>0, <1>1, <1>2 DEF ThreadsOK, RecordOK, Of, Takes
<1>6. ~Noticed(n)' /\ \A t \in Threads, i \in Nat : ~Notice(n, t, i)'
  <2>1. \A t \in Threads : strand'[n][t] = <<>>
    BY <1>0, <1>1, <1>2 DEF KnownStrands
  <2> QED BY <2>1 DEF Noticed, Notice, Task
<1>7. toldDisconnected'[n] = 0
  BY <1>0, <1>1, <1>2 DEF NoneReported
<1>8. OneReport'
  <2> SUFFICES ASSUME NEW s \in Created'
               PROVE
       (/\ Fresh(s) => mSessionContexts[guidOf[s]] # s
        /\ Kept(s) => /\ \A t \in Threads : ~Takes(t, s)
                      /\ ~Noticed(s) /\ toldDisconnected[s] = 0
        /\ \A t, u \in Threads : Takes(t, s) /\ Takes(u, s) => t = u
        /\ \A t \in Threads : Takes(t, s) => ~Noticed(s) /\ toldDisconnected[s] = 0
        /\ \A t, u \in Threads, i, j \in Nat : Notice(s, t, i) /\ Notice(s, u, j) => t = u /\ i = j
        /\ Noticed(s) => toldDisconnected[s] = 0
        /\ toldDisconnected[s] \in {0, 1})'
    BY DEF OneReport
  <2>1. CASE s = n
    BY <1>1, <1>2, <1>4, <1>5, <1>6, <1>7, <2>1
  <2>2. CASE s \in Created
    BY <1>0, <1>1, <1>3, <2>2 DEF OneReport
  <2> QED BY <1>2, <2>1, <2>2
<1>9. NoneReported'
  BY <1>0, <1>1, <1>2 DEF NoneReported
<1> QED BY <1>0, <1>8, <1>9, IoConnectShape DEF ReportInv

LEMMA IoUpsertReports ==
    ASSUME ReportInv, IoUpsert
    PROVE  ReportInv'
<1>0. /\ TableTypes /\ ThreadsOK /\ RecordOK(Io, thread[Io]) /\ thread[Io].pc = "upsert" /\ Shape
      /\ OneReport /\ NoneReported /\ Io \in Threads
      /\ UNCHANGED <<guidOf, strand, toldDisconnected>>
  BY DEF ReportInv, Shape, ThreadsOK, Threads, IoUpsert, Step, env, told
<1>1. PICK s, g : s = thread[Io].session /\ g = thread[Io].guid
  OBVIOUS
<1>2. /\ Of(s, g) /\ Fresh(s) /\ g \in Guids
      /\ mSessionContexts' = [mSessionContexts EXCEPT ![g] = s]
      /\ thread'[Io].pc # "upsert"
      /\ \A t \in Threads : thread'[t].removed = thread[t].removed
  BY <1>0, <1>1 DEF RecordOK, WithSession, IoStatements, Fresh, IoUpsert, Step, ThreadsOK, Records
<1>3. \A r \in Created : /\ ~Fresh(r)' /\ (Kept(r)' => Kept(r)) /\ (Noticed(r)' <=> Noticed(r))
                         /\ \A t \in Threads : Takes(t, r)' <=> Takes(t, r)
                         /\ \A t \in Threads, i \in Nat : Notice(r, t, i)' <=> Notice(r, t, i)
  <2>1. \A r \in Created : guidOf[r] \in Guids
    BY <1>0, CreatedSessions
  <2> QED BY <1>0, <1>2, <2>1 DEF Fresh, Kept, Noticed, Takes, Notice, Task, TableTypes, Of
<1>4. Created' = Created
  BY <1>0 DEF Created
<1>5. OneReport' /\ NoneReported'
  BY <1>0, <1>3, <1>4 DEF OneReport, NoneReported
<1> QED BY <1>0, <1>5, IoUpsertShape DEF ReportInv

(* The session that was in the table is now the thread's to report.         *)
LEMMA RemoveEraseReports ==
    ASSUME ReportInv, NEW t \in Threads, RemoveErase(t)
    PROVE  ReportInv'
<1>1. PICK g, r : g = thread[t].guid /\ r = mSessionContexts[g]
  OBVIOUS
<1>2. /\ TableTypes /\ ThreadsOK /\ OneReport /\ NoneReported /\ Shape /\ None \notin Created
      /\ \A s \in Created : guidOf[s] \in Guids
      /\ g \in Guids /\ (r # None => Of(r, g)) /\ thread[t].pc = "erase" /\ thread[t].removed = None
      /\ mSessionContexts' = [mSessionContexts EXCEPT ![g] = None]
      /\ UNCHANGED <<guidOf, strand, toldDisconnected>>
      /\ \E x : /\ thread' = [thread EXCEPT ![t] = x]
                /\ x.pc # "upsert" /\ x.removed \in {None, r}
  <2>1. ThreadsOK /\ thread[t].pc = "erase" /\ thread[t].removed = None
    BY DEF ReportInv, Shape, ThreadsOK, RecordOK, RemoveErase
  <2>2. \E x : /\ thread' = [thread EXCEPT ![t] = x]
               /\ x.pc # "upsert" /\ x.removed \in {None, r}
    <3>1. thread[t] \in Records
      BY <2>1 DEF ThreadsOK
    <3>2. \/ thread' = [thread EXCEPT ![t] = Idle]
          \/ thread' = [thread EXCEPT ![t] = [thread[t] EXCEPT !.pc = "close", !.removed = r]]
      BY <1>1, EraseEffect DEF ReportInv
    <3>3. Idle.pc = "idle" /\ Idle.removed = None
      BY DEF Idle
    <3>4. LET x == [thread[t] EXCEPT !.pc = "close", !.removed = r]
          IN x.pc = "close" /\ x.removed = r
      BY <3>1 DEF Records
    <3> QED BY <3>2, <3>3, <3>4
  <2>3. \A s \in Created : guidOf[s] \in Guids
    BY CreatedSessions DEF ReportInv, Shape
  <2>4. None \notin Created
    BY CreatedSessions DEF ReportInv, Shape
  <2>5. /\ g \in Guids /\ (r # None => Of(r, g))
        /\ mSessionContexts' = [mSessionContexts EXCEPT ![g] = None]
        /\ UNCHANGED <<mConnected, guidOf, link, schedule, strand, env>>
    BY <1>1, EraseEffect DEF ReportInv
  <2> QED BY <2>1, <2>2, <2>3, <2>4, <2>5 DEF ReportInv, Shape, env, told
<1>3. \A u \in Threads : /\ u # t => thread'[u] = thread[u]
                         /\ thread'[t].pc # "upsert" /\ thread'[t].removed \in {None, r}
  BY <1>2 DEF ThreadsOK
<1>4. \A s \in Created :
         /\ Fresh(s)' => Fresh(s)
         /\ Kept(s)' => Kept(s) /\ (s = r => Fresh(s))
         /\ Noticed(s)' <=> Noticed(s)
         /\ \A u \in Threads : Takes(u, s)' => Takes(u, s) \/ (u = t /\ s = r)
         /\ \A u \in Threads, i \in Nat : Notice(s, u, i)' <=> Notice(s, u, i)
         /\ s = r => Kept(s) /\ ~Fresh(s) /\ mSessionContexts[guidOf[s]] = s
  <2>1. \A s \in Created : mSessionContexts'[guidOf[s]] =
                              IF guidOf[s] = g THEN None ELSE mSessionContexts[guidOf[s]]
    BY <1>2 DEF TableTypes
  <2>2. \A s \in Created : s = r => guidOf[s] = g /\ mSessionContexts[guidOf[s]] = s
    BY <1>1, <1>2 DEF Of
  <2>3. \A s \in Created : Fresh(s)' => Fresh(s)
    BY <1>3 DEF Fresh, Threads
  <2>4. \A s \in Created : s = r => Kept(s) /\ ~Fresh(s)
    BY <1>2, <2>2 DEF Kept, OneReport
  <2>5. \A s \in Created : Kept(s)' => Kept(s) /\ (s = r => Fresh(s))
    BY <1>2, <2>1, <2>2, <2>3 DEF Kept
  <2> QED BY <1>2, <1>3, <2>2, <2>3, <2>4, <2>5 DEF Noticed, Takes, Notice, Task
<1>5. Created' = Created
  BY <1>2 DEF Created
<1>6. OneReport'
  <2> SUFFICES ASSUME NEW s \in Created
               PROVE
       (/\ Fresh(s) => mSessionContexts[guidOf[s]] # s
        /\ Kept(s) => /\ \A u \in Threads : ~Takes(u, s)
                      /\ ~Noticed(s) /\ toldDisconnected[s] = 0
        /\ \A u, v \in Threads : Takes(u, s) /\ Takes(v, s) => u = v
        /\ \A u \in Threads : Takes(u, s) => ~Noticed(s) /\ toldDisconnected[s] = 0
        /\ \A u, v \in Threads, i, j \in Nat : Notice(s, u, i) /\ Notice(s, v, j) => u = v /\ i = j
        /\ Noticed(s) => toldDisconnected[s] = 0
        /\ toldDisconnected[s] \in {0, 1})'
    BY <1>5 DEF OneReport
  <2>1. CASE s = r
    <3>1. /\ \A u \in Threads : ~Takes(u, s)
          /\ ~Noticed(s) /\ toldDisconnected[s] = 0
      BY <1>2, <1>4, <2>1 DEF OneReport
    <3>2. ~Kept(s)' /\ ~Fresh(s)' /\ ~Noticed(s)' /\ toldDisconnected'[s] = 0
      BY <1>2, <1>4, <2>1, <3>1
    <3>3. \A u \in Threads, i \in Nat : ~Notice(s, u, i)'
      BY <1>4, <3>1 DEF Noticed
    <3> QED BY <1>4, <3>1, <3>2, <3>3
  <2>2. CASE s # r
    <3>1. mSessionContexts'[guidOf[s]] = s => mSessionContexts[guidOf[s]] = s
      BY <1>2 DEF TableTypes
    <3> QED BY <1>2, <1>4, <2>2, <3>1 DEF OneReport
  <2> QED BY <2>1, <2>2
<1>7. NoneReported'
  BY <1>2, <1>5 DEF NoneReported
<1> QED BY <1>2, <1>6, <1>7, RemoveEraseShape DEF ReportInv

LEMMA RemoveReportReports ==
    ASSUME ReportInv, NEW t \in Threads, RemoveReport(t)
    PROVE  ReportInv'
<1>1. PICK r : r = thread[t].removed
  OBVIOUS
<1>2. /\ TableTypes /\ StrandTypes /\ ThreadsOK /\ OneReport /\ NoneReported /\ Shape /\ ToldTypes
      /\ Created \subseteq Sessions /\ None \notin Created
      /\ r \in Created /\ Takes(t, r) /\ t \in Threads
      /\ UNCHANGED <<guidOf, mSessionContexts>>
      /\ thread' = [thread EXCEPT ![t] = Idle]
      /\ \/ Enqueue(t, r, "disconnected") /\ UNCHANGED toldDisconnected
         \/ toldDisconnected' = [toldDisconnected EXCEPT ![r] = @ + 1] /\ UNCHANGED strand
  BY <1>1, CreatedSessions
     DEF ReportInv, Shape, ThreadsOK, RecordOK, Of, Takes, RemoveReport, Finish, table
<1>3. /\ Created' = Created
      /\ \A s \in Created : (Fresh(s)' => Fresh(s)) /\ (Kept(s)' => Kept(s))
      /\ \A s \in Created, u \in Threads : Takes(u, s)' => Takes(u, s) /\ u # t
  <2>1. \A u \in Threads : thread'[u] = IF u = t THEN Idle ELSE thread[u]
    BY <1>2 DEF ThreadsOK
  <2>2. Idle.pc = "idle" /\ Idle.removed = None
    BY DEF Idle
  <2>3. Io \in Threads
    BY DEF Threads
  <2> QED BY <1>2, <2>1, <2>2, <2>3 DEF Created, Fresh, Kept, Takes
<1>4. /\ ~Kept(r) /\ ~Fresh(r) /\ ~Noticed(r) /\ toldDisconnected[r] = 0
      /\ \A u \in Threads : ~Takes(u, r)'
      /\ \A u \in Threads, i \in Nat : ~Notice(r, u, i)
  <2>1. ~Kept(r) /\ ~Fresh(r) /\ ~Noticed(r) /\ toldDisconnected[r] = 0
    BY <1>2 DEF OneReport, Kept
  <2> QED BY <1>2, <1>3, <2>1 DEF OneReport, Noticed
<1>5. CASE Enqueue(t, r, "disconnected") /\ UNCHANGED toldDisconnected
  <2>1. \A s \in Created, u \in Threads, i \in Nat :
           Notice(s, u, i)' => \/ Notice(s, u, i)
                               \/ s = r /\ u = t /\ i = Len(strand[r][t]) + 1
    <3>1. \A s \in Sessions, u \in Threads, i \in Nat :
             Task("disconnected", s, u, i)' =>
                \/ Task("disconnected", s, u, i)
                \/ s = r /\ u = t /\ i = Len(strand[r][t]) + 1
      BY <1>2, <1>5, TaskAdded
    <3> QED BY <1>2, <3>1 DEF Notice
  <2>2. \A s \in Created : s # r => (Noticed(s)' => Noticed(s))
    BY <2>1 DEF Noticed
  <2>3. OneReport'
    <3> SUFFICES ASSUME NEW s \in Created
                 PROVE
         (/\ Fresh(s) => mSessionContexts[guidOf[s]] # s
          /\ Kept(s) => /\ \A u \in Threads : ~Takes(u, s)
                        /\ ~Noticed(s) /\ toldDisconnected[s] = 0
          /\ \A u, v \in Threads : Takes(u, s) /\ Takes(v, s) => u = v
          /\ \A u \in Threads : Takes(u, s) => ~Noticed(s) /\ toldDisconnected[s] = 0
          /\ \A u, v \in Threads, i, j \in Nat : Notice(s, u, i) /\ Notice(s, v, j) => u = v /\ i = j
          /\ Noticed(s) => toldDisconnected[s] = 0
          /\ toldDisconnected[s] \in {0, 1})'
      BY <1>3 DEF OneReport
    <3>1. CASE s = r
      BY <1>3, <1>4, <1>5, <2>1, <3>1
    <3>2. CASE s # r
      BY <1>2, <1>3, <1>5, <2>1, <2>2, <3>2 DEF OneReport
    <3> QED BY <3>1, <3>2
  <2>4. NoneReported'
    BY <1>2, <1>3, <1>5 DEF NoneReported
  <2> QED BY <1>2, <2>3, <2>4, RemoveReportShape DEF ReportInv
<1>6. CASE toldDisconnected' = [toldDisconnected EXCEPT ![r] = @ + 1] /\ UNCHANGED strand
  <2>1. \A s \in Created : /\ Noticed(s)' <=> Noticed(s)
                           /\ \A u \in Threads, i \in Nat : Notice(s, u, i)' <=> Notice(s, u, i)
    BY <1>6 DEF Noticed, Notice, Task
  <2>2. \A s \in Sessions : toldDisconnected'[s] = IF s = r THEN 1 ELSE toldDisconnected[s]
    BY <1>2, <1>4, <1>6 DEF ToldTypes
  <2>3. OneReport'
    <3> SUFFICES ASSUME NEW s \in Created
                 PROVE
         (/\ Fresh(s) => mSessionContexts[guidOf[s]] # s
          /\ Kept(s) => /\ \A u \in Threads : ~Takes(u, s)
                        /\ ~Noticed(s) /\ toldDisconnected[s] = 0
          /\ \A u, v \in Threads : Takes(u, s) /\ Takes(v, s) => u = v
          /\ \A u \in Threads : Takes(u, s) => ~Noticed(s) /\ toldDisconnected[s] = 0
          /\ \A u, v \in Threads, i, j \in Nat : Notice(s, u, i) /\ Notice(s, v, j) => u = v /\ i = j
          /\ Noticed(s) => toldDisconnected[s] = 0
          /\ toldDisconnected[s] \in {0, 1})'
      BY <1>3 DEF OneReport
    <3>1. CASE s = r
      BY <1>2, <1>3, <1>4, <2>1, <2>2, <3>1
    <3>2. CASE s # r
      BY <1>2, <1>3, <2>1, <2>2, <3>2 DEF OneReport
    <3> QED BY <3>1, <3>2
  <2>4. NoneReported'
    BY <1>2, <1>3, <2>2 DEF NoneReported
  <2> QED BY <1>2, <2>3, <2>4, RemoveReportShape DEF ReportInv
<1> QED BY <1>2, <1>5, <1>6

(* A task is taken out of a strand; if it is the report, it is made.        *)
LEMMA TaskBeginReports ==
    ASSUME ReportInv, NEW w \in Workers, NEW s \in Sessions, NEW t \in Threads, TaskBegin(w, s, t)
    PROVE  ReportInv'
<1>1. PICK task : task = Head(strand[s][t])
  OBVIOUS
<1>2. /\ StrandTypes /\ ThreadsOK /\ OneReport /\ NoneReported /\ Shape /\ ToldTypes
      /\ Created \subseteq Sessions /\ None \notin Created
      /\ w \in Threads /\ Io \in Threads /\ s \in Created /\ Created' = Created
      /\ UNCHANGED <<guidOf, mSessionContexts>>
      /\ strand[s][t] # <<>> /\ strand' = [strand EXCEPT ![s][t] = Tail(@)]
      /\ \/ thread' = thread
         \/ \E x : thread' = [thread EXCEPT ![w] = x] /\ x.pc # "upsert" /\ x.removed = None
      /\ toldDisconnected' = IF task = "disconnected"
                             THEN [toldDisconnected EXCEPT ![s] = @ + 1] ELSE toldDisconnected
  <2>1. \A pc \in {"flush", "cancel"} : \A why :
           StrandWork(guidOf[s], s, pc, why).pc = pc
           /\ StrandWork(guidOf[s], s, pc, why).removed = None
    BY DEF StrandWork, Idle
  <2>2. \/ thread' = thread
        \/ \E x : thread' = [thread EXCEPT ![w] = x] /\ x.pc # "upsert" /\ x.removed = None
    BY <2>1, TaskEffect DEF ReportInv
  <2>3. /\ s \in Created /\ UNCHANGED <<guidOf, mSessionContexts>>
        /\ strand[s][t] # <<>> /\ strand' = [strand EXCEPT ![s][t] = Tail(@)]
        /\ toldDisconnected' = IF task = "disconnected"
                             THEN [toldDisconnected EXCEPT ![s] = @ + 1] ELSE toldDisconnected
    BY <1>1, TaskEffect DEF ReportInv, table, told
  <2> QED BY <2>2, <2>3, CreatedSessions DEF ReportInv, Shape, Threads, Created
<1>3. \A r \in Created : /\ (Fresh(r)' => Fresh(r)) /\ (Kept(r)' => Kept(r))
                         /\ \A u \in Threads : Takes(u, r)' => Takes(u, r)
  <2>1. \A u \in Threads : \/ thread'[u] = thread[u]
                           \/ thread'[u].pc # "upsert" /\ thread'[u].removed = None
    <3> SUFFICES ASSUME NEW u \in Threads
                 PROVE  \/ thread'[u] = thread[u]
                        \/ thread'[u].pc # "upsert" /\ thread'[u].removed = None
      OBVIOUS
    <3>1. CASE thread' = thread
      BY <3>1
    <3>2. CASE \E x : thread' = [thread EXCEPT ![w] = x] /\ x.pc # "upsert" /\ x.removed = None
      <4>1. PICK x : thread' = [thread EXCEPT ![w] = x] /\ x.pc # "upsert" /\ x.removed = None
        BY <3>2
      <4>2. thread'[u] = IF u = w THEN x ELSE thread[u]
        BY <1>2, <4>1 DEF ThreadsOK
      <4> QED BY <4>1, <4>2
    <3> QED BY <1>2, <3>1, <3>2
  <2> QED BY <1>2, <2>1 DEF Fresh, Kept, Takes
<1>4. /\ Task(task, s, t, 1)
      /\ \A r \in Created, u \in Threads, i \in Nat :
            Notice(r, u, i)' <=> IF r = s /\ u = t THEN i # 0 /\ Notice(r, u, i + 1)
                                                   ELSE Notice(r, u, i)
  <2>1. /\ Task(Head(strand[s][t]), s, t, 1)
        /\ \A r \in Sessions, u \in Threads, i \in Nat :
              Task("disconnected", r, u, i)' <=>
                 IF r = s /\ u = t THEN i # 0 /\ Task("disconnected", r, u, i + 1)
                                   ELSE Task("disconnected", r, u, i)
    BY <1>2, TaskTaken
  <2> QED BY <1>1, <1>2, <2>1 DEF Notice
<1>5. \A r \in Created : Noticed(r)' => Noticed(r)
  BY <1>4 DEF Noticed
<1>6. \A r \in Created :
         (\A u, v \in Threads, i, j \in Nat : Notice(r, u, i) /\ Notice(r, v, j) => u = v /\ i = j)
      => \A u, v \in Threads, i, j \in Nat : Notice(r, u, i)' /\ Notice(r, v, j)' => u = v /\ i = j
  <2> SUFFICES ASSUME NEW r \in Created, NEW u \in Threads, NEW v \in Threads,
                      NEW i \in Nat, NEW j \in Nat, Notice(r, u, i)', Notice(r, v, j)',
                      \A x, y \in Threads, k, l \in Nat : Notice(r, x, k) /\ Notice(r, y, l) => x = y /\ k = l
               PROVE  u = v /\ i = j
    BY Zenon
  <2>1. /\ Notice(r, u, IF r = s /\ u = t THEN i + 1 ELSE i)
        /\ Notice(r, v, IF r = s /\ v = t THEN j + 1 ELSE j)
    BY <1>4
  <2>2. u = v
    BY <2>1
  <2> QED BY <2>1, <2>2
<1>7. CASE task = "disconnected"
  <2>1. /\ Notice(s, t, 1) /\ Noticed(s)
        /\ \A u \in Threads, i \in Nat : Notice(s, u, i) => u = t /\ i = 1
    BY <1>2, <1>4, <1>7 DEF Notice, Noticed, OneReport
  <2>2. /\ ~Kept(s) /\ ~Fresh(s) /\ toldDisconnected[s] = 0
        /\ \A u \in Threads : ~Takes(u, s)
    BY <1>2, <2>1 DEF OneReport, Kept
  <2>3. \A u \in Threads, i \in Nat : ~Notice(s, u, i)'
    BY <1>2, <1>4, <2>1
  <2>4. ~Noticed(s)'
    BY <2>3 DEF Noticed
  <2>5. \A r \in Sessions : toldDisconnected'[r] = IF r = s THEN 1 ELSE toldDisconnected[r]
    BY <1>2, <1>7, <2>2 DEF ToldTypes
  <2>6. OneReport'
    <3> SUFFICES ASSUME NEW r \in Created
                 PROVE
         (/\ Fresh(r) => mSessionContexts[guidOf[r]] # r
          /\ Kept(r) => /\ \A u \in Threads : ~Takes(u, r)
                        /\ ~Noticed(r) /\ toldDisconnected[r] = 0
          /\ \A u, v \in Threads : Takes(u, r) /\ Takes(v, r) => u = v
          /\ \A u \in Threads : Takes(u, r) => ~Noticed(r) /\ toldDisconnected[r] = 0
          /\ \A u, v \in Threads, i, j \in Nat : Notice(r, u, i) /\ Notice(r, v, j) => u = v /\ i = j
          /\ Noticed(r) => toldDisconnected[r] = 0
          /\ toldDisconnected[r] \in {0, 1})'
      BY <1>2 DEF OneReport
    <3>1. CASE r = s
      BY <1>2, <1>3, <2>2, <2>3, <2>4, <2>5, <3>1
    <3>2. CASE r # s
      <4>1. toldDisconnected'[r] = toldDisconnected[r]
        BY <1>2, <2>5, <3>2
      <4>2. \A u \in Threads, i \in Nat : Notice(r, u, i)' <=> Notice(r, u, i)
        BY <1>4, <3>2
      <4> QED BY <1>2, <1>3, <1>5, <3>2, <4>1, <4>2 DEF OneReport
    <3> QED BY <3>1, <3>2
  <2>7. NoneReported'
    BY <1>2, <2>5 DEF NoneReported
  <2> QED BY <1>2, <2>6, <2>7, TaskBeginShape DEF ReportInv
<1>8. CASE task # "disconnected"
  <2>1. toldDisconnected' = toldDisconnected
    BY <1>2, <1>8
  <2>2. OneReport'
    <3> SUFFICES ASSUME NEW r \in Created
                 PROVE
         (/\ Fresh(r) => mSessionContexts[guidOf[r]] # r
          /\ Kept(r) => /\ \A u \in Threads : ~Takes(u, r)
                        /\ ~Noticed(r) /\ toldDisconnected[r] = 0
          /\ \A u, v \in Threads : Takes(u, r) /\ Takes(v, r) => u = v
          /\ \A u \in Threads : Takes(u, r) => ~Noticed(r) /\ toldDisconnected[r] = 0
          /\ \A u, v \in Threads, i, j \in Nat : Notice(r, u, i) /\ Notice(r, v, j) => u = v /\ i = j
          /\ Noticed(r) => toldDisconnected[r] = 0
          /\ toldDisconnected[r] \in {0, 1})'
      BY <1>2 DEF OneReport
    <3>1. \A u, v \in Threads, i, j \in Nat : Notice(r, u, i)' /\ Notice(r, v, j)' => u = v /\ i = j
      BY <1>2, <1>6 DEF OneReport
    <3> QED BY <1>2, <1>3, <1>5, <2>1, <3>1 DEF OneReport
  <2>3. NoneReported'
    BY <1>2, <2>1 DEF NoneReported
  <2> QED BY <1>2, <2>2, <2>3, TaskBeginShape DEF ReportInv
<1> QED BY <1>7, <1>8

(* The steps that neither take a session out of the table nor report one.   *)
LEMMA QuietIoReports ==
    ASSUME ReportInv, Shape',
           \/ IoScheduleFirst \/ IoAnnounce \/ IoPass \/ IoCloseFirst
           \/ \E g \in Guids, packet \in {"lost", "over", "empty"} : IoReceive(g, packet)
    PROVE  ReportInv'
<1>1. /\ Io \in Threads /\ ThreadsOK /\ RecordOK(Io, thread[Io]) /\ thread[Io] \in Records
      /\ Created \subseteq Sessions
  BY CreatedSessions DEF ReportInv, Shape, ThreadsOK, Threads
<1>2. Idle.pc = "idle" /\ Idle.removed = None
  BY DEF Idle
<1>3. CASE IoScheduleFirst \/ IoCloseFirst
  <2>1. \E pc \in {"announce", "cancel"} :
           thread' = [thread EXCEPT ![Io] = [thread[Io] EXCEPT !.pc = pc]]
    BY <1>3 DEF IoScheduleFirst, IoCloseFirst, Step
  <2>2. \E x : /\ thread' = [thread EXCEPT ![Io] = x]
               /\ x.pc # "upsert" /\ x.removed = thread[Io].removed
    BY <1>1, <2>1 DEF Records
  <2>3. UNCHANGED <<guidOf, mSessionContexts, toldDisconnected, strand>>
    BY <1>3 DEF IoScheduleFirst, IoCloseFirst, table, env, told
  <2> QED BY <1>1, <2>2, <2>3, QuietStep
<1>4. CASE IoAnnounce \/ IoPass
  <2>1. /\ thread[Io].session \in Sessions
        /\ thread[Io].pc = "pass" => thread[Io].why \in {"lost", "over"}
    BY <1>1, <1>4 DEF IoAnnounce, IoPass, RecordOK, WithSession, IoStatements, Of
  <2>2. /\ UNCHANGED <<guidOf, mSessionContexts, toldDisconnected>>
        /\ thread' = [thread EXCEPT ![Io] = Idle]
        /\ \/ strand' = strand
           \/ \E t \in Threads, s \in Sessions, task \in {"connected", "lost", "over", "flush"} :
                 Enqueue(t, s, task)
    BY <1>1, <1>4, <2>1 DEF IoAnnounce, IoPass, Finish, table, told, env
  <2> QED BY <1>1, <1>2, <2>2, QuietStep
<1>5. CASE \E g \in Guids, packet \in {"lost", "over", "empty"} : IoReceive(g, packet)
  <2>1. PICK g \in Guids, packet \in {"lost", "over", "empty"} : IoReceive(g, packet)
    BY <1>5
  <2>2. UNCHANGED <<guidOf, mSessionContexts, toldDisconnected, strand>>
    BY <2>1 DEF IoReceive, env, told
  <2>3. \/ thread' = thread
        \/ \E x : /\ thread' = [thread EXCEPT ![Io] = x] /\ x.pc # "upsert" /\ x.removed = None
    <3>2. CASE mSessionContexts[g] = None
      BY <2>1, <3>2 DEF IoReceive
    <3>3. CASE mSessionContexts[g] # None
      <4>1. PICK x : x = [Idle EXCEPT !.pc = IF packet = "empty" THEN "closeFirst" ELSE "pass",
                                      !.guid = g, !.session = mSessionContexts[g], !.why = packet]
        OBVIOUS
      <4>2. thread' = [thread EXCEPT ![Io] = x]
        BY <2>1, <3>3, <4>1 DEF IoReceive
      <4>3. x.pc # "upsert" /\ x.removed = None
        BY <4>1 DEF Idle
      <4> QED BY <4>2, <4>3
    <3> QED BY <3>2, <3>3
  <2> QED BY <1>1, <2>2, <2>3, QuietStep
<1> QED BY <1>3, <1>4, <1>5

LEMMA QuietRemovalReports ==
    ASSUME ReportInv, Shape',
           \/ \E c \in Clients, g \in Guids : DisconnectClient(c, g)
           \/ \E t \in Threads : RemoveCancel(t) \/ RemoveClose(t)
           \/ \E s \in Sessions : Destroy(s)
    PROVE  ReportInv'
<1>1. ThreadsOK /\ (\A t \in Threads : thread[t] \in Records) /\ Clients \subseteq Threads
  BY DEF ReportInv, Shape, ThreadsOK, Threads
<1>2. Idle.pc = "idle" /\ Idle.removed = None
  BY DEF Idle
<1>3. CASE \E c \in Clients, g \in Guids : DisconnectClient(c, g)
  <2>1. PICK c \in Clients, g \in Guids : DisconnectClient(c, g)
    BY <1>3
  <2>2. \E x : thread' = [thread EXCEPT ![c] = x] /\ x.pc # "upsert" /\ x.removed = None
    <3>1. PICK x : x = [Idle EXCEPT !.pc = "cancel", !.guid = g, !.why = "client"]
      OBVIOUS
    <3>2. thread' = [thread EXCEPT ![c] = x]
      BY <2>1, <3>1 DEF DisconnectClient
    <3>3. x.pc # "upsert" /\ x.removed = None
      BY <3>1 DEF Idle
    <3> QED BY <3>2, <3>3
  <2>3. UNCHANGED <<guidOf, mSessionContexts, toldDisconnected, strand>> /\ c \in Threads
    BY <1>1, <2>1 DEF DisconnectClient, table, env, told
  <2> QED BY <2>2, <2>3, QuietStep
<1>4. CASE \E t \in Threads : RemoveCancel(t) \/ RemoveClose(t)
  <2>1. PICK t \in Threads : RemoveCancel(t) \/ RemoveClose(t)
    BY <1>4
  <2>2. \/ thread' = [thread EXCEPT ![t] = Idle]
        \/ \E pc \in {"erase", "report"} : thread' = [thread EXCEPT ![t] = [thread[t] EXCEPT !.pc = pc]]
    BY <2>1 DEF RemoveCancel, RemoveClose, Step, Finish
  <2>3. \E x : /\ thread' = [thread EXCEPT ![t] = x]
               /\ x.pc # "upsert" /\ x.removed \in {None, thread[t].removed}
    BY <1>1, <1>2, <2>2 DEF Records
  <2>4. UNCHANGED <<guidOf, mSessionContexts, toldDisconnected, strand>>
    BY <2>1 DEF RemoveCancel, RemoveClose, table, env, told
  <2> QED BY <2>3, <2>4, QuietStep
<1>5. CASE \E s \in Sessions : Destroy(s)
  BY <1>5, QuietStep DEF Destroy, env, told
<1> QED BY <1>3, <1>4, <1>5

(* Where a worker goes when it flushes, and when it ticks.                  *)
AtFlush == InTick \union Flushing \union {"idle"}

LEMMA FlushMoves ==
    ASSUME ThreadsOK, NEW w \in Workers, FlushTask(w) \/ FlushCommand(w) \/ TickStep(w)
    PROVE  \/ thread' = thread
           \/ \E x : /\ thread' = [thread EXCEPT ![w] = x]
                    /\ thread[w].pc \in AtFlush /\ x.pc \in AtFlush
                    /\ x.removed \in {None, thread[w].removed}
<1>1. thread[w] \in Records
  BY DEF ThreadsOK, Threads
<1>2. /\ Idle.pc = "idle" /\ Idle.removed = None
      /\ [Idle EXCEPT !.pc = "drain"].pc = "drain" /\ [Idle EXCEPT !.pc = "drain"].removed = None
      /\ {"idle", "drain"} \subseteq AtFlush
  BY DEF Idle, AtFlush, InTick
<1>3. \A pc \in AtFlush : [thread[w] EXCEPT !.pc = pc].pc = pc
         /\ [thread[w] EXCEPT !.pc = pc].removed = thread[w].removed
  BY <1>1 DEF Records
<1>4. CASE FlushTask(w) \/ TickCheck(w)
  <2>1. \E pc \in AtFlush : thread' = [thread EXCEPT ![w] = [thread[w] EXCEPT !.pc = pc]]
    BY <1>4 DEF FlushTask, TickCheck, Step, InTick, Flushing, AtFlush
  <2>2. thread[w].pc \in AtFlush
    BY <1>4 DEF FlushTask, TickCheck, Step, InTick, Flushing, AtFlush
  <2>3. PICK pc \in AtFlush : thread' = [thread EXCEPT ![w] = [thread[w] EXCEPT !.pc = pc]]
    BY <2>1
  <2>4. PICK x : x = [thread[w] EXCEPT !.pc = pc]
    OBVIOUS
  <2>5. x.pc \in AtFlush /\ x.removed = thread[w].removed
    BY <1>3, <2>4
  <2> QED BY <2>2, <2>3, <2>4, <2>5
<1>5. CASE FlushCommand(w) \/ TickBegin(w) \/ TickEnd(w) \/ TickCommand(w)
  <2>1. thread[w].pc \in AtFlush
    BY <1>2, <1>5
       DEF FlushCommand, TickBegin, TickEnd, TickCommand, AtFlush, InTick, Flushing
  <2> QED BY <1>2, <1>5, <2>1 DEF FlushCommand, TickBegin, TickEnd, TickCommand, Finish, NextEntry
<1>6. CASE TickGive(w)
  <2>1. CASE NextEntry(w)
    BY <1>2, <1>6, <2>1 DEF NextEntry, TickGive, AtFlush, InTick
  <2>2. CASE thread' = [thread EXCEPT ![w].pc = "refused"]
    BY <1>3, <1>6, <2>2 DEF TickGive, AtFlush, InTick
  <2> QED BY <1>6, <2>1, <2>2 DEF TickGive
<1>7. CASE TickLookup(w)
  <2>1. \A s : LET x == [thread[w] EXCEPT !.pc = "check", !.session = s]
               IN x.pc = "check" /\ x.removed = thread[w].removed
    BY <1>1 DEF Records
  <2>2. {"lookup", "check", "tickCancel"} \subseteq AtFlush /\ thread[w].pc = "lookup"
    BY <1>7 DEF TickLookup, AtFlush, InTick
  <2>3. CASE thread' = [thread EXCEPT ![w] = [thread[w] EXCEPT !.pc = "tickCancel"]]
    BY <1>3, <2>2, <2>3
  <2>4. CASE \E s : thread' = [thread EXCEPT ![w] = [thread[w] EXCEPT !.pc = "check", !.session = s]]
    <3>1. PICK s : thread' = [thread EXCEPT ![w] = [thread[w] EXCEPT !.pc = "check", !.session = s]]
      BY <2>4
    <3>2. PICK x : x = [thread[w] EXCEPT !.pc = "check", !.session = s]
      OBVIOUS
    <3>3. x.pc = "check" /\ x.removed = thread[w].removed
      BY <2>1, <3>2
    <3> QED BY <2>2, <3>1, <3>2, <3>3
  <2> QED BY <1>7, <2>3, <2>4 DEF TickLookup
<1>8. CASE \E e \in mFlushDueHeap : TickPop(w, e)
  <2>1. PICK e \in mFlushDueHeap : TickPop(w, e)
    BY <1>8
  <2>2. PICK x : x = [thread[w] EXCEPT !.pc = "lookup", !.guid = e.mGuid]
    OBVIOUS
  <2>3. thread' = thread \/ thread' = [thread EXCEPT ![w] = x]
    BY <2>1, <2>2 DEF TickPop
  <2>4. x.pc = "lookup" /\ x.removed = thread[w].removed
    BY <1>1, <2>2 DEF Records
  <2>5. {"lookup", "drain"} \subseteq AtFlush /\ thread[w].pc = "drain"
    BY <2>1 DEF TickPop, AtFlush, InTick
  <2> QED BY <2>3, <2>4, <2>5
<1> QED BY <1>4, <1>5, <1>6, <1>7, <1>8 DEF TickStep

LEMMA QuietFlushReports ==
    ASSUME ReportInv, Shape', NEW w \in Workers,
           FlushTask(w) \/ FlushCommand(w) \/ TickStep(w)
    PROVE  ReportInv'
<1>1. w \in Threads /\ ThreadsOK /\ thread[w] \in Records /\ Created \subseteq Sessions
  BY CreatedSessions DEF ReportInv, Shape, ThreadsOK, Threads
<1>2. UNCHANGED <<guidOf, mSessionContexts, toldDisconnected>>
  BY DEF FlushTask, FlushCommand, TickStep, TickBegin, TickLookup, TickCheck, TickGive, TickCommand,
         TickPop, TickEnd, table, env, told
<1>3. \/ strand' = strand
      \/ \E t \in Threads, s \in Sessions, task \in {"connected", "lost", "over", "flush"} :
            Enqueue(t, s, task)
  <2>1. CASE TickGive(w)
    <3>1. thread[w].session \in Sessions
      BY <1>1, <2>1 DEF ReportInv, Shape, ThreadsOK, RecordOK, WithSession, Of, TickGive
    <3> QED BY <1>1, <2>1, <3>1 DEF TickGive
  <2>2. CASE ~TickGive(w)
    BY <2>2 DEF FlushTask, FlushCommand, TickStep, TickBegin, TickLookup, TickCheck, TickCommand,
                TickPop, TickEnd
  <2> QED BY <2>1, <2>2
<1>4. "upsert" \notin AtFlush
  BY DEF AtFlush, InTick, Flushing
<1> QED BY <1>1, <1>2, <1>3, <1>4, FlushMoves, QuietStep

LEMMA NextKeepsReports == ReportInv /\ [Next]_vars => ReportInv'
<1> SUFFICES ASSUME ReportInv, [Next]_vars PROVE ReportInv'
  OBVIOUS
<1>0. Shape'
  BY NextKeepsShape DEF ReportInv
<1>1. CASE IoStep
  BY <1>0, <1>1, IoConnectReports, IoUpsertReports, QuietIoReports DEF IoStep
<1>2. CASE \E c \in Clients, g \in Guids : DisconnectClient(c, g)
  BY <1>0, <1>2, QuietRemovalReports
<1>3. CASE \E t \in Threads : RemoveStep(t) \/ DrainCommand(t)
  <2>1. CASE \E t \in Threads : DrainCommand(t)
    BY <1>0, <2>1, QuietStep DEF DrainCommand, table, env, told
  <2> QED BY <1>0, <1>3, <2>1, QuietRemovalReports, RemoveEraseReports, RemoveReportReports
          DEF RemoveStep
<1>4. CASE \E w \in Workers : StrandStep(w)
  BY <1>0, <1>4, TaskBeginReports, QuietFlushReports DEF StrandStep
<1>5. CASE \E w \in Workers : TickStep(w)
  BY <1>0, <1>5, QuietFlushReports
<1>6. CASE \E s \in Sessions : Destroy(s)
  BY <1>0, <1>6, QuietRemovalReports
<1>7. CASE UNCHANGED vars
  BY <1>0, <1>7, QuietStep DEF vars, table, env, told
<1> QED BY <1>1, <1>2, <1>3, <1>4, <1>5, <1>6, <1>7 DEF Next

LEMMA AtMostOne ==
    ASSUME NEW A, \A x, y \in A : x = y
    PROVE  Cardinality(A) \in {0, 1} /\ (A = {} => Cardinality(A) = 0)
<1>1. CASE A = {}
  BY <1>1, FS_EmptySet
<1>2. CASE A # {}
  <2>1. PICK x \in A : TRUE
    BY <1>2
  <2>2. A = {x}
    BY <2>1
  <2> QED BY <2>2, FS_Singleton
<1> QED BY <1>1, <1>2

LEMMA OneOrNone ==
    ASSUME NEW A, \A x, y \in A : x = y, NEW P, A # {} <=> P
    PROVE  Cardinality(A) = IF P THEN 1 ELSE 0
<1>1. CASE A = {}
  BY <1>1, FS_EmptySet
<1>2. CASE A # {}
  <2>1. PICK x \in A : TRUE
    BY <1>2
  <2>2. A = {x}
    BY <2>1
  <2> QED BY <1>2, <2>2, FS_Singleton
<1> QED BY <1>1, <1>2

(* However many threads remove a session at once, and whether the report    *)
(* waits in a strand or is made at once, mOnDisconnected is called for it   *)
(* at most once (ServerNetworkSystem.cpp:499-516, 880-901, 965-977).        *)
THEOREM DisconnectIsReportedOnce == Spec => []ReportedOnce
<1>1. ReportInv => ReportedOnce
  <2> SUFFICES ASSUME ReportInv, NEW s \in Created
               PROVE  toldDisconnected[s]
                      + Cardinality({t \in Threads : thread[t].pc = "report" /\ thread[t].removed = s})
                      + Cardinality(TasksOf(s, "disconnected")) <= 1
    BY DEF ReportedOnce
  <2>1. PICK A, B : /\ A = {t \in Threads : thread[t].pc = "report" /\ thread[t].removed = s}
                    /\ B = TasksOf(s, "disconnected")
    OBVIOUS
  <2>2. s \in Sessions /\ StrandTypes /\ OneReport
    BY CreatedSessions DEF ReportInv, Shape
  <2>3. \A x \in A : x \in Threads /\ Takes(x, s)
    BY <2>1 DEF Takes
  <2>4. \A y \in B : \E t \in Threads, i \in Nat : y = <<t, i>> /\ Notice(s, t, i)
    BY <2>1, <2>2 DEF TasksOf, Notice, Task, StrandTypes
  <2>5. Cardinality(A) \in {0, 1} /\ (A = {} => Cardinality(A) = 0)
    <3>1. \A x, y \in A : x = y
      BY <2>2, <2>3 DEF OneReport
    <3> QED BY <3>1, AtMostOne
  <2>6. Cardinality(B) \in {0, 1} /\ (B = {} => Cardinality(B) = 0)
    <3>1. \A x, y \in B : x = y
      BY <2>2, <2>4 DEF OneReport
    <3> QED BY <3>1, AtMostOne
  <2>7. /\ A # {} => B = {} /\ toldDisconnected[s] = 0
        /\ B # {} => toldDisconnected[s] = 0
        /\ toldDisconnected[s] \in {0, 1}
    <3>1. B # {} => Noticed(s)
      BY <2>4 DEF Noticed
    <3> QED BY <2>2, <2>3, <3>1 DEF OneReport
  <2>8. toldDisconnected[s] + Cardinality(A) + Cardinality(B) <= 1
    BY <2>5, <2>6, <2>7
  <2> QED BY <2>1, <2>8
<1> QED BY <1>1, InitReport, NextKeepsReports, PTL DEF Spec

-----------------------------------------------------------------------------
(* A session leaves the table for a thread that closes it, or closed; who   *)
(* deals with an empty packet closes it first.                              *)
Emptying == thread[Io].why = "empty" /\ thread[Io].pc \in {"closeFirst", "cancel", "erase"}
Closing(s) == \E t \in Threads : thread[t].pc = "close" /\ thread[t].removed = s

ClosedFirst ==
    /\ Emptying => mSessionContexts[thread[Io].guid] \in {None, thread[Io].session}
    /\ Emptying /\ thread[Io].pc # "closeFirst" => thread[Io].session \notin mConnected
    /\ ~early /\ thread[Io].pc = "upsert" => mSessionContexts[thread[Io].guid] = None

KeptOrClosed == ~early => \A s \in mConnected : Kept(s) \/ Closing(s)

CloseInv == Shape /\ ClosedFirst /\ KeptOrClosed

LEMMA InitClose == Init => CloseInv
<1>1. Init => ClosedFirst
  BY DEF Init, ClosedFirst, Emptying, Idle, Threads
<1>2. Init => KeptOrClosed
  BY DEF Init, KeptOrClosed
<1> QED BY <1>1, <1>2, InitShape DEF CloseInv

(* Steps that take nothing out of the table and do not end a removal.       *)
LEMMA CloseStays ==
    ASSUME CloseInv, Shape', UNCHANGED <<guidOf, mSessionContexts, early>>,
           mConnected' \subseteq mConnected,
           \/ thread' = thread
           \/ \E t \in Threads : \E x :
                 /\ thread' = [thread EXCEPT ![t] = x]
                 /\ thread[t].pc \notin {"upsert", "close"} /\ x.pc # "upsert"
                 /\ \/ t # Io \/ x.pc \notin {"closeFirst", "cancel", "erase"}
                    \/ thread[t].pc = "cancel" /\ x = [thread[t] EXCEPT !.pc = "erase"]
    PROVE  CloseInv'
<1>1. ThreadsOK /\ Io \in Threads /\ ClosedFirst /\ KeptOrClosed
  BY DEF CloseInv, Shape, Threads
<1>2. CASE thread' = thread
  <2>1. ClosedFirst'
    BY <1>1, <1>2 DEF ClosedFirst, Emptying
  <2>2. KeptOrClosed'
    BY <1>1, <1>2 DEF KeptOrClosed, Kept, Fresh, Closing
  <2> QED BY <2>1, <2>2 DEF CloseInv
<1>3. ASSUME NEW t \in Threads, NEW x, thread' = [thread EXCEPT ![t] = x],
             thread[t].pc \notin {"upsert", "close"}, x.pc # "upsert",
             \/ t # Io \/ x.pc \notin {"closeFirst", "cancel", "erase"}
             \/ thread[t].pc = "cancel" /\ x = [thread[t] EXCEPT !.pc = "erase"]
      PROVE  CloseInv'
  <2>1. \A u \in Threads : thread'[u] = IF u = t THEN x ELSE thread[u]
    BY <1>1, <1>3 DEF ThreadsOK
  <2>2. ClosedFirst'
    <3>1. CASE t # Io
      BY <1>1, <2>1, <3>1 DEF ClosedFirst, Emptying
    <3>2. CASE t = Io /\ x.pc \notin {"closeFirst", "cancel", "erase"}
      BY <1>1, <1>3, <2>1, <3>2 DEF ClosedFirst, Emptying
    <3>3. CASE t = Io /\ thread[t].pc = "cancel" /\ x = [thread[t] EXCEPT !.pc = "erase"]
      <4>1. x.pc = "erase" /\ x.guid = thread[Io].guid /\ x.session = thread[Io].session
            /\ x.why = thread[Io].why
        BY <1>1, <3>3 DEF ThreadsOK, Records
      <4> QED BY <1>1, <1>3, <2>1, <3>3, <4>1 DEF ClosedFirst, Emptying
    <3> QED BY <1>3, <3>1, <3>2, <3>3
  <2>3. KeptOrClosed'
    <3>1. \A s : (Kept(s) => Kept(s)') /\ (Closing(s) => Closing(s)')
      BY <1>1, <1>3, <2>1 DEF Kept, Fresh, Closing
    <3> QED BY <1>1, <3>1 DEF KeptOrClosed
  <2> QED BY <2>2, <2>3 DEF CloseInv
<1> QED BY <1>2, <1>3

LEMMA IoConnectCloses ==
    ASSUME CloseInv, NEW g \in Guids, IoConnect(g)
    PROVE  CloseInv'
<1>n. PICK n : n = Len(guidOf) + 1
  OBVIOUS
<1>0. TableTypes /\ ThreadsOK /\ KnownTable /\ KeptOrClosed /\ Shape /\ Io \in Threads
  BY DEF CloseInv, Shape, Threads
<1>1. /\ UNCHANGED <<mSessionContexts, early>> /\ mConnected' = mConnected \union {n}
      /\ early \/ mSessionContexts[g] = None
      /\ thread[Io].pc = "idle"
      /\ \A t \in Threads : t # Io => thread'[t] = thread[t]
      /\ thread'[Io].pc = "upsert" /\ thread'[Io].session = n /\ thread'[Io].guid = g
  BY <1>0, <1>n DEF IoConnect, Idle, ThreadsOK, Settled
<1>2. /\ \A s \in mConnected : guidOf'[s] = guidOf[s]
  <2>1. mConnected \subseteq 1..Len(guidOf) /\ guidOf \in Seq(Guids) /\ guidOf' = Append(guidOf, g)
    BY <1>0, CreatedSessions DEF TableTypes, KnownTable, IoConnect
  <2> QED BY <2>1
<1>3. ClosedFirst'
  BY <1>1 DEF ClosedFirst, Emptying
<1>4. Fresh(n)'
  BY <1>1 DEF Fresh
<1>5. \A s \in mConnected : (Kept(s) => Kept(s)') /\ (Closing(s) => Closing(s)')
  BY <1>1, <1>2 DEF Kept, Fresh, Closing
<1>6. KeptOrClosed'
  BY <1>0, <1>1, <1>4, <1>5 DEF KeptOrClosed, Kept
<1> QED BY <1>0, <1>3, <1>6, IoConnectShape DEF CloseInv

(* The session put in the table takes the place of none.                    *)
LEMMA IoUpsertCloses ==
    ASSUME CloseInv, IoUpsert
    PROVE  CloseInv'
<1>1. PICK s, g : s = thread[Io].session /\ g = thread[Io].guid
  OBVIOUS
<1>2. /\ TableTypes /\ ThreadsOK /\ KeptOrClosed /\ ClosedFirst /\ Shape /\ Io \in Threads
      /\ Of(s, g) /\ g \in Guids /\ thread[Io].pc = "upsert"
      /\ \A r \in Created : guidOf[r] \in Guids
      /\ mConnected \subseteq Created
      /\ UNCHANGED <<guidOf, mConnected, early>>
      /\ mSessionContexts' = [mSessionContexts EXCEPT ![g] = s]
      /\ thread'[Io].pc = "scheduleFirst"
      /\ \A t \in Threads : t # Io => thread'[t] = thread[t]
  <2>1. /\ TableTypes /\ ThreadsOK /\ KeptOrClosed /\ ClosedFirst /\ Shape /\ Io \in Threads
        /\ mConnected \subseteq Created /\ \A r \in Created : guidOf[r] \in Guids
    BY CreatedSessions DEF CloseInv, Shape, KnownTable, Threads
  <2>2. thread[Io] \in Records /\ thread[Io].pc = "upsert" /\ Of(s, g) /\ g \in Guids
    BY <1>1, <2>1 DEF IoUpsert, Step, ThreadsOK, RecordOK, WithSession, IoStatements
  <2>3. thread'[Io].pc = "scheduleFirst" /\ \A t \in Threads : t # Io => thread'[t] = thread[t]
    BY <2>1, <2>2 DEF IoUpsert, Step, ThreadsOK, Records
  <2> QED BY <1>1, <2>1, <2>2, <2>3 DEF IoUpsert, env
<1>3. ClosedFirst'
  BY <1>2 DEF ClosedFirst, Emptying
<1>4. ASSUME ~early PROVE \A r \in mConnected : (Kept(r) => Kept(r)') /\ (Closing(r) => Closing(r)')
  <2>1. mSessionContexts[g] = None /\ None \notin Created
    BY <1>1, <1>2, <1>4, CreatedSessions DEF ClosedFirst
  <2>2. \A r \in mConnected : Kept(r) => Kept(r)'
    BY <1>1, <1>2, <2>1 DEF Kept, Fresh, TableTypes, Of
  <2>3. \A r : Closing(r) => Closing(r)'
    BY <1>2 DEF Closing
  <2> QED BY <2>2, <2>3
<1>5. KeptOrClosed'
  BY <1>2, <1>4 DEF KeptOrClosed
<1> QED BY <1>2, <1>3, <1>5, IoUpsertShape DEF CloseInv

LEMMA IoReceiveCloses ==
    ASSUME CloseInv, NEW g \in Guids, NEW packet \in {"lost", "over", "empty"}, IoReceive(g, packet)
    PROVE  CloseInv'
<1>1. PICK s, x : /\ s = mSessionContexts[g]
                  /\ x = [Idle EXCEPT !.pc = IF packet = "empty" THEN "closeFirst" ELSE "pass",
                                      !.guid = g, !.session = s, !.why = packet]
  OBVIOUS
<1>2. /\ UNCHANGED <<mSessionContexts, mConnected, guidOf, early>>
      /\ thread[Io].pc = "idle" /\ Io \in Threads /\ ThreadsOK
      /\ KeptOrClosed /\ ClosedFirst /\ Shape
      /\ thread' = IF s = None THEN thread ELSE [thread EXCEPT ![Io] = x]
  BY <1>1 DEF IoReceive, env, CloseInv, Shape, Idle, Threads
<1>3. /\ x.pc \in {"closeFirst", "pass"} /\ x.guid = g /\ x.session = s
  BY <1>1 DEF Idle
<1>4. CASE s = None
  BY <1>2, <1>4, CloseStays, IoReceiveShape
<1>5. CASE s # None
  <2>1. \A u \in Threads : thread'[u] = IF u = Io THEN x ELSE thread[u]
    BY <1>2, <1>5 DEF ThreadsOK
  <2>2. ClosedFirst'
    BY <1>1, <1>2, <1>3, <2>1 DEF ClosedFirst, Emptying
  <2>3. \A r : (Kept(r) => Kept(r)') /\ (Closing(r) => Closing(r)')
    BY <1>2, <1>3, <2>1 DEF Kept, Fresh, Closing
  <2>4. KeptOrClosed'
    BY <1>2, <2>3 DEF KeptOrClosed
  <2> QED BY <1>2, <2>2, <2>4, IoReceiveShape DEF CloseInv
<1> QED BY <1>4, <1>5

LEMMA IoCloseFirstCloses ==
    ASSUME CloseInv, IoCloseFirst
    PROVE  CloseInv'
<1>1. /\ UNCHANGED <<mSessionContexts, guidOf, early>> /\ Io \in Threads /\ ThreadsOK
      /\ KeptOrClosed /\ ClosedFirst /\ Shape
      /\ thread[Io].pc = "closeFirst" /\ thread[Io].why = "empty" /\ thread[Io] \in Records
      /\ mConnected' = mConnected \ {thread[Io].session}
      /\ thread' = [thread EXCEPT ![Io] = [thread[Io] EXCEPT !.pc = "cancel"]]
  BY DEF IoCloseFirst, Step, Disconnect, env, CloseInv, Shape, ThreadsOK, RecordOK, Threads
<1>2. /\ \A u \in Threads : u # Io => thread'[u] = thread[u]
      /\ thread'[Io].pc = "cancel" /\ thread'[Io].guid = thread[Io].guid
      /\ thread'[Io].session = thread[Io].session
  BY <1>1 DEF ThreadsOK, Records
<1>3. ClosedFirst'
  BY <1>1, <1>2 DEF ClosedFirst, Emptying
<1>4. \A r : (Kept(r) => Kept(r)') /\ (Closing(r) => Closing(r)')
  BY <1>1, <1>2 DEF Kept, Fresh, Closing
<1>5. KeptOrClosed'
  BY <1>1, <1>4 DEF KeptOrClosed
<1> QED BY <1>1, <1>3, <1>5, IoCloseFirstShape DEF CloseInv

(* Who takes a session out that is connected goes on to close it.           *)
LEMMA RemoveEraseCloses ==
    ASSUME CloseInv, NEW t \in Threads, RemoveErase(t)
    PROVE  CloseInv'
<1>1. PICK g, r : g = thread[t].guid /\ r = mSessionContexts[g]
  OBVIOUS
<1>2. /\ TableTypes /\ ThreadsOK /\ KeptOrClosed /\ ClosedFirst /\ Shape /\ Io \in Threads
      /\ thread[t] \in Records /\ thread[t].pc = "erase" /\ g \in Guids
      /\ None \notin Created /\ mConnected \subseteq Created
      /\ \A s \in Created : guidOf[s] \in Guids
      /\ thread[t].why = "empty" => t = Io
      /\ mSessionContexts' = [mSessionContexts EXCEPT ![g] = None]
      /\ UNCHANGED <<mConnected, guidOf, early>>
      /\ \/ /\ thread' = [thread EXCEPT ![t] = Idle]
            /\ thread[t].why = "empty" \/ r = None
         \/ thread' = [thread EXCEPT ![t] = [thread[t] EXCEPT !.pc = "close", !.removed = r]]
  <2>1. /\ TableTypes /\ ThreadsOK /\ KeptOrClosed /\ ClosedFirst /\ Shape /\ Io \in Threads
        /\ None \notin Created /\ mConnected \subseteq Created
        /\ \A s \in Created : guidOf[s] \in Guids
    BY CreatedSessions DEF CloseInv, Shape, KnownTable, Threads
  <2>2. thread[t] \in Records /\ thread[t].why = "empty" => t = Io
    BY <2>1 DEF ThreadsOK, RecordOK
  <2> QED BY <1>1, <2>1, <2>2, EraseEffect DEF env, ThreadsOK, RecordOK
<1>3. /\ \A u \in Threads : u # t => thread'[u] = thread[u]
      /\ \/ thread'[t].pc = "idle" /\ (thread[t].why = "empty" \/ r = None)
         \/ thread'[t].pc = "close" /\ thread'[t].removed = r
  <2>1. CASE /\ thread' = [thread EXCEPT ![t] = Idle]
             /\ thread[t].why = "empty" \/ r = None
    BY <1>2, <2>1 DEF ThreadsOK, Idle
  <2>2. CASE thread' = [thread EXCEPT ![t] = [thread[t] EXCEPT !.pc = "close", !.removed = r]]
    BY <1>2, <2>2 DEF ThreadsOK, Records
  <2> QED BY <1>2, <2>1, <2>2
<1>4. ClosedFirst'
  <2>1. \A h \in Guids : mSessionContexts'[h] \in {None, mSessionContexts[h]}
    BY <1>2 DEF TableTypes
  <2>2. thread[Io].pc \notin {"idle", "drain"} => thread[Io].guid \in Guids
    BY <1>2 DEF ThreadsOK, RecordOK
  <2> QED BY <1>2, <1>3, <2>1, <2>2 DEF ClosedFirst, Emptying
<1>5. \A s \in mConnected : Kept(s) \/ Closing(s) => (Kept(s) \/ Closing(s))'
  <2> SUFFICES ASSUME NEW s \in mConnected, Kept(s) \/ Closing(s)
               PROVE  (Kept(s) \/ Closing(s))'
    OBVIOUS
  <2>1. CASE Closing(s)
    BY <1>2, <1>3, <2>1 DEF Closing
  <2>2. CASE Fresh(s)
    BY <1>2, <1>3, <2>2 DEF Fresh, Kept
  <2>3. CASE mSessionContexts[guidOf[s]] = s /\ guidOf[s] # g
    BY <1>2, <2>3 DEF Kept, TableTypes
  <2>4. CASE mSessionContexts[guidOf[s]] = s /\ guidOf[s] = g
    <3>1. s = r /\ r # None
      BY <1>1, <1>2, <2>4
    <3>2. thread[t].why # "empty"
      BY <1>1, <1>2, <3>1 DEF ClosedFirst, Emptying
    <3> QED BY <1>3, <3>1, <3>2 DEF Closing
  <2> QED BY <2>1, <2>2, <2>3, <2>4 DEF Kept
<1>6. KeptOrClosed'
  BY <1>2, <1>5 DEF KeptOrClosed
<1> QED BY <1>2, <1>4, <1>6, RemoveEraseShape DEF CloseInv

LEMMA RemoveCloseCloses ==
    ASSUME CloseInv, NEW t \in Threads, RemoveClose(t)
    PROVE  CloseInv'
<1>1. PICK r : r = thread[t].removed
  OBVIOUS
<1>2. /\ ThreadsOK /\ KeptOrClosed /\ ClosedFirst /\ Shape /\ Io \in Threads /\ thread[t].pc = "close"
      /\ UNCHANGED <<mSessionContexts, guidOf, early>>
      /\ mConnected' \subseteq mConnected
      /\ r # None => r \notin mConnected'
      /\ None \notin Created /\ mConnected \subseteq Created
  BY <1>1, CreatedSessions
     DEF CloseInv, Shape, KnownTable, Threads, RemoveClose, Disconnect, env
<1>3. /\ \A u \in Threads : u # t => thread'[u] = thread[u]
      /\ thread'[t].pc \in {"idle", "report"}
  <2>1. thread[t] \in Records
    BY <1>2 DEF ThreadsOK
  <2> QED BY <1>2, <2>1 DEF RemoveClose, Finish, Idle, ThreadsOK, Records
<1>4. ClosedFirst'
  BY <1>2, <1>3 DEF ClosedFirst, Emptying
<1>5. \A s \in mConnected' : (Kept(s) => Kept(s)') /\ (Closing(s) => Closing(s)')
  BY <1>1, <1>2, <1>3 DEF Kept, Fresh, Closing
<1>6. KeptOrClosed'
  BY <1>2, <1>5 DEF KeptOrClosed
<1> QED BY <1>2, <1>4, <1>6, RemoveCloseShape DEF CloseInv

(* All other steps.                                                         *)
LEMMA OtherStepsClose ==
    ASSUME CloseInv, Shape',
           \/ IoScheduleFirst \/ IoAnnounce \/ IoPass
           \/ \E c \in Clients, g \in Guids : DisconnectClient(c, g)
           \/ \E t \in Threads : RemoveCancel(t) \/ RemoveReport(t) \/ DrainCommand(t)
           \/ \E w \in Workers, s \in Sessions, t \in Threads : TaskBegin(w, s, t)
           \/ \E w \in Workers : FlushTask(w) \/ FlushCommand(w) \/ TickStep(w)
           \/ \E s \in Sessions : Destroy(s)
           \/ UNCHANGED vars
    PROVE  CloseInv'
<1>1. /\ ThreadsOK /\ (\A t \in Threads : thread[t] \in Records) /\ Shape
      /\ Io \in Threads /\ Clients \subseteq Threads /\ Workers \subseteq Threads
      /\ Io \notin Workers /\ Io \notin Clients
  BY ThreadsAssumption DEF CloseInv, Shape, ThreadsOK, Threads
<1>2. Idle.pc = "idle"
  BY DEF Idle
<1>3. CASE IoScheduleFirst \/ IoAnnounce \/ IoPass
  <2>1. \/ thread' = [thread EXCEPT ![Io] = Idle]
        \/ thread' = [thread EXCEPT ![Io] = [thread[Io] EXCEPT !.pc = "announce"]]
    BY <1>3 DEF IoScheduleFirst, IoAnnounce, IoPass, Step, Finish
  <2>2. [thread[Io] EXCEPT !.pc = "announce"].pc = "announce"
    BY <1>1 DEF Records
  <2>3. thread[Io].pc \notin {"upsert", "close"}
    BY <1>3 DEF IoScheduleFirst, IoAnnounce, IoPass, Step
  <2>4. UNCHANGED <<guidOf, mSessionContexts, mConnected, early>>
    BY <1>3 DEF IoScheduleFirst, IoAnnounce, IoPass, table, env
  <2> QED BY <1>1, <1>2, <2>1, <2>2, <2>3, <2>4, CloseStays
<1>4. CASE \E c \in Clients, g \in Guids : DisconnectClient(c, g)
  <2>1. PICK c \in Clients, g \in Guids : DisconnectClient(c, g)
    BY <1>4
  <2>2. PICK x : x = [Idle EXCEPT !.pc = "cancel", !.guid = g, !.why = "client"]
    OBVIOUS
  <2>3. /\ thread' = [thread EXCEPT ![c] = x] /\ thread[c] = Idle
        /\ UNCHANGED <<guidOf, mSessionContexts, mConnected, early>>
    BY <2>1, <2>2 DEF DisconnectClient, table, env
  <2>4. x.pc = "cancel"
    BY <2>2 DEF Idle
  <2> QED BY <1>1, <1>2, <2>3, <2>4, CloseStays
<1>5. CASE \E t \in Threads : RemoveCancel(t) \/ RemoveReport(t)
  <2>1. PICK t \in Threads : RemoveCancel(t) \/ RemoveReport(t)
    BY <1>5
  <2>2. PICK x : x = [thread[t] EXCEPT !.pc = "erase"]
    OBVIOUS
  <2>3. x.pc = "erase"
    BY <1>1, <2>2 DEF Records
  <2>4. /\ \/ thread' = [thread EXCEPT ![t] = x] /\ thread[t].pc = "cancel"
           \/ thread' = [thread EXCEPT ![t] = Idle] /\ thread[t].pc = "report"
        /\ UNCHANGED <<guidOf, mSessionContexts, mConnected, early>>
    BY <2>1, <2>2 DEF RemoveCancel, RemoveReport, Step, Finish, table, env
  <2> QED BY <1>2, <2>2, <2>3, <2>4, CloseStays
<1>6. CASE \E w \in Workers, s \in Sessions, t \in Threads : TaskBegin(w, s, t)
  <2>1. PICK w \in Workers, s \in Sessions, t \in Threads : TaskBegin(w, s, t)
    BY <1>6
  <2>2. \A pc, why : StrandWork(guidOf[s], s, pc, why).pc = pc
    BY DEF StrandWork, Idle
  <2>3. \/ thread' = thread
        \/ \E x : thread' = [thread EXCEPT ![w] = x] /\ x.pc \in {"flush", "cancel"}
    BY <1>1, <2>1, <2>2, TaskEffect
  <2>4. thread[w] = Idle /\ UNCHANGED <<guidOf, mSessionContexts, mConnected, early>>
    BY <1>1, <2>1, TaskEffect DEF table
  <2> QED BY <1>1, <1>2, <2>3, <2>4, CloseStays
<1>7. CASE \E w \in Workers : FlushTask(w) \/ FlushCommand(w) \/ TickStep(w)
  <2>1. PICK w \in Workers : FlushTask(w) \/ FlushCommand(w) \/ TickStep(w)
    BY <1>7
  <2>2. UNCHANGED <<guidOf, mSessionContexts, mConnected, early>>
    BY <2>1 DEF FlushTask, FlushCommand, TickStep, TickBegin, TickLookup, TickCheck, TickGive,
                TickCommand, TickPop, TickEnd, table, env
  <2>3. AtFlush \intersect {"upsert", "close"} = {}
    BY DEF AtFlush, InTick, Flushing
  <2> QED BY <1>1, <2>1, <2>2, <2>3, FlushMoves, CloseStays
<1>8. CASE \E s \in Sessions : Destroy(s)
  BY <1>8, CloseStays DEF Destroy, Disconnect, env
<1>9. CASE UNCHANGED vars \/ \E t \in Threads : DrainCommand(t)
  BY <1>9, CloseStays DEF DrainCommand, vars, table, env
<1> QED BY <1>3, <1>4, <1>5, <1>6, <1>7, <1>8, <1>9

LEMMA NextKeepsClose == CloseInv /\ [Next]_vars => CloseInv'
<1> SUFFICES ASSUME CloseInv, [Next]_vars PROVE CloseInv'
  OBVIOUS
<1>0. Shape'
  BY NextKeepsShape DEF CloseInv
<1>1. CASE IoStep
  BY <1>0, <1>1, IoConnectCloses, IoUpsertCloses, IoReceiveCloses, IoCloseFirstCloses,
     OtherStepsClose DEF IoStep
<1>2. CASE \E t \in Threads : RemoveStep(t) \/ DrainCommand(t)
  BY <1>0, <1>2, RemoveEraseCloses, RemoveCloseCloses, OtherStepsClose DEF RemoveStep
<1>3. CASE \E w \in Workers : StrandStep(w)
  BY <1>0, <1>3, OtherStepsClose DEF StrandStep
<1>4. CASE \/ \E c \in Clients, g \in Guids : DisconnectClient(c, g)
           \/ \E w \in Workers : TickStep(w)
           \/ \E s \in Sessions : Destroy(s)
           \/ UNCHANGED vars
  BY <1>0, <1>4, OtherStepsClose
<1> QED BY <1>1, <1>2, <1>3, <1>4 DEF Next

(* A session that is connected is in the table, on its way there, or in the *)
(* hands of the thread that took it out and closes it                       *)
(* (ServerNetworkSystem.cpp:499-506, 736-745, 833-840, 880-885).            *)
THEOREM RemovedSessionsAreClosed == Spec => []RemovedIsClosed
<1>1. CloseInv => RemovedIsClosed
  BY DEF CloseInv, KeptOrClosed, RemovedIsClosed, Kept, Fresh, Closing
<1> QED BY <1>1, InitClose, NextKeepsClose, PTL DEF Spec

-----------------------------------------------------------------------------
(* Where the flushes of a GUID are: in a command, in the heap, in the hands *)
(* of a worker, or in a strand.                                             *)
HandStatements == {"lookup", "check", "give", "refused", "tickAgain", "flush", "again"}
Queued(kind, g, t, i) == /\ i \in DOMAIN mFlushScheduleCommands[t]
                         /\ mFlushScheduleCommands[t][i] = [mKind |-> kind, mGuid |-> g]
Flush(g, s, t, i) == guidOf[s] = g /\ Task("flush", s, t, i)

Commanded(kind, g) == \E t \in Threads, i \in Nat : Queued(kind, g, t, i)
Due(g)             == \E e \in mFlushDueHeap : e.mGuid = g /\ mFlushDueTokens[g] = e.mToken
InHands(g)         == \E w \in Workers : thread[w].guid = g /\ thread[w].pc \in HandStatements
Ending(g)          == \E w \in Workers : thread[w].guid = g /\ thread[w].pc \in {"tickCancel", "never"}
FlushQueued(g)     == \E s \in Created, t \in Threads, i \in Nat : Flush(g, s, t, i)

(* The commands after one is given, or one is taken.                        *)
LEMMA CommandAdded ==
    ASSUME ScheduleTypes, NEW t \in Threads, NEW k, NEW g, Command(t, k, g)
    PROVE  \A kind, h : \A u \in Threads, i \in Nat :
              Queued(kind, h, u, i)' <=> \/ Queued(kind, h, u, i)
                                         \/ /\ kind = k /\ h = g /\ u = t
                                            /\ i = Len(mFlushScheduleCommands[t]) + 1
<1>1. PICK q, c : q = mFlushScheduleCommands[t] /\ c = [mKind |-> k, mGuid |-> g]
  OBVIOUS
<1>2. q \in Seq(Commands) /\ Len(q) \in Nat /\ DOMAIN q = 1..Len(q)
  BY <1>1 DEF ScheduleTypes
<1>3. mFlushScheduleCommands' = [mFlushScheduleCommands EXCEPT ![t] = Append(q, c)]
  BY <1>1 DEF Command
<1>4. \A u \in Threads : mFlushScheduleCommands'[u] =
                            IF u = t THEN Append(q, c) ELSE mFlushScheduleCommands[u]
  BY <1>3 DEF ScheduleTypes
<1>5. \A i \in Nat : /\ i \in DOMAIN Append(q, c) <=> i \in DOMAIN q \/ i = Len(q) + 1
                     /\ i \in DOMAIN q => Append(q, c)[i] = q[i]
                     /\ i = Len(q) + 1 => Append(q, c)[i] = c /\ i \notin DOMAIN q
  BY <1>2
<1>6. \A kind, h : [mKind |-> kind, mGuid |-> h] = c <=> kind = k /\ h = g
  BY <1>1
<1>7. \A kind, h : \A u \in Threads, i \in Nat :
         u = t => (Queued(kind, h, u, i)' <=> \/ Queued(kind, h, u, i)
                                              \/ kind = k /\ h = g /\ i = Len(q) + 1)
  <2> SUFFICES ASSUME NEW kind, NEW h, NEW i \in Nat
               PROVE  Queued(kind, h, t, i)' <=> \/ Queued(kind, h, t, i)
                                                 \/ kind = k /\ h = g /\ i = Len(q) + 1
    OBVIOUS
  <2>1. PICK d : d = [mKind |-> kind, mGuid |-> h]
    OBVIOUS
  <2>2. d = c <=> kind = k /\ h = g
    BY <1>6, <2>1
  <2>3. Queued(kind, h, t, i)' <=> i \in DOMAIN Append(q, c) /\ Append(q, c)[i] = d
    BY <1>4, <2>1 DEF Queued
  <2>4. Queued(kind, h, t, i) <=> i \in DOMAIN q /\ q[i] = d
    BY <1>1, <2>1 DEF Queued
  <2> QED BY <1>5, <2>2, <2>3, <2>4
<1>8. \A kind, h : \A u \in Threads, i \in Nat :
         u # t => (Queued(kind, h, u, i)' <=> Queued(kind, h, u, i))
  BY <1>4 DEF Queued
<1> QED BY <1>1, <1>7, <1>8

LEMMA CommandTaken ==
    ASSUME ScheduleTypes, NEW t \in Threads, mFlushScheduleCommands[t] # <<>>,
           mFlushScheduleCommands' = [mFlushScheduleCommands EXCEPT ![t] = Tail(@)]
    PROVE  LET c == Head(mFlushScheduleCommands[t])
           IN /\ c \in Commands
              /\ \A kind, h : Queued(kind, h, t, 1) <=> c = [mKind |-> kind, mGuid |-> h]
              /\ \A kind, h : \A u \in Threads, i \in Nat :
                    Queued(kind, h, u, i)' <=> IF u = t THEN i # 0 /\ Queued(kind, h, u, i + 1)
                                                        ELSE Queued(kind, h, u, i)
<1>1. PICK q : q = mFlushScheduleCommands[t]
  OBVIOUS
<1>2. q \in Seq(Commands) /\ q # <<>> /\ Len(q) \in Nat /\ Len(q) > 0 /\ DOMAIN q = 1..Len(q)
  BY <1>1 DEF ScheduleTypes
<1>3. Head(q) = q[1] /\ q[1] \in Commands /\ 1 \in DOMAIN q
  BY <1>2
<1>4. \A u \in Threads : mFlushScheduleCommands'[u] =
                            IF u = t THEN Tail(q) ELSE mFlushScheduleCommands[u]
  BY <1>1 DEF ScheduleTypes
<1>5. /\ DOMAIN Tail(q) = 1..(Len(q) - 1)
      /\ \A i \in 1..(Len(q) - 1) : Tail(q)[i] = q[i + 1]
  BY <1>2
<1>6. \A i \in Nat : i \in 1..(Len(q) - 1) <=> i # 0 /\ i + 1 \in 1..Len(q)
  BY <1>2
<1>7. \A i \in Nat : /\ i \in DOMAIN Tail(q) <=> i # 0 /\ i + 1 \in DOMAIN q
                     /\ i \in DOMAIN Tail(q) => Tail(q)[i] = q[i + 1]
  BY <1>2, <1>5, <1>6
<1>8. \A kind, h : \A u \in Threads, i \in Nat :
         u = t => (Queued(kind, h, u, i)' <=> i # 0 /\ Queued(kind, h, u, i + 1))
  BY <1>1, <1>4, <1>7 DEF Queued
<1>9. \A kind, h : \A u \in Threads, i \in Nat :
         u # t => (Queued(kind, h, u, i)' <=> Queued(kind, h, u, i))
  BY <1>4 DEF Queued
<1>10. \A kind, h : Queued(kind, h, t, 1) <=> Head(q) = [mKind |-> kind, mGuid |-> h]
  BY <1>1, <1>3 DEF Queued
<1> QED BY <1>1, <1>3, <1>8, <1>9, <1>10

(* What holds a GUID's token: the flush that is under way, or the command   *)
(* that will end it.                                                        *)
TokenHeld(g) == \/ Due(g) \/ Commanded("Schedule", g) \/ Commanded("Cancel", g)
                \/ InHands(g) \/ Ending(g) \/ FlushQueued(g)
TokensHeld == \A g \in Guids : mFlushDueTokens[g] # None => TokenHeld(g)
TokenInv == Shape /\ TokensHeld

LEMMA InitTokens == Init => TokenInv
<1>1. Init => TokensHeld
  BY DEF Init, TokensHeld
<1> QED BY <1>1, InitShape DEF TokenInv

Holding == HandStatements \union {"tickCancel", "never"}

LEMMA CommandsKept ==
    ASSUME ScheduleTypes,
           \/ mFlushScheduleCommands' = mFlushScheduleCommands
           \/ \E t \in Threads : \E k, g : Command(t, k, g)
    PROVE  \A kind, h : Commanded(kind, h) => Commanded(kind, h)'
<1>1. \A kind, h : \A u \in Threads, i \in Nat : Queued(kind, h, u, i) => Queued(kind, h, u, i)'
  <2>1. CASE mFlushScheduleCommands' = mFlushScheduleCommands
    BY <2>1 DEF Queued
  <2>2. CASE \E t \in Threads : \E k, g : Command(t, k, g)
    BY <2>2, CommandAdded
  <2> QED BY <2>1, <2>2
<1> QED BY <1>1 DEF Commanded

LEMMA FlushesKept ==
    ASSUME Shape, UNCHANGED guidOf,
           \/ strand' = strand
           \/ \E t \in Threads, s \in Sessions,
                 task \in {"connected", "disconnected", "lost", "over", "flush"} : Enqueue(t, s, task)
    PROVE  \A g : FlushQueued(g) => FlushQueued(g)'
<1>1. \A s \in Sessions, u \in Threads, i \in Nat : Task("flush", s, u, i) => Task("flush", s, u, i)'
  <2>1. CASE strand' = strand
    BY <2>1 DEF Task
  <2>2. CASE \E t \in Threads, s \in Sessions,
                 task \in {"connected", "disconnected", "lost", "over", "flush"} : Enqueue(t, s, task)
    BY <2>2, TaskAdded DEF Shape
  <2> QED BY <2>1, <2>2
<1>2. Created \subseteq Sessions /\ Created' = Created
  BY CreatedSessions DEF Shape, Created
<1> QED BY <1>1, <1>2 DEF FlushQueued, Flush

LEMMA HoldersStay ==
    ASSUME ThreadsOK,
           \/ thread' = thread
           \/ \E t \in Threads : \E x :
                 /\ thread' = [thread EXCEPT ![t] = x]
                 /\ \/ t \notin Workers \/ thread[t].pc \notin Holding
                    \/ x.pc \in Holding /\ x.guid = thread[t].guid
                    \/ \E g : g = thread[t].guid /\ TokenHeld(g)'
    PROVE  \A g : InHands(g) \/ Ending(g) => TokenHeld(g)'
<1>1. \A g : InHands(g) \/ Ending(g) <=>
               \E w \in Workers : thread[w].guid = g /\ thread[w].pc \in Holding
  BY DEF InHands, Ending, Holding
<1>2. \A g : (\E w \in Workers : thread'[w].guid = g /\ thread'[w].pc \in Holding) => TokenHeld(g)'
  BY DEF InHands, Ending, Holding, TokenHeld
<1>3. CASE thread' = thread
  BY <1>1, <1>2, <1>3
<1>4. ASSUME NEW t \in Threads, NEW x, thread' = [thread EXCEPT ![t] = x],
             \/ t \notin Workers \/ thread[t].pc \notin Holding
             \/ x.pc \in Holding /\ x.guid = thread[t].guid
             \/ \E g : g = thread[t].guid /\ TokenHeld(g)'
      PROVE  \A g : InHands(g) \/ Ending(g) => TokenHeld(g)'
  <2> SUFFICES ASSUME NEW g, NEW w \in Workers, thread[w].guid = g, thread[w].pc \in Holding
               PROVE  TokenHeld(g)'
    BY <1>1
  <2>1. \A u \in Threads : thread'[u] = IF u = t THEN x ELSE thread[u]
    BY <1>4 DEF ThreadsOK
  <2>2. CASE w # t
    <3>1. thread'[w].guid = g /\ thread'[w].pc \in Holding
      BY <2>1, <2>2 DEF Threads
    <3> QED BY <1>2, <3>1
  <2>3. CASE w = t /\ x.pc \in Holding /\ x.guid = thread[t].guid
    <3>1. thread'[w].guid = g /\ thread'[w].pc \in Holding
      BY <2>1, <2>3 DEF Threads
    <3> QED BY <1>2, <3>1
  <2>4. CASE w = t /\ \E h : h = thread[t].guid /\ TokenHeld(h)'
    <3>1. PICK h : h = thread[t].guid /\ TokenHeld(h)'
      BY <2>4
    <3>2. h = g
      BY <2>4, <3>1
    <3> QED BY <3>1, <3>2
  <2> QED BY <1>4, <2>2, <2>3, <2>4
<1> QED BY <1>3, <1>4

(* Steps that only add to what holds tokens.                                *)
LEMMA TokensStay ==
    ASSUME TokenInv, Shape', UNCHANGED <<guidOf, mFlushDueTokens, mFlushDueHeap>>,
           \/ mFlushScheduleCommands' = mFlushScheduleCommands
           \/ \E t \in Threads : \E k, g : Command(t, k, g),
           \/ strand' = strand
           \/ \E t \in Threads, s \in Sessions,
                 task \in {"connected", "disconnected", "lost", "over", "flush"} : Enqueue(t, s, task),
           \/ thread' = thread
           \/ \E t \in Threads : \E x :
                 /\ thread' = [thread EXCEPT ![t] = x]
                 /\ \/ t \notin Workers \/ thread[t].pc \notin Holding
                    \/ x.pc \in Holding /\ x.guid = thread[t].guid
                    \/ \E g : g = thread[t].guid /\ TokenHeld(g)'
    PROVE  TokenInv'
<1>1. ScheduleTypes /\ ThreadsOK /\ TokensHeld /\ Shape
  BY DEF TokenInv, Shape
<1>2. \A kind, h : Commanded(kind, h) => Commanded(kind, h)'
  BY <1>1, CommandsKept
<1>3. \A g : FlushQueued(g) => FlushQueued(g)'
  BY <1>1, FlushesKept
<1>4. \A g : InHands(g) \/ Ending(g) => TokenHeld(g)'
  BY <1>1, HoldersStay
<1>5. \A g : Due(g) => Due(g)'
  BY DEF Due
<1>6. \A g : TokenHeld(g) => TokenHeld(g)'
  BY <1>2, <1>3, <1>4, <1>5 DEF TokenHeld
<1>7. TokensHeld'
  BY <1>1, <1>6 DEF TokensHeld
<1> QED BY <1>7 DEF TokenInv

LEMMA IoConnectTokens ==
    ASSUME TokenInv, NEW g \in Guids, IoConnect(g)
    PROVE  TokenInv'
<1>1. TableTypes /\ ThreadsOK /\ TokensHeld /\ Shape /\ Io \in Threads /\ Io \notin Workers
  BY ThreadsAssumption DEF TokenInv, Shape, Threads
<1>2. /\ UNCHANGED <<mFlushScheduleCommands, mFlushDueHeap, mFlushDueTokens, strand>>
      /\ guidOf' = Append(guidOf, g) /\ \A w \in Workers : thread'[w] = thread[w]
  BY <1>1 DEF IoConnect, schedule, ThreadsOK, Threads
<1>3. Created \subseteq Created' /\ \A s \in Created : guidOf'[s] = guidOf[s]
  BY <1>1, <1>2 DEF TableTypes, Created
<1>4. \A h : FlushQueued(h) => FlushQueued(h)'
  BY <1>2, <1>3 DEF FlushQueued, Flush, Task
<1>5. \A h : TokenHeld(h) => TokenHeld(h)'
  BY <1>2, <1>4 DEF TokenHeld, Due, Commanded, Queued, InHands, Ending
<1>6. TokensHeld'
  BY <1>1, <1>2, <1>5 DEF TokensHeld
<1> QED BY <1>1, <1>6, IoConnectShape DEF TokenInv

LEMMA TaskBeginTokens ==
    ASSUME TokenInv, NEW w \in Workers, NEW s \in Sessions, NEW t \in Threads, TaskBegin(w, s, t)
    PROVE  TokenInv'
<1>1. PICK task : task = Head(strand[s][t])
  OBVIOUS
<1>2. /\ StrandTypes /\ ThreadsOK /\ TokensHeld /\ Shape /\ w \in Threads
      /\ Created \subseteq Sessions /\ Created' = Created /\ s \in Created
      /\ UNCHANGED <<guidOf, mFlushScheduleCommands, mFlushDueHeap, mFlushDueTokens>>
      /\ strand[s][t] # <<>> /\ strand' = [strand EXCEPT ![s][t] = Tail(@)]
      /\ thread[w] = Idle
  BY TaskEffect, CreatedSessions DEF TokenInv, Shape, Threads, table, schedule, Created
<1>3. \/ task # "flush" /\ \/ thread' = thread
                           \/ \E x : thread' = [thread EXCEPT ![w] = x]
      \/ task = "flush" /\ \E x : thread' = [thread EXCEPT ![w] = x]
                                   /\ x.pc = "flush" /\ x.guid = guidOf[s]
  <2>1. \A pc, why : /\ StrandWork(guidOf[s], s, pc, why).pc = pc
                     /\ StrandWork(guidOf[s], s, pc, why).guid = guidOf[s]
    BY DEF StrandWork, Idle
  <2>2. /\ task = "flush" =>
              thread' = [thread EXCEPT ![w] = StrandWork(guidOf[s], s, "flush", "flush")]
        /\ task # "flush" =>
              \/ thread' = thread
              \/ \E why \in {"lost", "over"} :
                    thread' = [thread EXCEPT ![w] = StrandWork(guidOf[s], s, "cancel", why)]
    BY <1>1, TaskEffect DEF TokenInv
  <2>3. PICK x : x = StrandWork(guidOf[s], s, "flush", "flush")
    OBVIOUS
  <2>4. x.pc = "flush" /\ x.guid = guidOf[s]
    BY <2>1, <2>3
  <2>5. CASE task = "flush"
    BY <2>2, <2>3, <2>4, <2>5
  <2>6. CASE task # "flush"
    <3>1. \/ thread' = thread
          \/ \E why \in {"lost", "over"} :
                thread' = [thread EXCEPT ![w] = StrandWork(guidOf[s], s, "cancel", why)]
      BY <2>2, <2>6
    <3>2. \/ thread' = thread
          \/ \E y : thread' = [thread EXCEPT ![w] = y]
      BY <3>1
    <3> QED BY <2>6, <3>2
  <2> QED BY <2>5, <2>6
<1>4. \A g : InHands(g) \/ Ending(g) => (InHands(g) \/ Ending(g))'
  <2>1. \A v \in Workers : thread[v].pc # "idle" => thread'[v] = thread[v]
    <3>1. thread[w].pc = "idle"
      BY <1>2 DEF Idle
    <3>2. \/ thread' = thread \/ \E x : thread' = [thread EXCEPT ![w] = x]
      BY <1>3
    <3> QED BY <1>2, <3>1, <3>2 DEF ThreadsOK, Threads
  <2> QED BY <2>1 DEF InHands, Ending, HandStatements
<1>5. /\ Task(task, s, t, 1)
      /\ \A r \in Sessions, u \in Threads, i \in Nat :
            Task("flush", r, u, i)' <=> IF r = s /\ u = t THEN i # 0 /\ Task("flush", r, u, i + 1)
                                                          ELSE Task("flush", r, u, i)
  BY <1>1, <1>2, TaskTaken
<1>6. \A g : FlushQueued(g) => FlushQueued(g)' \/ (task = "flush" /\ g = guidOf[s])
  <2> SUFFICES ASSUME NEW g, NEW r \in Created, NEW u \in Threads, NEW i \in Nat, Flush(g, r, u, i)
               PROVE  FlushQueued(g)' \/ (task = "flush" /\ g = guidOf[s])
    BY DEF FlushQueued
  <2>1. guidOf[r] = g /\ Task("flush", r, u, i) /\ r \in Sessions
    BY <1>2 DEF Flush
  <2>2. CASE ~(r = s /\ u = t)
    <3>1. Task("flush", r, u, i)'
      BY <1>5, <2>1, <2>2
    <3> QED BY <1>2, <2>1, <3>1 DEF FlushQueued, Flush
  <2>3. CASE r = s /\ u = t /\ i = 1
    BY <1>5, <2>1, <2>3 DEF Task
  <2>4. CASE r = s /\ u = t /\ i # 1
    <3>1. i # 0
      BY <1>2, <2>1, <2>4 DEF Task, StrandTypes
    <3>2. PICK j \in Nat : j # 0 /\ i = j + 1
      BY <2>4, <3>1
    <3>3. Task("flush", r, u, j)'
      BY <1>5, <2>1, <2>4, <3>2
    <3> QED BY <1>2, <2>1, <3>3 DEF FlushQueued, Flush
  <2> QED BY <2>2, <2>3, <2>4
<1>7. task = "flush" => \E g : g = guidOf[s] /\ InHands(g)'
  <2> SUFFICES ASSUME task = "flush" PROVE \E g : g = guidOf[s] /\ InHands(g)'
    OBVIOUS
  <2>1. PICK x : thread' = [thread EXCEPT ![w] = x] /\ x.pc = "flush" /\ x.guid = guidOf[s]
    BY <1>3
  <2>2. thread'[w] = x
    BY <1>2, <2>1 DEF ThreadsOK
  <2>3. PICK g : g = guidOf[s]
    OBVIOUS
  <2>4. InHands(g)'
    BY <2>1, <2>2, <2>3 DEF InHands, HandStatements
  <2> QED BY <2>3, <2>4
<1>8. \A g : TokenHeld(g) => TokenHeld(g)'
  BY <1>2, <1>4, <1>6, <1>7 DEF TokenHeld, Due, Commanded, Queued
<1>9. TokensHeld'
  BY <1>2, <1>8 DEF TokensHeld
<1> QED BY <1>2, <1>9, TaskBeginShape DEF TokenInv

(* A command that schedules makes an entry with the new token; one that     *)
(* cancels leaves no token.                                                 *)
LEMMA DrainCommandTokens ==
    ASSUME TokenInv, NEW t \in Threads, DrainCommand(t)
    PROVE  TokenInv'
<1>1. PICK c, g : c = Head(mFlushScheduleCommands[t]) /\ g = c.mGuid
  OBVIOUS
<1>2. /\ ScheduleTypes /\ TokensHeld /\ Shape
      /\ mFlushScheduleCommands[t] # <<>>
      /\ mFlushScheduleCommands' = [mFlushScheduleCommands EXCEPT ![t] = Tail(@)]
      /\ UNCHANGED <<guidOf, strand, thread>>
  BY DEF TokenInv, Shape, DrainCommand, table
<1>3. /\ c \in Commands
      /\ \A kind, h : Queued(kind, h, t, 1) <=> c = [mKind |-> kind, mGuid |-> h]
      /\ \A kind, h : \A u \in Threads, i \in Nat :
            Queued(kind, h, u, i)' <=> IF u = t THEN i # 0 /\ Queued(kind, h, u, i + 1)
                                                ELSE Queued(kind, h, u, i)
  BY <1>1, <1>2, CommandTaken
<1>4. \A kind, h : Commanded(kind, h) => Commanded(kind, h)' \/ h = g
  <2> SUFFICES ASSUME NEW kind, NEW h, NEW u \in Threads, NEW i \in Nat, Queued(kind, h, u, i)
               PROVE  Commanded(kind, h)' \/ h = g
    BY DEF Commanded
  <2>1. CASE u # t
    BY <1>3, <2>1 DEF Commanded
  <2>2. CASE u = t /\ i = 1
    <3>1. c = [mKind |-> kind, mGuid |-> h]
      BY <1>3, <2>2
    <3> QED BY <1>1, <3>1
  <2>3. CASE u = t /\ i # 1
    <3>1. i # 0
      BY <1>2, <2>3 DEF Queued, ScheduleTypes
    <3>2. PICK j \in Nat : j # 0 /\ i = j + 1
      BY <2>3, <3>1
    <3>3. Queued(kind, h, u, j)'
      BY <1>3, <2>3, <3>2
    <3> QED BY <3>3 DEF Commanded
  <2> QED BY <2>1, <2>2, <2>3
<1>5. /\ \A h \in Guids : h # g => mFlushDueTokens'[h] = mFlushDueTokens[h]
      /\ mFlushDueHeap \subseteq mFlushDueHeap'
      /\ \/ mFlushDueTokens'[g] = None
         \/ [mGuid |-> g, mToken |-> mFlushDueTokens'[g]] \in mFlushDueHeap'
  <2>1. g \in Guids
    BY <1>1, <1>3 DEF Commands
  <2>2. CASE c.mKind = "Schedule"
    <3>1. /\ mFlushDueTokens' = [mFlushDueTokens EXCEPT ![g] = mNextFlushToken]
          /\ mFlushDueHeap' = mFlushDueHeap \union {[mGuid |-> g, mToken |-> mNextFlushToken]}
      BY <1>1, <2>2 DEF DrainCommand
    <3> QED BY <1>2, <2>1, <3>1 DEF ScheduleTypes
  <2>3. CASE c.mKind # "Schedule"
    <3>1. mFlushDueTokens' = [mFlushDueTokens EXCEPT ![g] = None] /\ UNCHANGED mFlushDueHeap
      BY <1>1, <2>3 DEF DrainCommand
    <3> QED BY <1>2, <2>1, <3>1 DEF ScheduleTypes
  <2> QED BY <2>2, <2>3
<1>6. \A h \in Guids : h # g /\ TokenHeld(h) => TokenHeld(h)'
  BY <1>2, <1>4, <1>5 DEF TokenHeld, Due, InHands, Ending, FlushQueued, Flush, Task, Created
<1>7. mFlushDueTokens'[g] # None => Due(g)'
  <2> SUFFICES ASSUME mFlushDueTokens'[g] # None PROVE Due(g)'
    OBVIOUS
  <2>1. PICK e : e = [mGuid |-> g, mToken |-> mFlushDueTokens'[g]]
    OBVIOUS
  <2>2. e \in mFlushDueHeap' /\ e.mGuid = g /\ e.mToken = mFlushDueTokens'[g]
    BY <1>5, <2>1
  <2> QED BY <2>2 DEF Due
<1>8. TokensHeld'
  BY <1>2, <1>5, <1>6, <1>7 DEF TokensHeld, TokenHeld
<1> QED BY <1>2, <1>8, DrainCommandShape DEF TokenInv

(* An entry whose token is the GUID's is taken over by the pump.            *)
LEMMA TickPopTokens ==
    ASSUME TokenInv, NEW w \in Workers, NEW e \in mFlushDueHeap, TickPop(w, e)
    PROVE  TokenInv'
<1>1. /\ ScheduleTypes /\ ThreadsOK /\ TokensHeld /\ Shape /\ w \in Threads
      /\ mFlushDueHeap' = mFlushDueHeap \ {e} /\ thread[w].pc = "drain" /\ thread[w] \in Records
      /\ UNCHANGED <<guidOf, strand, mFlushScheduleCommands, mFlushDueTokens>>
      /\ thread' = IF mFlushDueTokens[e.mGuid] = e.mToken
                   THEN [thread EXCEPT ![w].pc = "lookup", ![w].guid = e.mGuid] ELSE thread
  BY DEF TokenInv, Shape, TickPop, table, Threads, ThreadsOK
<1>2. mFlushDueTokens[e.mGuid] = e.mToken =>
         thread'[w].pc = "lookup" /\ thread'[w].guid = e.mGuid
  BY <1>1 DEF ThreadsOK, Records
<1>3. \A v \in Workers : v # w => thread'[v] = thread[v]
  BY <1>1 DEF ThreadsOK, Threads
<1>4. \A g : InHands(g) \/ Ending(g) => (InHands(g) \/ Ending(g))'
  BY <1>1, <1>3 DEF InHands, Ending, HandStatements
<1>5. \A g : Due(g) => (Due(g) \/ InHands(g))'
  <2> SUFFICES ASSUME NEW g, NEW x \in mFlushDueHeap, x.mGuid = g, mFlushDueTokens[g] = x.mToken
               PROVE  (Due(g) \/ InHands(g))'
    BY DEF Due
  <2>1. CASE x = e
    <3>1. thread'[w].pc = "lookup" /\ thread'[w].guid = g
      BY <1>2, <2>1
    <3> QED BY <3>1 DEF InHands, HandStatements
  <2>2. CASE x # e
    BY <1>1, <2>2 DEF Due
  <2> QED BY <2>1, <2>2
<1>6. \A g : TokenHeld(g) => TokenHeld(g)'
  BY <1>1, <1>4, <1>5 DEF TokenHeld, Commanded, Queued, FlushQueued, Flush, Task, Created
<1>7. TokensHeld'
  BY <1>1, <1>6 DEF TokensHeld
<1> QED BY <1>1, <1>7, TickPopShape DEF TokenInv

(* All other steps leave the token to whoever holds it, or hand it on.      *)
LEMMA OtherIoTokens ==
    ASSUME TokenInv, Shape',
           \/ IoUpsert \/ IoScheduleFirst \/ IoAnnounce \/ IoPass \/ IoCloseFirst
           \/ \E g \in Guids, packet \in {"lost", "over", "empty"} : IoReceive(g, packet)
           \/ \E c \in Clients, g \in Guids : DisconnectClient(c, g)
           \/ \E s \in Sessions : Destroy(s)
           \/ UNCHANGED vars
    PROVE  TokenInv'
<1>1. /\ ThreadsOK /\ RecordOK(Io, thread[Io]) /\ Io \in Threads /\ Io \notin Workers
      /\ Clients \subseteq Threads /\ Clients \intersect Workers = {}
  BY ThreadsAssumption DEF TokenInv, Shape, ThreadsOK, Threads
<1>2. UNCHANGED <<guidOf, mFlushDueTokens, mFlushDueHeap>>
  BY DEF IoUpsert, IoScheduleFirst, IoAnnounce, IoPass, IoCloseFirst, IoReceive, DisconnectClient,
         Destroy, vars, table, schedule
<1>3. \/ mFlushScheduleCommands' = mFlushScheduleCommands
      \/ \E t \in Threads : \E k, g : Command(t, k, g)
  BY <1>1 DEF IoUpsert, IoScheduleFirst, IoAnnounce, IoPass, IoCloseFirst, IoReceive, DisconnectClient,
         Destroy, vars, schedule
<1>4. \/ strand' = strand
      \/ \E t \in Threads, s \in Sessions,
            task \in {"connected", "disconnected", "lost", "over", "flush"} : Enqueue(t, s, task)
  <2>1. CASE IoAnnounce \/ IoPass
    <3>1. /\ thread[Io].session \in Sessions
          /\ thread[Io].pc = "pass" => thread[Io].why \in {"lost", "over"}
      BY <1>1, <2>1, CreatedSessions
         DEF TokenInv, Shape, IoAnnounce, IoPass, RecordOK, WithSession, IoStatements, Of
    <3> QED BY <1>1, <2>1, <3>1 DEF IoAnnounce, IoPass
  <2>2. CASE ~(IoAnnounce \/ IoPass)
    BY <2>2 DEF IoUpsert, IoScheduleFirst, IoCloseFirst, IoReceive, DisconnectClient, Destroy, vars
  <2> QED BY <2>1, <2>2
<1>5. \/ thread' = thread
      \/ \E t \in Threads : \E x : thread' = [thread EXCEPT ![t] = x] /\ t \notin Workers
  <2>1. CASE \E c \in Clients, g \in Guids : DisconnectClient(c, g)
    BY <1>1, <2>1 DEF DisconnectClient
  <2>2. CASE (\E s \in Sessions : Destroy(s)) \/ UNCHANGED vars
    BY <2>2 DEF Destroy, vars
  <2>3. CASE \E g \in Guids, packet \in {"lost", "over", "empty"} : IoReceive(g, packet)
    BY <1>1, <2>3 DEF IoReceive
  <2>4. CASE IoUpsert \/ IoScheduleFirst \/ IoAnnounce \/ IoPass \/ IoCloseFirst
    BY <1>1, <2>4 DEF IoUpsert, IoScheduleFirst, IoAnnounce, IoPass, IoCloseFirst, Step, Finish
  <2> QED BY <2>1, <2>2, <2>3, <2>4
<1> QED BY <1>2, <1>3, <1>4, <1>5, TokensStay

LEMMA RemovalTokens ==
    ASSUME TokenInv, Shape', NEW t \in Threads, RemoveStep(t)
    PROVE  TokenInv'
<1>1. ThreadsOK /\ RecordOK(t, thread[t])
  BY DEF TokenInv, Shape, ThreadsOK
<1>2. UNCHANGED <<guidOf, mFlushDueTokens, mFlushDueHeap>>
  BY DEF RemoveStep, RemoveCancel, RemoveErase, RemoveClose, RemoveReport, table, schedule
<1>3. \/ mFlushScheduleCommands' = mFlushScheduleCommands
      \/ \E u \in Threads : \E k, g : Command(u, k, g)
  BY DEF RemoveStep, RemoveCancel, RemoveErase, RemoveClose, RemoveReport, schedule
<1>4. \/ strand' = strand
      \/ \E u \in Threads, s \in Sessions,
            task \in {"connected", "disconnected", "lost", "over", "flush"} : Enqueue(u, s, task)
  <2>1. thread[t].pc = "report" => thread[t].removed \in Sessions
    BY <1>1, CreatedSessions DEF TokenInv, Shape, RecordOK, Of
  <2> QED BY <2>1 DEF RemoveStep, RemoveCancel, RemoveErase, RemoveClose, RemoveReport
<1>5. thread[t].pc \notin Holding
  BY DEF Holding, HandStatements, RemoveStep, RemoveCancel, RemoveErase, RemoveClose, RemoveReport, Step
<1>6. \E x : thread' = [thread EXCEPT ![t] = x]
  <2>1. CASE RemoveErase(t)
    BY <2>1, EraseEffect DEF TokenInv
  <2>2. CASE RemoveCancel(t) \/ RemoveClose(t) \/ RemoveReport(t)
    BY <2>2 DEF RemoveCancel, RemoveClose, RemoveReport, Step, Finish
  <2> QED BY <2>1, <2>2 DEF RemoveStep
<1> QED BY <1>2, <1>3, <1>4, <1>5, <1>6, TokensStay

(* A flush that is scheduled again, or ended, is in a command.              *)
LEMMA FlushTokens ==
    ASSUME TokenInv, Shape', NEW w \in Workers,
           FlushTask(w) \/ FlushCommand(w) \/ TickCommand(w)
    PROVE  TokenInv'
<1>1. /\ w \in Threads /\ ThreadsOK /\ ScheduleTypes /\ thread[w] \in Records
      /\ UNCHANGED <<guidOf, mFlushDueTokens, mFlushDueHeap, strand>>
  BY DEF TokenInv, Shape, ThreadsOK, Threads, FlushTask, FlushCommand, TickCommand, table, schedule
<1>2. CASE FlushTask(w)
  <2>1. PICK pc \in {"again", "never"} : thread' = [thread EXCEPT ![w] = [thread[w] EXCEPT !.pc = pc]]
    BY <1>2 DEF FlushTask, Step
  <2>2. PICK x : x = [thread[w] EXCEPT !.pc = pc]
    OBVIOUS
  <2>3. x.pc \in Holding /\ x.guid = thread[w].guid
    BY <1>1, <2>2 DEF Records, Holding, HandStatements
  <2>4. mFlushScheduleCommands' = mFlushScheduleCommands
    BY <1>2 DEF FlushTask, schedule
  <2> QED BY <1>1, <2>1, <2>2, <2>3, <2>4, TokensStay
<1>3. CASE FlushCommand(w) \/ TickCommand(w)
  <2>1. PICK g : g = thread[w].guid
    OBVIOUS
  <2>2. PICK kind \in {"Schedule", "Cancel"} : Command(w, kind, g)
    BY <1>3, <2>1 DEF FlushCommand, TickCommand
  <2>3. \E x : thread' = [thread EXCEPT ![w] = x]
    BY <1>3 DEF FlushCommand, TickCommand, Finish, NextEntry
  <2>4. \E i \in Nat : Queued(kind, g, w, i)'
    <3>1. Len(mFlushScheduleCommands[w]) + 1 \in Nat
      BY <1>1 DEF ScheduleTypes
    <3> QED BY <1>1, <2>2, <3>1, CommandAdded
  <2>5. Commanded(kind, g)'
    BY <1>1, <2>4 DEF Commanded
  <2>6. TokenHeld(g)'
    BY <2>5 DEF TokenHeld
  <2> QED BY <1>1, <2>1, <2>2, <2>3, <2>6, TokensStay
<1> QED BY <1>2, <1>3

LEMMA TickTokens ==
    ASSUME TokenInv, Shape', NEW w \in Workers,
           TickBegin(w) \/ TickEnd(w) \/ TickLookup(w) \/ TickCheck(w) \/ TickGive(w)
    PROVE  TokenInv'
<1>1. /\ w \in Threads /\ ThreadsOK /\ StrandTypes /\ thread[w] \in Records /\ RecordOK(w, thread[w])
      /\ UNCHANGED <<guidOf, mFlushDueTokens, mFlushDueHeap, mFlushScheduleCommands>>
      /\ Created' = Created /\ Created \subseteq Sessions /\ Shape
  BY CreatedSessions
     DEF TokenInv, Shape, ThreadsOK, Threads, TickBegin, TickEnd, TickLookup, TickCheck, TickGive,
         table, schedule, Created
<1>2. CASE TickBegin(w) \/ TickEnd(w)
  <2>1. thread[w].pc \notin Holding
    BY <1>2 DEF TickBegin, TickEnd, Idle, Holding, HandStatements
  <2>2. strand' = strand /\ \E x : thread' = [thread EXCEPT ![w] = x]
    BY <1>2 DEF TickBegin, TickEnd, Finish
  <2> QED BY <1>1, <2>1, <2>2, TokensStay
<1>3. CASE TickLookup(w)
  <2>1. PICK s : s = mSessionContexts[thread[w].guid]
    OBVIOUS
  <2>2. PICK x : x = IF s = None THEN [thread[w] EXCEPT !.pc = "tickCancel"]
                     ELSE [thread[w] EXCEPT !.pc = "check", !.session = s]
    OBVIOUS
  <2>3. x.pc \in Holding /\ x.guid = thread[w].guid
    BY <1>1, <2>2 DEF Records, Holding, HandStatements
  <2>4. thread' = [thread EXCEPT ![w] = x] /\ strand' = strand
    BY <1>3, <2>1, <2>2 DEF TickLookup
  <2> QED BY <1>1, <2>3, <2>4, TokensStay
<1>4. CASE TickCheck(w) \/ (TickGive(w) /\ UNCHANGED strand /\ thread' = [thread EXCEPT ![w].pc = "refused"])
  <2>1. PICK pc \in {"give", "tickAgain", "tickCancel", "refused"} :
           thread' = [thread EXCEPT ![w] = [thread[w] EXCEPT !.pc = pc]]
    BY <1>4 DEF TickCheck, Step
  <2>2. PICK x : x = [thread[w] EXCEPT !.pc = pc]
    OBVIOUS
  <2>3. x.pc \in Holding /\ x.guid = thread[w].guid
    BY <1>1, <2>2 DEF Records, Holding, HandStatements
  <2>4. strand' = strand
    BY <1>4 DEF TickCheck
  <2> QED BY <1>1, <2>1, <2>2, <2>3, <2>4, TokensStay
<1>5. CASE TickGive(w) /\ Enqueue(w, thread[w].session, "flush") /\ NextEntry(w)
  <2>1. PICK s, g : s = thread[w].session /\ g = thread[w].guid
    OBVIOUS
  <2>2. s \in Created /\ guidOf[s] = g
    BY <1>1, <1>5, <2>1 DEF RecordOK, WithSession, Of, TickGive
  <2>3. \E i \in Nat : Task("flush", s, w, i)'
    <3>1. Len(strand[s][w]) + 1 \in Nat
      BY <1>1, <2>2 DEF StrandTypes
    <3>2. Enqueue(w, s, "flush") /\ s \in Sessions
      BY <1>1, <1>5, <2>1, <2>2
    <3> QED BY <1>1, <3>1, <3>2, TaskAdded
  <2>4. FlushQueued(g)'
    BY <1>1, <2>2, <2>3 DEF FlushQueued, Flush
  <2>5. TokenHeld(g)' /\ \E x : thread' = [thread EXCEPT ![w] = x]
    BY <1>5, <2>4 DEF TokenHeld, NextEntry
  <2>6. Enqueue(w, s, "flush") /\ s \in Sessions
    BY <1>1, <1>5, <2>1, <2>2
  <2> QED BY <1>1, <2>1, <2>5, <2>6, TokensStay
<1> QED BY <1>2, <1>3, <1>4, <1>5 DEF TickGive

LEMMA NextKeepsTokens == TokenInv /\ [Next]_vars => TokenInv'
<1> SUFFICES ASSUME TokenInv, [Next]_vars PROVE TokenInv'
  OBVIOUS
<1>0. Shape'
  BY NextKeepsShape DEF TokenInv
<1>1. CASE IoStep
  BY <1>0, <1>1, IoConnectTokens, OtherIoTokens DEF IoStep
<1>2. CASE \E t \in Threads : RemoveStep(t) \/ DrainCommand(t)
  BY <1>0, <1>2, RemovalTokens, DrainCommandTokens
<1>3. CASE \E w \in Workers : StrandStep(w)
  BY <1>0, <1>3, TaskBeginTokens, FlushTokens DEF StrandStep
<1>4. CASE \E w \in Workers : TickStep(w)
  BY <1>0, <1>4, FlushTokens, TickTokens, TickPopTokens DEF TickStep
<1>5. CASE \/ \E c \in Clients, g \in Guids : DisconnectClient(c, g)
           \/ \E s \in Sessions : Destroy(s)
           \/ UNCHANGED vars
  BY <1>0, <1>5, OtherIoTokens
<1> QED BY <1>1, <1>2, <1>3, <1>4, <1>5 DEF Next

(* A GUID that has no session keeps no token for ever: whatever holds the   *)
(* token will give it up or erase it                                        *)
(* (ServerNetworkSystem.cpp:534-605, 568-571, 965-977).                     *)
THEOREM TokensAreErased == Spec => []NoTokenLeak
<1>1. TokenInv => NoTokenLeak
  <2> SUFFICES ASSUME TokenInv, NEW g \in Guids, mFlushDueTokens[g] # None
               PROVE  \/ LiveEntries(g) # {}
                      \/ CommandsFor("Schedule", g) \union CommandsFor("Cancel", g) # {}
                      \/ \E t \in Threads : thread[t].guid = g
                      \/ \E s \in Created : guidOf[s] = g /\ FlushTasks(s) # {}
    BY DEF NoTokenLeak
  <2>1. TokenHeld(g) /\ ScheduleTypes /\ StrandTypes
    BY DEF TokenInv, TokensHeld, Shape
  <2>2. Due(g) => LiveEntries(g) # {}
    BY DEF Due, LiveEntries
  <2>3. \A kind : Commanded(kind, g) => CommandsFor(kind, g) # {}
    <3> SUFFICES ASSUME NEW kind, NEW t \in Threads, NEW i \in Nat, Queued(kind, g, t, i)
                 PROVE  <<t, i>> \in CommandsFor(kind, g)
      BY DEF Commanded
    <3> QED BY DEF Queued, CommandsFor
  <2>4. InHands(g) \/ Ending(g) => \E t \in Threads : thread[t].guid = g
    BY DEF InHands, Ending, Threads
  <2>5. FlushQueued(g) => \E s \in Created : guidOf[s] = g /\ FlushTasks(s) # {}
    <3> SUFFICES ASSUME NEW s \in Created, NEW t \in Threads, NEW i \in Nat, Flush(g, s, t, i)
                 PROVE  guidOf[s] = g /\ <<t, i>> \in FlushTasks(s)
      BY DEF FlushQueued
    <3> QED BY DEF Flush, Task, FlushTasks, TasksOf
  <2> QED BY <2>1, <2>2, <2>3, <2>4, <2>5 DEF TokenHeld
<1> QED BY <1>1, InitTokens, NextKeepsTokens, PTL DEF Spec

-----------------------------------------------------------------------------
(* While a client comes back only once nothing of its last session is left, *)
(* whoever works for a session finds it in the table or none, and the GUID  *)
(* of a session that is about to be put there is nobody else's.             *)
Consistent(r) ==
    /\ r.session # None => mSessionContexts[r.guid] \in {None, r.session}
    /\ r.removed # None => mSessionContexts[r.guid] \in {None, r.removed}

OneSession ==
    /\ \A t \in Threads : Consistent(thread[t])
    /\ \A s \in Created, t \in Threads :
          strand[s][t] # <<>> => mSessionContexts[guidOf[s]] \in {None, s}

FreshGuid(g) == thread[Io].pc = "upsert" /\ thread[Io].guid = g
Unscheduled(g) == ~Due(g) /\ ~Commanded("Schedule", g)

(* A call of disconnectClient that is about to find nothing to disconnect.  *)
Asks(r) == r.pc \in {"cancel", "erase"} /\ r.session = None /\ r.removed = None

Alone(g) ==
    /\ mSessionContexts[g] = None
    /\ Unscheduled(g)
    /\ \A t \in Threads : t # Io /\ thread[t].guid = g => Asks(thread[t])
    /\ \A s \in Created, t \in Threads : guidOf[s] = g => strand[s][t] = <<>>

NewIsAlone == \A g \in Guids : FreshGuid(g) => Alone(g)

(* disconnectClient knows a GUID, not a session, and schedules no flush.    *)
ClientsAsk ==
    \A c \in Clients : /\ thread[c].session = None
                       /\ \A g \in Guids, i \in Nat : ~Queued("Schedule", g, c, i)

AloneInv == Shape /\ ClientsAsk /\ (~early => OneSession /\ NewIsAlone)

LEMMA InitAlone == Init => AloneInv
<1>1. Init => OneSession /\ NewIsAlone
  BY DEF Init, OneSession, NewIsAlone, Consistent, FreshGuid, Idle, Created, Threads
<1>2. Init => ClientsAsk
  <2> SUFFICES ASSUME Init, NEW c \in Clients
               PROVE  thread[c].session = None /\ DOMAIN mFlushScheduleCommands[c] = {}
    BY DEF ClientsAsk, Queued
  <2> QED BY DEF Init, Idle, Threads
<1> QED BY <1>1, <1>2, InitShape DEF AloneInv

LEMMA ClientsGoOn ==
    ASSUME Shape, [Next]_vars, NEW c \in Clients
    PROVE  thread'[c].session \in {None, thread[c].session}
<1>1. /\ ThreadsOK /\ thread \in [Threads -> Records] /\ c \in Threads /\ Io \in Threads
      /\ Workers \subseteq Threads /\ c # Io /\ c \notin Workers /\ Idle.session = None
  BY ThreadsAssumption DEF Shape, ThreadsOK, Threads, Idle
<1>2. CASE \/ thread' = thread
           \/ \E t \in Threads : \E x : t # c /\ thread' = [thread EXCEPT ![t] = x]
  BY <1>1, <1>2
<1>3. CASE IoStep
  <2>1. thread' = thread \/ \E x : thread' = [thread EXCEPT ![Io] = x]
    BY <1>3 DEF IoStep, IoConnect, IoReceive, IoUpsert, IoScheduleFirst, IoAnnounce, IoPass,
                IoCloseFirst, Step, Finish
  <2> QED BY <1>1, <1>2, <2>1
<1>4. CASE \E d \in Clients, g \in Guids : DisconnectClient(d, g)
  <2>1. PICK d \in Clients, g \in Guids : DisconnectClient(d, g)
    BY <1>4
  <2>2. PICK x : x = [Idle EXCEPT !.pc = "cancel", !.guid = g, !.why = "client"]
    OBVIOUS
  <2>3. x.session = None /\ thread' = [thread EXCEPT ![d] = x]
    BY <2>1, <2>2 DEF DisconnectClient, Idle
  <2> QED BY <1>1, <2>3
<1>5. CASE \E t \in Threads : RemoveStep(t)
  <2>1. PICK t \in Threads : RemoveStep(t)
    BY <1>5
  <2>2. \A pc, r : /\ [thread[t] EXCEPT !.pc = pc].session = thread[t].session
                  /\ [thread[t] EXCEPT !.pc = pc, !.removed = r].session = thread[t].session
    BY <1>1 DEF Records
  <2>3. CASE RemoveErase(t)
    <3>1. PICK x : x = [thread[t] EXCEPT !.pc = "close", !.removed = mSessionContexts[thread[t].guid]]
      OBVIOUS
    <3>2. thread' = [thread EXCEPT ![t] = Idle] \/ thread' = [thread EXCEPT ![t] = x]
      BY <2>3, <3>1, EraseEffect
    <3>3. x.session = thread[t].session
      BY <2>2, <3>1
    <3> QED BY <1>1, <3>2, <3>3
  <2>4. CASE RemoveCancel(t) \/ RemoveClose(t) \/ RemoveReport(t)
    <3>1. \/ thread' = [thread EXCEPT ![t] = Idle]
          \/ \E pc : thread' = [thread EXCEPT ![t] = [thread[t] EXCEPT !.pc = pc]]
      BY <2>4 DEF RemoveCancel, RemoveClose, RemoveReport, Step, Finish
    <3>2. \E x : thread' = [thread EXCEPT ![t] = x] /\ x.session \in {None, thread[t].session}
      BY <1>1, <2>2, <3>1
    <3> QED BY <1>1, <3>2
  <2> QED BY <2>1, <2>3, <2>4 DEF RemoveStep
<1>6. CASE \E w \in Workers : StrandStep(w) \/ TickStep(w)
  <2>1. PICK w \in Workers : StrandStep(w) \/ TickStep(w)
    BY <1>6
  <2>2. thread' = thread \/ \E x : thread' = [thread EXCEPT ![w] = x]
    BY <1>1, <2>1, FlushMoves DEF StrandStep, TaskBegin
  <2> QED BY <1>1, <1>2, <2>1, <2>2
<1>7. CASE (\E t \in Threads : DrainCommand(t)) \/ (\E s \in Sessions : Destroy(s)) \/ UNCHANGED vars
  BY <1>2, <1>7 DEF DrainCommand, Destroy, vars
<1> QED BY <1>3, <1>4, <1>5, <1>6, <1>7 DEF Next

LEMMA ClientsAskStill == Shape /\ ClientsAsk /\ [Next]_vars => ClientsAsk'
<1> SUFFICES ASSUME Shape, ClientsAsk, [Next]_vars, NEW c \in Clients
             PROVE  /\ thread'[c].session = None
                    /\ \A g \in Guids, i \in Nat : ~Queued("Schedule", g, c, i)'
  BY DEF ClientsAsk
<1>1. /\ ScheduleTypes /\ c \in Threads /\ c # Io /\ c \notin Workers
      /\ Io \in Threads /\ Workers \subseteq Threads
      /\ \A g \in Guids, i \in Nat : ~Queued("Schedule", g, c, i)
  BY ThreadsAssumption DEF Shape, Threads, ClientsAsk
<1>2. thread'[c].session = None
  BY ClientsGoOn DEF ClientsAsk
<1>3. CASE \/ mFlushScheduleCommands' = mFlushScheduleCommands
           \/ \E t \in Threads : \E k, h : Command(t, k, h) /\ (t # c \/ k # "Schedule")
  <2>1. CASE mFlushScheduleCommands' = mFlushScheduleCommands
    BY <1>1, <1>2, <2>1 DEF Queued
  <2>2. ASSUME NEW t \in Threads, NEW k, NEW h, Command(t, k, h), t # c \/ k # "Schedule"
        PROVE  \A g \in Guids, i \in Nat : ~Queued("Schedule", g, c, i)'
    BY <1>1, <2>2, CommandAdded
  <2> QED BY <1>2, <1>3, <2>1, <2>2
<1>4. CASE \E t \in Threads : DrainCommand(t)
  <2>1. PICK t \in Threads : DrainCommand(t)
    BY <1>4
  <2>2. /\ mFlushScheduleCommands[t] # <<>>
        /\ mFlushScheduleCommands' = [mFlushScheduleCommands EXCEPT ![t] = Tail(@)]
    BY <2>1 DEF DrainCommand
  <2>3. ASSUME NEW g \in Guids, NEW i \in Nat, Queued("Schedule", g, c, i)'
        PROVE  FALSE
    <3>1. Queued("Schedule", g, c, i) \/ Queued("Schedule", g, c, i + 1)
      BY <1>1, <2>2, <2>3, CommandTaken
    <3>2. i + 1 \in Nat
      OBVIOUS
    <3> QED BY <1>1, <3>1, <3>2
  <2> QED BY <1>2, <2>3
<1>5. CASE IoStep \/ \E w \in Workers : StrandStep(w) \/ TickStep(w)
  <2>1. \/ mFlushScheduleCommands' = mFlushScheduleCommands
        \/ \E k, h : Command(Io, k, h)
        \/ \E w \in Workers : \E k, h : Command(w, k, h)
    BY <1>5
       DEF IoStep, IoConnect, IoReceive, IoUpsert, IoScheduleFirst, IoAnnounce, IoPass,
           IoCloseFirst, StrandStep, TaskBegin, FlushTask, FlushCommand, TickStep, TickBegin,
           TickLookup, TickCheck, TickGive, TickCommand, TickPop, TickEnd, schedule
  <2> QED BY <1>1, <1>3, <2>1
<1>6. CASE \E t \in Threads : RemoveStep(t)
  BY <1>3, <1>6 DEF RemoveStep, RemoveCancel, RemoveErase, RemoveClose, RemoveReport, schedule
<1>7. CASE \/ \E d \in Clients, g \in Guids : DisconnectClient(d, g)
           \/ \E s \in Sessions : Destroy(s)
           \/ UNCHANGED vars
  BY <1>3, <1>7 DEF DisconnectClient, Destroy, vars, schedule
<1> QED BY <1>4, <1>5, <1>6, <1>7 DEF Next

(* Who is not adding a session does not work for a GUID that is about to    *)
(* get one, but for a call that asks to disconnect it.                      *)
LEMMA ActorNotFresh ==
    ASSUME AloneInv, ~early, NEW t \in Threads, thread[t].pc # "upsert", ~Asks(thread[t]),
           thread[t].guid \in Guids
    PROVE  ~FreshGuid(thread[t].guid)
BY DEF AloneInv, NewIsAlone, Alone, FreshGuid

(* What a step may do with the schedule of such a GUID: cancel a flush that *)
(* is not there.                                                            *)
ScheduleFree == \A g \in Guids : FreshGuid(g) => Unscheduled(g)

LEMMA ScheduleFreeNow == AloneInv /\ ~early => ScheduleFree
BY DEF AloneInv, NewIsAlone, Alone, ScheduleFree

(* Where a thread may go that does not put a session in the table.          *)
Fit(x) == /\ x.pc # "upsert" /\ Consistent(x)
          /\ x.guid \in Guids \union {None} /\ (x.guid \in Guids => ~FreshGuid(x.guid) \/ Asks(x))
          /\ x.guid = None => x.session = None /\ x.removed = None

LEMMA AloneStays ==
    ASSUME AloneInv, Shape', ~early, UNCHANGED guidOf,
           \A g \in Guids : mSessionContexts'[g] \in {None, mSessionContexts[g]},
           \A g \in Guids : FreshGuid(g) => Unscheduled(g)',
           \/ thread' = thread
           \/ \E t \in Threads : \E x : thread' = [thread EXCEPT ![t] = x] /\ Fit(x),
           \/ \A s \in Created, t \in Threads : strand[s][t] = <<>> => strand'[s][t] = <<>>
           \/ \E s \in Created :
                 /\ \A r \in Created, t \in Threads : r # s /\ strand[r][t] = <<>> => strand'[r][t] = <<>>
                 /\ mSessionContexts[guidOf[s]] \in {None, s} /\ ~FreshGuid(guidOf[s])
    PROVE  OneSession' /\ NewIsAlone'
<1>1. /\ ThreadsOK /\ OneSession /\ NewIsAlone /\ Created' = Created /\ Io \in Threads
      /\ \A s \in Created : guidOf[s] \in Guids
  BY CreatedSessions DEF AloneInv, Shape, Created, Threads
<1>2. \A t \in Threads : /\ thread[t].guid \in Guids \/ (thread[t].session = None /\ thread[t].removed = None)
  BY <1>1 DEF ThreadsOK, RecordOK, Idle
<1>3. \A g \in Guids : FreshGuid(g)' => FreshGuid(g)
  <2>1. CASE thread' = thread
    BY <2>1 DEF FreshGuid
  <2>2. CASE \E t \in Threads : \E x : thread' = [thread EXCEPT ![t] = x] /\ Fit(x)
    <3>1. PICK t \in Threads : \E x : thread' = [thread EXCEPT ![t] = x] /\ Fit(x)
      BY <2>2
    <3>2. PICK x : thread' = [thread EXCEPT ![t] = x] /\ x.pc # "upsert"
      BY <3>1 DEF Fit
    <3>3. thread'[Io] = IF Io = t THEN x ELSE thread[Io]
      BY <1>1, <3>2 DEF ThreadsOK
    <3> QED BY <3>2, <3>3 DEF FreshGuid
  <2> QED BY <2>1, <2>2
<1>4. \A t \in Threads : thread'[t] = thread[t] \/ Fit(thread'[t])
  <2>1. CASE thread' = thread
    BY <2>1
  <2>2. ASSUME NEW u \in Threads, NEW x, thread' = [thread EXCEPT ![u] = x], Fit(x)
        PROVE  \A t \in Threads : thread'[t] = thread[t] \/ Fit(thread'[t])
    <3>1. \A t \in Threads : thread'[t] = IF t = u THEN x ELSE thread[t]
      BY <1>1, <2>2 DEF ThreadsOK
    <3> QED BY <2>2, <3>1
  <2> QED BY <2>1, <2>2
<1>5. OneSession'
  <2>1. \A t \in Threads : Consistent(thread[t])'
    <3> SUFFICES ASSUME NEW t \in Threads PROVE Consistent(thread[t])'
      OBVIOUS
    <3>1. PICK y : y = thread'[t]
      OBVIOUS
    <3>2. Consistent(y) /\ (y.guid \in Guids \/ (y.session = None /\ y.removed = None))
      BY <1>1, <1>2, <1>4, <3>1 DEF OneSession, Fit
    <3>3. Consistent(y)'
      BY <3>2 DEF Consistent
    <3> QED BY <3>1, <3>3 DEF Consistent
  <2>2. \A s \in Created, t \in Threads :
           strand'[s][t] # <<>> => mSessionContexts[guidOf[s]] \in {None, s}
    BY <1>1 DEF OneSession
  <2>3. \A s \in Created, t \in Threads :
           strand'[s][t] # <<>> => mSessionContexts'[guidOf[s]] \in {None, s}
    BY <1>1, <2>2
  <2> QED BY <1>1, <2>1, <2>3 DEF OneSession
<1>6. NewIsAlone'
  <2> SUFFICES ASSUME NEW g \in Guids, FreshGuid(g)'
               PROVE  Alone(g)'
    BY DEF NewIsAlone
  <2>1. FreshGuid(g) /\ Alone(g) /\ Unscheduled(g)'
    BY <1>1, <1>3 DEF NewIsAlone
  <2>2. mSessionContexts'[g] = None
    BY <2>1 DEF Alone
  <2>3. \A t \in Threads : t # Io /\ thread'[t].guid = g => Asks(thread'[t])
    BY <1>4, <2>1 DEF Alone, Fit
  <2>4. \A s \in Created, t \in Threads : guidOf[s] = g => strand'[s][t] = <<>>
    BY <2>1 DEF Alone
  <2> QED BY <1>1, <2>1, <2>2, <2>3, <2>4 DEF Alone, Asks
<1> QED BY <1>5, <1>6

LEMMA FitIdle == Fit(Idle) /\ Fit([Idle EXCEPT !.pc = "drain"])
<1>1. /\ Idle.pc = "idle" /\ Idle.guid = None /\ Idle.session = None /\ Idle.removed = None
      /\ [Idle EXCEPT !.pc = "drain"].pc = "drain" /\ [Idle EXCEPT !.pc = "drain"].guid = None
      /\ [Idle EXCEPT !.pc = "drain"].session = None /\ [Idle EXCEPT !.pc = "drain"].removed = None
  BY DEF Idle
<1> QED BY <1>1, GuidsAssumption DEF Fit, Consistent

LEMMA FitNext ==
    ASSUME AloneInv, ~early, NEW t \in Threads, thread[t].pc \notin {"idle", "drain", "upsert"},
           NEW pc, pc # "upsert", Asks(thread[t]) => pc \in {"cancel", "erase"}
    PROVE  Fit([thread[t] EXCEPT !.pc = pc])
<1>1. PICK x : x = [thread[t] EXCEPT !.pc = pc]
  OBVIOUS
<1>2. /\ thread[t] \in Records /\ thread[t].guid \in Guids /\ Consistent(thread[t])
  BY DEF AloneInv, Shape, ThreadsOK, RecordOK, OneSession
<1>3. /\ x.pc = pc /\ x.guid = thread[t].guid /\ x.session = thread[t].session
      /\ x.removed = thread[t].removed
  BY <1>1, <1>2 DEF Records
<1>4. ~FreshGuid(thread[t].guid) \/ Asks(x)
  BY <1>2, <1>3, ActorNotFresh DEF Asks
<1>5. Fit(x)
  BY <1>2, <1>3, <1>4, GuidsAssumption DEF Fit, Consistent
<1> QED BY <1>1, <1>5

LEMMA ScheduleFreeStays ==
    ASSUME AloneInv, ~early, UNCHANGED <<mFlushDueHeap, mFlushDueTokens>>,
           \/ mFlushScheduleCommands' = mFlushScheduleCommands
           \/ \E t \in Threads : \E k, h : Command(t, k, h) /\ (~FreshGuid(h) \/ k = "Cancel")
    PROVE  \A g \in Guids : FreshGuid(g) => Unscheduled(g)'
<1> SUFFICES ASSUME NEW g \in Guids, FreshGuid(g)
             PROVE  ~Due(g)' /\ ~Commanded("Schedule", g)'
  BY DEF Unscheduled
<1>1. ~Due(g) /\ ~Commanded("Schedule", g)
  BY ScheduleFreeNow DEF ScheduleFree, Unscheduled
<1>2. ~Due(g)'
  BY <1>1 DEF Due
<1>3. ~Commanded("Schedule", g)'
  <2>1. CASE mFlushScheduleCommands' = mFlushScheduleCommands
    BY <1>1, <2>1 DEF Commanded, Queued
  <2>2. ASSUME NEW t \in Threads, NEW k, NEW h, Command(t, k, h), ~FreshGuid(h) \/ k = "Cancel"
        PROVE  ~Commanded("Schedule", g)'
    <3>1. h # g \/ k # "Schedule"
      BY <2>2
    <3>2. \A u \in Threads, i \in Nat :
             Queued("Schedule", g, u, i)' => Queued("Schedule", g, u, i)
      BY <2>2, <3>1, CommandAdded DEF AloneInv, Shape
    <3> QED BY <1>1, <3>2 DEF Commanded
  <2> QED BY <2>1, <2>2
<1> QED BY <1>2, <1>3

(* Tasks put into the strand of a session the thread may work for.          *)
LEMMA StrandsFree ==
    ASSUME AloneInv, ~early, NEW t \in Threads, NEW s \in Created, NEW task, Enqueue(t, s, task),
           thread[t].pc \notin {"upsert", "cancel", "erase"}, Of(s, thread[t].guid),
           s \in {thread[t].session, thread[t].removed}
    PROVE  \E r \in Created :
              /\ \A q \in Created, u \in Threads : q # r /\ strand[q][u] = <<>> => strand'[q][u] = <<>>
              /\ mSessionContexts[guidOf[r]] \in {None, r} /\ ~FreshGuid(guidOf[r])
<1>1. /\ StrandTypes /\ Consistent(thread[t]) /\ Created \subseteq Sessions /\ s # None
      /\ thread[t].guid = guidOf[s] /\ guidOf[s] \in Guids
  BY CreatedSessions DEF AloneInv, Shape, OneSession, Of
<1>2. \A q \in Created, u \in Threads : q # s /\ strand[q][u] = <<>> => strand'[q][u] = <<>>
  BY <1>1 DEF StrandTypes, Enqueue
<1>3. mSessionContexts[guidOf[s]] \in {None, s}
  BY <1>1 DEF Consistent
<1>4. ~FreshGuid(guidOf[s])
  BY <1>1, ActorNotFresh DEF Asks
<1> QED BY <1>2, <1>3, <1>4

LEMMA IoConnectAlone ==
    ASSUME AloneInv, NEW g \in Guids, IoConnect(g)
    PROVE  AloneInv'
<1>n. PICK n : n = Len(guidOf) + 1
  OBVIOUS
<1>0. SUFFICES ASSUME ~early' PROVE OneSession' /\ NewIsAlone'
  BY IoConnectShape, ClientsAskStill DEF AloneInv, Next, IoStep
<1>1. /\ Shape /\ ClientsAsk /\ TableTypes /\ ThreadsOK /\ KnownTable /\ KnownStrands /\ OneSession /\ Io \in Threads
      /\ Settled(g) /\ thread[Io] = Idle
      /\ UNCHANGED <<mSessionContexts, mFlushDueHeap, mFlushDueTokens, mFlushScheduleCommands, strand>>
  BY <1>0 DEF AloneInv, Shape, IoConnect, schedule, Threads
<1>2. /\ \A t \in Threads : t # Io => thread'[t] = thread[t]
      /\ thread'[Io].pc = "upsert" /\ thread'[Io].guid = g /\ thread'[Io].session = n
      /\ thread'[Io].removed = None
  BY <1>1, <1>n DEF IoConnect, ThreadsOK, Idle
<1>3. /\ n \in Sessions /\ n \notin Created /\ Created' = Created \union {n}
      /\ \A s \in Created : guidOf'[s] = guidOf[s]
      /\ guidOf'[n] = g
  <2>1. Created = 1..Len(guidOf) /\ Len(guidOf) \in Nat /\ Len(guidOf) < MaxSessions
        /\ guidOf \in Seq(Guids) /\ guidOf' = Append(guidOf, g)
    BY <1>1, CreatedSessions DEF TableTypes, IoConnect
  <2>2. Len(guidOf') = n /\ guidOf' \in Seq(Guids) /\ guidOf'[n] = g
        /\ \A s \in 1..Len(guidOf) : guidOf'[s] = guidOf[s]
    BY <2>1, <1>n
  <2>3. Created' = 1..n
    BY <2>2 DEF Created
  <2> QED BY <1>n, <2>1, <2>2, <2>3, BoundsAssumption DEF Sessions
<1>4. \A t \in Threads : strand[n][t] = <<>>
  BY <1>1, <1>3 DEF KnownStrands
<1>5. OneSession'
  <2>1. Consistent(thread[Io])'
    BY <1>1, <1>2 DEF Consistent, Settled
  <2>2. \A t \in Threads : t # Io => Consistent(thread[t])'
    BY <1>1, <1>2 DEF OneSession, Consistent
  <2>3. \A s \in Created', t \in Threads :
           strand'[s][t] # <<>> => mSessionContexts'[guidOf'[s]] \in {None, s}
    BY <1>1, <1>3, <1>4 DEF OneSession
  <2> QED BY <2>1, <2>2, <2>3 DEF OneSession
<1>6. NewIsAlone'
  <2> SUFFICES Alone(g)'
    BY <1>2 DEF NewIsAlone, FreshGuid
  <2>1. mSessionContexts'[g] = None /\ ~Due(g)'
    BY <1>1 DEF Settled, Due
  <2>2. ~Commanded("Schedule", g)'
    <3> SUFFICES ASSUME NEW t \in Threads, NEW i \in Nat, Queued("Schedule", g, t, i)
                 PROVE  FALSE
      BY <1>1 DEF Commanded, Queued
    <3>1. i \in DOMAIN mFlushScheduleCommands[t] /\ mFlushScheduleCommands[t][i].mGuid = g
      BY DEF Queued
    <3>2. CASE t \notin Clients
      BY <1>1, <3>1, <3>2 DEF Settled, Through
    <3>3. CASE t \in Clients
      BY <1>1, <3>3 DEF ClientsAsk
    <3> QED BY <3>2, <3>3
  <2>3. \A t \in Threads : t # Io /\ thread'[t].guid = g => Asks(thread'[t])
    <3> SUFFICES ASSUME NEW t \in Threads, t # Io, thread[t].guid = g
                 PROVE  Asks(thread[t])
      BY <1>2
    <3>1. t \in Clients
      BY <1>1 DEF Settled, Through
    <3>2. thread[t].pc \in {"cancel", "erase"} /\ thread[t].session = None
      BY <1>1, <3>1 DEF Settled, ClientsAsk
    <3> QED BY <1>1, <3>2 DEF Asks, ThreadsOK, RecordOK
  <2>4. \A s \in Created', t \in Threads : guidOf'[s] = g => strand'[s][t] = <<>>
    BY <1>1, <1>3, <1>4 DEF Settled
  <2> QED BY <2>1, <2>2, <2>3, <2>4 DEF Alone, Unscheduled, Asks
<1> QED BY <1>5, <1>6

LEMMA IoUpsertAlone ==
    ASSUME AloneInv, IoUpsert
    PROVE  AloneInv'
<1>0. SUFFICES ASSUME ~early' PROVE OneSession' /\ NewIsAlone'
  BY IoUpsertShape, ClientsAskStill DEF AloneInv, Next, IoStep
<1>1. PICK s, g : s = thread[Io].session /\ g = thread[Io].guid
  OBVIOUS
<1>2. /\ TableTypes /\ ThreadsOK /\ OneSession /\ NewIsAlone /\ Io \in Threads
      /\ RecordOK(Io, thread[Io]) /\ thread[Io] \in Records
      /\ Created' = Created /\ (\A r \in Created : guidOf[r] \in Guids)
      /\ UNCHANGED <<guidOf, strand>> /\ thread[Io].pc = "upsert"
      /\ mSessionContexts' = [mSessionContexts EXCEPT ![g] = s]
      /\ thread' = [thread EXCEPT ![Io] = [thread[Io] EXCEPT !.pc = "scheduleFirst"]]
  BY <1>0, <1>1, CreatedSessions
     DEF AloneInv, Shape, IoUpsert, Step, env, Threads, ThreadsOK, Created
<1>3. g \in Guids /\ Alone(g) /\ thread[Io].removed = None
  BY <1>1, <1>2 DEF RecordOK, NewIsAlone, FreshGuid
<1>4. /\ \A t \in Threads : t # Io => thread'[t] = thread[t]
      /\ thread'[Io].pc = "scheduleFirst" /\ thread'[Io].guid = g /\ thread'[Io].session = s
      /\ thread'[Io].removed = None
  BY <1>1, <1>2, <1>3 DEF ThreadsOK, Records
<1>5. \A h \in Guids : mSessionContexts'[h] = IF h = g THEN s ELSE mSessionContexts[h]
  BY <1>2, <1>3 DEF TableTypes
<1>6. OneSession'
  <2>1. Consistent(thread[Io])'
    BY <1>3, <1>4, <1>5 DEF Consistent
  <2>2. \A t \in Threads : t # Io => Consistent(thread[t])'
    <3> SUFFICES ASSUME NEW t \in Threads, t # Io PROVE Consistent(thread[t])'
      OBVIOUS
    <3>1. thread[t].guid # g \/ (thread[t].session = None /\ thread[t].removed = None)
      BY <1>3 DEF Alone, Asks
    <3>2. thread[t].guid \in Guids \/ (thread[t].session = None /\ thread[t].removed = None)
      BY <1>2 DEF ThreadsOK, RecordOK, Idle
    <3>3. Consistent(thread[t]) /\ thread'[t] = thread[t]
      BY <1>2, <1>4 DEF OneSession
    <3> QED BY <1>5, <3>1, <3>2, <3>3 DEF Consistent
  <2>3. \A r \in Created, t \in Threads :
           strand[r][t] # <<>> => mSessionContexts'[guidOf[r]] \in {None, r}
    BY <1>2, <1>3, <1>5 DEF OneSession, Alone
  <2> QED BY <1>2, <2>1, <2>2, <2>3 DEF OneSession
<1>7. NewIsAlone'
  BY <1>4 DEF NewIsAlone, FreshGuid
<1> QED BY <1>6, <1>7

(* The rest of processIncomingPacket.                                       *)
LEMMA OtherIoAlone ==
    ASSUME AloneInv, ~early, Shape',
           \/ IoScheduleFirst \/ IoAnnounce \/ IoPass \/ IoCloseFirst
           \/ \E g \in Guids, packet \in {"lost", "over", "empty"} : IoReceive(g, packet)
    PROVE  OneSession' /\ NewIsAlone'
<1>1. /\ Io \in Threads /\ ThreadsOK /\ RecordOK(Io, thread[Io])
      /\ UNCHANGED <<guidOf, mSessionContexts, mFlushDueHeap, mFlushDueTokens>>
  BY DEF AloneInv, Shape, ThreadsOK, Threads, IoScheduleFirst, IoAnnounce, IoPass, IoCloseFirst,
         IoReceive, table, schedule
<1>2. CASE IoScheduleFirst \/ IoCloseFirst
  <2>1. /\ thread[Io].pc \in {"scheduleFirst", "closeFirst"} /\ strand' = strand
        /\ \E pc \in {"announce", "cancel"} :
              thread' = [thread EXCEPT ![Io] = [thread[Io] EXCEPT !.pc = pc]]
    BY <1>2 DEF IoScheduleFirst, IoCloseFirst, Step
  <2>2. \E x : thread' = [thread EXCEPT ![Io] = x] /\ Fit(x)
    <3>1. PICK pc \in {"announce", "cancel"} :
              thread' = [thread EXCEPT ![Io] = [thread[Io] EXCEPT !.pc = pc]]
      BY <2>1
    <3>2. Fit([thread[Io] EXCEPT !.pc = pc])
      BY <1>1, <2>1, FitNext DEF Asks
    <3> QED BY <3>1, <3>2
  <2>3. \A g \in Guids : FreshGuid(g) => Unscheduled(g)'
    <3>1. thread[Io].guid \in Guids
      BY <1>1, <2>1 DEF RecordOK
    <3>2. ~FreshGuid(thread[Io].guid)
      BY <1>1, <2>1, <3>1, ActorNotFresh DEF Asks
    <3>3. \/ mFlushScheduleCommands' = mFlushScheduleCommands
          \/ \E t \in Threads : \E k, h : Command(t, k, h) /\ (~FreshGuid(h) \/ k = "Cancel")
      BY <1>1, <1>2, <3>2 DEF IoScheduleFirst, IoCloseFirst, schedule
    <3> QED BY <1>1, <3>3, ScheduleFreeStays
  <2> QED BY <1>1, <2>1, <2>2, <2>3, AloneStays
<1>3. CASE IoAnnounce \/ IoPass
  <2>1. /\ thread[Io].pc \in {"announce", "pass"} /\ thread' = [thread EXCEPT ![Io] = Idle]
        /\ mFlushScheduleCommands' = mFlushScheduleCommands
        /\ \/ strand' = strand
           \/ \E task : Enqueue(Io, thread[Io].session, task)
    BY <1>3 DEF IoAnnounce, IoPass, Finish, schedule
  <2>2. Of(thread[Io].session, thread[Io].guid)
    BY <1>1, <2>1 DEF RecordOK, WithSession, IoStatements
  <2>3. \A g \in Guids : FreshGuid(g) => Unscheduled(g)'
    BY <1>1, <2>1, ScheduleFreeStays
  <2>4. CASE strand' = strand
    BY <1>1, <2>1, <2>3, <2>4, FitIdle, AloneStays
  <2>5. CASE \E task : Enqueue(Io, thread[Io].session, task)
    <3>1. PICK s, task : s = thread[Io].session /\ Enqueue(Io, s, task)
      BY <2>5
    <3>2. s \in Created /\ Of(s, thread[Io].guid)
      BY <2>2, <3>1 DEF Of
    <3>3. \E r \in Created :
             /\ \A q \in Created, u \in Threads : q # r /\ strand[q][u] = <<>> => strand'[q][u] = <<>>
             /\ mSessionContexts[guidOf[r]] \in {None, r} /\ ~FreshGuid(guidOf[r])
      BY <1>1, <2>1, <3>1, <3>2, StrandsFree
    <3> QED BY <1>1, <2>1, <2>3, <3>3, FitIdle, AloneStays
  <2> QED BY <2>1, <2>4, <2>5
<1>4. CASE \E g \in Guids, packet \in {"lost", "over", "empty"} : IoReceive(g, packet)
  <2>1. PICK g \in Guids, packet \in {"lost", "over", "empty"} : IoReceive(g, packet)
    BY <1>4
  <2>2. PICK x : x = [Idle EXCEPT !.pc = IF packet = "empty" THEN "closeFirst" ELSE "pass",
                                  !.guid = g, !.session = mSessionContexts[g], !.why = packet]
    OBVIOUS
  <2>3. /\ strand' = strand /\ mFlushScheduleCommands' = mFlushScheduleCommands
        /\ thread[Io] = Idle
        /\ thread' = IF mSessionContexts[g] = None THEN thread ELSE [thread EXCEPT ![Io] = x]
    BY <2>1, <2>2 DEF IoReceive, schedule
  <2>4. Fit(x)
    <3>1. /\ x.pc # "upsert" /\ x.guid = g /\ x.session = mSessionContexts[g] /\ x.removed = None
      BY <2>2 DEF Idle
    <3>2. ~FreshGuid(g)
      BY <2>3 DEF FreshGuid, Idle
    <3> QED BY <3>1, <3>2, GuidsAssumption DEF Fit, Consistent
  <2>5. \A h \in Guids : FreshGuid(h) => Unscheduled(h)'
    BY <1>1, <2>3, ScheduleFreeStays
  <2> QED BY <1>1, <2>3, <2>4, <2>5, AloneStays
<1> QED BY <1>2, <1>3, <1>4

LEMMA RemovalAlone ==
    ASSUME AloneInv, ~early, Shape', NEW t \in Threads, RemoveStep(t)
    PROVE  OneSession' /\ NewIsAlone'
<1>1. /\ ThreadsOK /\ RecordOK(t, thread[t]) /\ thread[t] \in Records /\ Shape
      /\ UNCHANGED <<guidOf, mFlushDueHeap, mFlushDueTokens>>
      /\ thread[t].pc \in Removing
  BY DEF AloneInv, Shape, ThreadsOK, RemoveStep, RemoveCancel, RemoveErase, RemoveClose,
         RemoveReport, Step, Removing, table, schedule
<1>2. /\ thread[t].guid \in Guids /\ Consistent(thread[t])
      /\ ~FreshGuid(thread[t].guid) \/ Asks(thread[t])
      /\ thread[t].pc \notin {"idle", "drain", "upsert"}
  BY <1>1, ActorNotFresh DEF AloneInv, RecordOK, Removing, OneSession
<1>3. \A g \in Guids : FreshGuid(g) => Unscheduled(g)'
  <2>1. \/ mFlushScheduleCommands' = mFlushScheduleCommands
        \/ \E u \in Threads : \E k, h : Command(u, k, h) /\ (~FreshGuid(h) \/ k = "Cancel")
    BY <1>2 DEF RemoveStep, RemoveCancel, RemoveErase, RemoveClose, RemoveReport, schedule
  <2> QED BY <1>1, <2>1, ScheduleFreeStays
<1>4. CASE RemoveErase(t)
  <2>1. PICK g, r, x : /\ g = thread[t].guid /\ r = mSessionContexts[g]
                       /\ x = [thread[t] EXCEPT !.pc = "close", !.removed = r]
    OBVIOUS
  <2>2. /\ mSessionContexts' = [mSessionContexts EXCEPT ![g] = None] /\ strand' = strand
        /\ \/ thread' = [thread EXCEPT ![t] = Idle]
           \/ thread' = [thread EXCEPT ![t] = x] /\ (thread[t].why = "client" => r # None)
    BY <1>1, <1>4, <2>1, EraseEffect
  <2>3. \A h \in Guids : mSessionContexts'[h] \in {None, mSessionContexts[h]}
    BY <1>1, <2>2 DEF Shape, TableTypes
  <2>4. ASSUME thread[t].why = "client" => r # None PROVE Fit(x)
    <3>1. x.pc = "close" /\ x.guid = g /\ x.session = thread[t].session /\ x.removed = r
      BY <1>1, <2>1 DEF Records
    <3>2. ~FreshGuid(g)
      <4>1. Asks(thread[t]) => thread[t].why = "client"
        <5>1. None \notin Created
          BY <1>1, CreatedSessions DEF Shape
        <5> QED BY <1>1, <5>1 DEF RecordOK, Asks, Of, Removing
      <4>2. FreshGuid(g) => r = None
        BY <1>2, <2>1 DEF AloneInv, NewIsAlone, Alone
      <4> QED BY <1>2, <2>1, <2>4, <4>1, <4>2
    <3> QED BY <1>2, <2>1, <3>1, <3>2, GuidsAssumption DEF Fit, Consistent
  <2> QED BY <1>1, <1>3, <2>2, <2>3, <2>4, FitIdle, AloneStays
<1>5. CASE RemoveCancel(t) \/ RemoveClose(t)
  <2>1. /\ strand' = strand /\ mSessionContexts' = mSessionContexts
        /\ \/ thread' = [thread EXCEPT ![t] = Idle]
           \/ \E pc \in {"erase", "report"} :
                 /\ thread' = [thread EXCEPT ![t] = [thread[t] EXCEPT !.pc = pc]]
                 /\ pc = "erase" \/ thread[t].pc = "close"
    BY <1>5 DEF RemoveCancel, RemoveClose, Step, Finish, table
  <2>2. \A pc \in {"erase", "report"} :
           pc = "erase" \/ thread[t].pc = "close" => Fit([thread[t] EXCEPT !.pc = pc])
    BY <1>2, FitNext DEF Asks
  <2>3. \E x : thread' = [thread EXCEPT ![t] = x] /\ Fit(x)
    BY <2>1, <2>2, FitIdle
  <2> QED BY <1>1, <1>3, <2>1, <2>3, AloneStays
<1>6. CASE RemoveReport(t)
  <2>1. PICK r : r = thread[t].removed
    OBVIOUS
  <2>2. /\ thread' = [thread EXCEPT ![t] = Idle] /\ mSessionContexts' = mSessionContexts
        /\ strand' = strand \/ Enqueue(t, r, "disconnected")
        /\ r \in Created /\ Of(r, thread[t].guid) /\ thread[t].pc = "report"
    BY <1>1, <1>6, <2>1 DEF RemoveReport, Finish, table, RecordOK, Of
  <2>3. \/ strand' = strand
        \/ \E s \in Created :
              /\ \A q \in Created, u \in Threads : q # s /\ strand[q][u] = <<>> => strand'[q][u] = <<>>
              /\ mSessionContexts[guidOf[s]] \in {None, s} /\ ~FreshGuid(guidOf[s])
    BY <1>2, <2>1, <2>2, StrandsFree
  <2> QED BY <1>1, <1>3, <2>2, <2>3, FitIdle, AloneStays
<1> QED BY <1>4, <1>5, <1>6 DEF RemoveStep

LEMMA StrandWorkAlone ==
    ASSUME AloneInv, ~early, Shape', NEW w \in Workers,
           \/ FlushTask(w) \/ FlushCommand(w)
           \/ \E s \in Sessions, t \in Threads : TaskBegin(w, s, t)
    PROVE  OneSession' /\ NewIsAlone'
<1>1. /\ w \in Threads /\ ThreadsOK /\ RecordOK(w, thread[w]) /\ Shape
      /\ UNCHANGED <<guidOf, mSessionContexts, mFlushDueHeap, mFlushDueTokens>>
  BY DEF AloneInv, Shape, ThreadsOK, Threads, FlushTask, FlushCommand, TaskBegin, table, schedule
<1>2. CASE FlushTask(w)
  <2>1. PICK pc \in {"again", "never"} : thread' = [thread EXCEPT ![w] = [thread[w] EXCEPT !.pc = pc]]
    BY <1>2 DEF FlushTask, Step
  <2>2. /\ thread[w].pc = "flush" /\ strand' = strand /\ mFlushScheduleCommands' = mFlushScheduleCommands
    BY <1>2 DEF FlushTask, Step, schedule
  <2>3. Fit([thread[w] EXCEPT !.pc = pc])
    BY <1>1, <2>2, FitNext DEF Asks
  <2>4. \A g \in Guids : FreshGuid(g) => Unscheduled(g)'
    BY <1>1, <2>2, ScheduleFreeStays
  <2> QED BY <1>1, <2>1, <2>2, <2>3, <2>4, AloneStays
<1>3. CASE FlushCommand(w)
  <2>1. /\ thread[w].pc \in {"again", "never"} /\ strand' = strand /\ thread' = [thread EXCEPT ![w] = Idle]
        /\ \E k : Command(w, k, thread[w].guid)
    BY <1>3 DEF FlushCommand, Finish
  <2>2. ~FreshGuid(thread[w].guid)
    BY <1>1, <2>1, ActorNotFresh DEF RecordOK, Asks
  <2>3. \A g \in Guids : FreshGuid(g) => Unscheduled(g)'
    BY <1>1, <2>1, <2>2, ScheduleFreeStays
  <2> QED BY <1>1, <2>1, <2>3, FitIdle, AloneStays
<1>4. CASE \E s \in Sessions, t \in Threads : TaskBegin(w, s, t)
  <2>1. PICK s \in Sessions, t \in Threads : TaskBegin(w, s, t)
    BY <1>4
  <2>2. /\ s \in Created /\ guidOf[s] \in Guids /\ strand[s][t] # <<>>
        /\ strand' = [strand EXCEPT ![s][t] = Tail(@)] /\ mFlushScheduleCommands' = mFlushScheduleCommands
        /\ \/ thread' = thread
           \/ \E pc \in {"flush", "cancel"}, why \in {"flush", "lost", "over"} :
                 thread' = [thread EXCEPT ![w] = StrandWork(guidOf[s], s, pc, why)]
    BY <1>1, <2>1, TaskEffect DEF schedule
  <2>3. \A pc \in {"flush", "cancel"} : \A why : Fit(StrandWork(guidOf[s], s, pc, why))
    <3> SUFFICES ASSUME NEW pc \in {"flush", "cancel"}, NEW why
                 PROVE  Fit(StrandWork(guidOf[s], s, pc, why))
      OBVIOUS
    <3>1. PICK x : x = StrandWork(guidOf[s], s, pc, why)
      OBVIOUS
    <3>2. x.pc = pc /\ x.guid = guidOf[s] /\ x.session = s /\ x.removed = None
      BY <3>1 DEF StrandWork, Idle
    <3>3. mSessionContexts[guidOf[s]] \in {None, s}
      BY <2>2 DEF AloneInv, OneSession
    <3>4. ~FreshGuid(guidOf[s])
      BY <2>2 DEF AloneInv, NewIsAlone, Alone
    <3>5. Fit(x)
      BY <2>2, <3>2, <3>3, <3>4, GuidsAssumption DEF Fit, Consistent
    <3> QED BY <3>1, <3>5
  <2>4. \A r \in Created, u \in Threads : strand[r][u] = <<>> => strand'[r][u] = <<>>
    <3>1. StrandTypes /\ Created \subseteq Sessions
      BY <1>1, CreatedSessions DEF Shape
    <3> QED BY <2>2, <3>1 DEF StrandTypes
  <2>5. \A g \in Guids : FreshGuid(g) => Unscheduled(g)'
    BY <1>1, <2>2, ScheduleFreeStays
  <2>6. \/ thread' = thread
        \/ \E u \in Threads : \E x : thread' = [thread EXCEPT ![u] = x] /\ Fit(x)
    BY <1>1, <2>2, <2>3
  <2> QED BY <1>1, <2>4, <2>5, <2>6, AloneStays
<1> QED BY <1>2, <1>3, <1>4

LEMMA TickAlone ==
    ASSUME AloneInv, ~early, Shape', NEW w \in Workers,
           TickBegin(w) \/ TickEnd(w) \/ TickLookup(w) \/ TickCheck(w) \/ TickGive(w) \/ TickCommand(w)
    PROVE  OneSession' /\ NewIsAlone'
<1>1. /\ w \in Threads /\ ThreadsOK /\ RecordOK(w, thread[w]) /\ thread[w] \in Records /\ Shape
      /\ UNCHANGED <<guidOf, mSessionContexts, mFlushDueHeap, mFlushDueTokens>>
  BY DEF AloneInv, Shape, ThreadsOK, Threads, TickBegin, TickEnd, TickLookup, TickCheck, TickGive,
         TickCommand, table, schedule
<1>2. CASE TickBegin(w) \/ TickEnd(w)
  <2>1. \A g \in Guids : FreshGuid(g) => Unscheduled(g)'
    BY <1>1, <1>2, ScheduleFreeStays DEF TickBegin, TickEnd, schedule
  <2>2. strand' = strand /\ \E x : thread' = [thread EXCEPT ![w] = x] /\ Fit(x)
    BY <1>2, FitIdle DEF TickBegin, TickEnd, Finish
  <2> QED BY <1>1, <2>1, <2>2, AloneStays
<1>3. CASE TickLookup(w)
  <2>1. PICK s, x : /\ s = mSessionContexts[thread[w].guid]
                    /\ x = [thread[w] EXCEPT !.pc = "check", !.session = s]
    OBVIOUS
  <2>2. /\ strand' = strand /\ mFlushScheduleCommands' = mFlushScheduleCommands
        /\ thread[w].pc = "lookup"
        /\ \/ thread' = [thread EXCEPT ![w] = [thread[w] EXCEPT !.pc = "tickCancel"]]
           \/ thread' = [thread EXCEPT ![w] = x]
    BY <1>3, <2>1 DEF TickLookup, schedule
  <2>3. Fit([thread[w] EXCEPT !.pc = "tickCancel"])
    BY <1>1, <2>2, FitNext DEF Asks
  <2>4. Fit(x)
    <3>1. x.pc = "check" /\ x.guid = thread[w].guid /\ x.session = s /\ x.removed = None
      BY <1>1, <2>1, <2>2 DEF Records, RecordOK
    <3>2. thread[w].guid \in Guids /\ ~FreshGuid(thread[w].guid)
      BY <1>1, <2>2, ActorNotFresh DEF RecordOK, Asks
    <3> QED BY <2>1, <3>1, <3>2, GuidsAssumption DEF Fit, Consistent
  <2>5. \A g \in Guids : FreshGuid(g) => Unscheduled(g)'
    BY <1>1, <2>2, ScheduleFreeStays
  <2> QED BY <1>1, <2>2, <2>3, <2>4, <2>5, AloneStays
<1>4. CASE TickCheck(w) \/ (TickGive(w) /\ UNCHANGED strand /\ thread' = [thread EXCEPT ![w].pc = "refused"])
  <2>1. /\ strand' = strand /\ mFlushScheduleCommands' = mFlushScheduleCommands
        /\ thread[w].pc \in {"check", "refused", "give"}
        /\ \E pc \in {"give", "tickAgain", "tickCancel", "refused"} :
              thread' = [thread EXCEPT ![w] = [thread[w] EXCEPT !.pc = pc]]
    BY <1>4 DEF TickCheck, TickGive, Step, schedule
  <2>2. \A pc \in {"give", "tickAgain", "tickCancel", "refused"} : Fit([thread[w] EXCEPT !.pc = pc])
    BY <1>1, <2>1, FitNext DEF Asks
  <2>3. \E x : thread' = [thread EXCEPT ![w] = x] /\ Fit(x)
    BY <2>1, <2>2
  <2>4. \A g \in Guids : FreshGuid(g) => Unscheduled(g)'
    BY <1>1, <2>1, ScheduleFreeStays
  <2> QED BY <1>1, <2>1, <2>3, <2>4, AloneStays
<1>5. CASE TickGive(w) /\ Enqueue(w, thread[w].session, "flush") /\ NextEntry(w)
  <2>1. PICK s : s = thread[w].session
    OBVIOUS
  <2>2. /\ s \in Created /\ Of(s, thread[w].guid) /\ thread[w].pc = "give"
        /\ mFlushScheduleCommands' = mFlushScheduleCommands
    BY <1>1, <1>5, <2>1 DEF RecordOK, WithSession, Of, TickGive, schedule
  <2>3. \E r \in Created :
           /\ \A q \in Created, u \in Threads : q # r /\ strand[q][u] = <<>> => strand'[q][u] = <<>>
           /\ mSessionContexts[guidOf[r]] \in {None, r} /\ ~FreshGuid(guidOf[r])
    BY <1>1, <1>5, <2>1, <2>2, StrandsFree
  <2>4. \A g \in Guids : FreshGuid(g) => Unscheduled(g)'
    BY <1>1, <2>2, ScheduleFreeStays
  <2> QED BY <1>1, <1>5, <2>3, <2>4, FitIdle, AloneStays DEF NextEntry
<1>6. CASE TickCommand(w)
  <2>1. /\ strand' = strand /\ thread' = [thread EXCEPT ![w] = [Idle EXCEPT !.pc = "drain"]]
        /\ thread[w].pc \in {"tickAgain", "tickCancel"}
        /\ \E k : Command(w, k, thread[w].guid)
    BY <1>6 DEF TickCommand, NextEntry
  <2>2. ~FreshGuid(thread[w].guid)
    BY <1>1, <2>1, ActorNotFresh DEF RecordOK, Asks
  <2>3. \A g \in Guids : FreshGuid(g) => Unscheduled(g)'
    BY <1>1, <2>1, <2>2, ScheduleFreeStays
  <2> QED BY <1>1, <2>1, <2>3, FitIdle, AloneStays
<1> QED BY <1>2, <1>3, <1>4, <1>5, <1>6 DEF TickGive

(* Commands and entries of other GUIDs leave the new one alone.             *)
LEMMA DrainCommandAlone ==
    ASSUME AloneInv, ~early, Shape', NEW t \in Threads, DrainCommand(t)
    PROVE  OneSession' /\ NewIsAlone'
<1>1. PICK c : c = Head(mFlushScheduleCommands[t])
  OBVIOUS
<1>2. /\ UNCHANGED <<guidOf, mSessionContexts, strand, thread>> /\ ScheduleTypes
      /\ mFlushScheduleCommands[t] # <<>>
      /\ mFlushScheduleCommands' = [mFlushScheduleCommands EXCEPT ![t] = Tail(@)]
  BY DEF AloneInv, Shape, DrainCommand, table
<1>3. /\ c \in Commands
      /\ \A kind, h : Queued(kind, h, t, 1) <=> c = [mKind |-> kind, mGuid |-> h]
      /\ \A kind, h : \A u \in Threads, i \in Nat :
            Queued(kind, h, u, i)' <=> IF u = t THEN i # 0 /\ Queued(kind, h, u, i + 1)
                                                ELSE Queued(kind, h, u, i)
  BY <1>1, <1>2, CommandTaken
<1>4. \A kind, h : Commanded(kind, h)' => Commanded(kind, h)
  BY <1>3 DEF Commanded
<1>5. c.mGuid \in Guids /\ Commanded(c.mKind, c.mGuid)
  <2>1. c = [mKind |-> c.mKind, mGuid |-> c.mGuid] /\ c.mGuid \in Guids
    BY <1>3 DEF Commands
  <2> QED BY <1>3, <2>1 DEF Commanded
<1>6. \A g \in Guids : g # c.mGuid => (Due(g)' => Due(g))
  <2> SUFFICES ASSUME NEW g \in Guids, g # c.mGuid, NEW e \in mFlushDueHeap', e.mGuid = g,
                      mFlushDueTokens'[g] = e.mToken
               PROVE  Due(g)
    BY DEF Due
  <2>1. e \in mFlushDueHeap /\ mFlushDueTokens'[g] = mFlushDueTokens[g]
    BY <1>1, <1>2 DEF DrainCommand, ScheduleTypes
  <2> QED BY <2>1 DEF Due
<1>7. c.mKind # "Schedule" => ~Due(c.mGuid)'
  <2> SUFFICES ASSUME c.mKind # "Schedule", NEW e \in mFlushDueHeap', e.mGuid = c.mGuid,
                      mFlushDueTokens'[c.mGuid] = e.mToken
               PROVE  FALSE
    BY DEF Due
  <2>1. mFlushDueHeap' = mFlushDueHeap /\ mFlushDueTokens'[c.mGuid] = None
    BY <1>1, <1>2, <1>5 DEF DrainCommand, ScheduleTypes
  <2>2. e.mToken \in 1..MaxTokens /\ MaxTokens \in Nat
    BY <1>2, <2>1, BoundsAssumption DEF ScheduleTypes
  <2>3. e.mToken = 0
    BY <2>1 DEF None
  <2> QED BY <2>2, <2>3
<1>8. \A g \in Guids : FreshGuid(g) => Unscheduled(g)'
  BY <1>4, <1>5, <1>6, <1>7, ScheduleFreeNow DEF ScheduleFree, Unscheduled
<1> QED BY <1>2, <1>8, AloneStays

LEMMA TickPopAlone ==
    ASSUME AloneInv, ~early, Shape', NEW w \in Workers, NEW e \in mFlushDueHeap, TickPop(w, e)
    PROVE  OneSession' /\ NewIsAlone'
<1>1. PICK x : x = [thread[w] EXCEPT !.pc = "lookup", !.guid = e.mGuid]
  OBVIOUS
<1>2. /\ UNCHANGED <<guidOf, mSessionContexts, strand, mFlushScheduleCommands, mFlushDueTokens>>
      /\ ScheduleTypes /\ w \in Threads /\ thread[w].pc = "drain" /\ thread[w] \in Records
      /\ RecordOK(w, thread[w])
      /\ mFlushDueHeap' = mFlushDueHeap \ {e}
      /\ \/ thread' = thread
         \/ mFlushDueTokens[e.mGuid] = e.mToken /\ thread' = [thread EXCEPT ![w] = x]
  BY <1>1 DEF AloneInv, Shape, TickPop, table, Threads, ThreadsOK
<1>3. \A g \in Guids : FreshGuid(g) => Unscheduled(g)'
  <2>1. \A g : (Due(g)' => Due(g)) /\ \A kind : Commanded(kind, g)' <=> Commanded(kind, g)
    BY <1>2 DEF Due, Commanded, Queued
  <2> QED BY <2>1, ScheduleFreeNow DEF ScheduleFree, Unscheduled
<1>4. ASSUME mFlushDueTokens[e.mGuid] = e.mToken PROVE Fit(x)
  <2>1. x.pc = "lookup" /\ x.guid = e.mGuid /\ x.session = None /\ x.removed = None
    BY <1>1, <1>2 DEF Records, RecordOK, Idle
  <2>2. e.mGuid \in Guids /\ ~FreshGuid(e.mGuid)
    BY <1>2, <1>4, ScheduleFreeNow DEF ScheduleFree, Unscheduled, ScheduleTypes, Due
  <2> QED BY <2>1, <2>2, GuidsAssumption DEF Fit, Consistent
<1> QED BY <1>2, <1>3, <1>4, AloneStays

LEMMA EarlyStays == [Next]_vars => early' = early
<1> SUFFICES ASSUME [Next]_vars PROVE early' = early
  OBVIOUS
<1>1. CASE IoStep
  BY <1>1
     DEF IoStep, IoConnect, IoReceive, IoUpsert, IoScheduleFirst, IoAnnounce, IoPass,
         IoCloseFirst, env
<1>2. CASE \E t \in Threads : RemoveStep(t) \/ DrainCommand(t)
  BY <1>2
     DEF RemoveStep, RemoveCancel, RemoveErase, RemoveClose, RemoveReport, DrainCommand, env
<1>3. CASE \E w \in Workers : StrandStep(w)
  BY <1>3 DEF StrandStep, TaskBegin, FlushTask, FlushCommand, env
<1>4. CASE \E w \in Workers : TickStep(w)
  BY <1>4
     DEF TickStep, TickBegin, TickLookup, TickCheck, TickGive, TickCommand, TickPop,
         TickEnd, env
<1>5. CASE \E c \in Clients, g \in Guids : DisconnectClient(c, g)
  BY <1>5 DEF DisconnectClient, env
<1>6. CASE (\E s \in Sessions : Destroy(s)) \/ UNCHANGED vars
  BY <1>6 DEF Destroy, vars, env
<1> QED BY <1>1, <1>2, <1>3, <1>4, <1>5, <1>6 DEF Next

LEMMA NextKeepsAlone == AloneInv /\ [Next]_vars => AloneInv'
<1> SUFFICES ASSUME AloneInv, [Next]_vars PROVE AloneInv'
  OBVIOUS
<1>0. Shape' /\ early' = early /\ ClientsAsk'
  BY NextKeepsShape, EarlyStays, ClientsAskStill DEF AloneInv
<1>1. CASE early
  BY <1>0, <1>1 DEF AloneInv
<1>2. CASE ~early
  <2>1. CASE IoStep
    BY <1>0, <1>2, <2>1, IoConnectAlone, IoUpsertAlone, OtherIoAlone DEF IoStep, AloneInv
  <2>2. CASE \E t \in Threads : RemoveStep(t) \/ DrainCommand(t)
    BY <1>0, <1>2, <2>2, RemovalAlone, DrainCommandAlone DEF AloneInv
  <2>3. CASE \E w \in Workers : StrandStep(w)
    BY <1>0, <1>2, <2>3, StrandWorkAlone DEF StrandStep, AloneInv
  <2>4. CASE \E w \in Workers : TickStep(w)
    BY <1>0, <1>2, <2>4, TickAlone, TickPopAlone DEF TickStep, AloneInv
  <2>5. CASE \E c \in Clients, g \in Guids : DisconnectClient(c, g)
    <3>1. PICK c \in Clients, g \in Guids : DisconnectClient(c, g)
      BY <2>5
    <3>2. PICK x : x = [Idle EXCEPT !.pc = "cancel", !.guid = g, !.why = "client"]
      OBVIOUS
    <3>3. /\ thread' = [thread EXCEPT ![c] = x] /\ c \in Threads /\ strand' = strand
          /\ UNCHANGED <<guidOf, mSessionContexts, mFlushDueHeap, mFlushDueTokens>>
          /\ mFlushScheduleCommands' = mFlushScheduleCommands
      BY <3>1, <3>2 DEF DisconnectClient, table, schedule, Threads
    <3>4. Fit(x)
      <4>1. x.pc = "cancel" /\ x.guid = g /\ x.session = None /\ x.removed = None
        BY <3>2 DEF Idle
      <4> QED BY <4>1, GuidsAssumption DEF Fit, Consistent, Asks
    <3>5. \A h \in Guids : FreshGuid(h) => Unscheduled(h)'
      BY <1>2, <3>3, ScheduleFreeStays
    <3>6. OneSession' /\ NewIsAlone'
      BY <1>0, <1>2, <3>3, <3>4, <3>5, AloneStays
    <3> QED BY <1>0, <3>6 DEF AloneInv
  <2>6. CASE (\E s \in Sessions : Destroy(s)) \/ UNCHANGED vars
    <3>1. UNCHANGED <<guidOf, mSessionContexts, schedule, strand, thread>>
      BY <2>6 DEF Destroy, vars, table
    <3>2. \A h \in Guids : FreshGuid(h) => Unscheduled(h)'
      BY <1>2, <3>1, ScheduleFreeStays DEF schedule
    <3>3. OneSession' /\ NewIsAlone'
      BY <1>0, <1>2, <3>1, <3>2, AloneStays
    <3> QED BY <1>0, <3>3 DEF AloneInv
  <2> QED BY <2>1, <2>2, <2>3, <2>4, <2>5, <2>6 DEF Next
<1> QED BY <1>1, <1>2

-----------------------------------------------------------------------------
(* A GUID that is about to get a session and is not stray: no call asks to  *)
(* disconnect it, and none left a command to cancel its flush.              *)
QuietGuid(g) == /\ \A t \in Threads : t # Io => thread[t].guid # g
                /\ ~Commanded("Cancel", g)
NewIsQuiet == \A g \in Guids : FreshGuid(g) /\ g \notin stray => QuietGuid(g)

(* What a step that connects nobody leaves of such a GUID.                  *)
LEMMA QuietStays ==
    ASSUME Shape, NewIsQuiet, stray \subseteq stray', NEW t \in Threads, NEW g \in Guids,
           FreshGuid(g)', g \notin stray',
           \/ thread' = thread
           \/ \E x : /\ thread' = [thread EXCEPT ![t] = x] /\ x.pc # "upsert"
                     /\ x.guid = g => thread[t].guid = g,
           \/ \A kind : Commanded(kind, g)' => Commanded(kind, g)
           \/ t # Io /\ \E k : Command(t, k, thread[t].guid)
           \/ \E k : Command(t, k, thread[t].guid) /\ thread[t].pc # "upsert"
    PROVE  QuietGuid(g)'
<1>1. /\ ThreadsOK /\ ScheduleTypes /\ Io \in Threads
      /\ thread' = thread \/ \E x : thread' = [thread EXCEPT ![t] = x]
  BY DEF Shape, Threads
<1>2. /\ FreshGuid(g)
      /\ \A u \in Threads : thread'[u].guid = g => thread[u].guid = g
      /\ thread'[Io] = thread[Io]
  BY <1>1 DEF FreshGuid, ThreadsOK
<1>3. QuietGuid(g) /\ thread[Io].pc = "upsert"
  BY <1>2 DEF NewIsQuiet, FreshGuid
<1>4. ~Commanded("Cancel", g)'
  <2>1. CASE \A kind : Commanded(kind, g)' => Commanded(kind, g)
    BY <1>3, <2>1 DEF QuietGuid
  <2>2. CASE \E k : Command(t, k, thread[t].guid) /\ t # Io
    <3>1. PICK k, h : h = thread[t].guid /\ Command(t, k, h)
      BY <2>2
    <3>2. h # g
      BY <1>3, <2>2, <3>1 DEF QuietGuid
    <3>3. \A u \in Threads, i \in Nat : Queued("Cancel", g, u, i)' => Queued("Cancel", g, u, i)
      BY <1>1, <3>1, <3>2, CommandAdded
    <3> QED BY <1>3, <3>3 DEF QuietGuid, Commanded
  <2> QED BY <1>3, <2>1, <2>2
<1> QED BY <1>2, <1>3, <1>4 DEF QuietGuid

(* The next statement of a call.                                            *)
LEMMA MovesOn ==
    ASSUME NEW t \in Threads, thread[t] \in Records, NEW pc, pc # "upsert",
           thread' = [thread EXCEPT ![t] = [thread[t] EXCEPT !.pc = pc]]
    PROVE  \E x : thread' = [thread EXCEPT ![t] = x] /\ x.pc # "upsert" /\ x.guid = thread[t].guid
<1>1. PICK x : x = [thread[t] EXCEPT !.pc = pc]
  OBVIOUS
<1>2. x.pc = pc /\ x.guid = thread[t].guid
  BY <1>1 DEF Records
<1> QED BY <1>1, <1>2

LEMMA NextKeepsQuiet ==
    ASSUME AloneInv, ~early, NewIsQuiet, [Next]_vars
    PROVE  NewIsQuiet'
<1> SUFFICES ASSUME NEW g \in Guids, FreshGuid(g)', g \notin stray' PROVE QuietGuid(g)'
  BY DEF NewIsQuiet
<1>1. /\ Shape /\ ThreadsOK /\ Io \in Threads /\ Clients \subseteq Threads /\ Workers \subseteq Threads
      /\ Io \notin Clients /\ Io \notin Workers
      /\ Idle.pc = "idle" /\ Idle.guid = None /\ None \notin Guids
      /\ \A t \in Threads : thread[t] \in Records
  BY ThreadsAssumption, GuidsAssumption DEF AloneInv, Shape, ThreadsOK, Threads, Idle
<1>2. FreshGuid(g) => Alone(g)
  BY DEF AloneInv, NewIsAlone
<1>3. mFlushScheduleCommands' = mFlushScheduleCommands => \A kind : Commanded(kind, g)' => Commanded(kind, g)
  BY DEF Commanded, Queued
<1>4. CASE \E h \in Guids : IoConnect(h)
  <2>1. PICK h \in Guids : IoConnect(h)
    BY <1>4
  <2>2. PICK x : x = [Idle EXCEPT !.pc = "upsert", !.guid = h, !.session = Len(guidOf) + 1]
    OBVIOUS
  <2>3. /\ thread' = [thread EXCEPT ![Io] = x] /\ x.guid = h /\ Settled(h)
        /\ mFlushScheduleCommands' = mFlushScheduleCommands
        /\ stray' = IF Through(Clients, h) THEN stray \ {h} ELSE stray \union {h}
    BY <2>1, <2>2 DEF IoConnect, schedule, Idle
  <2>4. /\ \A t \in Threads : t # Io => thread'[t] = thread[t]
        /\ thread'[Io] = x
    BY <1>1, <2>3 DEF ThreadsOK
  <2>5. g = h /\ Through(Clients, g)
    BY <2>3, <2>4 DEF FreshGuid
  <2>6. Through(Threads, g)
    BY <2>3, <2>5 DEF Settled, Through
  <2>7. ~Commanded("Cancel", g)
    <3> SUFFICES ASSUME NEW t \in Threads, NEW i \in Nat, Queued("Cancel", g, t, i) PROVE FALSE
      BY DEF Commanded
    <3>1. i \in DOMAIN mFlushScheduleCommands[t] /\ mFlushScheduleCommands[t][i].mGuid = g
      BY DEF Queued
    <3> QED BY <2>6, <3>1 DEF Through
  <2> QED BY <1>3, <2>3, <2>4, <2>6, <2>7 DEF QuietGuid, Through, Commanded, Queued
<1>5. CASE \E c \in Clients, h \in Guids : DisconnectClient(c, h)
  <2>1. PICK c \in Clients, h \in Guids : DisconnectClient(c, h)
    BY <1>5
  <2>2. PICK x : x = [Idle EXCEPT !.pc = "cancel", !.guid = h, !.why = "client"]
    OBVIOUS
  <2>3. /\ thread' = [thread EXCEPT ![c] = x] /\ x.pc = "cancel" /\ x.guid = h
        /\ mFlushScheduleCommands' = mFlushScheduleCommands
        /\ stray \subseteq stray' /\ (mSessionContexts[h] = None => h \in stray')
    BY <2>1, <2>2 DEF DisconnectClient, schedule, Idle
  <2>4. FreshGuid(g)
    BY <1>1, <2>3 DEF FreshGuid, ThreadsOK
  <2>5. h # g
    BY <1>2, <2>3, <2>4 DEF Alone
  <2> QED BY <1>1, <1>3, <2>3, <2>5, QuietStays
<1>6. CASE ~(\E h \in Guids : IoConnect(h)) /\ IoStep
  <2>1. CASE \E h \in Guids, packet \in {"lost", "over", "empty"} : IoReceive(h, packet)
    <3>1. PICK h \in Guids, packet \in {"lost", "over", "empty"} : IoReceive(h, packet)
      BY <2>1
    <3>2. PICK x : x = [Idle EXCEPT !.pc = IF packet = "empty" THEN "closeFirst" ELSE "pass",
                                    !.guid = h, !.session = mSessionContexts[h], !.why = packet]
      OBVIOUS
    <3>3. x.pc # "upsert" /\ thread[Io] = Idle
      BY <3>1, <3>2 DEF IoReceive, Idle
    <3>4. thread' = IF mSessionContexts[h] = None THEN thread ELSE [thread EXCEPT ![Io] = x]
      BY <3>1, <3>2 DEF IoReceive
    <3> QED BY <1>1, <3>3, <3>4 DEF FreshGuid, ThreadsOK
  <2>2. CASE IoUpsert \/ IoScheduleFirst \/ IoAnnounce \/ IoPass \/ IoCloseFirst
    <3>1. \/ thread' = [thread EXCEPT ![Io] = Idle]
          \/ \E pc \in {"scheduleFirst", "announce", "cancel"} :
                thread' = [thread EXCEPT ![Io] = [thread[Io] EXCEPT !.pc = pc]]
      BY <2>2 DEF IoUpsert, IoScheduleFirst, IoAnnounce, IoPass, IoCloseFirst, Step, Finish
    <3>2. \E x : thread' = [thread EXCEPT ![Io] = x] /\ x.pc # "upsert"
      BY <1>1, <3>1, MovesOn
    <3> QED BY <1>1, <3>2 DEF FreshGuid, ThreadsOK
  <2> QED BY <1>6, <2>1, <2>2 DEF IoStep
<1>7. CASE \E t \in Threads : RemoveStep(t)
  <2>1. PICK t \in Threads : RemoveStep(t)
    BY <1>7
  <2>2. ASSUME RemoveErase(t)
        PROVE  \E x : /\ thread' = [thread EXCEPT ![t] = x] /\ x.pc # "upsert"
                      /\ x.guid = g => thread[t].guid = g
    <3>1. PICK x : x = [thread[t] EXCEPT !.pc = "close", !.removed = mSessionContexts[thread[t].guid]]
      OBVIOUS
    <3>2. x.pc = "close" /\ x.guid = thread[t].guid
      BY <1>1, <3>1 DEF Records
    <3>3. thread' = [thread EXCEPT ![t] = Idle] \/ thread' = [thread EXCEPT ![t] = x]
      BY <1>1, <2>2, <3>1, EraseEffect
    <3>4. \E y : thread' = [thread EXCEPT ![t] = y] /\ y.pc # "upsert" /\ y.guid \in {None, thread[t].guid}
      BY <1>1, <3>2, <3>3
    <3> QED BY <1>1, <3>4
  <2>3. ASSUME RemoveCancel(t) \/ RemoveClose(t) \/ RemoveReport(t)
        PROVE  \E x : /\ thread' = [thread EXCEPT ![t] = x] /\ x.pc # "upsert"
                      /\ x.guid = g => thread[t].guid = g
    <3>1. \/ thread' = [thread EXCEPT ![t] = Idle]
          \/ \E pc \in {"erase", "report"} :
                thread' = [thread EXCEPT ![t] = [thread[t] EXCEPT !.pc = pc]]
      BY <2>3 DEF RemoveCancel, RemoveClose, RemoveReport, Step, Finish
    <3>2. \E x : thread' = [thread EXCEPT ![t] = x] /\ x.pc # "upsert" /\ x.guid \in {None, thread[t].guid}
      BY <1>1, <3>1, MovesOn
    <3> QED BY <1>1, <3>2
  <2>4. \E x : /\ thread' = [thread EXCEPT ![t] = x] /\ x.pc # "upsert"
               /\ x.guid = g => thread[t].guid = g
    BY <2>1, <2>2, <2>3 DEF RemoveStep
  <2>5. /\ stray' = stray
        /\ \/ mFlushScheduleCommands' = mFlushScheduleCommands
           \/ \E k : Command(t, k, thread[t].guid) /\ thread[t].pc # "upsert"
    BY <2>1 DEF RemoveStep, RemoveCancel, RemoveErase, RemoveClose, RemoveReport, Step, schedule, env
  <2> QED BY <1>1, <1>3, <2>4, <2>5, QuietStays
<1>8. CASE \E w \in Workers : StrandStep(w) \/ TickStep(w)
  <2>1. PICK w \in Workers : StrandStep(w) \/ TickStep(w)
    BY <1>8
  <2>2. /\ stray' = stray /\ w \in Threads /\ w # Io
        /\ \/ mFlushScheduleCommands' = mFlushScheduleCommands
           \/ \E k : Command(w, k, thread[w].guid)
    BY <1>1, <2>1
       DEF StrandStep, TaskBegin, FlushTask, FlushCommand, TickStep, TickBegin, TickLookup, TickCheck,
           TickGive, TickCommand, TickPop, TickEnd, schedule, env
  <2>3. \/ thread' = thread
        \/ \E x : thread' = [thread EXCEPT ![w] = x]
    BY <1>1, <2>1, FlushMoves DEF StrandStep, TaskBegin
  <2>4. thread'[Io] = thread[Io] /\ FreshGuid(g) /\ Alone(g)
    BY <1>1, <1>2, <2>2, <2>3 DEF ThreadsOK, FreshGuid
  <2>5. \/ thread' = thread
        \/ \E x : /\ thread' = [thread EXCEPT ![w] = x] /\ x.pc # "upsert"
                  /\ x.guid = g => thread[w].guid = g
    <3>1. CASE \E s \in Sessions, t \in Threads : TaskBegin(w, s, t)
      <4>1. PICK s \in Sessions, t \in Threads : TaskBegin(w, s, t)
        BY <3>1
      <4>2. /\ s \in Created /\ strand[s][t] # <<>>
            /\ \/ thread' = thread
               \/ \E pc \in {"flush", "cancel"}, why \in {"flush", "lost", "over"} :
                     thread' = [thread EXCEPT ![w] = StrandWork(guidOf[s], s, pc, why)]
        BY <1>1, <4>1, TaskEffect
      <4>3. guidOf[s] # g
        BY <2>4, <4>2 DEF Alone
      <4>4. ASSUME NEW pc \in {"flush", "cancel"}, NEW why,
                   thread' = [thread EXCEPT ![w] = StrandWork(guidOf[s], s, pc, why)]
            PROVE  \E x : /\ thread' = [thread EXCEPT ![w] = x] /\ x.pc # "upsert"
                          /\ x.guid = g => thread[w].guid = g
        <5>1. PICK x : x = StrandWork(guidOf[s], s, pc, why)
          OBVIOUS
        <5>2. x.pc = pc /\ x.guid = guidOf[s]
          BY <5>1 DEF StrandWork, Idle
        <5> QED BY <4>3, <4>4, <5>1, <5>2
      <4> QED BY <4>2, <4>4
    <3>2. CASE \E e \in mFlushDueHeap : TickPop(w, e)
      <4>1. PICK e \in mFlushDueHeap : TickPop(w, e)
        BY <3>2
      <4>2. PICK x : x = [thread[w] EXCEPT !.pc = "lookup", !.guid = e.mGuid]
        OBVIOUS
      <4>3. /\ thread' = thread \/ (thread' = [thread EXCEPT ![w] = x] /\ mFlushDueTokens[e.mGuid] = e.mToken)
            /\ x.pc = "lookup" /\ x.guid = e.mGuid
        BY <1>1, <2>2, <4>1, <4>2 DEF TickPop, Records
      <4>4. mFlushDueTokens[e.mGuid] = e.mToken => e.mGuid # g
        BY <2>4 DEF Alone, Unscheduled, Due
      <4> QED BY <4>3, <4>4
    <3>3. CASE TickLookup(w)
      <4>1. PICK s, x : /\ s = mSessionContexts[thread[w].guid]
                        /\ x = IF s = None THEN [thread[w] EXCEPT !.pc = "tickCancel"]
                               ELSE [thread[w] EXCEPT !.pc = "check", !.session = s]
        OBVIOUS
      <4>2. x.pc \in {"tickCancel", "check"} /\ x.guid = thread[w].guid
        BY <1>1, <2>2, <4>1 DEF Records
      <4> QED BY <3>3, <4>1, <4>2 DEF TickLookup
    <3>4. CASE \/ FlushTask(w) \/ FlushCommand(w) \/ TickBegin(w) \/ TickCheck(w) \/ TickGive(w)
               \/ TickCommand(w) \/ TickEnd(w)
      <4>1. \/ thread' = [thread EXCEPT ![w] = Idle]
            \/ thread' = [thread EXCEPT ![w] = [Idle EXCEPT !.pc = "drain"]]
            \/ \E pc \in {"again", "never", "give", "tickAgain", "tickCancel", "refused"} :
                  thread' = [thread EXCEPT ![w] = [thread[w] EXCEPT !.pc = pc]]
        BY <3>4 DEF FlushTask, FlushCommand, TickBegin, TickCheck, TickGive, TickCommand, TickEnd,
                    Step, Finish, NextEntry
      <4>2. [Idle EXCEPT !.pc = "drain"].pc = "drain" /\ [Idle EXCEPT !.pc = "drain"].guid = None
        BY DEF Idle
      <4>3. \E x : /\ thread' = [thread EXCEPT ![w] = x] /\ x.pc # "upsert"
                   /\ x.guid \in {None, thread[w].guid}
        BY <1>1, <2>2, <4>1, <4>2, MovesOn
      <4> QED BY <1>1, <4>3
    <3> QED BY <2>1, <3>1, <3>2, <3>3, <3>4 DEF StrandStep, TickStep
  <2> QED BY <1>1, <1>3, <2>2, <2>5, QuietStays
<1>9. CASE \E t \in Threads : DrainCommand(t)
  <2>1. PICK t \in Threads : DrainCommand(t)
    BY <1>9
  <2>2. /\ UNCHANGED <<thread, stray>> /\ mFlushScheduleCommands[t] # <<>>
        /\ mFlushScheduleCommands' = [mFlushScheduleCommands EXCEPT ![t] = Tail(@)]
    BY <2>1 DEF DrainCommand, env
  <2>3. \A kind : Commanded(kind, g)' => Commanded(kind, g)
    <3> SUFFICES ASSUME NEW kind, NEW u \in Threads, NEW i \in Nat, Queued(kind, g, u, i)'
                 PROVE  Commanded(kind, g)
      BY DEF Commanded
    <3>1. Queued(kind, g, u, i) \/ Queued(kind, g, u, i + 1)
      BY <1>1, <2>2, CommandTaken DEF Shape
    <3>2. i + 1 \in Nat
      OBVIOUS
    <3> QED BY <3>1, <3>2 DEF Commanded
  <2> QED BY <1>1, <2>2, <2>3, QuietStays
<1>10. CASE (\E s \in Sessions : Destroy(s)) \/ UNCHANGED vars
  <2>1. UNCHANGED <<thread, stray, mFlushScheduleCommands>>
    BY <1>10 DEF Destroy, vars, schedule, env
  <2> QED BY <1>1, <1>3, <2>1, QuietStays
<1> QED BY <1>4, <1>5, <1>6, <1>7, <1>8, <1>9, <1>10 DEF Next

-----------------------------------------------------------------------------
(* The line of flushes of a GUID: its next flush is in one place only, and  *)
(* the line ends only for a session that is gone or about to be erased, or  *)
(* for a GUID that is stray.                                                *)
Holds(r, g) == r.guid = g /\ r.pc \in HandStatements
Ends(r, g)  == r.guid = g /\ r.pc \in {"tickCancel", "never"}
Erases(r, g) == r.guid = g /\ r.pc = "erase"
Works(r, g) == r.guid = g /\ r.pc \in {"upsert", "scheduleFirst", "cancel", "erase"}
Starts(r, g) == r.guid = g /\ r.pc \in {"upsert", "scheduleFirst"}

Starting(g) == Starts(thread[Io], g)
Gone(g)     == mSessionContexts[g] = None \/ mSessionContexts[g] \notin mConnected
Erasing(g)  == \E t \in Threads : Erases(thread[t], g)
Busy(g)     == \E t \in Threads : Works(thread[t], g)

OneCommand(g) ==
    \A t, u \in Threads, i, j \in Nat :
       Queued("Schedule", g, t, i) /\ Queued("Schedule", g, u, j) => t = u /\ i = j
OneHand(g) == \A v, w \in Workers : Holds(thread[v], g) /\ Holds(thread[w], g) => v = w
OneTask(g) ==
    \A s, r \in Created, t, u \in Threads, i, j \in Nat :
       Flush(g, s, t, i) /\ Flush(g, r, u, j) => s = r /\ t = u /\ i = j

OnePlace(g) ==
    /\ Commanded("Schedule", g) => ~Due(g) /\ ~InHands(g) /\ ~FlushQueued(g) /\ ~Starting(g)
    /\ Due(g) => ~InHands(g) /\ ~FlushQueued(g) /\ ~Starting(g)
    /\ InHands(g) => ~FlushQueued(g) /\ ~Starting(g)
    /\ FlushQueued(g) => ~Starting(g)

CancelsEnd(g) == g \notin stray /\ (Commanded("Cancel", g) \/ Ending(g)) => Gone(g) \/ Erasing(g)
LineGoesOn(g) ==
    g \notin stray =>
       Gone(g) \/ Busy(g) \/ Commanded("Schedule", g) \/ Due(g) \/ InHands(g) \/ FlushQueued(g)

Line(g) == /\ OneCommand(g) /\ OneHand(g) /\ OneTask(g) /\ OnePlace(g)
           /\ CancelsEnd(g) /\ LineGoesOn(g)
Lines == \A g \in Guids : Line(g)
LineInv == AloneInv /\ (~early => NewIsQuiet /\ Lines)

LEMMA InitLine == Init => LineInv
<1>0. Init => NewIsQuiet
  BY DEF Init, Idle, Threads, NewIsQuiet, FreshGuid
<1> SUFFICES ASSUME Init, NEW g \in Guids PROVE Line(g)
  BY <1>0, InitAlone DEF LineInv, Lines
<1>1. /\ \A kind : ~Commanded(kind, g) /\ \A t \in Threads, i \in Nat : ~Queued(kind, g, t, i)
      /\ ~Due(g) /\ mSessionContexts[g] = None
  BY DEF Init, Commanded, Queued, Due
<1>2. \A t \in Threads : thread[t].pc = "idle"
  BY DEF Init, Idle
<1>3. \A w \in Workers : ~Holds(thread[w], g) /\ ~Ends(thread[w], g)
  BY <1>2 DEF Holds, Ends, HandStatements, Threads
<1>4. ~InHands(g) /\ ~Ending(g) /\ ~Starting(g)
  BY <1>2 DEF InHands, Ending, Starting, Starts, HandStatements, Threads
<1>5. Created = {}
  BY DEF Init, Created
<1>6. ~FlushQueued(g) /\ OneTask(g)
  BY <1>5 DEF FlushQueued, OneTask
<1> QED BY <1>1, <1>3, <1>4, <1>6 DEF Line, OneCommand, OneHand, OnePlace, CancelsEnd, LineGoesOn, Gone

(* What a step does to each place.                                          *)
LEMMA CommandPlaces ==
    ASSUME ScheduleTypes, NEW t \in Threads, NEW k, NEW h, Command(t, k, h)
    PROVE  /\ \A kind, g : Commanded(kind, g)' <=> Commanded(kind, g) \/ (kind = k /\ g = h)
           /\ \A g : OneCommand(g) /\ (k = "Schedule" /\ g = h => ~Commanded("Schedule", g))
                        => OneCommand(g)'
<1>1. PICK n : n = Len(mFlushScheduleCommands[t]) + 1
  OBVIOUS
<1>2. n \in Nat
  BY <1>1 DEF ScheduleTypes
<1>3. \A kind, g : \A u \in Threads, i \in Nat :
         Queued(kind, g, u, i)' <=> \/ Queued(kind, g, u, i)
                                    \/ kind = k /\ g = h /\ u = t /\ i = n
  BY <1>1, CommandAdded
<1>4. \A kind, g : Commanded(kind, g)' <=> Commanded(kind, g) \/ (kind = k /\ g = h)
  BY <1>2, <1>3 DEF Commanded
<1>5. \A g : OneCommand(g) /\ (k = "Schedule" /\ g = h => ~Commanded("Schedule", g)) => OneCommand(g)'
  BY <1>3 DEF OneCommand, Commanded
<1> QED BY <1>4, <1>5

LEMMA CommandsStayPlaces ==
    ASSUME mFlushScheduleCommands' = mFlushScheduleCommands
    PROVE  /\ \A kind, g : Commanded(kind, g)' <=> Commanded(kind, g)
           /\ \A g : OneCommand(g) => OneCommand(g)'
BY DEF Commanded, OneCommand, Queued

LEMMA CommandTakenPlaces ==
    ASSUME ScheduleTypes, NEW t \in Threads, mFlushScheduleCommands[t] # <<>>,
           mFlushScheduleCommands' = [mFlushScheduleCommands EXCEPT ![t] = Tail(@)],
           NEW k, NEW h, Head(mFlushScheduleCommands[t]) = [mKind |-> k, mGuid |-> h]
    PROVE  /\ Commanded(k, h)
           /\ \A kind, g : Commanded(kind, g)' => Commanded(kind, g)
           /\ \A kind, g : Commanded(kind, g) => Commanded(kind, g)' \/ (kind = k /\ g = h)
           /\ \A g : OneCommand(g) => OneCommand(g)'
           /\ k = "Schedule" /\ OneCommand(h) => ~Commanded("Schedule", h)'
<1>1. /\ Queued(k, h, t, 1)
      /\ \A kind, g : Queued(kind, g, t, 1) => kind = k /\ g = h
      /\ \A kind, g : \A u \in Threads, i \in Nat :
            Queued(kind, g, u, i)' <=> IF u = t THEN i # 0 /\ Queued(kind, g, u, i + 1)
                                                ELSE Queued(kind, g, u, i)
  <2>1. PICK c : c = Head(mFlushScheduleCommands[t]) /\ c = [mKind |-> k, mGuid |-> h]
    OBVIOUS
  <2>2. /\ \A kind, g : Queued(kind, g, t, 1) <=> c = [mKind |-> kind, mGuid |-> g]
        /\ \A kind, g : \A u \in Threads, i \in Nat :
              Queued(kind, g, u, i)' <=> IF u = t THEN i # 0 /\ Queued(kind, g, u, i + 1)
                                                  ELSE Queued(kind, g, u, i)
    BY <2>1, CommandTaken
  <2>3. Queued(k, h, t, 1)
    BY <2>1, <2>2
  <2>4. \A kind, g : Queued(kind, g, t, 1) => kind = k /\ g = h
    <3> SUFFICES ASSUME NEW kind, NEW g, Queued(kind, g, t, 1) PROVE kind = k /\ g = h
      OBVIOUS
    <3>1. c = [mKind |-> kind, mGuid |-> g]
      BY <2>2
    <3>2. c.mKind = kind /\ c.mGuid = g /\ c.mKind = k /\ c.mGuid = h
      BY <2>1, <3>1
    <3> QED BY <3>2
  <2> QED BY <2>2, <2>3, <2>4
<1>2. \A kind, g : Commanded(kind, g)' => Commanded(kind, g)
  BY <1>1 DEF Commanded
<1>3. \A kind, g : Commanded(kind, g) => Commanded(kind, g)' \/ (kind = k /\ g = h)
  <2> SUFFICES ASSUME NEW kind, NEW g, NEW u \in Threads, NEW i \in Nat, Queued(kind, g, u, i)
               PROVE  Commanded(kind, g)' \/ (kind = k /\ g = h)
    BY DEF Commanded
  <2>1. CASE u # t
    BY <1>1, <2>1 DEF Commanded
  <2>2. CASE u = t /\ i = 1
    BY <1>1, <2>2
  <2>3. CASE u = t /\ i # 1
    <3>1. i # 0
      BY <2>3 DEF Queued, ScheduleTypes
    <3>2. PICK j \in Nat : j # 0 /\ i = j + 1
      BY <2>3, <3>1
    <3>3. Queued(kind, g, u, j)'
      BY <1>1, <2>3, <3>2
    <3> QED BY <3>3 DEF Commanded
  <2> QED BY <2>1, <2>2, <2>3
<1>4. ASSUME NEW g, OneCommand(g) PROVE OneCommand(g)'
  <2> SUFFICES ASSUME NEW u \in Threads, NEW v \in Threads, NEW i \in Nat, NEW j \in Nat,
                      Queued("Schedule", g, u, i)', Queued("Schedule", g, v, j)'
               PROVE  u = v /\ i = j
    BY DEF OneCommand
  <2>1. /\ \E a \in Nat : Queued("Schedule", g, u, a) /\ a = IF u = t THEN i + 1 ELSE i
        /\ \E b \in Nat : Queued("Schedule", g, v, b) /\ b = IF v = t THEN j + 1 ELSE j
    BY <1>1
  <2>2. PICK a \in Nat, b \in Nat :
           /\ Queued("Schedule", g, u, a) /\ a = IF u = t THEN i + 1 ELSE i
           /\ Queued("Schedule", g, v, b) /\ b = IF v = t THEN j + 1 ELSE j
    BY <2>1
  <2>3. u = v /\ a = b
    BY <1>4, <2>2 DEF OneCommand
  <2> QED BY <2>2, <2>3
<1>5. ASSUME k = "Schedule", OneCommand(h), Commanded("Schedule", h)' PROVE FALSE
  <2>1. PICK u \in Threads, i \in Nat : Queued("Schedule", h, u, i)'
    BY <1>5 DEF Commanded
  <2>2. CASE u = t
    <3>1. i + 1 # 1 /\ i + 1 \in Nat /\ Queued("Schedule", h, t, i + 1)
      BY <1>1, <2>1, <2>2
    <3> QED BY <1>1, <1>5, <3>1 DEF OneCommand
  <2>3. CASE u # t
    BY <1>1, <1>5, <2>1, <2>3 DEF OneCommand
  <2> QED BY <2>2, <2>3
<1> QED BY <1>1, <1>2, <1>3, <1>4, <1>5 DEF Commanded

LEMMA TaskPlaces ==
    ASSUME Shape, UNCHANGED guidOf, NEW t \in Threads, NEW s \in Created,
           NEW x \in {"connected", "disconnected", "lost", "over", "flush"}, Enqueue(t, s, x)
    PROVE  /\ \A g : FlushQueued(g)' <=> FlushQueued(g) \/ (x = "flush" /\ guidOf[s] = g)
           /\ \A g : OneTask(g) /\ (x = "flush" /\ guidOf[s] = g => ~FlushQueued(g)) => OneTask(g)'
<1>1. PICK n : n = Len(strand[s][t]) + 1
  OBVIOUS
<1>2. StrandTypes /\ Created' = Created /\ Created \subseteq Sessions
  BY CreatedSessions DEF Shape, Created
<1>3. n \in Nat
  BY <1>1, <1>2 DEF StrandTypes
<1>4. \A r \in Created, u \in Threads, i \in Nat :
         Task("flush", r, u, i)' <=> \/ Task("flush", r, u, i)
                                     \/ x = "flush" /\ r = s /\ u = t /\ i = n
  BY <1>1, <1>2, TaskAdded
<1>5. \A g : \A r \in Created, u \in Threads, i \in Nat :
         Flush(g, r, u, i)' <=> \/ Flush(g, r, u, i)
                                \/ x = "flush" /\ guidOf[s] = g /\ r = s /\ u = t /\ i = n
  BY <1>4 DEF Flush
<1>6. \A g : FlushQueued(g)' <=> FlushQueued(g) \/ (x = "flush" /\ guidOf[s] = g)
  BY <1>2, <1>3, <1>5 DEF FlushQueued
<1>7. \A g : OneTask(g) /\ (x = "flush" /\ guidOf[s] = g => ~FlushQueued(g)) => OneTask(g)'
  BY <1>2, <1>5 DEF OneTask, FlushQueued
<1> QED BY <1>6, <1>7

LEMMA TasksStayPlaces ==
    ASSUME UNCHANGED <<guidOf, strand>>
    PROVE  \A g : (FlushQueued(g)' <=> FlushQueued(g)) /\ (OneTask(g) => OneTask(g)')
BY DEF FlushQueued, OneTask, Flush, Task, Created

LEMMA Before == \A i \in Nat : i \notin {0, 1} => \E j \in Nat : j # 0 /\ i = j + 1
<1> SUFFICES ASSUME NEW i \in Nat, i \notin {0, 1} PROVE i - 1 \in Nat /\ i - 1 # 0 /\ i = (i - 1) + 1
  OBVIOUS
<1> QED OBVIOUS

(* The first task x of producer t is taken out of the strand of s, a        *)
(* session of GUID h.                                                       *)
Take(s, t, x, h) ==
    /\ strand[s][t] # <<>> /\ strand' = [strand EXCEPT ![s][t] = Tail(@)]
    /\ x = Head(strand[s][t]) /\ h = guidOf[s]

LEMMA TaskTakenPlaces ==
    ASSUME Shape, UNCHANGED guidOf, NEW t \in Threads, NEW s \in Created, NEW x, NEW h, Take(s, t, x, h)
    PROVE  /\ x = "flush" => FlushQueued(h)
           /\ \A g : FlushQueued(g)' => FlushQueued(g)
           /\ \A g : FlushQueued(g) => FlushQueued(g)' \/ (x = "flush" /\ g = h)
           /\ \A g : OneTask(g) => OneTask(g)'
           /\ x = "flush" /\ OneTask(h) => ~FlushQueued(h)'
<1>1. StrandTypes /\ Created' = Created /\ Created \subseteq Sessions /\ h = guidOf[s]
  BY CreatedSessions DEF Shape, Created, Take
<1>2. /\ Task(x, s, t, 1)
      /\ \A r \in Created, u \in Threads, i \in Nat :
            Task("flush", r, u, i)' <=> IF r = s /\ u = t THEN i # 0 /\ Task("flush", r, u, i + 1)
                                                          ELSE Task("flush", r, u, i)
  <2>1. /\ StrandTypes /\ s \in Sessions /\ strand[s][t] # <<>> /\ x = Head(strand[s][t])
        /\ strand' = [strand EXCEPT ![s][t] = Tail(@)]
    BY <1>1 DEF Take
  <2> QED BY <1>1, <2>1, TaskTaken
<1>3. \A g : \A r \in Created, u \in Threads, i \in Nat :
         Flush(g, r, u, i)' <=> IF r = s /\ u = t THEN i # 0 /\ Flush(g, r, u, i + 1)
                                                  ELSE Flush(g, r, u, i)
  BY <1>2 DEF Flush
<1>4. /\ x = "flush" <=> Task("flush", s, t, 1)
      /\ \A g : Flush(g, s, t, 1) <=> x = "flush" /\ g = h
  BY <1>1, <1>2 DEF Flush, Task
<1>5. x = "flush" => FlushQueued(h)
  BY <1>4 DEF FlushQueued
<1>6. \A g : FlushQueued(g)' => FlushQueued(g)
  BY <1>1, <1>3 DEF FlushQueued
<1>7. \A g : FlushQueued(g) => FlushQueued(g)' \/ (x = "flush" /\ g = h)
  <2> SUFFICES ASSUME NEW g, NEW r \in Created, NEW u \in Threads, NEW i \in Nat, Flush(g, r, u, i)
               PROVE  FlushQueued(g)' \/ (x = "flush" /\ g = h)
    BY DEF FlushQueued
  <2>1. CASE ~(r = s /\ u = t)
    BY <1>1, <1>3, <2>1 DEF FlushQueued
  <2>2. CASE r = s /\ u = t /\ i = 1
    BY <1>4, <2>2
  <2>3. CASE r = s /\ u = t /\ i # 1
    <3>1. i # 0
      BY <1>1, <2>3 DEF Flush, Task, StrandTypes
    <3>2. PICK j \in Nat : j # 0 /\ i = j + 1
      BY <2>3, <3>1, Before
    <3>3. Flush(g, s, t, j)'
      BY <1>3, <2>3, <3>2
    <3> QED BY <1>1, <3>3 DEF FlushQueued
  <2> QED BY <2>1, <2>2, <2>3
<1>8. ASSUME NEW g, OneTask(g) PROVE OneTask(g)'
  <2> SUFFICES ASSUME NEW q \in Created, NEW r \in Created, NEW u \in Threads, NEW v \in Threads,
                      NEW i \in Nat, NEW j \in Nat, Flush(g, q, u, i)', Flush(g, r, v, j)'
               PROVE  q = r /\ u = v /\ i = j
    BY <1>1 DEF OneTask
  <2>1. /\ \E a \in Nat : Flush(g, q, u, a) /\ a = IF q = s /\ u = t THEN i + 1 ELSE i
        /\ \E b \in Nat : Flush(g, r, v, b) /\ b = IF r = s /\ v = t THEN j + 1 ELSE j
    BY <1>3
  <2>2. PICK a \in Nat, b \in Nat :
           /\ Flush(g, q, u, a) /\ a = IF q = s /\ u = t THEN i + 1 ELSE i
           /\ Flush(g, r, v, b) /\ b = IF r = s /\ v = t THEN j + 1 ELSE j
    BY <2>1
  <2>3. q = r /\ u = v /\ a = b
    BY <1>8, <2>2 DEF OneTask
  <2> QED BY <2>2, <2>3
<1>9. ASSUME x = "flush", OneTask(h), FlushQueued(h)' PROVE FALSE
  <2>1. PICK r \in Created, u \in Threads, i \in Nat : Flush(h, r, u, i)'
    BY <1>1, <1>9 DEF FlushQueued
  <2>2. CASE r = s /\ u = t
    <3>1. i + 1 # 1 /\ i + 1 \in Nat /\ Flush(h, s, t, i + 1)
      BY <1>3, <2>1, <2>2
    <3> QED BY <1>4, <1>9, <3>1 DEF OneTask
  <2>3. CASE ~(r = s /\ u = t)
    BY <1>3, <1>4, <1>9, <2>1, <2>3 DEF OneTask
  <2> QED BY <2>2, <2>3
<1> QED BY <1>5, <1>6, <1>7, <1>8, <1>9

LEMMA ThreadPlaces ==
    ASSUME ThreadsOK, NEW t \in Threads, NEW x, thread' = [thread EXCEPT ![t] = x]
    PROVE  /\ \A g : InHands(g)' => InHands(g) \/ (t \in Workers /\ Holds(x, g))
           /\ \A g : t \in Workers /\ Holds(x, g) => InHands(g)'
           /\ \A g : InHands(g) => InHands(g)' \/ (t \in Workers /\ Holds(thread[t], g) /\ ~Holds(x, g))
           /\ \A g : OneHand(g) /\ t \in Workers /\ Holds(thread[t], g) /\ ~Holds(x, g) => ~InHands(g)'
           /\ \A g : OneHand(g) /\ (t \in Workers /\ Holds(x, g) => Holds(thread[t], g) \/ ~InHands(g))
                        => OneHand(g)'
           /\ \A g : Ending(g)' => Ending(g) \/ (t \in Workers /\ Ends(x, g))
           /\ \A g : Erasing(g) => Erasing(g)' \/ Erases(thread[t], g)
           /\ \A g : Erases(x, g) => Erasing(g)'
           /\ \A g : Busy(g) => Busy(g)' \/ Works(thread[t], g)
           /\ \A g : Works(x, g) => Busy(g)'
           /\ \A g : Starting(g)' => \/ Starting(g) /\ t # Io
                                     \/ Starts(x, g) /\ t = Io
<1>1. /\ \A u \in Threads : thread'[u] = IF u = t THEN x ELSE thread[u]
      /\ Workers \subseteq Threads /\ Io \in Threads
  BY DEF ThreadsOK, Threads
<1>2. \A g : /\ InHands(g) <=> \E w \in Workers : Holds(thread[w], g)
             /\ InHands(g)' <=> \E w \in Workers : Holds(thread'[w], g)
             /\ Ending(g) <=> \E w \in Workers : Ends(thread[w], g)
             /\ Ending(g)' <=> \E w \in Workers : Ends(thread'[w], g)
             /\ Erasing(g)' <=> \E u \in Threads : Erases(thread'[u], g)
             /\ Busy(g)' <=> \E u \in Threads : Works(thread'[u], g)
             /\ Starting(g)' <=> Starts(thread'[Io], g)
             /\ OneHand(g)' <=> \A v, w \in Workers : Holds(thread'[v], g) /\ Holds(thread'[w], g) => v = w
  BY DEF InHands, Ending, Holds, Ends, Erasing, Erases, Busy, Works, Starting, Starts, OneHand
<1>3. \A g : /\ InHands(g)' => InHands(g) \/ (t \in Workers /\ Holds(x, g))
             /\ t \in Workers /\ Holds(x, g) => InHands(g)'
             /\ InHands(g) => InHands(g)' \/ (t \in Workers /\ Holds(thread[t], g) /\ ~Holds(x, g))
             /\ Ending(g)' => Ending(g) \/ (t \in Workers /\ Ends(x, g))
  BY <1>1, <1>2
<1>4. \A g : /\ OneHand(g) /\ t \in Workers /\ Holds(thread[t], g) /\ ~Holds(x, g) => ~InHands(g)'
             /\ OneHand(g) /\ (t \in Workers /\ Holds(x, g) => Holds(thread[t], g) \/ ~InHands(g))
                   => OneHand(g)'
  BY <1>1, <1>2 DEF OneHand
<1>5. \A g : /\ Erasing(g) => Erasing(g)' \/ Erases(thread[t], g)
             /\ Erases(x, g) => Erasing(g)'
             /\ Busy(g) => Busy(g)' \/ Works(thread[t], g)
             /\ Works(x, g) => Busy(g)'
  BY <1>1, <1>2 DEF Erasing, Busy
<1>6. \A g : Starting(g)' => (Starting(g) /\ t # Io) \/ (Starts(x, g) /\ t = Io)
  BY <1>1, <1>2 DEF Starting
<1> QED BY <1>3, <1>4, <1>5, <1>6

LEMMA ThreadsStayPlaces ==
    ASSUME thread' = thread
    PROVE  \A g : /\ InHands(g)' <=> InHands(g)
                  /\ Ending(g)' <=> Ending(g)
                  /\ Erasing(g)' <=> Erasing(g)
                  /\ Busy(g)' <=> Busy(g)
                  /\ Starting(g)' <=> Starting(g)
                  /\ OneHand(g) => OneHand(g)'
BY DEF InHands, Ending, Erasing, Busy, Starting, OneHand

LEMMA GoneStays ==
    ASSUME NEW g, mConnected' \subseteq mConnected, mSessionContexts'[g] \in {None, mSessionContexts[g]}
    PROVE  Gone(g) => Gone(g)'
BY DEF Gone

LEMMA DueStays == ASSUME UNCHANGED <<mFlushDueHeap, mFlushDueTokens>> PROVE \A g : Due(g)' <=> Due(g)
BY DEF Due

(* A step that leaves every flush where it is.                              *)
LeavesFlushes(t, x) ==
    /\ thread' = [thread EXCEPT ![t] = x]
    /\ t \in Workers => thread[t].pc \notin HandStatements
    /\ x.pc \notin HandStatements \union {"tickCancel", "never", "upsert", "scheduleFirst"}
    /\ \A g \in Guids : Works(thread[t], g) => Erases(x, g) \/ Gone(g)'
    /\ \A g \in Guids : Erases(thread[t], g) => Gone(g)'
    /\ \/ mFlushScheduleCommands' = mFlushScheduleCommands
       \/ \E h : Command(t, "Cancel", h) /\ Erases(x, h)
    /\ \/ strand' = strand
       \/ \E s \in Created, task \in {"connected", "disconnected", "lost", "over"} : Enqueue(t, s, task)

LEMMA LinesStay ==
    ASSUME LineInv, ~early, UNCHANGED <<guidOf, mFlushDueHeap, mFlushDueTokens>>,
           mConnected' \subseteq mConnected, stray \subseteq stray',
           \A g \in Guids : mSessionContexts'[g] \in {None, mSessionContexts[g]},
           NEW t \in Threads,
           \/ UNCHANGED <<strand, mFlushScheduleCommands, thread, mSessionContexts>>
           \/ \E x : LeavesFlushes(t, x)
    PROVE  Lines'
<1> SUFFICES ASSUME NEW g \in Guids PROVE Line(g)'
  BY DEF Lines
<1>1. Line(g) /\ ThreadsOK /\ ScheduleTypes /\ Shape
  BY DEF LineInv, Lines, AloneInv, Shape
<1>2. (Gone(g) => Gone(g)') /\ (Due(g)' <=> Due(g))
  BY GoneStays, DueStays
<1>3. CASE UNCHANGED <<strand, mFlushScheduleCommands, thread, mSessionContexts>>
  <2>1. /\ \A kind : Commanded(kind, g)' <=> Commanded(kind, g)
        /\ OneCommand(g) => OneCommand(g)'
        /\ (FlushQueued(g)' <=> FlushQueued(g)) /\ (OneTask(g) => OneTask(g)')
    BY <1>3, CommandsStayPlaces, TasksStayPlaces
  <2>2. /\ (InHands(g)' <=> InHands(g)) /\ (Ending(g)' <=> Ending(g)) /\ (Erasing(g)' <=> Erasing(g))
        /\ (Busy(g)' <=> Busy(g)) /\ (Starting(g)' <=> Starting(g)) /\ (OneHand(g) => OneHand(g)')
    BY <1>3, ThreadsStayPlaces
  <2> QED BY <1>1, <1>2, <2>1, <2>2 DEF Line, OnePlace, CancelsEnd, LineGoesOn
<1>4. CASE ~UNCHANGED <<strand, mFlushScheduleCommands, thread, mSessionContexts>>
  <2>0a. PICK x : LeavesFlushes(t, x)
    BY <1>4
  <2>0. /\ thread' = [thread EXCEPT ![t] = x]
        /\ t \in Workers => thread[t].pc \notin HandStatements
        /\ x.pc \notin HandStatements \union {"tickCancel", "never", "upsert", "scheduleFirst"}
        /\ Works(thread[t], g) => Erases(x, g) \/ Gone(g)'
        /\ Erases(thread[t], g) => Gone(g)'
        /\ \/ mFlushScheduleCommands' = mFlushScheduleCommands
           \/ \E h : Command(t, "Cancel", h) /\ Erases(x, h)
        /\ \/ strand' = strand
           \/ \E s \in Created, task \in {"connected", "disconnected", "lost", "over"} :
                 Enqueue(t, s, task)
    BY <2>0a DEF LeavesFlushes
  <2>1. /\ (Commanded("Schedule", g)' <=> Commanded("Schedule", g)) /\ (OneCommand(g) => OneCommand(g)')
        /\ Commanded("Cancel", g)' => Commanded("Cancel", g) \/ Erases(x, g)
    <3>1. CASE mFlushScheduleCommands' = mFlushScheduleCommands
      BY <3>1, CommandsStayPlaces
    <3>2. CASE \E h : Command(t, "Cancel", h) /\ Erases(x, h)
      <4>1. PICK h : Command(t, "Cancel", h) /\ Erases(x, h)
        BY <3>2
      <4>2. /\ \A kind : Commanded(kind, g)' <=> Commanded(kind, g) \/ (kind = "Cancel" /\ g = h)
            /\ OneCommand(g) => OneCommand(g)'
        BY <1>1, <4>1, CommandPlaces
      <4> QED BY <4>1, <4>2
    <3> QED BY <2>0, <3>1, <3>2
  <2>2. (FlushQueued(g)' <=> FlushQueued(g)) /\ (OneTask(g) => OneTask(g)')
    <3>1. CASE strand' = strand
      BY <3>1, TasksStayPlaces
    <3>2. CASE \E s \in Created, task \in {"connected", "disconnected", "lost", "over"} :
                  Enqueue(t, s, task)
      <4>1. PICK s \in Created, task \in {"connected", "disconnected", "lost", "over"} :
                  Enqueue(t, s, task)
        BY <3>2
      <4>2. task \in {"connected", "disconnected", "lost", "over", "flush"} /\ task # "flush"
        OBVIOUS
      <4> QED BY <1>1, <4>1, <4>2, TaskPlaces
    <3> QED BY <2>0, <3>1, <3>2
  <2>3. /\ ~Holds(x, g) /\ ~Ends(x, g) /\ ~Starts(x, g)
        /\ t \in Workers => ~Holds(thread[t], g)
        /\ Erases(x, g) => Works(x, g)
    BY <2>0 DEF Holds, Ends, Starts, Works, Erases
  <2>4. /\ (InHands(g)' <=> InHands(g)) /\ (OneHand(g) => OneHand(g)')
        /\ (Ending(g)' => Ending(g)) /\ (Starting(g)' => Starting(g))
        /\ Erasing(g) => Erasing(g)' \/ Gone(g)'
        /\ Erases(x, g) => Erasing(g)'
        /\ Busy(g) => Busy(g)' \/ Gone(g)'
    BY <1>1, <2>0, <2>3, ThreadPlaces
  <2> QED BY <1>1, <1>2, <2>1, <2>2, <2>4 DEF Line, OnePlace, CancelsEnd, LineGoesOn
<1> QED BY <1>3, <1>4

(* A flush that stays in the hands of a worker, or ends there because the   *)
(* session is gone.                                                         *)
LEMMA HandGoesOn ==
    ASSUME LineInv, ~early, NEW w \in Workers, NEW x, NEW h,
           UNCHANGED <<table, schedule, strand, stray>>, thread' = [thread EXCEPT ![w] = x],
           Holds(thread[w], h), Holds(x, h) \/ (Ends(x, h) /\ Gone(h))
    PROVE  Lines'
<1> SUFFICES ASSUME NEW g \in Guids PROVE Line(g)'
  BY DEF Lines
<1>1. Line(g) /\ ThreadsOK /\ w \in Threads
  BY DEF LineInv, Lines, AloneInv, Shape, Threads
<1>2. (Gone(g) <=> Gone(g)') /\ (Due(g)' <=> Due(g))
  BY DueStays DEF Gone, table, schedule
<1>3. /\ \A kind : Commanded(kind, g)' <=> Commanded(kind, g)
      /\ OneCommand(g) => OneCommand(g)'
      /\ (FlushQueued(g)' <=> FlushQueued(g)) /\ (OneTask(g) => OneTask(g)')
  BY CommandsStayPlaces, TasksStayPlaces DEF table, schedule
<1>4. /\ Holds(x, g) => Holds(thread[w], g)
      /\ Holds(thread[w], g) => Holds(x, g) \/ (Ends(x, g) /\ Gone(g))
      /\ Ends(x, g) => Gone(g)
      /\ ~Erases(thread[w], g) /\ ~Works(thread[w], g) /\ ~Starts(x, g)
  BY DEF Holds, Ends, Erases, Works, Starts, HandStatements
<1>5. /\ (InHands(g)' => InHands(g)) /\ (OneHand(g) => OneHand(g)')
      /\ InHands(g) => InHands(g)' \/ Gone(g)
      /\ (Ending(g)' => Ending(g) \/ Gone(g)) /\ (Starting(g)' => Starting(g))
      /\ (Erasing(g) => Erasing(g)') /\ (Busy(g) => Busy(g)')
  <2>1. Holds(thread[w], g) => InHands(g)
    BY DEF InHands, Holds
  <2> QED BY <1>1, <1>4, <2>1, ThreadPlaces
<1> QED BY <1>1, <1>2, <1>3, <1>5 DEF Line, OnePlace, CancelsEnd, LineGoesOn

(* A worker commands the next flush, or the end.                            *)
LEMMA HandCommands ==
    ASSUME LineInv, ~early, NEW w \in Workers, NEW x, NEW h, NEW kind,
           UNCHANGED <<table, mFlushDueHeap, mFlushDueTokens, strand, stray>>,
           thread' = [thread EXCEPT ![w] = x], x.pc \in {"idle", "drain"}, Command(w, kind, h),
           \/ kind = "Schedule" /\ Holds(thread[w], h)
           \/ kind = "Cancel" /\ Ends(thread[w], h)
    PROVE  Lines'
<1> SUFFICES ASSUME NEW g \in Guids PROVE Line(g)'
  BY DEF Lines
<1>1. Line(g) /\ ThreadsOK /\ ScheduleTypes /\ w \in Threads
  BY DEF LineInv, Lines, AloneInv, Shape, Threads
<1>2. (Gone(g) <=> Gone(g)') /\ (Due(g)' <=> Due(g))
  BY DueStays DEF Gone, table
<1>3. (FlushQueued(g)' <=> FlushQueued(g)) /\ (OneTask(g) => OneTask(g)')
  BY TasksStayPlaces DEF table
<1>4. /\ ~Holds(x, g) /\ ~Ends(x, g) /\ ~Starts(x, g)
      /\ ~Erases(thread[w], g) /\ ~Works(thread[w], g)
      /\ Holds(thread[w], g) => kind = "Schedule" /\ g = h
      /\ kind = "Schedule" /\ g = h => Holds(thread[w], g)
      /\ kind = "Cancel" /\ g = h => Ends(thread[w], g)
      /\ kind \in {"Schedule", "Cancel"}
  BY DEF Holds, Ends, Erases, Works, Starts, HandStatements
<1>5. /\ Holds(thread[w], g) => InHands(g)
      /\ Ends(thread[w], g) => Ending(g)
  BY DEF Holds, Ends, InHands, Ending
<1>6. /\ (InHands(g)' => InHands(g)) /\ (OneHand(g) => OneHand(g)')
      /\ OneHand(g) /\ Holds(thread[w], g) => ~InHands(g)'
      /\ InHands(g) => InHands(g)' \/ Holds(thread[w], g)
      /\ (Ending(g)' => Ending(g)) /\ (Starting(g)' => Starting(g))
      /\ (Erasing(g) => Erasing(g)') /\ (Busy(g) => Busy(g)')
  BY <1>1, <1>4, ThreadPlaces
<1>7. /\ \A k : Commanded(k, g)' <=> Commanded(k, g) \/ (k = kind /\ g = h)
      /\ OneCommand(g) /\ (kind = "Schedule" /\ g = h => ~Commanded("Schedule", g)) => OneCommand(g)'
  BY <1>1, CommandPlaces
<1>8. kind = "Schedule" /\ g = h => ~Commanded("Schedule", g)
  BY <1>1, <1>4, <1>5 DEF Line, OnePlace
<1>9. OneCommand(g)' /\ OneHand(g)' /\ OneTask(g)'
  BY <1>1, <1>3, <1>6, <1>7, <1>8 DEF Line
<1>10. OnePlace(g)'
  <2>1. CASE kind = "Schedule" /\ g = h
    BY <1>1, <1>2, <1>3, <1>4, <1>5, <1>6, <1>7, <2>1 DEF Line, OnePlace
  <2>2. CASE ~(kind = "Schedule" /\ g = h)
    BY <1>1, <1>2, <1>3, <1>6, <1>7, <2>2 DEF Line, OnePlace
  <2> QED BY <2>1, <2>2
<1>11. CancelsEnd(g)'
  BY <1>1, <1>2, <1>4, <1>5, <1>6, <1>7 DEF Line, CancelsEnd
<1>12. LineGoesOn(g)'
  BY <1>1, <1>2, <1>3, <1>4, <1>6, <1>7 DEF Line, LineGoesOn
<1> QED BY <1>9, <1>10, <1>11, <1>12 DEF Line

(* A new connection: a line starts that is in no other place.               *)
LEMMA IoConnectLines ==
    ASSUME LineInv, ~early, NEW h \in Guids, IoConnect(h)
    PROVE  Lines'
<1> SUFFICES ASSUME NEW g \in Guids PROVE Line(g)'
  BY DEF Lines
<1>1. /\ Line(g) /\ ThreadsOK /\ TableTypes /\ KnownTable /\ KnownStrands /\ StrandTypes
      /\ Io \in Threads /\ Io \notin Workers /\ Settled(h) /\ thread[Io] = Idle
      /\ UNCHANGED <<mSessionContexts, mFlushDueHeap, mFlushDueTokens, mFlushScheduleCommands, strand>>
  BY ThreadsAssumption DEF LineInv, Lines, AloneInv, Shape, IoConnect, schedule, Threads
<1>2. PICK n, x : /\ n = Len(guidOf) + 1
                  /\ x = [Idle EXCEPT !.pc = "upsert", !.guid = h, !.session = n]
  OBVIOUS
<1>3. /\ thread' = [thread EXCEPT ![Io] = x] /\ mConnected' = mConnected \union {n}
      /\ guidOf' = Append(guidOf, h)
  BY <1>2 DEF IoConnect
<1>4. /\ n \in Sessions /\ n \notin Created /\ Created' = Created \union {n}
      /\ \A s \in Created : guidOf'[s] = guidOf[s]
  <2>1. Created = 1..Len(guidOf) /\ Len(guidOf) \in Nat /\ Len(guidOf) < MaxSessions
        /\ guidOf \in Seq(Guids)
    BY <1>1, CreatedSessions DEF TableTypes, IoConnect
  <2>2. Len(guidOf') = n /\ guidOf' \in Seq(Guids) /\ \A s \in 1..Len(guidOf) : guidOf'[s] = guidOf[s]
    BY <1>2, <1>3, <2>1
  <2>3. Created' = 1..n
    BY <2>2 DEF Created
  <2> QED BY <1>2, <2>1, <2>2, <2>3, BoundsAssumption DEF Sessions
<1>5. \A t \in Threads : strand'[n][t] = <<>>
  BY <1>1, <1>4 DEF KnownStrands
<1>6. (FlushQueued(g)' <=> FlushQueued(g)) /\ (OneTask(g) => OneTask(g)')
  <2>1. \A r \in Created', u \in Threads, i \in Nat :
           Flush(g, r, u, i)' <=> r \in Created /\ Flush(g, r, u, i)
    <3> SUFFICES ASSUME NEW r \in Created', NEW u \in Threads, NEW i \in Nat
                 PROVE  Flush(g, r, u, i)' <=> r \in Created /\ Flush(g, r, u, i)
      OBVIOUS
    <3>1. CASE r = n
      <4>1. DOMAIN strand'[n][u] = {}
        BY <1>5
      <4> QED BY <1>4, <3>1, <4>1 DEF Flush, Task
    <3>2. CASE r # n
      BY <1>1, <1>4, <3>2 DEF Flush, Task
    <3> QED BY <3>1, <3>2
  <2> QED BY <1>4, <2>1 DEF FlushQueued, OneTask
<1>7. /\ \A kind : Commanded(kind, g)' <=> Commanded(kind, g)
      /\ (OneCommand(g) => OneCommand(g)') /\ (Due(g)' <=> Due(g))
  BY <1>1, CommandsStayPlaces, DueStays
<1>8. Gone(g) => Gone(g)'
  BY <1>1, <1>3, <1>4 DEF Gone, KnownTable, Of
<1>9. /\ x.pc = "upsert" /\ x.guid = h /\ thread[Io].pc = "idle"
  BY <1>1, <1>2 DEF Idle
<1>10. /\ ~Holds(x, g) /\ ~Ends(x, g) /\ (Starts(x, g) => g = h)
       /\ ~Erases(thread[Io], g) /\ ~Works(thread[Io], g) /\ ~Holds(thread[Io], g)
       /\ ~Starting(g)
  BY <1>9 DEF Holds, Ends, Starts, Erases, Works, HandStatements, Starting
<1>11. /\ (InHands(g)' <=> InHands(g)) /\ (OneHand(g) => OneHand(g)')
       /\ (Ending(g)' => Ending(g)) /\ (Starting(g)' => g = h)
       /\ (Erasing(g) => Erasing(g)') /\ (Busy(g) => Busy(g)')
  BY <1>1, <1>3, <1>10, ThreadPlaces
<1>12. g = h => ~Commanded("Schedule", g) /\ ~Due(g) /\ ~InHands(g) /\ ~FlushQueued(g)
  <2> SUFFICES ASSUME g = h PROVE ~Commanded("Schedule", g) /\ ~Due(g) /\ ~InHands(g) /\ ~FlushQueued(g)
    OBVIOUS
  <2>1. ~Due(g) /\ ~InHands(g)
    BY <1>1, ThreadsAssumption DEF Settled, Through, Due, InHands, Threads
  <2>2. ~Commanded("Schedule", g)
    <3> SUFFICES ASSUME NEW t \in Threads, NEW i \in Nat, Queued("Schedule", g, t, i) PROVE FALSE
      BY DEF Commanded
    <3>1. i \in DOMAIN mFlushScheduleCommands[t] /\ mFlushScheduleCommands[t][i].mGuid = g
      BY DEF Queued
    <3>2. t \notin Clients
      BY DEF LineInv, AloneInv, ClientsAsk
    <3> QED BY <1>1, <3>1, <3>2 DEF Settled, Through
  <2>3. ~FlushQueued(g)
    <3> SUFFICES ASSUME NEW s \in Created, NEW t \in Threads, NEW i \in Nat, Flush(g, s, t, i) PROVE FALSE
      BY DEF FlushQueued
    <3>1. guidOf[s] = g /\ i \in DOMAIN strand[s][t]
      BY DEF Flush, Task
    <3>2. strand[s][t] = <<>>
      BY <1>1, <3>1 DEF Settled
    <3>3. DOMAIN strand[s][t] = {}
      BY <3>2
    <3> QED BY <3>1, <3>3
  <2> QED BY <2>1, <2>2, <2>3
<1>13. g = h => Gone(g)
  BY <1>1 DEF Settled, Gone
<1>14. g # h => (g \in stray' <=> g \in stray)
  BY DEF IoConnect
<1> QED BY <1>1, <1>6, <1>7, <1>8, <1>11, <1>12, <1>13, <1>14
        DEF Line, OnePlace, CancelsEnd, LineGoesOn

LEMMA IoUpsertLines ==
    ASSUME LineInv, ~early, IoUpsert
    PROVE  Lines'
<1> SUFFICES ASSUME NEW g \in Guids PROVE Line(g)'
  BY DEF Lines
<1>1. PICK s, h, x : /\ s = thread[Io].session /\ h = thread[Io].guid
                     /\ x = [thread[Io] EXCEPT !.pc = "scheduleFirst"]
  OBVIOUS
<1>2. /\ Line(g) /\ ThreadsOK /\ TableTypes /\ Io \in Threads /\ Io \notin Workers
      /\ thread[Io] \in Records /\ RecordOK(Io, thread[Io]) /\ NewIsAlone /\ NewIsQuiet
      /\ UNCHANGED <<guidOf, mConnected, mFlushDueHeap, mFlushDueTokens, mFlushScheduleCommands, strand>>
      /\ stray' = stray
      /\ thread[Io].pc = "upsert" /\ thread' = [thread EXCEPT ![Io] = x]
      /\ mSessionContexts' = [mSessionContexts EXCEPT ![h] = s]
  BY <1>1, ThreadsAssumption
     DEF LineInv, Lines, AloneInv, Shape, IoUpsert, Step, schedule, env, Threads, ThreadsOK
<1>3. h \in Guids /\ x.pc = "scheduleFirst" /\ x.guid = h
  BY <1>1, <1>2 DEF RecordOK, Records
<1>4. /\ \A kind : Commanded(kind, g)' <=> Commanded(kind, g)
      /\ (OneCommand(g) => OneCommand(g)') /\ (Due(g)' <=> Due(g))
      /\ (FlushQueued(g)' <=> FlushQueued(g)) /\ (OneTask(g) => OneTask(g)')
  BY <1>2, CommandsStayPlaces, DueStays, TasksStayPlaces
<1>5. /\ ~Holds(x, g) /\ ~Ends(x, g) /\ (Starts(x, g) => Starting(g))
      /\ ~Erases(thread[Io], g) /\ (Works(thread[Io], g) => Works(x, g))
  BY <1>1, <1>2, <1>3 DEF Holds, Ends, Starts, Erases, Works, HandStatements, Starting
<1>6. /\ (InHands(g)' <=> InHands(g)) /\ (OneHand(g) => OneHand(g)')
      /\ (Ending(g)' => Ending(g)) /\ (Starting(g)' => Starting(g))
      /\ (Erasing(g) => Erasing(g)') /\ (Busy(g) => Busy(g)')
      /\ Works(x, g) => Busy(g)'
  BY <1>2, <1>5, ThreadPlaces
<1>7. g # h => (Gone(g)' <=> Gone(g))
  BY <1>2 DEF Gone, TableTypes
<1>8. g = h => Works(x, g) /\ (g \notin stray => ~Commanded("Cancel", g)) /\ ~Ending(g)
  <2> SUFFICES ASSUME g = h PROVE Works(x, g) /\ (g \notin stray => ~Commanded("Cancel", g)) /\ ~Ending(g)
    OBVIOUS
  <2>1. FreshGuid(g) /\ Alone(g)
    BY <1>1, <1>2 DEF NewIsAlone, FreshGuid
  <2>2. \A w \in Workers : w \in Threads /\ w # Io
    BY <1>2 DEF Threads
  <2>3. ~Ending(g)
    BY <2>1, <2>2 DEF Alone, Asks, Ending
  <2> QED BY <1>2, <1>3, <2>1, <2>3 DEF Works, NewIsQuiet, QuietGuid
<1> QED BY <1>2, <1>4, <1>6, <1>7, <1>8 DEF Line, OnePlace, CancelsEnd, LineGoesOn

LEMMA IoScheduleFirstLines ==
    ASSUME LineInv, ~early, IoScheduleFirst
    PROVE  Lines'
<1> SUFFICES ASSUME NEW g \in Guids PROVE Line(g)'
  BY DEF Lines
<1>1. PICK h, x : h = thread[Io].guid /\ x = [thread[Io] EXCEPT !.pc = "announce"]
  OBVIOUS
<1>2. /\ Line(g) /\ ThreadsOK /\ ScheduleTypes /\ Io \in Threads /\ Io \notin Workers
      /\ thread[Io] \in Records
      /\ UNCHANGED <<table, mFlushDueHeap, mFlushDueTokens, strand, stray>>
      /\ thread[Io].pc = "scheduleFirst" /\ thread' = [thread EXCEPT ![Io] = x]
      /\ Command(Io, "Schedule", h)
  BY <1>1, ThreadsAssumption
     DEF LineInv, Lines, AloneInv, Shape, IoScheduleFirst, Step, Threads, ThreadsOK, env
<1>3. x.pc = "announce" /\ x.guid = h
  BY <1>1, <1>2 DEF Records
<1>4. /\ (Gone(g) <=> Gone(g)') /\ (Due(g)' <=> Due(g))
      /\ (FlushQueued(g)' <=> FlushQueued(g)) /\ (OneTask(g) => OneTask(g)')
  BY <1>2, DueStays, TasksStayPlaces DEF Gone, table
<1>5. /\ ~Holds(x, g) /\ ~Ends(x, g) /\ ~Starts(x, g)
      /\ ~Erases(thread[Io], g) /\ (Works(thread[Io], g) => g = h)
      /\ (g = h => Starting(g))
  BY <1>1, <1>2, <1>3 DEF Holds, Ends, Starts, Erases, Works, HandStatements, Starting
<1>6. /\ (InHands(g)' <=> InHands(g)) /\ (OneHand(g) => OneHand(g)')
      /\ (Ending(g)' => Ending(g)) /\ ~Starting(g)'
      /\ (Erasing(g) => Erasing(g)') /\ (Busy(g) => Busy(g)' \/ g = h)
  BY <1>2, <1>5, ThreadPlaces
<1>7. /\ \A kind : Commanded(kind, g)' <=> Commanded(kind, g) \/ (kind = "Schedule" /\ g = h)
      /\ OneCommand(g) /\ (g = h => ~Commanded("Schedule", g)) => OneCommand(g)'
  BY <1>2, CommandPlaces
<1>8. g = h => ~Commanded("Schedule", g) /\ ~Due(g) /\ ~InHands(g) /\ ~FlushQueued(g)
  BY <1>2, <1>5 DEF Line, OnePlace
<1>9. Commanded("Cancel", g)' <=> Commanded("Cancel", g)
  BY <1>7
<1>10. OnePlace(g)'
  BY <1>2, <1>4, <1>6, <1>7, <1>8 DEF Line, OnePlace
<1>11. CancelsEnd(g)' /\ LineGoesOn(g)'
  BY <1>2, <1>4, <1>6, <1>7, <1>9 DEF Line, CancelsEnd, LineGoesOn
<1> QED BY <1>2, <1>4, <1>6, <1>7, <1>8, <1>10, <1>11 DEF Line

(* A command to schedule becomes an entry, one to cancel removes it.        *)
LEMMA DrainCommandLines ==
    ASSUME LineInv, ~early, NEW t \in Threads, DrainCommand(t)
    PROVE  Lines'
<1> SUFFICES ASSUME NEW g \in Guids PROVE Line(g)'
  BY DEF Lines
<1>1. PICK c, h, n : /\ c = Head(mFlushScheduleCommands[t]) /\ h = c.mGuid /\ n = mNextFlushToken
  OBVIOUS
<1>2. /\ Line(g) /\ ScheduleTypes /\ mFlushScheduleCommands[t] # <<>>
      /\ mFlushScheduleCommands' = [mFlushScheduleCommands EXCEPT ![t] = Tail(@)]
      /\ UNCHANGED <<table, strand, thread, stray>>
  BY DEF LineInv, Lines, AloneInv, Shape, DrainCommand, env
<1>3. c \in Commands
  BY <1>1, <1>2, CommandTaken
<1>4. PICK k \in {"Schedule", "Cancel"} : c = [mKind |-> k, mGuid |-> h]
  BY <1>1, <1>3 DEF Commands
<1>5. /\ Commanded(k, h)
      /\ \A kind : Commanded(kind, g)' => Commanded(kind, g)
      /\ \A kind : Commanded(kind, g) => Commanded(kind, g)' \/ (kind = k /\ g = h)
      /\ OneCommand(g) => OneCommand(g)'
      /\ k = "Schedule" /\ OneCommand(h) => ~Commanded("Schedule", h)'
  <2>1. Head(mFlushScheduleCommands[t]) = [mKind |-> k, mGuid |-> h]
    BY <1>1, <1>4
  <2>2. /\ ScheduleTypes /\ mFlushScheduleCommands[t] # <<>>
        /\ mFlushScheduleCommands' = [mFlushScheduleCommands EXCEPT ![t] = Tail(@)]
    BY <1>2
  <2> QED BY <2>1, <2>2, CommandTakenPlaces
<1>6. /\ (Gone(g) <=> Gone(g)')
      /\ (FlushQueued(g)' <=> FlushQueued(g)) /\ (OneTask(g) => OneTask(g)')
      /\ (InHands(g)' <=> InHands(g)) /\ (Ending(g)' <=> Ending(g)) /\ (Erasing(g)' <=> Erasing(g))
      /\ (Busy(g)' <=> Busy(g)) /\ (Starting(g)' <=> Starting(g)) /\ (OneHand(g) => OneHand(g)')
  BY <1>2, TasksStayPlaces, ThreadsStayPlaces DEF Gone, table
<1>7. h \in Guids
  BY <1>1, <1>3 DEF Commands
<1>8. /\ g # h => (Due(g)' <=> Due(g))
      /\ k = "Schedule" /\ g = h => Due(g)'
      /\ k = "Cancel" /\ g = h => ~Due(g)'
  <2>1. CASE k = "Schedule"
    <3>1. c.mKind = "Schedule"
      BY <1>4, <2>1
    <3>2. /\ mFlushDueTokens' = [mFlushDueTokens EXCEPT ![h] = n]
          /\ mFlushDueHeap' = mFlushDueHeap \union {[mGuid |-> h, mToken |-> n]}
      BY <1>1, <3>1 DEF DrainCommand
    <3>3. PICK e : e = [mGuid |-> h, mToken |-> n]
      OBVIOUS
    <3>4. e.mGuid = h /\ e.mToken = n /\ mFlushDueHeap' = mFlushDueHeap \union {e}
      BY <3>2, <3>3
    <3>5. mFlushDueTokens'[g] = IF g = h THEN n ELSE mFlushDueTokens[g]
      BY <1>2, <3>2 DEF ScheduleTypes
    <3> QED BY <2>1, <3>4, <3>5 DEF Due
  <2>2. CASE k = "Cancel"
    <3>1. c.mKind = "Cancel"
      BY <1>4, <2>2
    <3>2. mFlushDueTokens' = [mFlushDueTokens EXCEPT ![h] = None] /\ mFlushDueHeap' = mFlushDueHeap
      BY <1>1, <3>1 DEF DrainCommand
    <3>3. mFlushDueTokens'[g] = IF g = h THEN None ELSE mFlushDueTokens[g]
      BY <1>2, <3>2 DEF ScheduleTypes
    <3>4. \A e \in mFlushDueHeap : e.mToken # None
      BY <1>2, BoundsAssumption DEF ScheduleTypes, None
    <3> QED BY <2>2, <3>2, <3>3, <3>4 DEF Due
  <2> QED BY <2>1, <2>2
<1>9. CASE k = "Schedule"
  <2>1. Commanded("Cancel", g)' => Commanded("Cancel", g)
    BY <1>5
  <2>2. /\ Commanded("Schedule", g)' => Commanded("Schedule", g)
        /\ Commanded("Schedule", g) => Commanded("Schedule", g)' \/ g = h
        /\ g = h => Commanded("Schedule", g) /\ ~Commanded("Schedule", g)'
    BY <1>2, <1>5, <1>9 DEF Line
  <2>3. OnePlace(g)'
    BY <1>2, <1>6, <1>8, <1>9, <2>2 DEF Line, OnePlace
  <2>4. CancelsEnd(g)' /\ LineGoesOn(g)'
    BY <1>2, <1>6, <1>8, <1>9, <2>1, <2>2 DEF Line, CancelsEnd, LineGoesOn
  <2> QED BY <1>2, <1>5, <1>6, <2>3, <2>4 DEF Line
<1>10. CASE k = "Cancel"
  <2>1. /\ Commanded("Cancel", g)' => Commanded("Cancel", g)
        /\ Commanded("Schedule", g)' <=> Commanded("Schedule", g)
        /\ g = h => Commanded("Cancel", g)
    BY <1>5, <1>10
  <2>2. OnePlace(g)'
    BY <1>2, <1>6, <1>8, <1>10, <2>1 DEF Line, OnePlace
  <2>3. Erasing(g) => Busy(g)
    BY DEF Erasing, Busy, Erases, Works
  <2>4. CancelsEnd(g)' /\ LineGoesOn(g)'
    BY <1>2, <1>6, <1>8, <1>10, <2>1, <2>3 DEF Line, CancelsEnd, LineGoesOn
  <2> QED BY <1>2, <1>5, <1>6, <2>2, <2>4 DEF Line
<1> QED BY <1>9, <1>10

LEMMA TickPopLines ==
    ASSUME LineInv, ~early, NEW w \in Workers, NEW e \in mFlushDueHeap, TickPop(w, e)
    PROVE  Lines'
<1> SUFFICES ASSUME NEW g \in Guids PROVE Line(g)'
  BY DEF Lines
<1>1. PICK x, h : x = [thread[w] EXCEPT !.pc = "lookup", !.guid = e.mGuid] /\ h = e.mGuid
  OBVIOUS
<1>2. /\ Line(g) /\ ThreadsOK /\ ScheduleTypes /\ w \in Threads /\ thread[w] \in Records
      /\ thread[w].pc = "drain" /\ mFlushDueHeap' = mFlushDueHeap \ {e}
      /\ UNCHANGED <<table, strand, mFlushScheduleCommands, mFlushDueTokens, stray>>
      /\ thread' = IF mFlushDueTokens[h] = e.mToken THEN [thread EXCEPT ![w] = x] ELSE thread
  BY <1>1 DEF LineInv, Lines, AloneInv, Shape, TickPop, Threads, ThreadsOK, env
<1>3. /\ (Gone(g) <=> Gone(g)')
      /\ (FlushQueued(g)' <=> FlushQueued(g)) /\ (OneTask(g) => OneTask(g)')
      /\ \A kind : Commanded(kind, g)' <=> Commanded(kind, g)
      /\ (OneCommand(g) => OneCommand(g)')
  BY <1>2, CommandsStayPlaces, TasksStayPlaces DEF Gone, table
<1>4. CASE mFlushDueTokens[h] # e.mToken
  <2>1. thread' = thread
    BY <1>2, <1>4
  <2>2. /\ (InHands(g)' <=> InHands(g)) /\ (Ending(g)' <=> Ending(g)) /\ (Erasing(g)' <=> Erasing(g))
        /\ (Busy(g)' <=> Busy(g)) /\ (Starting(g)' <=> Starting(g)) /\ (OneHand(g) => OneHand(g)')
    BY <2>1, ThreadsStayPlaces
  <2>3. Due(g)' <=> Due(g)
    BY <1>1, <1>2, <1>4 DEF Due
  <2> QED BY <1>2, <1>3, <2>2, <2>3 DEF Line, OnePlace, CancelsEnd, LineGoesOn
<1>5. CASE mFlushDueTokens[h] = e.mToken
  <2>1. thread' = [thread EXCEPT ![w] = x] /\ x.pc = "lookup" /\ x.guid = h
    BY <1>1, <1>2, <1>5 DEF Records
  <2>2. /\ (Due(g)' => Due(g)) /\ (g # h => (Due(g)' <=> Due(g))) /\ (g = h => Due(g))
    BY <1>1, <1>2, <1>5 DEF Due
  <2>3. g = h => ~Due(g)'
    <3> SUFFICES ASSUME g = h, NEW d \in mFlushDueHeap, d # e, d.mGuid = h, mFlushDueTokens[h] = d.mToken
                 PROVE  FALSE
      BY <1>2 DEF Due
    <3>1. /\ d = [mGuid |-> d.mGuid, mToken |-> d.mToken]
          /\ e = [mGuid |-> e.mGuid, mToken |-> e.mToken]
      BY <1>2 DEF ScheduleTypes
    <3>2. d = e
      BY <1>1, <1>5, <3>1
    <3> QED BY <3>2
  <2>4. /\ (Holds(x, g) <=> g = h) /\ ~Ends(x, g) /\ ~Starts(x, g)
        /\ ~Holds(thread[w], g) /\ ~Erases(thread[w], g) /\ ~Works(thread[w], g)
    BY <1>2, <2>1 DEF Holds, Ends, Starts, Erases, Works, HandStatements
  <2>5. g = h => ~InHands(g)
    BY <1>2, <2>2 DEF Line, OnePlace
  <2>6. /\ InHands(g)' <=> InHands(g) \/ g = h
        /\ (OneHand(g) => OneHand(g)')
        /\ (Ending(g)' => Ending(g)) /\ (Starting(g)' => Starting(g))
        /\ (Erasing(g) => Erasing(g)') /\ (Busy(g) => Busy(g)')
    BY <1>2, <2>1, <2>4, <2>5, ThreadPlaces
  <2>7. OnePlace(g)'
    BY <1>2, <1>3, <2>2, <2>3, <2>6 DEF Line, OnePlace
  <2>8. CancelsEnd(g)' /\ LineGoesOn(g)'
    BY <1>2, <1>3, <2>2, <2>6 DEF Line, CancelsEnd, LineGoesOn
  <2> QED BY <1>2, <1>3, <2>6, <2>7, <2>8 DEF Line
<1> QED BY <1>4, <1>5

(* The strand gets the flush.                                               *)
LEMMA TickGiveLines ==
    ASSUME LineInv, ~early, NEW w \in Workers, TickGive(w),
           Enqueue(w, thread[w].session, "flush"), NextEntry(w)
    PROVE  Lines'
<1> SUFFICES ASSUME NEW g \in Guids PROVE Line(g)'
  BY DEF Lines
<1>1. PICK s, h, x : /\ s = thread[w].session /\ h = thread[w].guid
                     /\ x = [Idle EXCEPT !.pc = "drain"]
  OBVIOUS
<1>2. /\ Line(g) /\ ThreadsOK /\ Shape /\ w \in Threads /\ RecordOK(w, thread[w])
      /\ thread[w].pc = "give" /\ UNCHANGED <<table, schedule>> /\ UNCHANGED <<guidOf, stray>>
      /\ thread' = [thread EXCEPT ![w] = x] /\ Enqueue(w, s, "flush")
  BY <1>1 DEF LineInv, Lines, AloneInv, Shape, TickGive, Threads, ThreadsOK, NextEntry, table, env
<1>3. s \in Created /\ guidOf[s] = h /\ x.pc = "drain"
  BY <1>1, <1>2 DEF RecordOK, WithSession, Of, Idle
<1>4. /\ (Gone(g) <=> Gone(g)') /\ (Due(g)' <=> Due(g))
      /\ \A kind : Commanded(kind, g)' <=> Commanded(kind, g)
      /\ (OneCommand(g) => OneCommand(g)')
  BY <1>2, CommandsStayPlaces, DueStays DEF Gone, table, schedule
<1>5. /\ ~Holds(x, g) /\ ~Ends(x, g) /\ ~Starts(x, g)
      /\ (Holds(thread[w], g) <=> g = h) /\ ~Erases(thread[w], g) /\ ~Works(thread[w], g)
  BY <1>1, <1>2, <1>3 DEF Holds, Ends, Starts, Erases, Works, HandStatements
<1>6. g = h => InHands(g)
  BY <1>5 DEF Holds, InHands
<1>7. /\ (InHands(g)' => InHands(g)) /\ (OneHand(g) => OneHand(g)')
      /\ OneHand(g) /\ g = h => ~InHands(g)'
      /\ InHands(g) => InHands(g)' \/ g = h
      /\ (Ending(g)' => Ending(g)) /\ (Starting(g)' => Starting(g))
      /\ (Erasing(g) => Erasing(g)') /\ (Busy(g) => Busy(g)')
  BY <1>2, <1>5, ThreadPlaces
<1>8. /\ FlushQueued(g)' <=> FlushQueued(g) \/ g = h
      /\ OneTask(g) /\ (g = h => ~FlushQueued(g)) => OneTask(g)'
  BY <1>2, <1>3, TaskPlaces
<1>9. g = h => ~FlushQueued(g)
  BY <1>2, <1>6 DEF Line, OnePlace
<1>10. OnePlace(g)'
  <2>1. CASE g = h
    BY <1>2, <1>4, <1>6, <1>7, <1>8, <2>1 DEF Line, OnePlace
  <2>2. CASE g # h
    BY <1>2, <1>4, <1>7, <1>8, <2>2 DEF Line, OnePlace
  <2> QED BY <2>1, <2>2
<1>11. CancelsEnd(g)' /\ LineGoesOn(g)'
  BY <1>2, <1>4, <1>7, <1>8 DEF Line, CancelsEnd, LineGoesOn
<1> QED BY <1>2, <1>4, <1>7, <1>8, <1>9, <1>10, <1>11 DEF Line

(* A worker takes a task: a flush goes into its hands.                      *)
LEMMA TaskBeginLines ==
    ASSUME LineInv, ~early, NEW w \in Workers, NEW s \in Sessions, NEW t \in Threads, TaskBegin(w, s, t)
    PROVE  Lines'
<1> SUFFICES ASSUME NEW g \in Guids PROVE Line(g)'
  BY DEF Lines
<1>1. PICK task, h : task = Head(strand[s][t]) /\ h = guidOf[s]
  OBVIOUS
<1>2. /\ Line(g) /\ ThreadsOK /\ Shape /\ w \in Threads
      /\ s \in Created /\ UNCHANGED <<table, schedule>> /\ UNCHANGED <<guidOf, stray>>
      /\ strand[s][t] # <<>> /\ strand' = [strand EXCEPT ![s][t] = Tail(@)]
      /\ thread[w] = Idle
  BY TaskEffect DEF LineInv, Lines, AloneInv, Shape, Threads, table, TaskBegin
<1>3. \/ task # "flush" /\ thread' = thread
      \/ \E x : /\ thread' = [thread EXCEPT ![w] = x] /\ x.guid = h
               /\ IF task = "flush" THEN x.pc = "flush" ELSE x.pc = "cancel"
  <2>1. \A pc, why : /\ StrandWork(h, s, pc, why).pc = pc
                     /\ StrandWork(h, s, pc, why).guid = h
    BY DEF StrandWork, Idle
  <2>2. \/ task # "flush" /\ thread' = thread
        \/ task = "flush" /\ thread' = [thread EXCEPT ![w] = StrandWork(h, s, "flush", "flush")]
        \/ task # "flush" /\ \E why \in {"lost", "over"} :
              thread' = [thread EXCEPT ![w] = StrandWork(h, s, "cancel", why)]
    BY <1>1, <1>2, TaskEffect
  <2>3. CASE task = "flush" /\ thread' = [thread EXCEPT ![w] = StrandWork(h, s, "flush", "flush")]
    <3>1. PICK x : x = StrandWork(h, s, "flush", "flush")
      OBVIOUS
    <3>2. x.guid = h /\ x.pc = "flush"
      BY <2>1, <3>1
    <3>3. thread' = [thread EXCEPT ![w] = x] /\ task = "flush"
      BY <2>3, <3>1
    <3> QED BY <3>2, <3>3
  <2>4. CASE task # "flush" /\ \E why \in {"lost", "over"} :
                thread' = [thread EXCEPT ![w] = StrandWork(h, s, "cancel", why)]
    <3>1. PICK why \in {"lost", "over"} : thread' = [thread EXCEPT ![w] = StrandWork(h, s, "cancel", why)]
      BY <2>4
    <3>2. PICK x : x = StrandWork(h, s, "cancel", why)
      OBVIOUS
    <3>3. x.guid = h /\ x.pc = "cancel" /\ thread' = [thread EXCEPT ![w] = x]
      BY <2>1, <3>1, <3>2
    <3> QED BY <2>4, <3>3
  <2> QED BY <2>2, <2>3, <2>4
<1>4. /\ (Gone(g) <=> Gone(g)') /\ (Due(g)' <=> Due(g))
      /\ \A kind : Commanded(kind, g)' <=> Commanded(kind, g)
      /\ (OneCommand(g) => OneCommand(g)')
  BY <1>2, CommandsStayPlaces, DueStays DEF Gone, table, schedule
<1>5. /\ task = "flush" => FlushQueued(h)
      /\ FlushQueued(g)' => FlushQueued(g)
      /\ FlushQueued(g) => FlushQueued(g)' \/ (task = "flush" /\ g = h)
      /\ OneTask(g) => OneTask(g)'
      /\ task = "flush" /\ OneTask(h) => ~FlushQueued(h)'
  <2>1. Shape /\ UNCHANGED guidOf /\ s \in Created /\ Take(s, t, task, h)
    BY <1>1, <1>2 DEF Take
  <2> QED BY <2>1, TaskTakenPlaces
<1>6. CASE task # "flush" /\ thread' = thread
  <2>1. /\ (InHands(g)' <=> InHands(g)) /\ (Ending(g)' <=> Ending(g)) /\ (Erasing(g)' <=> Erasing(g))
        /\ (Busy(g)' <=> Busy(g)) /\ (Starting(g)' <=> Starting(g)) /\ (OneHand(g) => OneHand(g)')
    BY <1>6, ThreadsStayPlaces
  <2> QED BY <1>2, <1>4, <1>5, <1>6, <2>1 DEF Line, OnePlace, CancelsEnd, LineGoesOn
<1>7. CASE \E x : /\ thread' = [thread EXCEPT ![w] = x] /\ x.guid = h
                  /\ IF task = "flush" THEN x.pc = "flush" ELSE x.pc = "cancel"
  <2>1. PICK x : /\ thread' = [thread EXCEPT ![w] = x] /\ x.guid = h
                 /\ IF task = "flush" THEN x.pc = "flush" ELSE x.pc = "cancel"
    BY <1>7
  <2>2. /\ (Holds(x, g) <=> task = "flush" /\ g = h) /\ ~Ends(x, g) /\ ~Starts(x, g)
        /\ ~Holds(thread[w], g) /\ ~Erases(thread[w], g) /\ ~Works(thread[w], g)
    BY <1>2, <2>1 DEF Holds, Ends, Starts, Erases, Works, HandStatements, Idle
  <2>3. task = "flush" /\ g = h => FlushQueued(g) /\ ~FlushQueued(g)' /\ ~InHands(g)
    BY <1>2, <1>5 DEF Line, OnePlace
  <2>4. /\ InHands(g)' <=> InHands(g) \/ (task = "flush" /\ g = h)
        /\ (OneHand(g) => OneHand(g)')
        /\ (Ending(g)' => Ending(g)) /\ (Starting(g)' => Starting(g))
        /\ (Erasing(g) => Erasing(g)') /\ (Busy(g) => Busy(g)')
    BY <1>2, <2>1, <2>2, <2>3, ThreadPlaces
  <2>5. OnePlace(g)'
    BY <1>2, <1>4, <1>5, <2>3, <2>4 DEF Line, OnePlace
  <2>6. CancelsEnd(g)' /\ LineGoesOn(g)'
    BY <1>2, <1>4, <1>5, <2>4 DEF Line, CancelsEnd, LineGoesOn
  <2> QED BY <1>2, <1>4, <1>5, <2>4, <2>5, <2>6 DEF Line
<1> QED BY <1>3, <1>6, <1>7

(* Who finds no session, or one that is not connected, ends its flushes.    *)
LEMMA FlushStatementLines ==
    ASSUME LineInv, ~early, NEW w \in Workers, FlushTask(w) \/ TickLookup(w) \/ TickCheck(w)
    PROVE  Lines'
<1>1. /\ w \in Threads /\ RecordOK(w, thread[w]) /\ thread[w] \in Records /\ Consistent(thread[w])
      /\ UNCHANGED <<table, schedule, strand, stray>> /\ Created \subseteq Sessions /\ None \notin Created
  BY CreatedSessions
     DEF LineInv, Lines, AloneInv, Shape, ThreadsOK, OneSession, Threads, FlushTask, TickLookup,
         TickCheck, env
<1>2. PICK h : h = thread[w].guid
  OBVIOUS
<1>3. CASE FlushTask(w) \/ TickCheck(w)
  <2>1. PICK pc \in {"again", "never", "give", "tickAgain", "tickCancel"} :
           /\ thread' = [thread EXCEPT ![w] = [thread[w] EXCEPT !.pc = pc]]
           /\ thread[w].session \in mConnected <=> pc \notin {"never", "tickCancel"}
    BY <1>3 DEF FlushTask, TickCheck, Step
  <2>2. PICK x : x = [thread[w] EXCEPT !.pc = pc]
    OBVIOUS
  <2>3. x.pc = pc /\ x.guid = h
    BY <1>1, <1>2, <2>2 DEF Records
  <2>4. thread[w].pc \in {"flush", "check", "refused"}
    BY <1>3 DEF FlushTask, TickCheck, Step
  <2>5. Of(thread[w].session, h)
    BY <1>1, <1>2, <2>4 DEF RecordOK, WithSession, Flushing
  <2>6. pc \in {"never", "tickCancel"} => Gone(h)
    BY <1>1, <1>2, <2>1, <2>5 DEF Consistent, Gone, Of
  <2>7. /\ Holds(thread[w], h)
        /\ Holds(x, h) \/ (Ends(x, h) /\ Gone(h))
    BY <1>2, <2>3, <2>4, <2>6 DEF Holds, Ends, HandStatements
  <2> QED BY <1>1, <2>1, <2>2, <2>7, HandGoesOn
<1>4. CASE TickLookup(w)
  <2>1. PICK s, x : /\ s = mSessionContexts[h]
                    /\ x = IF s = None THEN [thread[w] EXCEPT !.pc = "tickCancel"]
                           ELSE [thread[w] EXCEPT !.pc = "check", !.session = s]
    OBVIOUS
  <2>2. /\ thread' = [thread EXCEPT ![w] = x] /\ thread[w].pc = "lookup"
    BY <1>2, <1>4, <2>1 DEF TickLookup
  <2>3. x.guid = h /\ x.pc = IF s = None THEN "tickCancel" ELSE "check"
    BY <1>1, <1>2, <2>1 DEF Records
  <2>4. /\ Holds(thread[w], h)
        /\ Holds(x, h) \/ (Ends(x, h) /\ Gone(h))
    BY <1>2, <2>1, <2>2, <2>3 DEF Holds, Ends, HandStatements, Gone
  <2> QED BY <1>1, <2>2, <2>4, HandGoesOn
<1> QED BY <1>3, <1>4

LEMMA FlushCommandLines ==
    ASSUME LineInv, ~early, NEW w \in Workers,
           \/ FlushCommand(w) \/ TickCommand(w)
           \/ TickGive(w) /\ UNCHANGED strand /\ thread' = [thread EXCEPT ![w].pc = "refused"]
    PROVE  Lines'
<1>1. /\ w \in Threads /\ thread[w] \in Records
      /\ UNCHANGED <<table, mFlushDueHeap, mFlushDueTokens, strand, stray>>
  BY DEF LineInv, Lines, AloneInv, Shape, ThreadsOK, Threads, FlushCommand, TickCommand, TickGive,
         schedule, env
<1>2. PICK h : h = thread[w].guid
  OBVIOUS
<1>3. CASE FlushCommand(w) \/ TickCommand(w)
  <2>1. PICK x, kind : /\ thread' = [thread EXCEPT ![w] = x] /\ x.pc \in {"idle", "drain"}
                       /\ kind = IF thread[w].pc \in {"again", "tickAgain"} THEN "Schedule" ELSE "Cancel"
    <3>1. Idle.pc = "idle" /\ [Idle EXCEPT !.pc = "drain"].pc = "drain"
      BY DEF Idle
    <3> QED BY <1>3, <3>1 DEF FlushCommand, TickCommand, Finish, NextEntry
  <2>2. Command(w, kind, h) /\ thread[w].pc \in {"again", "never", "tickAgain", "tickCancel"}
    BY <1>2, <1>3, <2>1 DEF FlushCommand, TickCommand
  <2>3. \/ kind = "Schedule" /\ Holds(thread[w], h)
        \/ kind = "Cancel" /\ Ends(thread[w], h)
    BY <1>2, <2>1, <2>2 DEF Holds, Ends, HandStatements
  <2> QED BY <1>1, <2>1, <2>2, <2>3, HandCommands
<1>4. CASE TickGive(w) /\ UNCHANGED strand /\ thread' = [thread EXCEPT ![w].pc = "refused"]
  <2>1. PICK x : x = [thread[w] EXCEPT !.pc = "refused"]
    OBVIOUS
  <2>2. /\ thread' = [thread EXCEPT ![w] = x] /\ thread[w].pc = "give"
        /\ UNCHANGED <<table, schedule, strand, stray>>
    BY <1>4, <2>1 DEF TickGive, env
  <2>3. x.pc = "refused" /\ x.guid = h
    BY <1>1, <1>2, <2>1 DEF Records
  <2>4. Holds(thread[w], h) /\ Holds(x, h)
    BY <1>2, <2>2, <2>3 DEF Holds, HandStatements
  <2> QED BY <2>2, <2>4, HandGoesOn
<1> QED BY <1>3, <1>4

(* Every other step leaves the flushes where they are.                      *)
LEMMA OtherIoLines ==
    ASSUME LineInv, ~early,
           \/ IoAnnounce \/ IoPass \/ IoCloseFirst
           \/ \E g \in Guids, packet \in {"lost", "over", "empty"} : IoReceive(g, packet)
    PROVE  Lines'
<1>1. /\ Io \in Threads /\ Io \notin Workers /\ RecordOK(Io, thread[Io]) /\ thread[Io] \in Records
      /\ UNCHANGED <<guidOf, mSessionContexts, mFlushScheduleCommands, mFlushDueHeap, mFlushDueTokens>>
      /\ mConnected' \subseteq mConnected /\ stray' = stray
  BY ThreadsAssumption, DisconnectKeepsLess
     DEF LineInv, Lines, AloneInv, Shape, ThreadsOK, Threads, IoAnnounce, IoPass, IoCloseFirst, IoReceive,
         table, schedule, Disconnect, env
<1>2. \A g \in Guids : mSessionContexts'[g] \in {None, mSessionContexts[g]}
  BY <1>1
<1>3. \/ UNCHANGED <<strand, mFlushScheduleCommands, thread, mSessionContexts>>
      \/ \E x : LeavesFlushes(Io, x)
  <2>1. ASSUME NEW x, thread' = [thread EXCEPT ![Io] = x], x.pc \in {"idle", "cancel", "pass", "closeFirst"},
               thread[Io].pc \in {"idle", "announce", "pass", "closeFirst"},
               \/ strand' = strand
               \/ \E s \in Created, task \in {"connected", "disconnected", "lost", "over"} :
                     Enqueue(Io, s, task)
        PROVE  LeavesFlushes(Io, x)
    BY <1>1, <2>1 DEF LeavesFlushes, Works, Erases, HandStatements
  <2>2. CASE IoAnnounce \/ IoPass
    <3>1. PICK s, x : s = thread[Io].session /\ x = Idle
      OBVIOUS
    <3>2. /\ s \in Created /\ thread[Io].pc \in {"announce", "pass"}
          /\ thread[Io].pc = "pass" => thread[Io].why \in {"lost", "over"}
      BY <1>1, <2>2, <3>1 DEF IoAnnounce, IoPass, RecordOK, WithSession, IoStatements, Of
    <3>3. /\ thread' = [thread EXCEPT ![Io] = x] /\ x.pc = "idle"
          /\ \/ strand' = strand
             \/ \E task \in {"connected", "disconnected", "lost", "over"} : Enqueue(Io, s, task)
      BY <2>2, <3>1, <3>2 DEF IoAnnounce, IoPass, Finish, Idle
    <3>4. \/ strand' = strand
          \/ \E r \in Created, task \in {"connected", "disconnected", "lost", "over"} :
                Enqueue(Io, r, task)
      BY <3>2, <3>3
    <3> QED BY <2>1, <3>2, <3>3, <3>4
  <2>3. CASE IoCloseFirst
    <3>1. PICK x : x = [thread[Io] EXCEPT !.pc = "cancel"]
      OBVIOUS
    <3>2. /\ thread' = [thread EXCEPT ![Io] = x] /\ x.pc = "cancel" /\ strand' = strand
          /\ thread[Io].pc = "closeFirst"
      BY <1>1, <2>3, <3>1 DEF IoCloseFirst, Step, Records
    <3> QED BY <2>1, <3>2
  <2>4. CASE \E g \in Guids, packet \in {"lost", "over", "empty"} : IoReceive(g, packet)
    <3>1. PICK g \in Guids, packet \in {"lost", "over", "empty"} : IoReceive(g, packet)
      BY <2>4
    <3>2. PICK x : x = [Idle EXCEPT !.pc = IF packet = "empty" THEN "closeFirst" ELSE "pass",
                                    !.guid = g, !.session = mSessionContexts[g], !.why = packet]
      OBVIOUS
    <3>3. /\ strand' = strand /\ thread[Io].pc = "idle" /\ x.pc \in {"closeFirst", "pass"}
          /\ thread' = thread \/ thread' = [thread EXCEPT ![Io] = x]
      <4>1. strand' = strand /\ thread[Io] = Idle
        BY <3>1 DEF IoReceive
      <4>2. x.pc = IF packet = "empty" THEN "closeFirst" ELSE "pass"
        BY <3>2 DEF Idle
      <4>3. thread' = IF mSessionContexts[g] = None THEN thread ELSE [thread EXCEPT ![Io] = x]
        BY <3>1, <3>2 DEF IoReceive
      <4> QED BY <4>1, <4>2, <4>3 DEF Idle
    <3>4. CASE thread' = thread
      BY <1>1, <3>3, <3>4
    <3>5. CASE thread' = [thread EXCEPT ![Io] = x]
      BY <2>1, <3>3, <3>5
    <3> QED BY <3>3, <3>4, <3>5
  <2> QED BY <2>2, <2>3, <2>4
<1> QED BY <1>1, <1>2, <1>3, LinesStay

LEMMA RemovalLines ==
    ASSUME LineInv, ~early, NEW t \in Threads, RemoveStep(t)
    PROVE  Lines'
<1>1. /\ Shape /\ RecordOK(t, thread[t]) /\ thread[t] \in Records
      /\ UNCHANGED <<guidOf, mFlushDueHeap, mFlushDueTokens>>
      /\ mConnected' \subseteq mConnected /\ stray' = stray
  BY DisconnectKeepsLess
     DEF LineInv, Lines, AloneInv, Shape, ThreadsOK, RemoveStep, RemoveCancel, RemoveErase, RemoveClose,
         RemoveReport, table, schedule, Disconnect, env
<1>2. \A g \in Guids : mSessionContexts'[g] \in {None, mSessionContexts[g]}
  <2>1. CASE RemoveErase(t)
    <3>1. /\ mSessionContexts' = [mSessionContexts EXCEPT ![thread[t].guid] = None]
          /\ mSessionContexts \in [Guids -> Sessions \union {None}]
      BY <1>1, <2>1, EraseEffect DEF Shape, TableTypes
    <3> QED BY <3>1
  <2>2. CASE RemoveCancel(t) \/ RemoveClose(t) \/ RemoveReport(t)
    BY <2>2 DEF RemoveCancel, RemoveClose, RemoveReport, table
  <2> QED BY <2>1, <2>2 DEF RemoveStep
<1>3. \E x : LeavesFlushes(t, x)
  <2>1. CASE RemoveCancel(t)
    <3>1. PICK x, h : x = [thread[t] EXCEPT !.pc = "erase"] /\ h = thread[t].guid
      OBVIOUS
    <3>2. /\ thread' = [thread EXCEPT ![t] = x] /\ x.pc = "erase" /\ x.guid = h
          /\ thread[t].pc = "cancel" /\ strand' = strand /\ Command(t, "Cancel", h)
      BY <1>1, <2>1, <3>1 DEF RemoveCancel, Step, Records
    <3>3. /\ \A g \in Guids : Works(thread[t], g) => Erases(x, g)
          /\ \A g \in Guids : ~Erases(thread[t], g)
          /\ Erases(x, h)
      BY <3>1, <3>2 DEF Works, Erases
    <3>4. /\ thread[t].pc \notin HandStatements
          /\ x.pc \notin HandStatements \union {"tickCancel", "never", "upsert", "scheduleFirst"}
      BY <3>2 DEF HandStatements
    <3>5. LeavesFlushes(t, x)
      BY <3>2, <3>3, <3>4 DEF LeavesFlushes
    <3> QED BY <3>5
  <2>2. CASE RemoveErase(t)
    <3>1. PICK g, r : g = thread[t].guid /\ r = mSessionContexts[g]
      OBVIOUS
    <3>2. PICK y : y = [thread[t] EXCEPT !.pc = "close", !.removed = r]
      OBVIOUS
    <3>3. /\ mSessionContexts' = [mSessionContexts EXCEPT ![g] = None]
          /\ UNCHANGED <<strand, schedule>>
          /\ g \in Guids /\ thread[t].pc = "erase"
          /\ thread' = [thread EXCEPT ![t] = Idle] \/ thread' = [thread EXCEPT ![t] = y]
      BY <1>1, <2>2, <3>1, <3>2, EraseEffect
    <3>4. Idle.pc = "idle" /\ y.pc = "close"
      BY <1>1, <3>2 DEF Idle, Records
    <3>5. PICK x : thread' = [thread EXCEPT ![t] = x] /\ x.pc \in {"idle", "close"}
      BY <3>3, <3>4
    <3>6. Gone(g)'
      BY <1>1, <3>3 DEF Gone, Shape, TableTypes
    <3>7. /\ \A f \in Guids : Works(thread[t], f) => Gone(f)'
          /\ \A f \in Guids : Erases(thread[t], f) => Gone(f)'
      BY <3>1, <3>6 DEF Works, Erases
    <3>8. /\ thread[t].pc \notin HandStatements
          /\ x.pc \notin HandStatements \union {"tickCancel", "never", "upsert", "scheduleFirst"}
      BY <3>3, <3>5 DEF HandStatements
    <3>9. mFlushScheduleCommands' = mFlushScheduleCommands /\ strand' = strand
      BY <3>3 DEF schedule
    <3>10. LeavesFlushes(t, x)
      BY <3>5, <3>7, <3>8, <3>9 DEF LeavesFlushes
    <3> QED BY <3>10
  <2>3. CASE RemoveClose(t) \/ RemoveReport(t)
    <3>1. PICK r, y : r = thread[t].removed /\ y = [thread[t] EXCEPT !.pc = "report"]
      OBVIOUS
    <3>2. /\ thread[t].pc \in {"close", "report"}
          /\ thread' = [thread EXCEPT ![t] = Idle] \/ thread' = [thread EXCEPT ![t] = y]
          /\ strand' = strand \/ (thread[t].pc = "report" /\ Enqueue(t, r, "disconnected"))
          /\ mFlushScheduleCommands' = mFlushScheduleCommands
      BY <2>3, <3>1 DEF RemoveClose, RemoveReport, Finish, schedule
    <3>3. Idle.pc = "idle" /\ y.pc = "report"
      BY <1>1, <3>1 DEF Idle, Records
    <3>4. PICK x : thread' = [thread EXCEPT ![t] = x] /\ x.pc \in {"idle", "report"}
      BY <3>2, <3>3
    <3>5. thread[t].pc = "report" => r \in Created
      BY <1>1, <3>1 DEF RecordOK, Of
    <3>6. \/ strand' = strand
          \/ \E s \in Created, task \in {"connected", "disconnected", "lost", "over"} : Enqueue(t, s, task)
      BY <3>2, <3>5
    <3>7. /\ \A g : ~Works(thread[t], g) /\ ~Erases(thread[t], g)
          /\ thread[t].pc \notin HandStatements
          /\ x.pc \notin HandStatements \union {"tickCancel", "never", "upsert", "scheduleFirst"}
      BY <3>2, <3>4 DEF Works, Erases, HandStatements
    <3>8. LeavesFlushes(t, x)
      BY <3>2, <3>4, <3>6, <3>7 DEF LeavesFlushes
    <3> QED BY <3>8
  <2> QED BY <2>1, <2>2, <2>3 DEF RemoveStep
<1> QED BY <1>1, <1>2, <1>3, LinesStay

LEMMA QuietLines ==
    ASSUME LineInv, ~early,
           \/ \E c \in Clients, g \in Guids : DisconnectClient(c, g)
           \/ \E w \in Workers : TickBegin(w) \/ TickEnd(w)
           \/ \E s \in Sessions : Destroy(s)
           \/ UNCHANGED vars
    PROVE  Lines'
<1>1. /\ UNCHANGED <<guidOf, mSessionContexts, strand, schedule>>
      /\ mConnected' \subseteq mConnected /\ stray \subseteq stray' /\ Io \in Threads
      /\ Clients \subseteq Threads /\ Workers \subseteq Threads
  BY DisconnectKeepsLess
     DEF DisconnectClient, TickBegin, TickEnd, Destroy, Disconnect, vars, table, env, Threads
<1>2. \A g \in Guids : mSessionContexts'[g] \in {None, mSessionContexts[g]}
  BY <1>1
<1>3. \/ thread' = thread
      \/ \E t \in Threads : \E x : /\ thread' = [thread EXCEPT ![t] = x]
                                  /\ thread[t].pc \in {"idle", "drain"}
                                  /\ x.pc \in {"idle", "drain", "cancel"}
  <2>1. CASE \E c \in Clients, g \in Guids : DisconnectClient(c, g)
    <3>1. PICK c \in Clients, g \in Guids : DisconnectClient(c, g)
      BY <2>1
    <3>2. PICK x : x = [Idle EXCEPT !.pc = "cancel", !.guid = g, !.why = "client"]
      OBVIOUS
    <3>3. thread' = [thread EXCEPT ![c] = x] /\ thread[c] = Idle
      BY <3>1, <3>2 DEF DisconnectClient
    <3>4. x.pc = "cancel" /\ Idle.pc = "idle"
      BY <3>2 DEF Idle
    <3> QED BY <1>1, <3>3, <3>4
  <2>2. CASE \E w \in Workers : TickBegin(w) \/ TickEnd(w)
    <3>1. Idle.pc = "idle" /\ [Idle EXCEPT !.pc = "drain"].pc = "drain"
      BY DEF Idle
    <3>2. PICK w \in Workers : TickBegin(w) \/ TickEnd(w)
      BY <2>2
    <3>3. \E x : /\ thread' = [thread EXCEPT ![w] = x] /\ x.pc \in {"idle", "drain"}
                 /\ thread[w].pc \in {"idle", "drain"}
      BY <3>1, <3>2 DEF TickBegin, TickEnd, Finish
    <3> QED BY <1>1, <3>3
  <2>3. CASE (\E s \in Sessions : Destroy(s)) \/ UNCHANGED vars
    BY <2>3 DEF Destroy, vars
  <2> QED BY <2>1, <2>2, <2>3
<1>4. CASE thread' = thread
  BY <1>1, <1>2, <1>4, LinesStay DEF schedule
<1>5. CASE \E t \in Threads : \E x : /\ thread' = [thread EXCEPT ![t] = x]
                                    /\ thread[t].pc \in {"idle", "drain"}
                                    /\ x.pc \in {"idle", "drain", "cancel"}
  <2>1. PICK t \in Threads : \E x : /\ thread' = [thread EXCEPT ![t] = x]
                                    /\ thread[t].pc \in {"idle", "drain"}
                                    /\ x.pc \in {"idle", "drain", "cancel"}
    BY <1>5
  <2>3. PICK x : /\ thread' = [thread EXCEPT ![t] = x]
                 /\ thread[t].pc \in {"idle", "drain"}
                 /\ x.pc \in {"idle", "drain", "cancel"}
    BY <2>1
  <2>2. LeavesFlushes(t, x)
    BY <1>1, <2>3 DEF LeavesFlushes, Works, Erases, HandStatements, schedule
  <2> QED BY <1>1, <1>2, <2>2, LinesStay DEF schedule
<1> QED BY <1>3, <1>4, <1>5

LEMMA NextKeepsLine == LineInv /\ [Next]_vars => LineInv'
<1> SUFFICES ASSUME LineInv, [Next]_vars PROVE LineInv'
  OBVIOUS
<1>1. AloneInv'
  BY NextKeepsAlone DEF LineInv
<1>2. CASE early
  <2>1. early'
    BY <1>2, EarlyStays
  <2> QED BY <1>1, <2>1 DEF LineInv
<1>3. CASE ~early
  <2> SUFFICES Lines'
    BY <1>1, <1>3, NextKeepsQuiet DEF LineInv
  <2>1. CASE IoStep
    BY <1>3, <2>1, IoConnectLines, IoUpsertLines, IoScheduleFirstLines, OtherIoLines DEF IoStep
  <2>2. CASE \E t \in Threads : RemoveStep(t) \/ DrainCommand(t)
    BY <1>3, <2>2, RemovalLines, DrainCommandLines
  <2>3. CASE \E w \in Workers : StrandStep(w)
    BY <1>3, <2>3, TaskBeginLines, FlushStatementLines, FlushCommandLines DEF StrandStep
  <2>4. CASE \E w \in Workers : TickStep(w)
    <3>1. PICK w \in Workers : TickStep(w)
      BY <2>4
    <3>2. CASE TickGive(w)
      <4>1. \/ Enqueue(w, thread[w].session, "flush") /\ NextEntry(w)
            \/ UNCHANGED strand /\ thread' = [thread EXCEPT ![w].pc = "refused"]
        BY <3>2 DEF TickGive
      <4> QED BY <1>3, <3>2, <4>1, TickGiveLines, FlushCommandLines
    <3> QED BY <1>3, <3>1, <3>2, TickPopLines, FlushStatementLines, FlushCommandLines, QuietLines
            DEF TickStep
  <2>5. CASE \/ \E c \in Clients, g \in Guids : DisconnectClient(c, g)
             \/ \E s \in Sessions : Destroy(s)
             \/ UNCHANGED vars
    BY <1>3, <2>5, QuietLines
  <2> QED BY <2>1, <2>2, <2>3, <2>4, <2>5 DEF Next
<1> QED BY <1>2, <1>3

(* The sets Flushes(s) counts, and the places of the line.                  *)
LEMMA FlushCounts ==
    ASSUME LineInv, ~early, NEW g \in Guids
    PROVE  /\ Cardinality(CommandsFor("Schedule", g)) = IF Commanded("Schedule", g) THEN 1 ELSE 0
           /\ Cardinality(LiveEntries(g)) = IF Due(g) THEN 1 ELSE 0
           /\ Cardinality(InHand(g)) = IF InHands(g) THEN 1 ELSE 0
           /\ \A s \in Created : guidOf[s] = g /\ mSessionContexts[g] = s =>
                 Cardinality(FlushTasks(s)) = IF FlushQueued(g) THEN 1 ELSE 0
<1>1. /\ Line(g) /\ ScheduleTypes /\ StrandTypes /\ OneSession /\ Created \subseteq Sessions
      /\ None \notin Created
  BY CreatedSessions DEF LineInv, Lines, AloneInv, Shape
<1>2. Cardinality(CommandsFor("Schedule", g)) = IF Commanded("Schedule", g) THEN 1 ELSE 0
  <2>1. \A x \in CommandsFor("Schedule", g) :
           \E t \in Threads, i \in Nat : x = <<t, i>> /\ Queued("Schedule", g, t, i)
    BY <1>1 DEF CommandsFor, Queued, ScheduleTypes
  <2>2. \A t \in Threads, i \in Nat :
           Queued("Schedule", g, t, i) => <<t, i>> \in CommandsFor("Schedule", g)
    BY DEF CommandsFor, Queued
  <2>3. \A x, y \in CommandsFor("Schedule", g) : x = y
    BY <1>1, <2>1 DEF Line, OneCommand
  <2>4. CommandsFor("Schedule", g) # {} <=> Commanded("Schedule", g)
    BY <2>1, <2>2 DEF Commanded
  <2> QED BY <2>3, <2>4, OneOrNone
<1>3. Cardinality(LiveEntries(g)) = IF Due(g) THEN 1 ELSE 0
  <2>1. \A x, y \in LiveEntries(g) : x = y
    <3> SUFFICES ASSUME NEW x \in LiveEntries(g), NEW y \in LiveEntries(g) PROVE x = y
      OBVIOUS
    <3>1. /\ x = [mGuid |-> x.mGuid, mToken |-> x.mToken]
          /\ y = [mGuid |-> y.mGuid, mToken |-> y.mToken]
      BY <1>1 DEF ScheduleTypes, LiveEntries
    <3>2. x.mGuid = y.mGuid /\ x.mToken = y.mToken
      BY DEF LiveEntries
    <3> QED BY <3>1, <3>2
  <2>2. LiveEntries(g) # {} <=> Due(g)
    BY DEF LiveEntries, Due
  <2> QED BY <2>1, <2>2, OneOrNone
<1>4. Cardinality(InHand(g)) = IF InHands(g) THEN 1 ELSE 0
  <2>1. \A x, y \in InHand(g) : x = y
    BY <1>1 DEF Line, OneHand, Holds, InHand, HandStatements
  <2>2. InHand(g) # {} <=> InHands(g)
    BY DEF InHand, InHands, HandStatements
  <2> QED BY <2>1, <2>2, OneOrNone
<1>5. ASSUME NEW s \in Created, guidOf[s] = g, mSessionContexts[g] = s
      PROVE  Cardinality(FlushTasks(s)) = IF FlushQueued(g) THEN 1 ELSE 0
  <2>1. \A x \in FlushTasks(s) : \E t \in Threads, i \in Nat : x = <<t, i>> /\ Flush(g, s, t, i)
    BY <1>1, <1>5 DEF FlushTasks, TasksOf, Flush, Task, StrandTypes
  <2>2. \A t \in Threads, i \in Nat : Flush(g, s, t, i) => <<t, i>> \in FlushTasks(s)
    BY DEF FlushTasks, TasksOf, Flush, Task
  <2>3. \A x, y \in FlushTasks(s) : x = y
    BY <1>1, <2>1 DEF Line, OneTask
  <2>4. ASSUME NEW r \in Created, NEW t \in Threads, NEW i \in Nat, Flush(g, r, t, i) PROVE r = s
    <3>1. guidOf[r] = g /\ i \in DOMAIN strand[r][t]
      BY <2>4 DEF Flush, Task
    <3>2. strand[r][t] # <<>>
      BY <3>1
    <3> QED BY <1>1, <1>5, <3>1, <3>2 DEF OneSession
  <2>5. FlushTasks(s) # {} <=> FlushQueued(g)
    BY <2>1, <2>2, <2>4 DEF FlushQueued
  <2> QED BY <2>3, <2>5, OneOrNone
<1> QED BY <1>2, <1>3, <1>4, <1>5

(* What OneFlush and FlushNeverLost say of an established session.          *)
LEMMA OneFlushAtMost ==
    ASSUME LineInv, ~early, NEW s \in Created, Established(s)
    PROVE  Flushes(s) <= 1 /\ (guidOf[s] \notin stray => Flushes(s) > 0)
<1>1. PICK g : g = guidOf[s]
  OBVIOUS
<1>2. g \in Guids /\ Line(g) /\ s # None
  BY <1>1, CreatedSessions DEF LineInv, Lines, AloneInv, Shape
<1>3. ~Gone(g) /\ mSessionContexts[g] = s
  BY <1>1, <1>2 DEF Established, Gone
<1>4. ~Busy(g)
  BY <1>1 DEF Established, Busy, Works
<1>5. PICK c, d, i, f :
         /\ c = Cardinality(CommandsFor("Schedule", g)) /\ d = Cardinality(LiveEntries(g))
         /\ i = Cardinality(InHand(g)) /\ f = Cardinality(FlushTasks(s))
  OBVIOUS
<1>6. /\ c = IF Commanded("Schedule", g) THEN 1 ELSE 0
      /\ d = IF Due(g) THEN 1 ELSE 0
      /\ i = IF InHands(g) THEN 1 ELSE 0
      /\ f = IF FlushQueued(g) THEN 1 ELSE 0
  BY <1>1, <1>2, <1>3, <1>5, FlushCounts
<1>7. c + d + i + f <= 1 /\ (g \notin stray => c + d + i + f > 0)
  BY <1>2, <1>3, <1>4, <1>6 DEF Line, OnePlace, LineGoesOn
<1> QED BY <1>1, <1>5, <1>7 DEF Flushes

(* The flush schedule never forgets an established session: what it sends   *)
(* would stay in its queue for ever, but for a GUID for which a call of     *)
(* disconnectClient began before its session was in the table               *)
(* (ServerNetworkSystem.cpp:303-372, 499-505, 534-605, 965-977).            *)
THEOREM FlushesGoOn == Spec => []FlushNeverLost
<1>1. LineInv => FlushNeverLost
  BY OneFlushAtMost DEF FlushNeverLost
<1> QED BY <1>1, InitLine, NextKeepsLine, PTL DEF Spec

(* A session is flushed along one line: no two of its flushes are under way *)
(* at once (ServerNetworkSystem.cpp:557-561, 582).                          *)
THEOREM FlushesAreOne == Spec => []OneFlush
<1>1. LineInv => OneFlush
  BY OneFlushAtMost DEF OneFlush
<1> QED BY <1>1, InitLine, NextKeepsLine, PTL DEF Spec

-----------------------------------------------------------------------------
(* When the next flush is due: the numbers behind the schedule.            *)

(* However late a flush is, the next one is due later than now, so a tick     *)
(* never meets it again; it is on the phase of the session (a whole number    *)
(* of intervals after the last) and the first such moment, so a late tick     *)
(* skips what it missed and nothing more (ServerNetworkSystem.cpp:50-57).     *)
THEOREM NextDueIsLater ==
    ASSUME NEW previousDue \in Int, NEW now \in Int, previousDue <= now
    PROVE  LET due == NextScheduledFlushDue(previousDue, now)
           IN /\ due > now
              /\ \E periods \in Nat \ {0} : due = previousDue + FLUSH_INTERVAL * periods
              /\ due - FLUSH_INTERVAL <= now
<1> USE DEF FLUSH_INTERVAL
<1> DEFINE nextDue == previousDue + FLUSH_INTERVAL
           lag     == now - nextDue
           skipped == (lag \div FLUSH_INTERVAL) + 1
<1>1. CASE nextDue > now
  <2>1. NextScheduledFlushDue(previousDue, now) = nextDue
    BY <1>1 DEF NextScheduledFlushDue
  <2>2. \E periods \in Nat \ {0} : nextDue = previousDue + FLUSH_INTERVAL * periods
    <3>1. 1 \in Nat \ {0} /\ nextDue = previousDue + FLUSH_INTERVAL * 1
      OBVIOUS
    <3> QED BY <3>1
  <2> QED BY <1>1, <2>1, <2>2
<1>2. CASE ~(nextDue > now)
  <2>1. lag \in Nat
    BY <1>2
  <2>2. /\ skipped \in Nat \ {0}
        /\ FLUSH_INTERVAL * skipped > lag
        /\ FLUSH_INTERVAL * skipped <= lag + FLUSH_INTERVAL
    BY <2>1
  <2>3. NextScheduledFlushDue(previousDue, now) = nextDue + FLUSH_INTERVAL * skipped
    BY <1>2 DEF NextScheduledFlushDue
  <2>4. \E periods \in Nat \ {0} :
            nextDue + FLUSH_INTERVAL * skipped = previousDue + FLUSH_INTERVAL * periods
    <3>1. /\ skipped + 1 \in Nat \ {0}
          /\ nextDue + FLUSH_INTERVAL * skipped = previousDue + FLUSH_INTERVAL * (skipped + 1)
      BY <2>2
    <3> QED BY <3>1
  <2>5. /\ nextDue + FLUSH_INTERVAL * skipped > now
        /\ nextDue + FLUSH_INTERVAL * skipped - FLUSH_INTERVAL <= now
    BY <2>2
  <2> QED BY <2>3, <2>4, <2>5
<1> QED BY <1>1, <1>2
=============================================================================
