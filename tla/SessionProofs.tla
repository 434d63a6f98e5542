--------------------------- MODULE SessionProofs ---------------------------
(***************************************************************************)
(* Theorems about Session, for any threads of the application and any      *)
(* bounds.                                                                 *)
(*                                                                         *)
(* How a session ends.  mConnected goes down once.  The thread whose       *)
(* exchange takes it down is the only one that closes the connection, and  *)
(* until it has done so it is at one of the two statements Closing names.  *)
(*                                                                         *)
(* What is sent.  Effect says what a step does to the packets; the facts   *)
(* about packets (their place, their order, what the remote makes of them) *)
(* are lemmas about sequences that hold of any state, and one lemma for    *)
(* each effect puts them together.  SendInv is the shape of a state,       *)
(* PlaceInv the place of every packet, LineInv their order, and ModeInv    *)
(* what the two ends know of each other's mode, counter and key stream.    *)
(***************************************************************************)
EXTENDS Session, TLAPS

EndStatements  == {"drain", "drainAndClose", "close"}
OtherStatements ==
    {"idle", "load", "checksum", "cipher", "send", "switch", "set", "detach", "done"}
Statements == EndStatements \union OtherStatements

Closing(t) == pc[t] \in {"drainAndClose", "close"}

(* What the proofs need to know of the shape of a state.                   *)
EndTypes ==
    /\ mConnected \in BOOLEAN /\ mPeer \in BOOLEAN /\ drained \in BOOLEAN
    /\ detachedEarly \in BOOLEAN
    /\ closes \in Nat
    /\ pc \in [Threads -> Statements]

(* A session that has been drained is not connected and stays empty.       *)
DrainedInv ==
    /\ drained => ~mConnected /\ mOutboundPackets = <<>> /\ mInboundPackets = <<>>
    /\ \A t \in Threads : pc[t] \in EndStatements => ~mConnected

(* The right to close is with nobody while connected, then with one thread *)
(* until it is used, or is lost with the peer.                             *)
CloserInv ==
    /\ mConnected => closes = 0
    /\ \A t \in Threads : Closing(t) => closes = 0
    /\ \A t, u \in Threads : Closing(t) /\ Closing(u) => t = u
    /\ closes \in {0, 1}
    /\ ~mConnected => closes = 1 \/ detachedEarly \/ \E t \in Threads : Closing(t)
    /\ ~mPeer => closes = 1 \/ detachedEarly

EndInv == EndTypes /\ DrainedInv /\ CloserInv

(* A step of t that is no part of disconnect or detachPeer: it fills a     *)
(* queue only while connected, and reads only what is there.               *)
Elsewhere(t) ==
    /\ UNCHANGED <<mConnected, mPeer, closes, drained, detachedEarly>>
    /\ mConnected \/ UNCHANGED <<mOutboundPackets, mInboundPackets>>
                  \/ mInboundPackets # <<>>
    /\ \/ pc' = pc
       \/ /\ pc[t] \in OtherStatements
          /\ \E to \in OtherStatements : pc' = [pc EXCEPT ![t] = to]

LEMMA ElsewhereKeeps ==
    ASSUME EndInv, NEW t \in Threads, Elsewhere(t)
    PROVE  EndInv'
<1>1. pc' \in [Threads -> Statements]
  BY DEF EndInv, EndTypes, Elsewhere, Statements
<1>2. \A u \in Threads : pc[u] = pc'[u] \/ (pc[u] \in OtherStatements /\ pc'[u] \in OtherStatements)
  BY DEF EndInv, EndTypes, Elsewhere
<1>3. \A u \in Threads : /\ Closing(u)' <=> Closing(u)
                         /\ pc'[u] \in EndStatements <=> pc[u] \in EndStatements
  BY <1>2 DEF Closing, OtherStatements, EndStatements
<1>4. DrainedInv'
  BY <1>3 DEF EndInv, EndTypes, DrainedInv, Elsewhere
<1>5. CloserInv'
  BY <1>3 DEF EndInv, EndTypes, CloserInv, Elsewhere
<1>6. EndTypes'
  BY <1>1 DEF EndInv, EndTypes, Elsewhere
<1> QED BY <1>4, <1>5, <1>6 DEF EndInv

-----------------------------------------------------------------------------
(* Queueing, flushing, sending, changes of mode and reading.               *)
LEMMA SendStepElsewhere ==
    ASSUME NEW t \in Threads, SendStep(t)
    PROVE  Elsewhere(t)
<1> USE DEF Elsewhere, OtherStatements, Goto, DoneSending, queues, ends
<1>1. CASE LoadPeer(t)
  BY <1>1 DEF LoadPeer
<1>2. CASE Checksum(t)
  BY <1>2 DEF Checksum
<1>3. CASE Cipher(t)
  BY <1>3 DEF Cipher
<1>4. CASE CipherFails(t)
  BY <1>4 DEF CipherFails
<1>5. CASE SendFrame(t)
  BY <1>5 DEF SendFrame
<1> QED BY <1>1, <1>2, <1>3, <1>4, <1>5 DEF SendStep

LEMMA QueueStepElsewhere ==
    ASSUME NEW t \in Threads,
           QueuePacket(t) \/ ReceivePacket(t) \/ Flush(t) \/ SendPacketImmediately(t)
    PROVE  Elsewhere(t)
<1> USE DEF Elsewhere, OtherStatements, Goto, SendPacket, queues, ends
<1>1. CASE QueuePacket(t)
  BY <1>1 DEF QueuePacket
<1>2. CASE ReceivePacket(t)
  BY <1>2 DEF ReceivePacket
<1>3. CASE Flush(t)
  BY <1>3 DEF Flush, CanFlush
<1>4. CASE SendPacketImmediately(t)
  BY <1>4 DEF SendPacketImmediately
<1> QED BY <1>1, <1>2, <1>3, <1>4

LEMMA StrandStepElsewhere ==
    ASSUME \/ \E mode \in Modes : QueueMarker(mode)
           \/ FlushPending \/ SetMode \/ EnqueueInboundPacket \/ Deliver
    PROVE  Elsewhere(Strand)
<1> USE DEF Elsewhere, OtherStatements, Goto, SendPacket, queues, ends
<1>1. CASE \E mode \in Modes : QueueMarker(mode)
  BY <1>1 DEF QueueMarker
<1>2. CASE FlushPending
  BY <1>2 DEF FlushPending, CanFlush
<1>3. CASE SetMode
  BY <1>3 DEF SetMode
<1>4. CASE EnqueueInboundPacket
  BY <1>4 DEF EnqueueInboundPacket
<1>5. CASE Deliver
  BY <1>5 DEF Deliver
<1> QED BY <1>1, <1>2, <1>3, <1>4, <1>5

-----------------------------------------------------------------------------
(* disconnect and detachPeer.                                              *)
(* Where a thread goes, and that the others stay.                          *)
LEMMA Moves ==
    ASSUME EndTypes, NEW t \in Threads, NEW to \in Statements, pc' = [pc EXCEPT ![t] = to]
    PROVE  /\ pc' \in [Threads -> Statements]
           /\ pc'[t] = to
           /\ \A u \in Threads \ {t} : pc'[u] = pc[u] /\ (Closing(u)' <=> Closing(u))
BY DEF EndTypes, Closing

LEMMA ExchangeKeeps ==
    ASSUME EndInv, NEW t \in Threads, DisconnectExchange(t)
    PROVE  EndInv'
<1> DEFINE to == IF mConnected THEN "drainAndClose" ELSE "drain"
<1>1. /\ pc[t] = "idle" /\ pc' = [pc EXCEPT ![t] = to] /\ mConnected' = FALSE
      /\ UNCHANGED <<mPeer, closes, drained, detachedEarly, mOutboundPackets, mInboundPackets>>
  BY DEF DisconnectExchange, Goto, queues
<1>2. to \in Statements /\ EndTypes
  BY DEF Statements, EndStatements, EndInv
<1> HIDE DEF to
<1>3. /\ pc' \in [Threads -> Statements] /\ pc'[t] = to
      /\ \A u \in Threads \ {t} : pc'[u] = pc[u] /\ (Closing(u)' <=> Closing(u))
  BY <1>1, <1>2, Moves
<1>4. EndTypes'
  BY <1>1, <1>3 DEF EndInv, EndTypes
<1>5. DrainedInv'
  BY <1>1 DEF EndInv, DrainedInv
<1>6. CASE mConnected
  <2>1. Closing(t)' /\ closes = 0 /\ \A u \in Threads : ~Closing(u)
    <3>1. Closing(t)' /\ closes = 0
      BY <1>3, <1>6 DEF to, Closing, EndInv, CloserInv
    <3>2. \A u \in Threads : ~Closing(u)
      BY <1>6 DEF Closing, EndInv, DrainedInv, EndStatements
    <3> QED BY <3>1, <3>2
  <2>2. mPeer' \/ closes' = 1 \/ detachedEarly'
    BY <1>1 DEF EndInv, EndTypes, CloserInv
  <2> QED BY <1>1, <1>3, <1>4, <1>5, <2>1, <2>2 DEF EndInv, CloserInv
<1>7. CASE ~mConnected
  <2>1. ~Closing(t)' /\ ~Closing(t)
    BY <1>1, <1>3, <1>7 DEF to, Closing
  <2>2. \A u \in Threads : Closing(u)' <=> Closing(u)
    BY <1>3, <2>1
  <2>3. CloserInv'
    BY <1>1, <1>7, <2>2 DEF EndInv, CloserInv
  <2> QED BY <1>4, <1>5, <2>3 DEF EndInv
<1> QED BY <1>6, <1>7

LEMMA DrainKeeps ==
    ASSUME EndInv, NEW t \in Threads, DisconnectDrain(t)
    PROVE  EndInv'
<1>1. PICK to \in {"close", "detach", "idle"} :
          /\ pc' = [pc EXCEPT ![t] = to]
          /\ pc[t] \in {"drainAndClose", "drain"}
          /\ pc[t] = "drainAndClose" <=> to = "close"
  BY DEF DisconnectDrain, Goto
<1>2. /\ UNCHANGED <<mConnected, mPeer, closes, detachedEarly>>
      /\ mOutboundPackets' = <<>> /\ mInboundPackets' = <<>> /\ drained' = TRUE
  BY DEF DisconnectDrain
<1>3. to \in Statements /\ EndTypes
  BY DEF Statements, EndStatements, OtherStatements, EndInv
<1>4. /\ pc' \in [Threads -> Statements] /\ pc'[t] = to
      /\ \A u \in Threads \ {t} : pc'[u] = pc[u] /\ (Closing(u)' <=> Closing(u))
  BY <1>1, <1>3, Moves
<1>5. EndTypes'
  BY <1>2, <1>4 DEF EndInv, EndTypes
<1>6. ~mConnected
  BY <1>1 DEF EndInv, DrainedInv, EndStatements
<1>7. DrainedInv'
  BY <1>2, <1>6 DEF DrainedInv
<1>8. \A u \in Threads : Closing(u)' <=> Closing(u)
  BY <1>1, <1>4 DEF Closing
<1>9. CloserInv'
  BY <1>2, <1>8 DEF EndInv, CloserInv
<1> QED BY <1>5, <1>7, <1>9 DEF EndInv

LEMMA CloseKeeps ==
    ASSUME EndInv, NEW t \in Threads, DisconnectClose(t)
    PROVE  EndInv'
<1>1. PICK to \in {"detach", "idle"} : pc[t] = "close" /\ pc' = [pc EXCEPT ![t] = to]
  BY DEF DisconnectClose, Goto
<1>2. UNCHANGED <<mConnected, mPeer, drained, detachedEarly, mOutboundPackets, mInboundPackets>>
  BY DEF DisconnectClose, queues
<1>3. to \in Statements /\ EndTypes
  BY DEF Statements, OtherStatements, EndInv
<1>4. /\ pc' \in [Threads -> Statements] /\ pc'[t] = to
      /\ \A u \in Threads \ {t} : pc'[u] = pc[u] /\ (Closing(u)' <=> Closing(u))
  BY <1>1, <1>3, Moves
<1>5. ~mConnected /\ closes = 0 /\ Closing(t)
  BY <1>1 DEF EndInv, DrainedInv, CloserInv, EndStatements, Closing
<1>6. \A u \in Threads : ~Closing(u)'
  <2>1. ~Closing(t)'
    BY <1>4 DEF Closing
  <2>2. \A u \in Threads \ {t} : ~Closing(u)
    BY <1>5 DEF EndInv, CloserInv
  <2> QED BY <1>4, <2>1, <2>2
<1>7. CASE mPeer
  <2>1. closes' = 1
    BY <1>5, <1>7 DEF DisconnectClose
  <2> QED BY <1>2, <1>4, <1>5, <1>6, <2>1 DEF EndInv, EndTypes, DrainedInv, CloserInv
<1>8. CASE ~mPeer
  <2>1. closes' = 0 /\ detachedEarly
    BY <1>5, <1>8 DEF DisconnectClose, EndInv, CloserInv
  <2> QED BY <1>2, <1>4, <1>5, <1>6, <2>1 DEF EndInv, EndTypes, DrainedInv, CloserInv
<1> QED BY <1>7, <1>8

LEMMA DetachKeeps ==
    ASSUME EndInv, DetachPeer
    PROVE  EndInv'
<1>1. /\ Teardown \in Threads
      /\ pc[Teardown] = "detach" /\ pc' = [pc EXCEPT ![Teardown] = "done"]
      /\ mPeer' = FALSE /\ detachedEarly' = (closes = 0)
      /\ UNCHANGED <<mConnected, closes, drained, mOutboundPackets, mInboundPackets>>
  BY DEF DetachPeer, Goto, queues, Threads
<1>2. "done" \in Statements /\ EndTypes
  BY DEF Statements, OtherStatements, EndInv
<1>3. /\ pc' \in [Threads -> Statements] /\ pc'[Teardown] = "done"
      /\ \A u \in Threads \ {Teardown} : pc'[u] = pc[u] /\ (Closing(u)' <=> Closing(u))
  BY <1>1, <1>2, Moves
<1>4. \A u \in Threads : Closing(u)' <=> Closing(u)
  BY <1>1, <1>3 DEF Closing
<1>5. closes' = 1 \/ detachedEarly'
  BY <1>1 DEF EndInv, CloserInv
<1>6. EndTypes'
  BY <1>1, <1>3 DEF EndInv, EndTypes
<1>7. DrainedInv'
  <2>1. \A u \in Threads : pc'[u] \in EndStatements => pc[u] \in EndStatements
    BY <1>3 DEF EndStatements
  <2> QED BY <1>1, <2>1 DEF EndInv, DrainedInv
<1>8. CloserInv'
  BY <1>1, <1>4, <1>5 DEF EndInv, CloserInv
<1> QED BY <1>6, <1>7, <1>8 DEF EndInv

-----------------------------------------------------------------------------
LEMMA InitEnd == Init => EndInv
<1> SUFFICES ASSUME Init PROVE EndInv
  OBVIOUS
<1>1. EndTypes
  BY DEF Init, EndTypes, Statements, OtherStatements
<1>2. \A t \in Threads : pc[t] = "idle"
  BY DEF Init
<1>3. DrainedInv /\ CloserInv
  BY <1>2 DEF Init, DrainedInv, CloserInv, Closing, EndStatements
<1> QED BY <1>1, <1>3 DEF EndInv

LEMMA NextKeepsEnd == EndInv /\ [Next]_vars => EndInv'
<1> SUFFICES ASSUME EndInv, [Next]_vars PROVE EndInv'
  OBVIOUS
<1> USE DEF Threads
<1>1. CASE \E t \in Apps \union {Strand} :
              \/ QueuePacket(t) \/ ReceivePacket(t) \/ Flush(t) \/ SendPacketImmediately(t)
              \/ SendStep(t)
  BY <1>1, SendStepElsewhere, QueueStepElsewhere, ElsewhereKeeps
<1>2. CASE \E t \in Threads : DisconnectExchange(t) \/ DisconnectStep(t)
  BY <1>2, ExchangeKeeps, DrainKeeps, CloseKeeps DEF DisconnectStep
<1>3. CASE \/ \E mode \in Modes : QueueMarker(mode)
           \/ FlushPending \/ SetMode \/ EnqueueInboundPacket \/ Deliver
  BY <1>3, StrandStepElsewhere, ElsewhereKeeps
<1>4. CASE DetachPeer
  BY <1>4, DetachKeeps
<1>5. CASE UNCHANGED vars
  <2>1. Elsewhere(Strand)
    BY <1>5 DEF vars, queues, ends, Elsewhere
  <2> QED BY <2>1, ElsewhereKeeps
<1> QED BY <1>1, <1>2, <1>3, <1>4, <1>5 DEF Next, Step

(* Whoever queues, flushes, reads and disconnects at once: a session that  *)
(* was drained stays empty (Session.cpp:83-106, 380-421).                  *)
THEOREM DrainedStaysEmpty == Spec => []ClosedHoldsNothing
<1>1. EndInv => ClosedHoldsNothing
  BY DEF EndInv, DrainedInv, ClosedHoldsNothing
<1> QED BY <1>1, InitEnd, NextKeepsEnd, PTL DEF Spec

(* Of any number of disconnects at once one closes the connection, once;   *)
(* only a peer that was detached first leaves it open (Session.cpp:380-409)*)
THEOREM OneCloses == Spec => []ClosedOnce
<1>1. EndInv => ClosedOnce
  BY DEF EndInv, CloserInv, ClosedOnce, Closing
<1> QED BY <1>1, InitEnd, NextKeepsEnd, PTL DEF Spec
-----------------------------------------------------------------------------
(* What is queued, in work and on its way.                                 *)

Kinds == Modes \union {"queued", "immediate"}

Frames == [packets : Seq(Nat), compressed : BOOLEAN, counter : Int, place : Int]

RemoteStates == [modes : SUBSET Modes, counter : Nat, place : Nat]

(* s has packets among the first n.                                        *)
Known(n, s) == s \in Seq(Nat) /\ \A i \in DOMAIN s : s[i] \in 1..n

SendTypes ==
    /\ accepted \in Seq(Kinds)
    /\ Known(Len(accepted), mOutboundPackets)
    /\ batch \in [Threads -> Seq(Nat)]
    /\ \A t \in Threads : Known(Len(accepted), batch[t])
    /\ frame \in [Threads -> Frames]
    /\ wire \in Seq(Frames)
    /\ \A i \in DOMAIN wire : Known(Len(accepted), wire[i].packets)
    /\ Known(Len(accepted), delivered)
    /\ rejected \subseteq 1..Len(accepted)
    /\ mInboundPackets \in Seq({"packet"})
    /\ lock \in {None, Strand}
    /\ modes \subseteq Modes /\ switch \in Modes \union {None}
    /\ mEncryptCounter \in Nat /\ keyStream \in Nat
    /\ remote \in RemoteStates
    /\ link \in BOOLEAN

(* The thread has put its frame together and not handed it to RakNet.      *)
Loaded(t) == pc[t] \in {"checksum", "cipher", "send"}

(* A sender has a batch, and from LoadPeer on a frame of it; the strand    *)
(* that switches is in the call until it has set the mode.                 *)
SenderShape ==
    /\ \A t \in Threads : /\ Loaded(t) => frame[t].packets = batch[t]
                          /\ ~Loaded(t) => frame[t] = NoFrame
                          /\ ~Sending(t) => batch[t] = <<>>
    /\ pc[Strand] \in {"switch", "set"} => switch # None
    /\ switch # None => Sending(Strand) \/ pc[Strand] \in {"switch", "set"}
    /\ \A t \in Threads : pc[t] \in {"switch", "set"} => t = Strand
    /\ ~link => ~mConnected

SendInv == EndInv /\ SendTypes /\ SenderShape

-----------------------------------------------------------------------------
(* The steps by what they do to the packets.                               *)

QuietStatements == {"idle", "drain", "drainAndClose", "close", "detach", "done"}

Untouched ==
    UNCHANGED <<accepted, batch, frame, wire, delivered, rejected, remote, switch, modes,
                mEncryptCounter, keyStream, cipherFailed, lock>>

(* Nothing is sent; the session can only come closer to its end, and the   *)
(* queue is emptied only when it has come to it.                           *)
Quiet(t) ==
    /\ Untouched
    /\ mInboundPackets' \in Seq({"packet"})
    /\ \/ mOutboundPackets' = mOutboundPackets
       \/ mOutboundPackets' = <<>> /\ ~mConnected'
    /\ mConnected' => mConnected
    /\ mPeer' => mPeer
    /\ link' \in BOOLEAN /\ (link' => link) /\ (~link' => ~mConnected')
    /\ \/ pc' = pc
       \/ /\ pc[t] \in QuietStatements
          /\ \E to \in QuietStatements : pc' = [pc EXCEPT ![t] = to]

LEMMA QuietSteps ==
    ASSUME SendInv, NEW t \in Threads,
           \/ ReceivePacket(t) \/ EnqueueInboundPacket \/ DisconnectExchange(t)
           \/ DisconnectDrain(t) \/ DisconnectClose(t) \/ DetachPeer
    PROVE  \E u \in Threads : Quiet(u)
<1> USE DEF Quiet, Untouched, QuietStatements, Goto, queues, crypto, locals, far, ends
<1>0. /\ mConnected \in BOOLEAN /\ mPeer \in BOOLEAN /\ link \in BOOLEAN
      /\ mInboundPackets \in Seq({"packet"}) /\ (~link => ~mConnected)
      /\ \A u \in Threads : pc[u] \in EndStatements => ~mConnected
  BY DEF SendInv, EndInv, EndTypes, DrainedInv, SendTypes, SenderShape
<1>1. CASE ReceivePacket(t)
  <2>1. Tail(mInboundPackets) \in Seq({"packet"})
    BY <1>0, <1>1 DEF ReceivePacket
  <2> QED BY <1>0, <1>1, <2>1 DEF ReceivePacket
<1>2. CASE EnqueueInboundPacket
  <2>1. Append(mInboundPackets, "packet") \in Seq({"packet"})
    BY <1>0
  <2> QED BY <1>0, <1>2, <2>1 DEF EnqueueInboundPacket
<1>3. CASE DisconnectExchange(t)
  BY <1>0, <1>3 DEF DisconnectExchange
<1>4. CASE DisconnectDrain(t)
  <2>1. pc[t] \in {"drainAndClose", "drain"} /\ ~mConnected
    BY <1>0, <1>4 DEF DisconnectDrain, EndStatements
  <2>2. <<>> \in Seq({"packet"})
    OBVIOUS
  <2>3. PICK to \in {"close", "detach", "idle"} : pc' = [pc EXCEPT ![t] = to]
    BY <1>4 DEF DisconnectDrain
  <2> QED BY <1>0, <1>4, <2>1, <2>2, <2>3 DEF DisconnectDrain
<1>5. CASE DisconnectClose(t)
  <2>1. pc[t] = "close" /\ ~mConnected
    BY <1>0, <1>5 DEF DisconnectClose, EndStatements
  <2>2. PICK to \in {"detach", "idle"} : pc' = [pc EXCEPT ![t] = to]
    BY <1>5 DEF DisconnectClose
  <2>3. link' \in BOOLEAN /\ (link' => link) /\ ~mConnected'
    BY <1>0, <1>5, <2>1 DEF DisconnectClose
  <2> QED BY <1>0, <1>5, <2>1, <2>2, <2>3 DEF DisconnectClose
<1>6. CASE DetachPeer
  <2>1. Teardown \in Threads
    BY DEF Threads
  <2> QED BY <1>0, <1>6, <2>1 DEF DetachPeer
<1> QED BY <1>1, <1>2, <1>3, <1>4, <1>5, <1>6

LEMMA QuietShape ==
    ASSUME SendInv, NEW t \in Threads, Quiet(t)
    PROVE  SendTypes' /\ SenderShape'
<1>1. pc \in [Threads -> Statements] /\ Strand \in Threads
  BY DEF SendInv, EndInv, EndTypes, Threads
<1>2. \A u \in Threads : pc'[u] = pc[u] \/ (pc[u] \in QuietStatements /\ pc'[u] \in QuietStatements)
  BY <1>1 DEF Quiet
<1>3. \A u \in Threads : /\ Loaded(u)' <=> Loaded(u)
                         /\ Sending(u)' <=> Sending(u)
                         /\ pc'[u] \in {"switch", "set"} <=> pc[u] \in {"switch", "set"}
  BY <1>2 DEF Loaded, Sending, QuietStatements
<1>4. Known(Len(accepted), <<>>)
  BY DEF Known
<1>5. SendTypes'
  BY <1>4 DEF SendInv, SendTypes, Quiet, Untouched
<1>6. SenderShape'
  BY <1>1, <1>3 DEF SendInv, SenderShape, Quiet, Untouched
<1> QED BY <1>5, <1>6

-----------------------------------------------------------------------------
(* The shape of a state, action by action.                                 *)

(* Packets stay known when more are accepted.                              *)
LEMMA KnownGrows ==
    ASSUME NEW n \in Nat, NEW k \in Nat, k >= n, NEW s, Known(n, s)
    PROVE  Known(k, s)
BY DEF Known

LEMMA AcceptMore ==
    ASSUME SendTypes, NEW kind \in Kinds, accepted' = Append(accepted, kind)
    PROVE  /\ accepted' \in Seq(Kinds)
           /\ Len(accepted) \in Nat /\ Len(accepted') = Len(accepted) + 1
           /\ accepted'[Len(accepted) + 1] = kind
           /\ \A n \in 1..Len(accepted) : accepted'[n] = accepted[n]
           /\ \A s : Known(Len(accepted), s) => Known(Len(accepted'), s)
           /\ NewPacket = Len(accepted) + 1
<1>1. accepted \in Seq(Kinds)
  BY DEF SendTypes
<1>2. /\ accepted' \in Seq(Kinds)
      /\ Len(accepted) \in Nat /\ Len(accepted') = Len(accepted) + 1
      /\ accepted'[Len(accepted) + 1] = kind
      /\ \A n \in 1..Len(accepted) : accepted'[n] = accepted[n]
  BY <1>1
<1>3. \A s : Known(Len(accepted), s) => Known(Len(accepted'), s)
  BY <1>2, KnownGrows
<1> QED BY <1>2, <1>3 DEF NewPacket

(* A packet is queued; its sender stays where it is, or is the strand that *)
(* begins to switch.                                                       *)
Enqueues(kind) ==
    /\ kind \in Kinds
    /\ mConnected
    /\ accepted' = Append(accepted, kind)
    /\ mOutboundPackets' = Append(mOutboundPackets, Len(accepted) + 1)
    /\ UNCHANGED <<mInboundPackets, lock, modes, mEncryptCounter, keyStream, mEncryptCtx,
                   cipherFailed, wire, batch, frame, remote, delivered, rejected,
                   mPeer, mConnected, link, closes, drained, detachedEarly>>

LEMMA QueueSteps ==
    /\ \A t \in Threads : QueuePacket(t) => Enqueues("queued") /\ UNCHANGED <<pc, switch>>
    /\ \A mode \in Modes : QueueMarker(mode) =>
          /\ Enqueues(mode)
          /\ pc[Strand] = "idle" /\ pc' = [pc EXCEPT ![Strand] = "switch"]
          /\ switch' = mode
BY DEF QueuePacket, QueueMarker, SendPacket, Enqueues, Kinds, Goto, NewPacket, locals, far,
       crypto, ends

LEMMA EnqueueShape ==
    ASSUME SendInv, NEW kind, Enqueues(kind),
           \/ UNCHANGED <<pc, switch>>
           \/ /\ pc[Strand] = "idle" /\ pc' = [pc EXCEPT ![Strand] = "switch"]
              /\ switch' \in Modes
    PROVE  SendTypes' /\ SenderShape'
<1>1. /\ SendTypes /\ SenderShape /\ pc \in [Threads -> Statements] /\ Strand \in Threads
  BY DEF SendInv, EndInv, EndTypes, Threads
<1>2. kind \in Kinds /\ accepted' = Append(accepted, kind)
  BY DEF Enqueues
<1>3. /\ accepted' \in Seq(Kinds)
      /\ Len(accepted) \in Nat /\ Len(accepted') = Len(accepted) + 1
      /\ \A s : Known(Len(accepted), s) => Known(Len(accepted'), s)
  BY <1>1, <1>2, AcceptMore
<1>4. Known(Len(accepted'), mOutboundPackets')
  BY <1>1, <1>3 DEF Enqueues, SendTypes, Known
<1>5. SendTypes'
  BY <1>1, <1>3, <1>4 DEF SendTypes, Enqueues
<1>6. \A t \in Threads : (Loaded(t)' <=> Loaded(t)) /\ (Sending(t)' <=> Sending(t))
  BY <1>1 DEF Loaded, Sending
<1>7. \A m \in Modes : m # None
  BY DEF Modes, None
<1>8. SenderShape'
  <2>1. CASE UNCHANGED <<pc, switch>>
    BY <1>1, <1>6, <2>1 DEF SenderShape, Enqueues
  <2>2. CASE /\ pc[Strand] = "idle" /\ pc' = [pc EXCEPT ![Strand] = "switch"]
             /\ switch' \in Modes
    BY <1>1, <1>6, <1>7, <2>2 DEF SenderShape, Enqueues
  <2> QED BY <2>1, <2>2
<1> QED BY <1>5, <1>8

(* A thread gets a batch.                                                  *)
Begins(t, packets) ==
    /\ pc[t] \in {"idle", "switch"} /\ pc' = [pc EXCEPT ![t] = "load"]
    /\ batch' = [batch EXCEPT ![t] = packets]
    /\ UNCHANGED <<mInboundPackets, frame, switch, modes, mEncryptCounter, keyStream,
                   mEncryptCtx, cipherFailed, wire, remote, delivered, rejected,
                   mPeer, mConnected, link, closes, drained, detachedEarly>>

LEMMA BeginShape ==
    ASSUME SendInv, NEW t \in Threads, NEW packets, Begins(t, packets),
           pc[t] = "idle" \/ t = Strand,
           lock' \in {None, Strand},
           accepted' \in Seq(Kinds),
           \A s : Known(Len(accepted), s) => Known(Len(accepted'), s),
           Known(Len(accepted'), packets),
           Known(Len(accepted'), mOutboundPackets'),
           rejected \subseteq 1..Len(accepted')
    PROVE  SendTypes' /\ SenderShape'
<1>1. /\ SendTypes /\ SenderShape /\ pc \in [Threads -> Statements] /\ Strand \in Threads
  BY DEF SendInv, EndInv, EndTypes, Threads
<1>2. batch' \in [Threads -> Seq(Nat)]
  BY <1>1 DEF SendTypes, Begins, Known
<1>3. \A u \in Threads : Known(Len(accepted'), batch'[u])
  BY <1>1 DEF SendTypes, Begins
<1>4. SendTypes'
  BY <1>1, <1>2, <1>3 DEF SendTypes, Begins
<1>5. /\ pc'[t] = "load" /\ ~Loaded(t)' /\ ~Loaded(t) /\ Sending(t)'
      /\ \A u \in Threads \ {t} : /\ pc'[u] = pc[u] /\ batch'[u] = batch[u]
                                  /\ Loaded(u)' <=> Loaded(u)
                                  /\ Sending(u)' <=> Sending(u)
  BY <1>1 DEF Loaded, Sending, Begins, SendTypes
<1>6. SenderShape'
  BY <1>1, <1>5 DEF SenderShape, Begins
<1> QED BY <1>4, <1>6

LEMMA TakeSteps ==
    ASSUME SendInv, NEW t \in Threads,
           Flush(t) \/ (t = Strand /\ FlushPending /\ CanFlush)
    PROVE  /\ Begins(t, mOutboundPackets) /\ CanFlush
           /\ mOutboundPackets' = <<>> /\ accepted' = accepted
           /\ pc[t] = "idle" \/ t = Strand
           /\ lock' \in {None, Strand}
<1> USE DEF Begins, Goto, CanFlush, far, crypto, ends
<1>1. CASE Flush(t)
  BY <1>1 DEF Flush
<1>2. CASE t = Strand /\ FlushPending /\ CanFlush
  BY <1>2 DEF FlushPending
<1> QED BY <1>1, <1>2

LEMMA TakeShape ==
    ASSUME SendInv, NEW t \in Threads,
           Flush(t) \/ (t = Strand /\ FlushPending /\ CanFlush)
    PROVE  SendTypes' /\ SenderShape'
<1>1. /\ Begins(t, mOutboundPackets) /\ mOutboundPackets' = <<>> /\ accepted' = accepted
      /\ pc[t] = "idle" \/ t = Strand
      /\ lock' \in {None, Strand}
  BY TakeSteps
<1>2. /\ Known(Len(accepted), mOutboundPackets) /\ accepted \in Seq(Kinds)
      /\ rejected \subseteq 1..Len(accepted) /\ Known(Len(accepted), <<>>)
  BY DEF SendInv, SendTypes, Known
<1> QED BY <1>1, <1>2, BeginShape

LEMMA ImmediateSteps ==
    ASSUME NEW t \in Threads, SendPacketImmediately(t)
    PROVE  /\ Begins(t, <<Len(accepted) + 1>>) /\ pc[t] = "idle"
           /\ accepted' = Append(accepted, "immediate")
           /\ UNCHANGED <<mOutboundPackets, lock>>
BY DEF SendPacketImmediately, Begins, Goto, queues, crypto, far, ends, NewPacket

LEMMA ImmediateShape ==
    ASSUME SendInv, NEW t \in Threads, SendPacketImmediately(t)
    PROVE  SendTypes' /\ SenderShape'
<1>1. /\ Begins(t, <<Len(accepted) + 1>>) /\ pc[t] = "idle"
      /\ accepted' = Append(accepted, "immediate")
      /\ UNCHANGED <<mOutboundPackets, lock>>
  BY ImmediateSteps
<1>2. SendTypes /\ "immediate" \in Kinds
  BY DEF SendInv, Kinds
<1>3. /\ accepted' \in Seq(Kinds)
      /\ Len(accepted) \in Nat /\ Len(accepted') = Len(accepted) + 1
      /\ \A s : Known(Len(accepted), s) => Known(Len(accepted'), s)
  BY <1>1, <1>2, AcceptMore
<1>4. Known(Len(accepted'), <<Len(accepted) + 1>>)
  BY <1>3 DEF Known
<1>5. /\ Known(Len(accepted'), mOutboundPackets') /\ lock' \in {None, Strand}
      /\ rejected \subseteq 1..Len(accepted')
  BY <1>1, <1>2, <1>3 DEF SendTypes
<1> QED BY <1>1, <1>3, <1>4, <1>5, BeginShape

-----------------------------------------------------------------------------
(* Sending, statement by statement.                                        *)

(* The frame is put together.                                              *)
Loads(t) ==
    /\ pc[t] = "load" /\ pc' = [pc EXCEPT ![t] = "checksum"]
    /\ mPeer /\ mConnected
    /\ frame' \in [Threads -> Frames]
    /\ frame'[t].packets = batch[t] /\ frame'[t].counter = -1
    /\ frame'[t].compressed <=> "compressed" \in modes
    /\ \A u \in Threads \ {t} : frame'[u] = frame[u]
    /\ UNCHANGED <<mOutboundPackets, mInboundPackets, modes, mEncryptCounter, keyStream,
                   cipherFailed, wire, batch, switch, lock, accepted, remote, delivered,
                   rejected, mPeer, mConnected, link>>

(* The sender has sent, or dropped, what it had.                           *)
Finishes(t) ==
    /\ pc' = [pc EXCEPT ![t] = IF t = Strand /\ switch # None THEN "set" ELSE "idle"]
    /\ batch' = [batch EXCEPT ![t] = <<>>]
    /\ frame' = [frame EXCEPT ![t] = NoFrame]
    /\ lock' = IF lock = t THEN None ELSE lock
    /\ UNCHANGED <<mOutboundPackets, mInboundPackets, modes, mEncryptCounter, keyStream,
                   switch, accepted, remote, delivered, rejected, mPeer, mConnected, link>>

(* The frame goes through the checksum or the cipher.                      *)
Encrypts(t, from, to, f) ==
    /\ pc[t] = from /\ pc' = [pc EXCEPT ![t] = to]
    /\ frame' \in [Threads -> Frames]
    /\ frame'[t] = f
    /\ \A u \in Threads \ {t} : frame'[u] = frame[u]
    /\ UNCHANGED <<mOutboundPackets, mInboundPackets, modes, cipherFailed, wire, batch, switch,
                   lock, accepted, remote, delivered, rejected, mPeer, mConnected, link>>

LEMMA NoFrameIsFrame == NoFrame \in Frames
BY DEF NoFrame, Frames

LEMMA FrameWith ==
    ASSUME NEW f \in Frames, NEW n \in Nat
    PROVE  /\ [f EXCEPT !.counter = n] \in Frames /\ [f EXCEPT !.place = n] \in Frames
           /\ [f EXCEPT !.counter = n].packets = f.packets
           /\ [f EXCEPT !.place = n].packets = f.packets
<1>1. /\ [f EXCEPT !.counter = n] \in Frames
      /\ [f EXCEPT !.counter = n].packets = f.packets
  BY SMTT(30) DEF Frames
<1>2. /\ [f EXCEPT !.place = n] \in Frames
      /\ [f EXCEPT !.place = n].packets = f.packets
  BY SMTT(30) DEF Frames
<1> QED BY <1>1, <1>2

LEMMA LoadSteps ==
    ASSUME SendInv, NEW t \in Threads, LoadPeer(t)
    PROVE  \/ Loads(t)
           \/ /\ Finishes(t) /\ pc[t] = "load" /\ ~(mPeer /\ mConnected)
              /\ UNCHANGED <<wire, cipherFailed>>
<1> USE DEF Goto, queues, crypto, far, ends
<1>1. /\ frame \in [Threads -> Frames] /\ Known(Len(accepted), batch[t])
      /\ pc[t] = "load" => frame[t] = NoFrame
  BY DEF SendInv, SendTypes, SenderShape, Loaded
<1>2. CASE mPeer /\ mConnected
  <2>1. /\ pc[t] = "load" /\ pc' = [pc EXCEPT ![t] = "checksum"]
        /\ frame' = [frame EXCEPT ![t].packets = batch[t],
                                  ![t].compressed = "compressed" \in modes]
        /\ UNCHANGED <<lock, batch, switch>>
    BY <1>2 DEF LoadPeer
  <2>2. \A u \in Threads \ {t} : frame'[u] = frame[u]
    BY <1>1, <2>1
  <2>3. /\ frame'[t] \in Frames /\ frame'[t].packets = batch[t] /\ frame'[t].counter = -1
        /\ frame'[t].compressed <=> "compressed" \in modes
    <3>1. PICK s \in Seq(Nat) : s = batch[t]
      BY <1>1 DEF Known
    <3>2. PICK c \in BOOLEAN : c <=> "compressed" \in modes
      BY Zenon
    <3>3. ("compressed" \in modes) = c
      BY <3>2, Zenon
    <3>4. PICK f \in Frames : f = NoFrame
      BY NoFrameIsFrame
    <3>5. [f EXCEPT !.packets = s, !.compressed = c] \in Frames
      BY DEF Frames
    <3>6. frame'[t].packets = s /\ frame'[t].counter = -1 /\ frame'[t].compressed = c
      BY <1>1, <2>1, <3>1, <3>3 DEF NoFrame
    <3>7. frame'[t] = [f EXCEPT !.packets = s, !.compressed = c]
      BY <1>1, <2>1, <3>1, <3>3, <3>4
    <3>8. frame'[t].compressed <=> "compressed" \in modes
      <4>1. CASE c = TRUE
        BY <3>2, <3>6, <4>1
      <4>2. CASE c = FALSE
        BY <3>2, <3>6, <4>2
      <4> QED BY <4>1, <4>2
    <3> QED BY <3>1, <3>5, <3>6, <3>7, <3>8
  <2>4. frame' \in [Threads -> Frames]
    BY <1>1, <2>1, <2>2, <2>3
  <2> QED BY <1>2, <2>1, <2>2, <2>3, <2>4 DEF LoadPeer, Loads
<1>3. CASE ~(mPeer /\ mConnected)
  BY <1>3 DEF LoadPeer, DoneSending, Finishes
<1> QED BY <1>2, <1>3

LEMMA ChecksumSteps ==
    ASSUME SendInv, NEW t \in Threads, Checksum(t)
    PROVE  /\ keyStream' = keyStream
           /\ \/ /\ "encrypted" \in modes
                 /\ Encrypts(t, "checksum", "cipher", [frame[t] EXCEPT !.counter = mEncryptCounter])
                 /\ mEncryptCounter' = mEncryptCounter + 1
              \/ /\ "encrypted" \notin modes
                 /\ Encrypts(t, "checksum", "send", frame[t])
                 /\ mEncryptCounter' = mEncryptCounter
<1> USE DEF Goto, queues, far, ends
<1>1. frame \in [Threads -> Frames] /\ frame[t] \in Frames /\ mEncryptCounter \in Nat
  BY DEF SendInv, SendTypes
<1>2. CASE "encrypted" \in modes
  <2>1. frame' = [frame EXCEPT ![t].counter = mEncryptCounter]
    BY <1>2 DEF Checksum
  <2>2. [frame[t] EXCEPT !.counter = mEncryptCounter] \in Frames
    BY <1>1, FrameWith
  <2>3. /\ frame'[t] = [frame[t] EXCEPT !.counter = mEncryptCounter]
        /\ \A u \in Threads \ {t} : frame'[u] = frame[u]
        /\ frame' \in [Threads -> Frames]
    BY <1>1, <2>1, <2>2
  <2> QED BY <1>2, <2>3 DEF Checksum, Encrypts
<1>3. CASE "encrypted" \notin modes
  BY <1>1, <1>3 DEF Checksum, Encrypts
<1> QED BY <1>2, <1>3

LEMMA CipherSteps ==
    ASSUME SendInv, NEW t \in Threads, Cipher(t)
    PROVE  /\ Encrypts(t, "cipher", "send", [frame[t] EXCEPT !.place = keyStream])
           /\ mEncryptCounter' = mEncryptCounter /\ keyStream' = keyStream + 1
<1> USE DEF Goto, queues, far, ends
<1>1. frame \in [Threads -> Frames] /\ frame[t] \in Frames /\ keyStream \in Nat
  BY DEF SendInv, SendTypes
<1>2. frame' = [frame EXCEPT ![t].place = keyStream]
  BY DEF Cipher
<1>3. [frame[t] EXCEPT !.place = keyStream] \in Frames
  BY <1>1, FrameWith
<1>4. /\ frame'[t] = [frame[t] EXCEPT !.place = keyStream]
      /\ \A u \in Threads \ {t} : frame'[u] = frame[u]
      /\ frame' \in [Threads -> Frames]
  BY <1>1, <1>2, <1>3
<1> QED BY <1>4 DEF Cipher, Encrypts

LEMMA FinishSteps ==
    ASSUME SendInv, NEW t \in Threads
    PROVE  /\ CipherFails(t) => Finishes(t) /\ pc[t] = "cipher" /\ cipherFailed' /\ wire' = wire
           /\ SendFrame(t) => /\ Finishes(t) /\ pc[t] = "send" /\ cipherFailed' = cipherFailed
                              /\ wire' = IF link THEN Append(wire, frame[t]) ELSE wire
BY DEF CipherFails, SendFrame, DoneSending, Goto, Finishes, queues, crypto, far, ends

LEMMA LoadShape ==
    ASSUME SendInv, NEW t \in Threads, Loads(t)
    PROVE  SendTypes' /\ SenderShape'
<1>1. /\ SendTypes /\ SenderShape /\ pc \in [Threads -> Statements] /\ Strand \in Threads
  BY DEF SendInv, EndInv, EndTypes, Threads
<1>2. SendTypes'
  BY <1>1 DEF Loads, SendTypes
<1>3. /\ pc'[t] = "checksum" /\ Loaded(t)' /\ Sending(t)' /\ Sending(t)
      /\ \A u \in Threads \ {t} : /\ pc'[u] = pc[u]
                                  /\ Loaded(u)' <=> Loaded(u)
                                  /\ Sending(u)' <=> Sending(u)
  BY <1>1 DEF Loaded, Sending, Loads
<1>4. SenderShape'
  BY <1>1, <1>3 DEF SenderShape, Loads
<1> QED BY <1>2, <1>4

LEMMA EncryptShape ==
    ASSUME SendInv, NEW t \in Threads, NEW from \in {"checksum", "cipher"},
           NEW to \in {"cipher", "send"}, NEW f, Encrypts(t, from, to, f),
           f.packets = frame[t].packets, mEncryptCounter' \in Nat, keyStream' \in Nat
    PROVE  SendTypes' /\ SenderShape'
<1>1. /\ SendTypes /\ SenderShape /\ pc \in [Threads -> Statements] /\ Strand \in Threads
  BY DEF SendInv, EndInv, EndTypes, Threads
<1>2. SendTypes'
  BY <1>1 DEF Encrypts, SendTypes
<1>3. /\ pc'[t] = to /\ Loaded(t)' /\ Loaded(t) /\ Sending(t)' /\ Sending(t)
      /\ \A u \in Threads \ {t} : /\ pc'[u] = pc[u]
                                  /\ Loaded(u)' <=> Loaded(u)
                                  /\ Sending(u)' <=> Sending(u)
  BY <1>1 DEF Loaded, Sending, Encrypts
<1>4. SenderShape'
  BY <1>1, <1>3 DEF SenderShape, Encrypts
<1> QED BY <1>2, <1>4

LEMMA FinishShape ==
    ASSUME SendInv, NEW t \in Threads, Finishes(t), Sending(t),
           wire' = wire \/ (Loaded(t) /\ wire' = Append(wire, frame[t]))
    PROVE  SendTypes' /\ SenderShape'
<1>1. /\ SendTypes /\ SenderShape /\ pc \in [Threads -> Statements] /\ Strand \in Threads
  BY DEF SendInv, EndInv, EndTypes, Threads
<1>2. wire' \in Seq(Frames) /\ \A i \in DOMAIN wire' : Known(Len(accepted), wire'[i].packets)
  <2>1. CASE wire' = wire
    BY <1>1, <2>1 DEF SendTypes
  <2>2. CASE Loaded(t) /\ wire' = Append(wire, frame[t])
    <3>1. frame[t] \in Frames /\ Known(Len(accepted), frame[t].packets)
      BY <1>1, <2>2 DEF SendTypes, SenderShape
    <3> QED BY <1>1, <2>2, <3>1 DEF SendTypes
  <2> QED BY <2>1, <2>2
<1>3. Known(Len(accepted), <<>>)
  BY DEF Known
<1>4. frame' \in [Threads -> Frames]
  BY <1>1, NoFrameIsFrame DEF Finishes, SendTypes
<1>5. SendTypes'
  BY <1>1, <1>2, <1>3, <1>4 DEF Finishes, SendTypes
<1>6. /\ pc'[t] \in {"idle", "set"} /\ ~Loaded(t)' /\ ~Sending(t)'
      /\ pc'[t] = "set" <=> t = Strand /\ switch # None
      /\ \A u \in Threads \ {t} : /\ pc'[u] = pc[u]
                                  /\ Loaded(u)' <=> Loaded(u)
                                  /\ Sending(u)' <=> Sending(u)
  BY <1>1 DEF Loaded, Sending, Finishes
<1>7. /\ frame'[t] = NoFrame /\ batch'[t] = <<>>
      /\ \A u \in Threads \ {t} : frame'[u] = frame[u] /\ batch'[u] = batch[u]
  BY <1>1 DEF Finishes, SendTypes
<1>8. SenderShape'
  BY <1>1, <1>6, <1>7 DEF SenderShape, Finishes
<1> QED BY <1>5, <1>8

-----------------------------------------------------------------------------
(* The strand changes the mode, and the remote reads.                      *)

(* Nothing to flush, or no way to: on to set the mode.                     *)
Skips ==
    /\ ~CanFlush
    /\ pc[Strand] = "switch" /\ pc' = [pc EXCEPT ![Strand] = "set"]
    /\ UNCHANGED <<mOutboundPackets, mInboundPackets, lock, modes, mEncryptCounter, keyStream,
                   cipherFailed, wire, batch, frame, switch, accepted, remote, delivered,
                   rejected, mPeer, mConnected, link>>

Sets ==
    /\ pc[Strand] = "set" /\ pc' = [pc EXCEPT ![Strand] = "idle"]
    /\ modes' = modes \union {switch} /\ switch' = None
    /\ UNCHANGED <<mOutboundPackets, mInboundPackets, lock, mEncryptCounter, keyStream,
                   cipherFailed, wire, batch, frame, accepted, remote, delivered, rejected,
                   mPeer, mConnected, link>>

LEMMA SwitchSteps ==
    /\ FlushPending /\ ~CanFlush => Skips
    /\ SetMode => Sets
BY DEF FlushPending, SetMode, Skips, Sets, Goto, far, ends, crypto, queues

LEMMA SwitchShape ==
    ASSUME SendInv, Skips \/ Sets
    PROVE  SendTypes' /\ SenderShape'
<1>1. /\ SendTypes /\ SenderShape /\ pc \in [Threads -> Statements] /\ Strand \in Threads
  BY DEF SendInv, EndInv, EndTypes, Threads
<1>2. SendTypes'
  BY <1>1 DEF Skips, Sets, SendTypes, SenderShape
<1>3. /\ \A t \in Threads : (Loaded(t)' <=> Loaded(t)) /\ (Sending(t)' <=> Sending(t))
      /\ ~Sending(Strand)
      /\ \A t \in Threads \ {Strand} : pc'[t] = pc[t]
  BY <1>1 DEF Loaded, Sending, Skips, Sets
<1>4. CASE Skips
  BY <1>1, <1>2, <1>3, <1>4 DEF SenderShape, Skips
<1>5. CASE Sets
  BY <1>1, <1>2, <1>3, <1>5 DEF SenderShape, Sets
<1> QED BY <1>4, <1>5

(* A frame is taken off the wire and read, or not.                         *)
MarkersOf(a, s) == {a[n] : n \in Range(s)} \intersect Modes

CanRead(r, f) ==
    /\ f.compressed <=> "compressed" \in r.modes
    /\ IF "encrypted" \in r.modes THEN f.counter = r.counter /\ f.place = r.place
       ELSE f.counter = -1

StepOf(r) == IF "encrypted" \in r.modes THEN 1 ELSE 0

AfterReading(a, r, f) ==
    [modes   |-> r.modes \union MarkersOf(a, f.packets),
     counter |-> r.counter + StepOf(r),
     place   |-> r.place + StepOf(r)]

Reads(f) ==
    /\ wire # <<>> /\ f = Head(wire) /\ wire' = Tail(wire)
    /\ \/ /\ CanRead(remote, f) /\ remote' = AfterReading(accepted, remote, f)
          /\ delivered' = delivered \o f.packets /\ rejected' = rejected
       \/ /\ ~CanRead(remote, f)
          /\ remote' = [modes   |-> remote.modes,
                        counter |-> remote.counter + StepOf(remote),
                        place   |-> remote.place + StepOf(remote)]
          /\ rejected' = rejected \union Range(f.packets) /\ delivered' = delivered
    /\ UNCHANGED <<mOutboundPackets, mInboundPackets, lock, modes, mEncryptCounter, keyStream,
                   cipherFailed, batch, frame, switch, accepted, pc, mPeer, mConnected, link>>

LEMMA DeliverSteps == SendInv /\ Deliver => \E f \in Frames : Reads(f)
<1> SUFFICES ASSUME SendInv, Deliver PROVE \E f \in Frames : Reads(f)
  OBVIOUS
<1>1. wire \in Seq(Frames) /\ wire # <<>> /\ remote \in RemoteStates
  BY DEF SendInv, SendTypes, Deliver
<1>2. PICK f \in Frames : f = Head(wire)
  BY <1>1
<1>3. /\ Readable(f) <=> CanRead(remote, f)
      /\ Markers(f) = MarkersOf(accepted, f.packets)
  BY DEF Readable, CanRead, Markers, MarkersOf
<1>4. /\ wire' = Tail(wire)
      /\ remote' = [modes   |-> remote.modes \union (IF Readable(f) THEN Markers(f) ELSE {}),
                    counter |-> remote.counter + StepOf(remote),
                    place   |-> remote.place + StepOf(remote)]
      /\ IF Readable(f)
         THEN delivered' = delivered \o f.packets /\ UNCHANGED rejected
         ELSE rejected' = rejected \union Range(f.packets) /\ UNCHANGED delivered
  BY <1>2 DEF Deliver, StepOf
<1>5. UNCHANGED <<mOutboundPackets, mInboundPackets, lock, modes, mEncryptCounter, keyStream,
                  cipherFailed, batch, frame, switch, accepted, pc, mPeer, mConnected, link>>
  BY DEF Deliver, queues, crypto, locals, ends
<1>6. CASE CanRead(remote, f)
  <2>1. remote' = AfterReading(accepted, remote, f)
    BY <1>3, <1>4, <1>6 DEF AfterReading
  <2>2. delivered' = delivered \o f.packets /\ rejected' = rejected
    BY <1>3, <1>4, <1>6
  <2> QED BY <1>1, <1>2, <1>4, <1>5, <1>6, <2>1, <2>2 DEF Reads
<1>7. CASE ~CanRead(remote, f)
  <2>1. remote' = [modes   |-> remote.modes,
                   counter |-> remote.counter + StepOf(remote),
                   place   |-> remote.place + StepOf(remote)]
    BY <1>3, <1>4, <1>7
  <2>2. rejected' = rejected \union Range(f.packets) /\ delivered' = delivered
    BY <1>3, <1>4, <1>7
  <2> QED BY <1>1, <1>2, <1>4, <1>5, <1>7, <2>1, <2>2 DEF Reads
<1> QED BY <1>6, <1>7

LEMMA RemoteStays ==
    ASSUME NEW a, NEW r \in RemoteStates, NEW f
    PROVE  AfterReading(a, r, f) \in RemoteStates
<1>1. StepOf(r) \in Nat /\ r.modes \union MarkersOf(a, f.packets) \subseteq Modes
  BY DEF StepOf, MarkersOf, RemoteStates
<1> QED BY <1>1 DEF AfterReading, RemoteStates

LEMMA KnownJoined ==
    ASSUME NEW n \in Nat, NEW s, NEW u, Known(n, s), Known(n, u)
    PROVE  Known(n, s \o u)
BY DEF Known

LEMMA ReadShape ==
    ASSUME SendInv, NEW f \in Frames, Reads(f)
    PROVE  SendTypes' /\ SenderShape'
<1>1. SendTypes /\ SenderShape
  BY DEF SendInv
<1>2. /\ wire' \in Seq(Frames)
      /\ Known(Len(accepted), f.packets)
      /\ \A i \in DOMAIN wire' : Known(Len(accepted), wire'[i].packets)
  <2>1. /\ wire \in Seq(Frames) /\ wire # <<>> /\ wire' = Tail(wire)
        /\ f = wire[1] /\ 1 \in DOMAIN wire
    BY <1>1 DEF SendTypes, Reads
  <2>2. \A i \in DOMAIN wire' : i + 1 \in DOMAIN wire /\ wire'[i] = wire[i + 1]
    BY <2>1
  <2> QED BY <1>1, <2>1, <2>2 DEF SendTypes
<1>3. Len(accepted) \in Nat
  BY <1>1 DEF SendTypes
<1>4. remote' \in RemoteStates
  <2>1. StepOf(remote) \in Nat
    BY DEF StepOf
  <2>2. [modes   |-> remote.modes, counter |-> remote.counter + StepOf(remote),
         place |-> remote.place + StepOf(remote)] \in RemoteStates
    BY <1>1, <2>1 DEF SendTypes, RemoteStates
  <2> QED BY <1>1, <2>2, RemoteStays DEF Reads, SendTypes
<1>5. Range(f.packets) \subseteq 1..Len(accepted)
  BY <1>2 DEF Known, Range
<1>6. Known(Len(accepted), delivered')
  BY <1>1, <1>2, <1>3, KnownJoined DEF Reads, SendTypes
<1>7. rejected' \subseteq 1..Len(accepted)
  BY <1>1, <1>5 DEF Reads, SendTypes
<1>8. SendTypes'
  BY <1>1, <1>2, <1>4, <1>6, <1>7 DEF Reads, SendTypes
<1>9. SenderShape'
  BY <1>1 DEF Reads, SenderShape, Loaded, Sending
<1> QED BY <1>8, <1>9

-----------------------------------------------------------------------------
(* What a step of the session does to the packets.                         *)
Effect ==
    \/ \E t \in Threads : Quiet(t)
    \/ Enqueues("queued") /\ UNCHANGED <<pc, switch>>
    \/ \E mode \in Modes : QueueMarker(mode)
    \/ \E t \in Threads : Flush(t) \/ (t = Strand /\ FlushPending /\ CanFlush)
    \/ \E t \in Threads : SendPacketImmediately(t)
    \/ \E t \in Threads : LoadPeer(t)
    \/ \E t \in Threads : Checksum(t)
    \/ \E t \in Threads : Cipher(t)
    \/ \E t \in Threads : CipherFails(t)
    \/ \E t \in Threads : SendFrame(t)
    \/ Skips
    \/ Sets
    \/ \E f \in Frames : Reads(f)

LEMMA StepEffect == SendInv /\ [Next]_vars => Effect
<1> SUFFICES ASSUME SendInv, [Next]_vars PROVE Effect
  OBVIOUS
<1>0. Strand \in Threads /\ Apps \union {Strand} \subseteq Threads
  BY DEF Threads
<1>1. CASE \E t \in Apps \union {Strand} : SendStep(t)
  BY <1>0, <1>1 DEF SendStep, Effect
<1>2. CASE \E t \in Apps \union {Strand} : QueuePacket(t) \/ Flush(t) \/ SendPacketImmediately(t)
  BY <1>0, <1>2, QueueSteps DEF Effect
<1>3. CASE \E t \in Apps \union {Strand} : ReceivePacket(t)
  BY <1>0, <1>3, QuietSteps DEF Effect
<1>4. CASE \E t \in Threads : DisconnectExchange(t) \/ DisconnectStep(t)
  BY <1>4, QuietSteps DEF Effect, DisconnectStep
<1>5. CASE (\E mode \in Modes : QueueMarker(mode)) \/ FlushPending \/ SetMode
  BY <1>0, <1>5, SwitchSteps DEF Effect
<1>6. CASE EnqueueInboundPacket \/ DetachPeer
  BY <1>0, <1>6, QuietSteps DEF Effect
<1>7. CASE Deliver
  BY <1>7, DeliverSteps DEF Effect
<1>8. CASE UNCHANGED vars
  <2>1. Quiet(Strand)
    BY <1>8 DEF vars, queues, crypto, locals, far, ends, Quiet, Untouched, SendInv, SendTypes,
                SenderShape
  <2> QED BY <1>0, <2>1 DEF Effect
<1> QED BY <1>1, <1>2, <1>3, <1>4, <1>5, <1>6, <1>7, <1>8 DEF Next, Step

LEMMA InitSend == Init => SendInv
<1> SUFFICES ASSUME Init PROVE SendInv
  OBVIOUS
<1>1. EndInv
  BY InitEnd
<1>2. \A n : Known(n, <<>>)
  BY DEF Known
<1>3. SendTypes
  BY <1>2, NoFrameIsFrame DEF Init, SendTypes, RemoteStates, Threads
<1>4. SenderShape
  BY DEF Init, SenderShape, Loaded, Sending, Threads, None
<1> QED BY <1>1, <1>3, <1>4 DEF SendInv

LEMMA NextKeepsSend == SendInv /\ [Next]_vars => SendInv'
<1> SUFFICES ASSUME SendInv, [Next]_vars PROVE SendInv'
  OBVIOUS
<1>0. Strand \in Threads
  BY DEF Threads
<1>1. EndInv'
  BY NextKeepsEnd DEF SendInv
<1>2. CASE \E t \in Threads : Quiet(t)
  BY <1>1, <1>2, QuietShape DEF SendInv
<1>3. CASE Enqueues("queued") /\ UNCHANGED <<pc, switch>>
  BY <1>1, <1>3, EnqueueShape DEF SendInv
<1>4. CASE \E mode \in Modes : QueueMarker(mode)
  <2>1. PICK mode \in Modes : QueueMarker(mode)
    BY <1>4
  <2>2. /\ Enqueues(mode)
        /\ pc[Strand] = "idle" /\ pc' = [pc EXCEPT ![Strand] = "switch"]
        /\ switch' = mode
    BY <2>1, QueueSteps
  <2>3. SendTypes' /\ SenderShape'
    BY <2>2, EnqueueShape
  <2> QED BY <1>1, <2>3 DEF SendInv
<1>5. CASE \E t \in Threads : Flush(t) \/ (t = Strand /\ FlushPending /\ CanFlush)
  BY <1>1, <1>5, TakeShape DEF SendInv
<1>6. CASE \E t \in Threads : SendPacketImmediately(t)
  BY <1>1, <1>6, ImmediateShape DEF SendInv
<1>7. CASE \E t \in Threads : LoadPeer(t)
  <2>1. PICK t \in Threads : LoadPeer(t)
    BY <1>7
  <2>2. CASE Loads(t)
    BY <1>1, <2>2, LoadShape DEF SendInv
  <2>3. CASE Finishes(t) /\ pc[t] = "load" /\ UNCHANGED <<wire, cipherFailed>>
    BY <1>1, <2>3, FinishShape DEF SendInv, Sending
  <2> QED BY <2>1, <2>2, <2>3, LoadSteps
<1>8. CASE \E t \in Threads : Checksum(t)
  <2>1. PICK t \in Threads : Checksum(t)
    BY <1>8
  <2>2. frame[t] \in Frames /\ mEncryptCounter \in Nat /\ keyStream \in Nat
    BY DEF SendInv, SendTypes
  <2>3. [frame[t] EXCEPT !.counter = mEncryptCounter].packets = frame[t].packets
    BY <2>2, FrameWith
  <2>4. mEncryptCounter' \in Nat /\ keyStream' \in Nat
    BY <2>1, <2>2 DEF Checksum
  <2>5. PICK to \in {"cipher", "send"} : \E f :
            Encrypts(t, "checksum", to, f) /\ f.packets = frame[t].packets
    BY <2>1, <2>3, ChecksumSteps
  <2>7. PICK f : Encrypts(t, "checksum", to, f) /\ f.packets = frame[t].packets
    BY <2>5
  <2>6. SendTypes' /\ SenderShape'
    BY <2>4, <2>5, <2>7, EncryptShape
  <2> QED BY <1>1, <2>6 DEF SendInv
<1>9. CASE \E t \in Threads : Cipher(t)
  <2>1. PICK t \in Threads : Cipher(t)
    BY <1>9
  <2>2. frame[t] \in Frames /\ mEncryptCounter \in Nat /\ keyStream \in Nat
    BY DEF SendInv, SendTypes
  <2>3. [frame[t] EXCEPT !.place = keyStream].packets = frame[t].packets
    BY <2>2, FrameWith
  <2>4. PICK f : Encrypts(t, "cipher", "send", f) /\ f.packets = frame[t].packets
    BY <2>1, <2>3, CipherSteps
  <2>5. mEncryptCounter' \in Nat /\ keyStream' \in Nat
    BY <2>1, <2>2 DEF Cipher
  <2>6. SendTypes' /\ SenderShape'
    BY <2>4, <2>5, EncryptShape
  <2> QED BY <1>1, <2>6 DEF SendInv
<1>10. CASE \E t \in Threads : CipherFails(t) \/ SendFrame(t)
  <2>1. PICK t \in Threads : CipherFails(t) \/ SendFrame(t)
    BY <1>10
  <2>2. SendTypes' /\ SenderShape'
    BY <2>1, FinishSteps, FinishShape DEF Sending, Loaded
  <2> QED BY <1>1, <2>2 DEF SendInv
<1>11. CASE Skips \/ Sets
  BY <1>1, <1>11, SwitchShape DEF SendInv
<1>12. CASE \E f \in Frames : Reads(f)
  BY <1>1, <1>12, ReadShape DEF SendInv
<1> QED
  BY StepEffect, <1>2, <1>3, <1>4, <1>5, <1>6, <1>7, <1>8, <1>9, <1>10, <1>11, <1>12 DEF Effect

(* Every variable of the session has its type (Session.hpp), and whatever  *)
(* is queued, in work, on its way or read is a packet that was accepted.   *)
THEOREM TypeCorrect == Spec => []TypeOK
<1>1. ASSUME NEW n \in Nat, NEW s, Known(n, s) PROVE s \in Seq(1..n)
  BY <1>1 DEF Known
<1>2. SendInv => TypeOK
  <2> SUFFICES ASSUME SendInv PROVE TypeOK
    OBVIOUS
  <2>1. SendTypes /\ EndTypes /\ Len(accepted) \in Nat
    BY DEF SendInv, EndInv, SendTypes
  <2>2. /\ mOutboundPackets \in Seq(Packets) /\ delivered \in Seq(Packets)
        /\ \A t \in Threads : batch[t] \in Seq(Packets)
    BY <1>1, <2>1 DEF SendTypes, Packets
  <2> QED BY <2>1, <2>2 DEF SendTypes, EndTypes, TypeOK, Packets, RemoteStates, Kinds
<1> QED BY <1>2, InitSend, NextKeepsSend, PTL DEF Spec

-----------------------------------------------------------------------------
(* Markers.  As long as no two threads sent at once, the marker of the     *)
(* mode the strand is switching to is in the queue, and after the flush    *)
(* in the batch of the strand, and no other packet is a marker.            *)
Alive == mConnected /\ mPeer

InBatch(t)  == IF t = Strand /\ switch # None THEN {switch} ELSE {}
InQueue     == IF pc[Strand] = "switch" THEN {switch} ELSE {}

SwitchInv ==
    ~raced =>
        /\ ~Overlap
        /\ \A t \in Threads : Sending(t) => MarkersOf(accepted, batch[t]) = InBatch(t)
        /\ Alive => MarkersOf(accepted, mOutboundPackets) = InQueue

LEMMA NoMarkers == ASSUME NEW a PROVE MarkersOf(a, <<>>) = {}
BY DEF MarkersOf, Range

LEMMA MarkersStay ==
    ASSUME NEW n, NEW s, Known(n, s), NEW a, NEW b, \A i \in 1..n : b[i] = a[i]
    PROVE  MarkersOf(b, s) = MarkersOf(a, s)
<1>1. \A i \in DOMAIN s : b[s[i]] = a[s[i]]
  BY DEF Known
<1>2. {b[m] : m \in Range(s)} = {a[m] : m \in Range(s)}
  BY <1>1 DEF Range
<1> QED BY <1>2 DEF MarkersOf

LEMMA MarkersAppended ==
    ASSUME NEW s \in Seq(Nat), NEW n \in Nat, NEW a
    PROVE  MarkersOf(a, Append(s, n)) = MarkersOf(a, s) \union ({a[n]} \intersect Modes)
<1>1. Range(Append(s, n)) = Range(s) \union {n}
  <2>1. PICK u : u = Append(s, n)
    OBVIOUS
  <2>2. /\ DOMAIN u = 1..(Len(s) + 1) /\ DOMAIN s = 1..Len(s) /\ Len(s) \in Nat
        /\ u[Len(s) + 1] = n /\ \A i \in 1..Len(s) : u[i] = s[i]
    BY <2>1
  <2>3. ASSUME NEW x PROVE x \in Range(u) <=> x \in Range(s) \/ x = n
    BY <2>2 DEF Range
  <2> QED BY <2>1, <2>3
<1>2. {a[m] : m \in Range(s) \union {n}} = {a[m] : m \in Range(s)} \union {a[n]}
  OBVIOUS
<1> QED BY <1>1, <1>2 DEF MarkersOf

LEMMA MarkersOfOne ==
    ASSUME NEW n, NEW a PROVE MarkersOf(a, <<n>>) = {a[n]} \intersect Modes
<1>1. Range(<<n>>) = {n}
  BY DEF Range
<1> QED BY <1>1 DEF MarkersOf

(* More packets are accepted: those that are anywhere keep their markers.  *)
LEMMA AcceptKeepsMarkers ==
    ASSUME SendInv, NEW kind \in Kinds, accepted' = Append(accepted, kind)
    PROVE  /\ \A t \in Threads : MarkersOf(accepted', batch[t]) = MarkersOf(accepted, batch[t])
           /\ MarkersOf(accepted', mOutboundPackets) = MarkersOf(accepted, mOutboundPackets)
           /\ MarkersOf(accepted', Append(mOutboundPackets, Len(accepted) + 1))
                = MarkersOf(accepted, mOutboundPackets) \union ({kind} \intersect Modes)
           /\ MarkersOf(accepted', <<Len(accepted) + 1>>) = {kind} \intersect Modes
<1>1. PICK a, b, n : a = accepted /\ b = accepted' /\ n = Len(accepted)
  OBVIOUS
<1>2. SendTypes
  BY DEF SendInv
<1>3. /\ n \in Nat /\ b[n + 1] = kind
      /\ \A i \in 1..n : b[i] = a[i]
  BY <1>1, <1>2, AcceptMore
<1>4. /\ Known(n, mOutboundPackets) /\ mOutboundPackets \in Seq(Nat)
      /\ \A t \in Threads : Known(n, batch[t])
  BY <1>1, <1>2 DEF SendTypes, Known
<1>5. /\ \A t \in Threads : MarkersOf(b, batch[t]) = MarkersOf(a, batch[t])
      /\ MarkersOf(b, mOutboundPackets) = MarkersOf(a, mOutboundPackets)
  BY <1>3, <1>4, MarkersStay
<1>6. MarkersOf(b, Append(mOutboundPackets, n + 1)) =
          MarkersOf(b, mOutboundPackets) \union ({b[n + 1]} \intersect Modes)
  BY <1>3, <1>4, MarkersAppended
<1>7. MarkersOf(b, <<n + 1>>) = {b[n + 1]} \intersect Modes
  BY MarkersOfOne
<1> QED BY <1>1, <1>3, <1>5, <1>6, <1>7

(* Not two at once, when nothing was raced.                                *)
LEMMA Alone ==
    ASSUME SendInv, ~Overlap, NEW t \in Threads, Sending(t)
    PROVE  /\ \A u \in Threads \ {t} : ~Sending(u) /\ ~Loaded(u)
           /\ t # Strand => switch = None /\ pc[Strand] \notin {"switch", "set"}
<1>1. Strand \in Threads
  BY DEF Threads
<1>2. \A u \in Threads : Loaded(u) => Sending(u)
  BY DEF Loaded, Sending
<1> QED BY <1>1, <1>2 DEF SendInv, SenderShape, Overlap

(* Who sends, and whether the strand switches, is the same.                *)
LEMMA SwitchFrame ==
    ASSUME SendInv, SwitchInv, ~raced, ~Overlap',
           UNCHANGED <<accepted, batch, switch>>,
           \A t \in Threads : Sending(t)' => Sending(t),
           pc'[Strand] = "switch" <=> pc[Strand] = "switch",
           Alive' => Alive /\ mOutboundPackets' = mOutboundPackets
    PROVE  SwitchInv'
<1>1. \A t \in Threads : Sending(t)' => MarkersOf(accepted', batch'[t]) = InBatch(t)'
  BY DEF SwitchInv, InBatch
<1>2. Alive' => MarkersOf(accepted', mOutboundPackets') = InQueue'
  BY DEF SwitchInv, InQueue
<1> QED BY <1>1, <1>2 DEF SwitchInv

LEMMA SwitchEnqueue ==
    ASSUME SendInv, SwitchInv, ~raced, ~Overlap', NEW kind, Enqueues(kind),
           \/ kind = "queued" /\ UNCHANGED <<pc, switch>>
           \/ /\ kind \in Modes
              /\ pc[Strand] = "idle" /\ pc' = [pc EXCEPT ![Strand] = "switch"]
              /\ switch' = kind
    PROVE  SwitchInv'
<1>0. pc \in [Threads -> Statements] /\ Strand \in Threads /\ SenderShape
  BY DEF SendInv, EndInv, EndTypes, Threads
<1>1. /\ kind \in Kinds /\ accepted' = Append(accepted, kind) /\ batch' = batch
      /\ mOutboundPackets' = Append(mOutboundPackets, Len(accepted) + 1)
      /\ Alive' = Alive
  BY DEF Enqueues, Alive
<1>2. /\ \A t \in Threads : MarkersOf(accepted', batch'[t]) = MarkersOf(accepted, batch[t])
      /\ MarkersOf(accepted', mOutboundPackets')
            = MarkersOf(accepted, mOutboundPackets) \union ({kind} \intersect Modes)
  BY <1>1, AcceptKeepsMarkers
<1>3. \A t \in Threads : Sending(t)' => Sending(t) /\ InBatch(t)' = InBatch(t)
  BY <1>0 DEF Sending, InBatch, SenderShape
<1>4. Alive' => MarkersOf(accepted', mOutboundPackets') = InQueue'
  <2>1. CASE kind = "queued" /\ UNCHANGED <<pc, switch>>
    <3>1. {kind} \intersect Modes = {}
      BY <2>1 DEF Modes
    <3> QED BY <1>1, <1>2, <2>1, <3>1 DEF SwitchInv, InQueue
  <2>2. CASE /\ kind \in Modes
             /\ pc[Strand] = "idle" /\ pc' = [pc EXCEPT ![Strand] = "switch"]
             /\ switch' = kind
    <3>1. InQueue = {} /\ InQueue' = {kind} /\ {kind} \intersect Modes = {kind}
      BY <1>0, <2>2 DEF InQueue
    <3> QED BY <1>1, <1>2, <3>1 DEF SwitchInv
  <2> QED BY <2>1, <2>2
<1>5. \A t \in Threads : Sending(t)' => MarkersOf(accepted', batch'[t]) = InBatch(t)'
  BY <1>2, <1>3 DEF SwitchInv
<1> QED BY <1>4, <1>5 DEF SwitchInv

LEMMA SwitchBegin ==
    ASSUME SendInv, SwitchInv, ~raced, ~Overlap', NEW t \in Threads, NEW packets,
           Begins(t, packets),
           MarkersOf(accepted', packets) = InBatch(t)',
           \A u \in Threads : MarkersOf(accepted', batch[u]) = MarkersOf(accepted, batch[u]),
           Alive' => MarkersOf(accepted', mOutboundPackets') = InQueue'
    PROVE  SwitchInv'
<1>1. batch \in [Threads -> Seq(Nat)] /\ pc \in [Threads -> Statements]
  BY DEF SendInv, SendTypes, EndInv, EndTypes
<1>2. /\ batch'[t] = packets
      /\ \A u \in Threads \ {t} : /\ batch'[u] = batch[u] /\ (Sending(u)' <=> Sending(u))
                                  /\ InBatch(u)' = InBatch(u)
  BY <1>1 DEF Begins, Sending, InBatch
<1>3. ASSUME NEW u \in Threads, Sending(u)'
      PROVE  MarkersOf(accepted', batch'[u]) = InBatch(u)'
  <2>1. CASE u = t
    BY <1>2, <2>1
  <2>2. CASE u # t
    BY <1>2, <1>3, <2>2 DEF SwitchInv
  <2> QED BY <2>1, <2>2
<1> QED BY <1>3 DEF SwitchInv

LEMMA SwitchTake ==
    ASSUME SendInv, SwitchInv, ~raced, ~Overlap', NEW t \in Threads,
           Flush(t) \/ (t = Strand /\ FlushPending /\ CanFlush)
    PROVE  SwitchInv'
<1>0. pc \in [Threads -> Statements] /\ Strand \in Threads /\ SenderShape /\ SendInv'
  <2>1. SendTypes' /\ SenderShape'
    BY TakeShape
  <2>2. Elsewhere(t)
    BY QueueStepElsewhere, StrandStepElsewhere
  <2> QED BY <2>1, <2>2, ElsewhereKeeps DEF SendInv, EndInv, EndTypes, Threads
<1>1. /\ Begins(t, mOutboundPackets) /\ CanFlush
      /\ mOutboundPackets' = <<>> /\ accepted' = accepted
      /\ pc[t] = "idle" \/ t = Strand
  BY TakeSteps
<1>2. /\ Alive /\ pc'[t] = "load" /\ Sending(t)' /\ switch' = switch
      /\ \A u \in Threads \ {t} : pc'[u] = pc[u]
  BY <1>0, <1>1 DEF CanFlush, Alive, Begins, Sending
<1>3. t # Strand => switch' = None /\ pc'[Strand] \notin {"switch", "set"}
  <2>1. pc'[Strand] \in {"switch", "set"} => switch' # None
    BY <1>0 DEF SendInv, SenderShape
  <2>2. t # Strand => switch' = None
    BY <1>0, <1>2 DEF Overlap
  <2> QED BY <2>1, <2>2
<1>4. MarkersOf(accepted, mOutboundPackets) = InBatch(t)'
  <2>1. InQueue = InBatch(t)'
    <3>1. CASE t # Strand
      BY <1>0, <1>2, <1>3, <3>1 DEF InQueue, InBatch
    <3>2. CASE t = Strand /\ pc[t] = "switch"
      BY <1>0, <1>2, <3>2 DEF InQueue, InBatch, SenderShape
    <3>3. CASE t = Strand /\ pc[t] = "idle"
      BY <1>0, <1>2, <3>3 DEF InQueue, InBatch, SenderShape, Sending
    <3> QED BY <1>1, <3>1, <3>2, <3>3 DEF Begins
  <2> QED BY <1>2, <2>1 DEF SwitchInv
<1>5. MarkersOf(accepted', mOutboundPackets') = InQueue'
  <2>1. InQueue' = {}
    BY <1>2, <1>3 DEF InQueue
  <2>2. MarkersOf(accepted', <<>>) = {}
    BY NoMarkers
  <2> QED BY <1>1, <2>1, <2>2
<1> QED BY <1>1, <1>4, <1>5, SwitchBegin

LEMMA SwitchImmediate ==
    ASSUME SendInv, SwitchInv, ~raced, ~Overlap', NEW t \in Threads, SendPacketImmediately(t)
    PROVE  SwitchInv'
<1>0. pc \in [Threads -> Statements] /\ Strand \in Threads /\ SenderShape
  BY DEF SendInv, EndInv, EndTypes, Threads
<1>1. /\ Begins(t, <<Len(accepted) + 1>>) /\ pc[t] = "idle"
      /\ accepted' = Append(accepted, "immediate")
      /\ UNCHANGED <<mOutboundPackets, lock>>
  BY ImmediateSteps
<1>2. "immediate" \in Kinds /\ {"immediate"} \intersect Modes = {}
  BY DEF Kinds, Modes
<1>3. /\ \A u \in Threads : MarkersOf(accepted', batch[u]) = MarkersOf(accepted, batch[u])
      /\ MarkersOf(accepted', mOutboundPackets) = MarkersOf(accepted, mOutboundPackets)
      /\ MarkersOf(accepted', <<Len(accepted) + 1>>) = {}
  BY <1>1, <1>2, AcceptKeepsMarkers
<1>4. InBatch(t)' = {}
  BY <1>0, <1>1 DEF InBatch, Begins, SenderShape, Sending
<1>5. InQueue' = InQueue /\ Alive' = Alive
  BY <1>0, <1>1 DEF InQueue, Begins, Alive
<1>6. Alive' => MarkersOf(accepted', mOutboundPackets') = InQueue'
  BY <1>1, <1>3, <1>5 DEF SwitchInv
<1> QED BY <1>1, <1>3, <1>4, <1>6, SwitchBegin

LEMMA SwitchSkip ==
    ASSUME SendInv, SwitchInv, ~raced, ~Overlap', Skips
    PROVE  SwitchInv' /\ ~Alive
<1>0. pc \in [Threads -> Statements] /\ Strand \in Threads /\ SenderShape
  BY DEF SendInv, EndInv, EndTypes, Threads
<1>1. ~Alive
  <2> SUFFICES ASSUME Alive PROVE FALSE
    OBVIOUS
  <2>1. mOutboundPackets = <<>>
    BY DEF Skips, CanFlush, Alive
  <2>2. MarkersOf(accepted, <<>>) = {} /\ MarkersOf(accepted, mOutboundPackets) = {switch}
    BY NoMarkers DEF SwitchInv, InQueue, Skips
  <2> QED BY <2>1, <2>2
<1>2. Alive' = Alive
  BY DEF Skips, Alive
<1>3. \A t \in Threads : Sending(t)' => Sending(t) /\ InBatch(t)' = InBatch(t)
  BY <1>0 DEF Sending, Skips, InBatch
<1>4. UNCHANGED <<batch, accepted>>
  BY DEF Skips
<1> QED BY <1>1, <1>2, <1>3, <1>4 DEF SwitchInv

LEMMA SwitchSet ==
    ASSUME SendInv, SwitchInv, ~raced, ~Overlap', Sets
    PROVE  SwitchInv'
<1>0. pc \in [Threads -> Statements] /\ Strand \in Threads /\ SenderShape
  BY DEF SendInv, EndInv, EndTypes, Threads
<1>1. \A t \in Threads : Sending(t)' => Sending(t) /\ InBatch(t)' = InBatch(t)
  BY <1>0 DEF Sending, Sets, InBatch
<1>2. InQueue' = InQueue
  BY <1>0 DEF InQueue, Sets
<1>3. UNCHANGED <<batch, accepted, mOutboundPackets>> /\ Alive' = Alive
  BY DEF Sets, Alive
<1> QED BY <1>1, <1>2, <1>3 DEF SwitchInv

-----------------------------------------------------------------------------
(* What the remote will be when it has read what is on the wire: a course  *)
(* of states, one for every frame and one behind the last.                 *)
Course(a, w, r, e) ==
    /\ e \in [1..(Len(w) + 1) -> RemoteStates]
    /\ e[1] = r
    /\ \A i \in 1..Len(w) : CanRead(e[i], w[i]) /\ e[i + 1] = AfterReading(a, e[i], w[i])

Leads(a, w, r, last) == \E e : Course(a, w, r, e) /\ e[Len(w) + 1] = last

LEMMA CourseEmpty ==
    ASSUME NEW a, NEW r \in RemoteStates PROVE Leads(a, <<>>, r, r)
<1>1. PICK e : e = [i \in 1..1 |-> r]
  OBVIOUS
<1>2. Course(a, <<>>, r, e) /\ e[1] = r
  BY <1>1 DEF Course
<1>3. Len(<<>>) + 1 = 1
  OBVIOUS
<1> QED BY <1>2, <1>3 DEF Leads

LEMMA CourseAccepts ==
    ASSUME NEW n, NEW a, NEW b, \A i \in 1..n : b[i] = a[i],
           NEW w \in Seq(Frames), \A i \in 1..Len(w) : Known(n, w[i].packets),
           NEW r, NEW last, Leads(a, w, r, last)
    PROVE  Leads(b, w, r, last)
<1>1. PICK e : Course(a, w, r, e) /\ e[Len(w) + 1] = last
  BY DEF Leads
<1>2. \A i \in 1..Len(w) : MarkersOf(b, w[i].packets) = MarkersOf(a, w[i].packets)
  BY MarkersStay
<1>3. \A i \in 1..Len(w) : AfterReading(b, e[i], w[i]) = AfterReading(a, e[i], w[i])
  BY <1>2 DEF AfterReading
<1>4. Course(b, w, r, e)
  BY <1>1, <1>3 DEF Course
<1> QED BY <1>1, <1>4 DEF Leads

LEMMA CourseAppend ==
    ASSUME NEW a, NEW w \in Seq(Frames), NEW r, NEW last, Leads(a, w, r, last),
           NEW f \in Frames, CanRead(last, f)
    PROVE  Leads(a, Append(w, f), r, AfterReading(a, last, f))
<1>1. PICK e : Course(a, w, r, e) /\ e[Len(w) + 1] = last
  BY DEF Leads
<1>2. PICK n \in Nat : n = Len(w)
  OBVIOUS
<1>3. e \in [1..(n + 1) -> RemoteStates] /\ last \in RemoteStates
  BY <1>1, <1>2 DEF Course
<1>4. PICK next \in RemoteStates : next = AfterReading(a, last, f)
  BY <1>3, RemoteStays
<1>5. PICK g : g = [i \in 1..(n + 2) |-> IF i = n + 2 THEN next ELSE e[i]]
  OBVIOUS
<1>6. PICK v : v = Append(w, f)
  OBVIOUS
<1>7. /\ Len(v) = n + 1 /\ v[n + 1] = f /\ \A i \in 1..n : v[i] = w[i]
  BY <1>2, <1>6
<1>8. /\ g \in [1..(n + 2) -> RemoteStates]
      /\ g[n + 2] = next /\ \A i \in 1..(n + 1) : g[i] = e[i]
  BY <1>3, <1>5
<1>9. \A i \in 1..(n + 1) : CanRead(g[i], v[i]) /\ g[i + 1] = AfterReading(a, g[i], v[i])
  <2> SUFFICES ASSUME NEW i \in 1..(n + 1)
               PROVE  CanRead(g[i], v[i]) /\ g[i + 1] = AfterReading(a, g[i], v[i])
    OBVIOUS
  <2>1. CASE i = n + 1
    <3>1. g[i] = last /\ v[i] = f /\ g[i + 1] = next
      BY <1>1, <1>2, <1>7, <1>8, <2>1
    <3> QED BY <1>4, <3>1
  <2>2. CASE i # n + 1
    <3>1. i \in 1..n /\ g[i] = e[i] /\ v[i] = w[i] /\ g[i + 1] = e[i + 1]
      BY <1>7, <1>8, <2>2
    <3> QED BY <1>1, <1>2, <3>1 DEF Course
  <2> QED BY <2>1, <2>2
<1>10. g[1] = r
  BY <1>1, <1>8 DEF Course
<1>11. Course(a, v, r, g) /\ g[Len(v) + 1] = next
  BY <1>7, <1>8, <1>9, <1>10 DEF Course
<1> QED BY <1>4, <1>6, <1>11 DEF Leads

LEMMA CourseTail ==
    ASSUME NEW a, NEW w \in Seq(Frames), w # <<>>, NEW r, NEW last, Leads(a, w, r, last)
    PROVE  /\ CanRead(r, Head(w))
           /\ Leads(a, Tail(w), AfterReading(a, r, Head(w)), last)
<1>1. PICK e : Course(a, w, r, e) /\ e[Len(w) + 1] = last
  BY DEF Leads
<1>2. PICK n \in Nat : n = Len(w)
  OBVIOUS
<1>3. n >= 1 /\ Head(w) = w[1]
  BY <1>2
<1>4. CanRead(r, w[1]) /\ e[2] = AfterReading(a, r, w[1])
  BY <1>1, <1>2, <1>3 DEF Course
<1>5. PICK v : v = Tail(w)
  OBVIOUS
<1>6. Len(v) = n - 1 /\ \A i \in 1..(n - 1) : v[i] = w[i + 1]
  BY <1>2, <1>3, <1>5
<1>7. PICK g : g = [i \in 1..n |-> e[i + 1]]
  OBVIOUS
<1>8. e \in [1..(n + 1) -> RemoteStates] /\ e[n + 1] = last
  BY <1>1, <1>2 DEF Course
<1>9. /\ g \in [1..n -> RemoteStates] /\ g[1] = e[2] /\ g[n] = last
      /\ \A i \in 1..(n - 1) : g[i] = e[i + 1] /\ g[i + 1] = e[i + 1 + 1]
  BY <1>3, <1>7, <1>8
<1>10. \A i \in 1..(n - 1) : CanRead(g[i], v[i]) /\ g[i + 1] = AfterReading(a, g[i], v[i])
  <2> SUFFICES ASSUME NEW i \in 1..(n - 1)
               PROVE  CanRead(g[i], v[i]) /\ g[i + 1] = AfterReading(a, g[i], v[i])
    OBVIOUS
  <2>1. PICK j \in 1..n : j = i + 1
    OBVIOUS
  <2>2. CanRead(e[j], w[j]) /\ e[j + 1] = AfterReading(a, e[j], w[j])
    BY <1>1, <1>2 DEF Course
  <2>3. g[i] = e[j] /\ v[i] = w[j] /\ g[i + 1] = e[j + 1]
    BY <1>6, <1>9, <2>1
  <2> QED BY <2>2, <2>3
<1>11. Course(a, v, e[2], g) /\ g[Len(v) + 1] = last
  <2>1. Len(v) + 1 = n
    BY <1>6
  <2> QED BY <1>6, <1>9, <1>10, <2>1 DEF Course
<1> QED BY <1>3, <1>4, <1>5, <1>11 DEF Leads

-----------------------------------------------------------------------------
(* The state of the remote behind the last frame, and the state of the     *)
(* sender, agree: on the mode, the counter and the place in the key stream *)
InStep(r) == r.counter = mEncryptCounter /\ r.place = keyStream

(* A frame in work is one the remote will be able to read.                 *)
Agrees(r, t) ==
    /\ r.modes = modes
    /\ frame[t].compressed <=> "compressed" \in modes
    /\ pc[t] = "checksum" => frame[t].counter = -1 /\ InStep(r)
    /\ pc[t] = "cipher" => /\ "encrypted" \in modes
                           /\ frame[t].counter = r.counter
                           /\ mEncryptCounter = r.counter + 1
                           /\ keyStream = r.place
    /\ pc[t] = "send" =>
          IF "encrypted" \in modes
          THEN /\ frame[t].counter = r.counter /\ mEncryptCounter = r.counter + 1
               /\ frame[t].place = r.place /\ keyStream = r.place + 1
          ELSE frame[t].counter = -1 /\ InStep(r)

(* Between two frames the remote is in the mode of the sender, or in the   *)
(* one the sender is about to set; a session that is not alive starts no   *)
(* frame any more.                                                         *)
NextModes == IF pc[Strand] = "set" THEN modes \union {switch} ELSE modes

Between(r) ==
    Alive /\ (\A t \in Threads : ~Loaded(t)) => InStep(r) /\ r.modes = NextModes

AgreeInv(r) ==
    link => Between(r) /\ \A t \in Threads : Loaded(t) => Agrees(r, t)

Reading ==
    /\ rejected = {}
    /\ \E r \in RemoteStates : Leads(accepted, wire, remote, r) /\ AgreeInv(r)

ReadInv == raced \/ cipherFailed \/ Reading

-----------------------------------------------------------------------------
(* What the remote reads, step by step.                                    *)
AgreeKept == \A r \in RemoteStates : AgreeInv(r) => AgreeInv(r)'

Grows == accepted' = accepted \/ \E kind \in Kinds : accepted' = Append(accepted, kind)

LEMMA ReadFrame ==
    ASSUME SendInv, Reading, Grows, UNCHANGED <<rejected, wire, remote>>, AgreeKept
    PROVE  Reading'
<1>1. PICK r \in RemoteStates : Leads(accepted, wire, remote, r) /\ AgreeInv(r)
  BY DEF Reading
<1>2. PICK a, b, n, w, s : /\ a = accepted /\ b = accepted' /\ n = Len(accepted)
                           /\ w = wire /\ s = remote
  OBVIOUS
<1>3. SendTypes
  BY DEF SendInv
<1>4. \A i \in 1..n : b[i] = a[i]
  <2>1. CASE accepted' = accepted
    BY <1>2, <2>1
  <2>2. CASE \E kind \in Kinds : accepted' = Append(accepted, kind)
    BY <1>2, <1>3, <2>2, AcceptMore
  <2> QED BY <2>1, <2>2 DEF Grows
<1>5. w \in Seq(Frames) /\ \A i \in 1..Len(w) : Known(n, w[i].packets)
  BY <1>2, <1>3 DEF SendTypes
<1>6. Leads(b, w, s, r)
  BY <1>1, <1>2, <1>4, <1>5, CourseAccepts
<1>7. Leads(accepted', wire', remote', r)
  BY <1>2, <1>6
<1>8. AgreeInv(r)'
  BY <1>1 DEF AgreeKept
<1> QED BY <1>1, <1>7, <1>8 DEF Reading

(* Steps that leave the senders and the mode alone.                        *)
LEMMA AgreeFrame ==
    ASSUME SendInv,
           UNCHANGED <<modes, switch, mEncryptCounter, keyStream, frame>>,
           Alive' => Alive, link' => link,
           \A t \in Threads : /\ Loaded(t)' <=> Loaded(t)
                              /\ Loaded(t) => pc'[t] = pc[t],
           pc'[Strand] = "set" <=> pc[Strand] = "set"
    PROVE  AgreeKept
<1> SUFFICES ASSUME NEW r \in RemoteStates, AgreeInv(r), link' PROVE AgreeInv(r)'
  BY DEF AgreeKept, AgreeInv
<1>1. ASSUME NEW t \in Threads, Loaded(t)' PROVE Agrees(r, t)'
  <2>1. Agrees(r, t) /\ pc'[t] = pc[t]
    BY <1>1 DEF AgreeInv
  <2> QED BY <2>1 DEF Agrees, InStep
<1>2. Between(r)'
  <2>1. Between(r)
    BY DEF AgreeInv
  <2> QED BY <2>1 DEF Between, InStep, NextModes
<1> QED BY <1>1, <1>2 DEF AgreeInv

LEMMA AgreeQuiet ==
    ASSUME SendInv, NEW t \in Threads, Quiet(t)
    PROVE  AgreeKept
<1>1. pc \in [Threads -> Statements] /\ Strand \in Threads
  BY DEF SendInv, EndInv, EndTypes, Threads
<1>2. \A u \in Threads : pc'[u] = pc[u] \/ (pc[u] \in QuietStatements /\ pc'[u] \in QuietStatements)
  BY <1>1 DEF Quiet
<1>3. /\ \A u \in Threads : (Loaded(u)' <=> Loaded(u)) /\ (Loaded(u) => pc'[u] = pc[u])
      /\ pc'[Strand] = "set" <=> pc[Strand] = "set"
  BY <1>1, <1>2 DEF Loaded, QuietStatements
<1>4. (Alive' => Alive) /\ (link' => link)
  BY DEF Quiet, Alive
<1> QED BY <1>3, <1>4, AgreeFrame DEF Quiet, Untouched

(* The strand, or a thread that begins to send, is between frames before   *)
(* and after.                                                              *)
LEMMA AgreeEnqueue ==
    ASSUME SendInv, NEW kind, Enqueues(kind),
           \/ UNCHANGED <<pc, switch>>
           \/ /\ pc[Strand] = "idle" /\ pc' = [pc EXCEPT ![Strand] = "switch"]
    PROVE  AgreeKept
<1>1. pc \in [Threads -> Statements] /\ Strand \in Threads
  BY DEF SendInv, EndInv, EndTypes, Threads
<1>2. /\ \A u \in Threads : (Loaded(u)' <=> Loaded(u)) /\ (Loaded(u) => pc'[u] = pc[u])
      /\ pc'[Strand] = "set" <=> pc[Strand] = "set"
  BY <1>1 DEF Loaded
<1>3. pc'[Strand] = "set" => switch' = switch
  BY <1>1
<1>4. UNCHANGED <<modes, mEncryptCounter, keyStream, frame, mConnected, mPeer, link>>
  BY DEF Enqueues
<1> SUFFICES ASSUME NEW r \in RemoteStates, AgreeInv(r), link' PROVE AgreeInv(r)'
  BY DEF AgreeKept, AgreeInv
<1>5. ASSUME NEW t \in Threads, Loaded(t)' PROVE Agrees(r, t)'
  <2>1. Agrees(r, t) /\ pc'[t] = pc[t]
    BY <1>2, <1>4, <1>5 DEF AgreeInv
  <2> QED BY <1>4, <2>1 DEF Agrees, InStep
<1>6. Between(r)'
  <2>1. Between(r)
    BY <1>4 DEF AgreeInv
  <2> QED BY <1>2, <1>3, <1>4, <2>1 DEF Between, InStep, NextModes, Alive
<1> QED BY <1>5, <1>6 DEF AgreeInv

LEMMA AgreeBegin ==
    ASSUME SendInv, NEW t \in Threads, NEW packets, Begins(t, packets)
    PROVE  AgreeKept
<1>1. pc \in [Threads -> Statements] /\ Strand \in Threads
  BY DEF SendInv, EndInv, EndTypes, Threads
<1>2. /\ \A u \in Threads : (Loaded(u)' <=> Loaded(u)) /\ (Loaded(u) => pc'[u] = pc[u])
      /\ pc'[Strand] = "set" <=> pc[Strand] = "set"
  BY <1>1 DEF Loaded, Begins
<1>3. Alive' = Alive /\ link' = link
  BY DEF Begins, Alive
<1> QED BY <1>2, <1>3, AgreeFrame DEF Begins

LEMMA AgreeLoad ==
    ASSUME SendInv, ~Overlap, NEW t \in Threads, Loads(t)
    PROVE  AgreeKept
<1>1. /\ pc \in [Threads -> Statements] /\ Strand \in Threads
      /\ Sending(t) /\ ~Loaded(t)
  BY DEF SendInv, EndInv, EndTypes, Threads, Loads, Sending, Loaded
<1>2. /\ \A u \in Threads : ~Loaded(u)
      /\ pc[Strand] # "set"
  BY <1>1, Alone DEF Loads
<1>3. /\ \A u \in Threads : Loaded(u)' => u = t
      /\ pc'[t] = "checksum" /\ Loaded(t)'
  BY <1>1, <1>2 DEF Loads, Loaded
<1> SUFFICES ASSUME NEW r \in RemoteStates, AgreeInv(r), link' PROVE AgreeInv(r)'
  BY DEF AgreeKept, AgreeInv
<1>4. InStep(r) /\ r.modes = modes
  BY <1>2 DEF AgreeInv, Between, NextModes, Alive, Loads
<1>5. Agrees(r, t)'
  BY <1>3, <1>4 DEF Agrees, InStep, Loads
<1>6. Between(r)'
  BY <1>3 DEF Between
<1> QED BY <1>3, <1>5, <1>6 DEF AgreeInv

LEMMA AgreeChecksum ==
    ASSUME SendInv, ~Overlap, NEW t \in Threads, Checksum(t)
    PROVE  AgreeKept
<1>1. /\ pc \in [Threads -> Statements] /\ Strand \in Threads
      /\ Sending(t) /\ Loaded(t) /\ pc[t] = "checksum" /\ frame[t] \in Frames
      /\ mEncryptCounter \in Nat
  BY DEF SendInv, SendTypes, EndInv, EndTypes, Threads, Checksum, Goto, Sending, Loaded
<1>2. \A u \in Threads \ {t} : ~Loaded(u)
  BY <1>1, Alone
<1> SUFFICES ASSUME NEW r \in RemoteStates, AgreeInv(r), link' PROVE AgreeInv(r)'
  BY DEF AgreeKept, AgreeInv
<1>3. /\ UNCHANGED <<modes, link, keyStream>> /\ pc' = [pc EXCEPT ![t] = pc'[t]]
      /\ pc'[t] \in {"cipher", "send"}
  BY <1>1, ChecksumSteps DEF Encrypts
<1>4. /\ \A u \in Threads : Loaded(u)' => u = t
      /\ Loaded(t)'
  BY <1>1, <1>2, <1>3 DEF Loaded
<1>5. /\ r.modes = modes /\ (frame[t].compressed <=> "compressed" \in modes)
      /\ frame[t].counter = -1 /\ r.counter = mEncryptCounter /\ r.place = keyStream
  BY <1>1, <1>3 DEF AgreeInv, Agrees, InStep
<1>6. Agrees(r, t)'
  <2>1. CASE "encrypted" \in modes
    <3>1. /\ frame'[t] = [frame[t] EXCEPT !.counter = mEncryptCounter] /\ pc'[t] = "cipher"
          /\ mEncryptCounter' = mEncryptCounter + 1
      BY <1>1, <2>1, ChecksumSteps DEF Encrypts
    <3>2. frame'[t].counter = mEncryptCounter /\ frame'[t].compressed = frame[t].compressed
      BY <1>1, <3>1 DEF Frames
    <3>3. frame'[t].compressed <=> "compressed" \in modes
      BY <1>5, <3>2
    <3> QED BY <1>3, <1>5, <2>1, <3>1, <3>2, <3>3 DEF Agrees
  <2>2. CASE "encrypted" \notin modes
    <3>1. frame'[t] = frame[t] /\ pc'[t] = "send" /\ mEncryptCounter' = mEncryptCounter
      BY <1>1, <2>2, ChecksumSteps DEF Encrypts
    <3> QED BY <1>3, <1>5, <2>2, <3>1 DEF Agrees, InStep
  <2> QED BY <2>1, <2>2
<1>7. Between(r)'
  BY <1>4 DEF Between
<1> QED BY <1>4, <1>6, <1>7 DEF AgreeInv

LEMMA AgreeCipher ==
    ASSUME SendInv, ~Overlap, NEW t \in Threads, Cipher(t)
    PROVE  AgreeKept
<1>1. /\ pc \in [Threads -> Statements] /\ Strand \in Threads
      /\ Sending(t) /\ Loaded(t) /\ pc[t] = "cipher" /\ frame[t] \in Frames
      /\ keyStream \in Nat
  BY DEF SendInv, SendTypes, EndInv, EndTypes, Threads, Cipher, Goto, Sending, Loaded
<1>2. \A u \in Threads \ {t} : ~Loaded(u)
  BY <1>1, Alone
<1> SUFFICES ASSUME NEW r \in RemoteStates, AgreeInv(r), link' PROVE AgreeInv(r)'
  BY DEF AgreeKept, AgreeInv
<1>3. /\ UNCHANGED <<modes, link, mEncryptCounter>> /\ pc' = [pc EXCEPT ![t] = "send"]
      /\ keyStream' = keyStream + 1
      /\ frame'[t] = [frame[t] EXCEPT !.place = keyStream]
  BY CipherSteps DEF Encrypts
<1>4. /\ \A u \in Threads : Loaded(u)' => u = t
      /\ Loaded(t)' /\ pc'[t] = "send"
  BY <1>1, <1>2, <1>3 DEF Loaded
<1>5. /\ r.modes = modes /\ (frame[t].compressed <=> "compressed" \in modes)
      /\ "encrypted" \in modes
      /\ frame[t].counter = r.counter /\ mEncryptCounter = r.counter + 1 /\ keyStream = r.place
  BY <1>1, <1>3 DEF AgreeInv, Agrees, InStep
<1>6. Agrees(r, t)'
  <2>1. /\ frame'[t].counter = frame[t].counter /\ frame'[t].place = keyStream
        /\ frame'[t].compressed = frame[t].compressed
    BY <1>1, <1>3 DEF Frames
  <2>2. frame'[t].compressed <=> "compressed" \in modes
    BY <1>5, <2>1
  <2> QED BY <1>3, <1>4, <1>5, <2>1, <2>2 DEF Agrees
<1>7. Between(r)'
  BY <1>4 DEF Between
<1> QED BY <1>4, <1>6, <1>7 DEF AgreeInv

(* LoadPeer finds the session gone and drops the batch.                    *)
LEMMA AgreeDrop ==
    ASSUME SendInv, NEW t \in Threads, Finishes(t), pc[t] = "load", ~Alive
    PROVE  AgreeKept
<1>1. /\ pc \in [Threads -> Statements] /\ frame \in [Threads -> Frames]
  BY DEF SendInv, SendTypes, EndInv, EndTypes
<1>2. /\ ~Loaded(t) /\ ~Loaded(t)' /\ ~Alive'
      /\ \A u \in Threads \ {t} : pc'[u] = pc[u] /\ frame'[u] = frame[u]
      /\ UNCHANGED <<modes, mEncryptCounter, keyStream, link>>
  BY <1>1 DEF Loaded, Finishes, Alive
<1> SUFFICES ASSUME NEW r \in RemoteStates, AgreeInv(r), link' PROVE AgreeInv(r)'
  BY DEF AgreeKept, AgreeInv
<1>3. ASSUME NEW u \in Threads, Loaded(u)' PROVE Agrees(r, u)'
  <2>1. pc'[u] = pc[u] /\ frame'[u] = frame[u] /\ Loaded(u)
    BY <1>2, <1>3 DEF Loaded
  <2>2. Agrees(r, u)
    BY <1>2, <2>1 DEF AgreeInv
  <2> QED BY <1>2, <2>1, <2>2 DEF Agrees, InStep
<1>4. Between(r)'
  BY <1>2 DEF Between
<1> QED BY <1>3, <1>4 DEF AgreeInv

LEMMA AgreeSwitch ==
    ASSUME SendInv, ~Overlap, (Skips /\ ~Alive) \/ Sets
    PROVE  AgreeKept
<1>1. /\ pc \in [Threads -> Statements] /\ Strand \in Threads /\ SenderShape
  BY DEF SendInv, EndInv, EndTypes, Threads
<1>2. \A u \in Threads : ~Sending(u)
  <2>1. switch # None /\ ~Sending(Strand)
    BY <1>1 DEF SenderShape, Sending, Skips, Sets
  <2> QED BY <1>1, <2>1 DEF Overlap
<1>3. \A u \in Threads : ~Loaded(u) /\ ~Loaded(u)'
  BY <1>1, <1>2 DEF Loaded, Sending, Skips, Sets
<1> SUFFICES ASSUME NEW r \in RemoteStates, AgreeInv(r), link' PROVE AgreeInv(r)'
  BY DEF AgreeKept, AgreeInv
<1>4. CASE Skips /\ ~Alive
  <2>1. ~Alive'
    BY <1>4 DEF Skips, Alive
  <2> QED BY <1>3, <2>1 DEF AgreeInv, Between
<1>5. CASE Sets
  <2>1. /\ Alive' = Alive /\ link /\ NextModes = modes'
        /\ UNCHANGED <<mEncryptCounter, keyStream>> /\ NextModes' = modes'
    BY <1>1, <1>5 DEF Sets, Alive, NextModes
  <2>2. Alive => InStep(r) /\ r.modes = NextModes
    BY <1>3, <2>1 DEF AgreeInv, Between
  <2>3. Between(r)'
    BY <2>1, <2>2 DEF Between, InStep
  <2> QED BY <1>3, <2>3 DEF AgreeInv
<1> QED BY <1>4, <1>5

-----------------------------------------------------------------------------
(* A frame goes on the wire: the remote will read it, and agrees again.    *)
LEMMA ReadSend ==
    ASSUME SendInv, SwitchInv, ~raced, Reading, NEW t \in Threads, SendFrame(t)
    PROVE  Reading'
<1>1. /\ pc \in [Threads -> Statements] /\ Strand \in Threads /\ SenderShape
      /\ frame[t] \in Frames /\ wire \in Seq(Frames)
      /\ mEncryptCounter \in Nat /\ keyStream \in Nat
  BY DEF SendInv, SendTypes, EndInv, EndTypes, Threads
<1>2. /\ Finishes(t) /\ pc[t] = "send" /\ Loaded(t) /\ Sending(t)
      /\ wire' = IF link THEN Append(wire, frame[t]) ELSE wire
  BY FinishSteps DEF Loaded, Sending
<1>3. PICK r \in RemoteStates : Leads(accepted, wire, remote, r) /\ AgreeInv(r)
  BY DEF Reading
<1>4. UNCHANGED <<rejected, accepted, remote, modes, switch, link, mEncryptCounter, keyStream>>
  BY <1>2 DEF Finishes
<1>5. rejected' = {}
  BY <1>4 DEF Reading
<1>6. CASE ~link
  <2>1. Leads(accepted', wire', remote', r) /\ AgreeInv(r)'
    BY <1>2, <1>3, <1>4, <1>6 DEF AgreeInv
  <2> QED BY <1>5, <2>1 DEF Reading
<1>7. CASE link
  <2>1. Agrees(r, t)
    BY <1>2, <1>3, <1>7 DEF AgreeInv
  <2>2. CanRead(r, frame[t])
    BY <1>2, <2>1 DEF Agrees, CanRead
  <2>3. PICK s \in RemoteStates : s = AfterReading(accepted, r, frame[t])
    BY RemoteStays
  <2>4. Leads(accepted', wire', remote', s)
    <3>1. PICK a, w, f, q : a = accepted /\ w = wire /\ f = frame[t] /\ q = remote
      OBVIOUS
    <3>2. Leads(a, Append(w, f), q, s)
      BY <1>1, <1>3, <2>2, <2>3, <3>1, CourseAppend
    <3> QED BY <1>2, <1>4, <1>7, <3>1, <3>2
  <2>5. s.modes = modes \union InBatch(t) /\ InStep(s)
    <3>1. MarkersOf(accepted, frame[t].packets) = InBatch(t)
      BY <1>1, <1>2 DEF SwitchInv, SenderShape
    <3>2. s.modes = modes \union InBatch(t)
      BY <2>1, <2>3, <3>1 DEF AfterReading, Agrees
    <3>3. s.counter = r.counter + StepOf(r) /\ s.place = r.place + StepOf(r)
      BY <2>3 DEF AfterReading
    <3>4. r.counter \in Nat /\ r.place \in Nat
      BY DEF RemoteStates
    <3>5. InStep(s)
      BY <1>1, <1>2, <2>1, <3>3, <3>4 DEF InStep, Agrees, StepOf
    <3> QED BY <3>2, <3>5
  <2>6. \A u \in Threads \ {t} : ~Loaded(u)
    BY <1>2, Alone DEF SwitchInv
  <2>7. \A u \in Threads : ~Loaded(u)'
    BY <1>1, <1>2, <2>6 DEF Finishes, Loaded
  <2>8. NextModes' = modes \union InBatch(t)
    <3>1. CASE t # Strand
      <4>1. switch = None /\ pc[Strand] # "set"
        BY <1>2, <3>1, Alone DEF SwitchInv
      <4> QED BY <1>1, <1>2, <1>4, <3>1, <4>1 DEF NextModes, InBatch, Finishes
    <3>2. CASE t = Strand
      BY <1>1, <1>2, <1>4, <3>2 DEF NextModes, InBatch, Finishes
    <3> QED BY <3>1, <3>2
  <2>9. AgreeInv(s)'
    BY <1>4, <2>5, <2>7, <2>8 DEF AgreeInv, Between, InStep
  <2> QED BY <1>5, <2>4, <2>9 DEF Reading
<1> QED BY <1>6, <1>7

(* The remote reads the next frame.                                        *)
LEMMA ReadReads ==
    ASSUME SendInv, Reading, NEW f \in Frames, Reads(f)
    PROVE  Reading'
<1>1. PICK r \in RemoteStates : Leads(accepted, wire, remote, r) /\ AgreeInv(r)
  BY DEF Reading
<1>2. PICK a, w, q : a = accepted /\ w = wire /\ q = remote
  OBVIOUS
<1>3. w \in Seq(Frames) /\ w # <<>> /\ f = Head(w)
  BY <1>2 DEF SendInv, SendTypes, Reads
<1>4. CanRead(q, f) /\ Leads(a, Tail(w), AfterReading(a, q, f), r)
  BY <1>1, <1>2, <1>3, CourseTail
<1>5. /\ remote' = AfterReading(a, q, f) /\ wire' = Tail(w) /\ rejected' = rejected
      /\ accepted' = a
  BY <1>2, <1>4 DEF Reads
<1>6. Leads(accepted', wire', remote', r)
  BY <1>4, <1>5
<1>7. AgreeKept
  <2>1. /\ UNCHANGED <<pc, modes, switch, mEncryptCounter, keyStream, frame, link>>
        /\ Alive' = Alive
        /\ \A t \in Threads : Loaded(t)' <=> Loaded(t)
    BY DEF Reads, Alive, Loaded
  <2> QED BY <2>1, AgreeFrame
<1>8. AgreeInv(r)'
  BY <1>1, <1>7 DEF AgreeKept
<1> QED BY <1>1, <1>5, <1>6, <1>8 DEF Reading

-----------------------------------------------------------------------------
ModeInv == SendInv /\ SwitchInv /\ ReadInv

(* A step after which nothing was raced keeps the markers in their place.  *)
LEMMA EffectKeepsSwitch ==
    ASSUME SendInv, SwitchInv, ~raced, ~Overlap', Effect
    PROVE  SwitchInv'
<1>0. pc \in [Threads -> Statements] /\ Strand \in Threads
  BY DEF SendInv, EndInv, EndTypes, Threads
<1>1. CASE \E t \in Threads : Quiet(t)
  <2>1. PICK t \in Threads : Quiet(t)
    BY <1>1
  <2>2. \A u \in Threads : \/ pc'[u] = pc[u]
                           \/ pc[u] \in QuietStatements /\ pc'[u] \in QuietStatements
    BY <1>0, <2>1 DEF Quiet
  <2>3. /\ \A u \in Threads : Sending(u)' => Sending(u)
        /\ pc'[Strand] = "switch" <=> pc[Strand] = "switch"
    BY <1>0, <2>2 DEF Sending, QuietStatements
  <2>4. Alive' => Alive /\ mOutboundPackets' = mOutboundPackets
    BY <2>1 DEF Quiet, Alive
  <2> QED BY <2>1, <2>3, <2>4, SwitchFrame DEF Quiet, Untouched
<1>2. CASE Enqueues("queued") /\ UNCHANGED <<pc, switch>>
  BY <1>2, SwitchEnqueue
<1>3. CASE \E mode \in Modes : QueueMarker(mode)
  <2>1. PICK mode \in Modes : QueueMarker(mode)
    BY <1>3
  <2>2. /\ Enqueues(mode)
        /\ pc[Strand] = "idle" /\ pc' = [pc EXCEPT ![Strand] = "switch"]
        /\ switch' = mode
    BY <2>1, QueueSteps
  <2> QED BY <2>2, SwitchEnqueue
<1>4. CASE \E t \in Threads : Flush(t) \/ (t = Strand /\ FlushPending /\ CanFlush)
  BY <1>4, SwitchTake
<1>5. CASE \E t \in Threads : SendPacketImmediately(t)
  BY <1>5, SwitchImmediate
<1>6. ASSUME NEW t \in Threads, NEW to \in {"checksum", "cipher", "send", "set", "idle"},
             Sending(t), pc' = [pc EXCEPT ![t] = to],
             UNCHANGED <<accepted, mOutboundPackets, switch, mPeer, mConnected>>,
             \A u \in Threads : Sending(u)' => batch'[u] = batch[u]
      PROVE  SwitchInv'
  <2>1. /\ \A u \in Threads : Sending(u)' => Sending(u)
        /\ pc[t] # "switch" /\ pc'[Strand] = "switch" <=> pc[Strand] = "switch"
    BY <1>0, <1>6 DEF Sending
  <2>2. Alive' = Alive
    BY <1>6 DEF Alive
  <2>3. \A u \in Threads : Sending(u)' => MarkersOf(accepted', batch'[u]) = InBatch(u)'
    BY <1>6, <2>1 DEF SwitchInv, InBatch
  <2>4. Alive' => MarkersOf(accepted', mOutboundPackets') = InQueue'
    <3>1. InQueue' = InQueue
      BY <1>6, <2>1 DEF InQueue
    <3> QED BY <1>6, <2>2, <3>1 DEF SwitchInv
  <2> QED BY <2>3, <2>4 DEF SwitchInv
<1>7. ASSUME NEW t \in Threads, Sending(t), Finishes(t) PROVE SwitchInv'
  <2>1. PICK to \in {"set", "idle"} : pc' = [pc EXCEPT ![t] = to]
    BY <1>7 DEF Finishes
  <2>2. batch \in [Threads -> Seq(Nat)]
    BY DEF SendInv, SendTypes
  <2>3. ~Sending(t)' /\ \A u \in Threads \ {t} : batch'[u] = batch[u]
    BY <1>0, <1>7, <2>1, <2>2 DEF Finishes, Sending
  <2>4. UNCHANGED <<accepted, mOutboundPackets, switch, mPeer, mConnected>>
    BY <1>7 DEF Finishes
  <2> QED BY <1>6, <1>7, <2>1, <2>3, <2>4
<1>8. CASE \E t \in Threads : LoadPeer(t)
  <2>1. PICK t \in Threads : LoadPeer(t)
    BY <1>8
  <2>2. CASE Loads(t)
    BY <1>6, <2>2 DEF Loads, Sending
  <2>3. CASE Finishes(t) /\ pc[t] = "load"
    BY <1>7, <2>3 DEF Sending
  <2> QED BY <2>1, <2>2, <2>3, LoadSteps
<1>9. CASE \E t \in Threads : Checksum(t)
  <2>1. PICK t \in Threads : Checksum(t)
    BY <1>9
  <2>2. PICK to \in {"cipher", "send"} : \E f : Encrypts(t, "checksum", to, f)
    BY <2>1, ChecksumSteps
  <2> QED BY <1>6, <2>2 DEF Encrypts, Sending
<1>10. CASE \E t \in Threads : Cipher(t)
  <2>1. PICK t \in Threads : Cipher(t)
    BY <1>10
  <2>2. PICK f : Encrypts(t, "cipher", "send", f)
    BY <2>1, CipherSteps
  <2> QED BY <1>6, <2>2 DEF Encrypts, Sending
<1>11. CASE \E t \in Threads : CipherFails(t) \/ SendFrame(t)
  <2>1. PICK t \in Threads : CipherFails(t) \/ SendFrame(t)
    BY <1>11
  <2>2. Finishes(t) /\ Sending(t)
    BY <2>1, FinishSteps DEF Sending
  <2> QED BY <1>7, <2>2
<1>12. CASE Skips
  BY <1>12, SwitchSkip
<1>13. CASE Sets
  BY <1>13, SwitchSet
<1>14. CASE \E f \in Frames : Reads(f)
  <2>1. UNCHANGED <<accepted, batch, switch, pc, mOutboundPackets>> /\ Alive' = Alive
    BY <1>14 DEF Reads, Alive
  <2>2. \A t \in Threads : Sending(t)' => Sending(t)
    BY <2>1 DEF Sending
  <2> QED BY <2>1, <2>2, SwitchFrame
<1> QED
  BY <1>1, <1>2, <1>3, <1>4, <1>5, <1>8, <1>9, <1>10, <1>11, <1>12, <1>13, <1>14 DEF Effect

(* And the remote keeps reading.                                           *)
LEMMA EffectKeepsReading ==
    ASSUME SendInv, SwitchInv, ~raced, ~Overlap', ~cipherFailed', Effect, Reading
    PROVE  Reading'
<1>0. ~Overlap
  BY DEF SwitchInv
<1>1. CASE \E t \in Threads : Quiet(t)
  BY <1>1, AgreeQuiet, ReadFrame DEF Quiet, Untouched, Grows
<1>2. ASSUME NEW kind, Enqueues(kind), AgreeKept PROVE Reading'
  BY <1>2, ReadFrame DEF Enqueues, Grows
<1>3. CASE Enqueues("queued") /\ UNCHANGED <<pc, switch>>
  BY <1>2, <1>3, AgreeEnqueue
<1>4. CASE \E mode \in Modes : QueueMarker(mode)
  <2>1. PICK mode \in Modes : QueueMarker(mode)
    BY <1>4
  <2>2. /\ Enqueues(mode)
        /\ pc[Strand] = "idle" /\ pc' = [pc EXCEPT ![Strand] = "switch"]
    BY <2>1, QueueSteps
  <2> QED BY <1>2, <2>2, AgreeEnqueue
<1>5. CASE \E t \in Threads : Flush(t) \/ (t = Strand /\ FlushPending /\ CanFlush)
  <2>1. PICK t \in Threads : Begins(t, mOutboundPackets) /\ accepted' = accepted
    BY <1>5, TakeSteps
  <2>2. AgreeKept
    BY <2>1, AgreeBegin
  <2> QED BY <2>1, <2>2, ReadFrame DEF Begins, Grows
<1>6. CASE \E t \in Threads : SendPacketImmediately(t)
  <2>1. PICK t \in Threads :
            Begins(t, <<Len(accepted) + 1>>) /\ accepted' = Append(accepted, "immediate")
    BY <1>6, ImmediateSteps
  <2>2. AgreeKept /\ Grows
    BY <2>1, AgreeBegin DEF Grows, Kinds
  <2> QED BY <2>1, <2>2, ReadFrame DEF Begins
<1>7. CASE \E t \in Threads : LoadPeer(t)
  <2>1. PICK t \in Threads : LoadPeer(t)
    BY <1>7
  <2>2. CASE Loads(t)
    BY <1>0, <2>2, AgreeLoad, ReadFrame DEF Loads, Grows
  <2>3. CASE /\ Finishes(t) /\ pc[t] = "load" /\ ~(mPeer /\ mConnected)
             /\ UNCHANGED <<wire, cipherFailed>>
    BY <2>3, AgreeDrop, ReadFrame DEF Finishes, Grows, Alive
  <2> QED BY <2>1, <2>2, <2>3, LoadSteps
<1>8. CASE \E t \in Threads : Checksum(t)
  <2>1. PICK t \in Threads : Checksum(t)
    BY <1>8
  <2>2. PICK to, f : Encrypts(t, "checksum", to, f)
    BY <2>1, ChecksumSteps
  <2>3. AgreeKept
    BY <1>0, <2>1, AgreeChecksum
  <2> QED BY <2>2, <2>3, ReadFrame DEF Encrypts, Grows
<1>9. CASE \E t \in Threads : Cipher(t)
  <2>1. PICK t \in Threads : Cipher(t)
    BY <1>9
  <2>2. PICK f : Encrypts(t, "cipher", "send", f)
    BY <2>1, CipherSteps
  <2>3. AgreeKept
    BY <1>0, <2>1, AgreeCipher
  <2> QED BY <2>2, <2>3, ReadFrame DEF Encrypts, Grows
<1>10. CASE \E t \in Threads : CipherFails(t)
  BY <1>10, FinishSteps
<1>11. CASE \E t \in Threads : SendFrame(t)
  BY <1>11, ReadSend
<1>12. CASE Skips
  <2>1. AgreeKept
    BY <1>0, <1>12, SwitchSkip, AgreeSwitch
  <2> QED BY <1>12, <2>1, ReadFrame DEF Skips, Grows
<1>13. CASE Sets
  <2>1. AgreeKept
    BY <1>0, <1>13, AgreeSwitch
  <2> QED BY <1>13, <2>1, ReadFrame DEF Sets, Grows
<1>14. CASE \E f \in Frames : Reads(f)
  BY <1>14, ReadReads
<1> QED
  BY <1>1, <1>3, <1>4, <1>5, <1>6, <1>7, <1>8, <1>9, <1>10, <1>11, <1>12, <1>13, <1>14 DEF Effect

LEMMA InitMode == Init => ModeInv
<1> SUFFICES ASSUME Init PROVE ModeInv
  OBVIOUS
<1>1. SendInv /\ Strand \in Threads
  BY InitSend DEF Threads
<1>2. \A t \in Threads : ~Sending(t) /\ ~Loaded(t)
  BY DEF Init, Sending, Loaded
<1>3. SwitchInv
  <2>1. MarkersOf(accepted, <<>>) = {}
    BY NoMarkers
  <2>2. pc[Strand] = "idle" /\ mOutboundPackets = <<>>
    BY <1>1 DEF Init
  <2> QED BY <1>2, <2>1, <2>2 DEF SwitchInv, InQueue, Overlap
<1>4. ReadInv
  <2>1. remote \in RemoteStates /\ wire = <<>> /\ rejected = {}
    BY <1>1 DEF Init, SendInv, SendTypes
  <2>2. Leads(accepted, wire, remote, remote)
    BY <2>1, CourseEmpty
  <2>3. AgreeInv(remote)
    <3>1. InStep(remote) /\ remote.modes = modes /\ NextModes = modes
      BY <1>1 DEF Init, InStep, NextModes
    <3> QED BY <1>2, <3>1 DEF AgreeInv, Between
  <2> QED BY <2>1, <2>2, <2>3 DEF ReadInv, Reading
<1> QED BY <1>1, <1>3, <1>4 DEF ModeInv

(* What was raced, and a cipher that failed, are not forgotten.            *)
LEMMA RacedStays ==
    ASSUME SendInv, [Next]_vars, ~raced'
    PROVE  ~raced /\ (~Overlap' \/ UNCHANGED vars)
<1>1. CASE Step /\ raced' = (raced \/ Overlap')
  BY <1>1, Zenon
<1>2. CASE UNCHANGED vars
  <2>1. raced' = raced
    BY <1>2 DEF vars
  <2> QED BY <1>2, <2>1
<1> QED BY <1>1, <1>2 DEF Next

LEMMA FailureStays ==
    ASSUME SendInv, Effect, ~cipherFailed' PROVE ~cipherFailed
<1>1. CASE \E t \in Threads : Quiet(t)
  BY <1>1 DEF Quiet, Untouched
<1>2. CASE Enqueues("queued") \/ \E mode \in Modes : QueueMarker(mode)
  BY <1>2 DEF Enqueues, QueueMarker, crypto
<1>3. CASE \/ \E t \in Threads : Flush(t) \/ (t = Strand /\ FlushPending /\ CanFlush)
           \/ \E t \in Threads : SendPacketImmediately(t)
  BY <1>3 DEF Flush, FlushPending, SendPacketImmediately, crypto
<1>4. CASE \E t \in Threads : LoadPeer(t) \/ SendFrame(t)
  BY <1>4 DEF LoadPeer, SendFrame, crypto
<1>5. CASE \E t \in Threads : Checksum(t) \/ Cipher(t)
  BY <1>5 DEF Checksum, Cipher
<1>6. CASE \E t \in Threads : CipherFails(t)
  BY <1>6 DEF CipherFails
<1>7. CASE Skips \/ Sets
  BY <1>7 DEF Skips, Sets
<1>8. CASE \E f \in Frames : Reads(f)
  BY <1>8 DEF Reads
<1> QED BY <1>1, <1>2, <1>3, <1>4, <1>5, <1>6, <1>7, <1>8 DEF Effect

LEMMA NextKeepsMode == ModeInv /\ [Next]_vars => ModeInv'
<1> SUFFICES ASSUME ModeInv, [Next]_vars PROVE ModeInv'
  OBVIOUS
<1>1. SendInv /\ SwitchInv /\ ReadInv /\ SendInv' /\ Effect
  BY NextKeepsSend, StepEffect DEF ModeInv
<1>2. CASE raced'
  BY <1>1, <1>2 DEF ModeInv, SwitchInv, ReadInv
<1>3. CASE UNCHANGED vars
  <2> USE <1>3 DEF vars, queues, crypto, locals, far, ends
  <2>1. SwitchInv'
    BY <1>1 DEF SwitchInv, Overlap, Sending, InBatch, InQueue, Alive
  <2>2. ReadInv'
    <3>1. AgreeKept
      BY DEF AgreeKept, AgreeInv, Between, Agrees, NextModes, InStep, Loaded, Alive
    <3>2. Reading => Reading'
      BY <1>1, <3>1, ReadFrame DEF Grows
    <3> QED BY <1>1, <3>2 DEF ReadInv
  <2> QED BY <1>1, <2>1, <2>2 DEF ModeInv
<1>4. CASE ~raced' /\ ~UNCHANGED vars
  <2>1. ~raced /\ ~Overlap'
    BY <1>1, <1>4, RacedStays
  <2>2. SwitchInv'
    BY <1>1, <2>1, EffectKeepsSwitch
  <2>3. ReadInv'
    <3> SUFFICES ASSUME ~cipherFailed' PROVE Reading'
      BY DEF ReadInv
    <3>1. Reading
      BY <1>1, <2>1, FailureStays DEF ReadInv
    <3> QED BY <1>1, <2>1, <3>1, EffectKeepsReading
  <2> QED BY <1>1, <2>2, <2>3 DEF ModeInv
<1> QED BY <1>2, <1>3, <1>4

(* Whatever is queued, flushed, sent past the queue and switched, and      *)
(* whenever the session ends: as long as no two threads sent at once and   *)
(* the cipher worked, the remote reads every frame it gets                 *)
(* (Session.cpp:64-81, 226-285, CryptoManager.cpp:194-271).                *)
THEOREM RemoteReads == Spec => []RemoteReadsAll
<1>1. ModeInv => RemoteReadsAll
  BY DEF ModeInv, ReadInv, Reading, RemoteReadsAll
<1> QED BY <1>1, InitMode, NextKeepsMode, PTL DEF Spec

-----------------------------------------------------------------------------
(* The order of what was queued.  a says how each packet was sent.         *)
Sorted(a, s) ==
    \A i, j \in DOMAIN s : i < j /\ a[s[i]] # "immediate" /\ a[s[j]] # "immediate" => s[i] < s[j]

Ahead(a, s, u) ==
    \A i \in DOMAIN s, j \in DOMAIN u :
        a[s[i]] # "immediate" /\ a[u[j]] # "immediate" => s[i] < u[j]

(* s comes behind all that was read, d, and all that is on the wire, w.    *)
Behind(a, d, w, s) ==
    /\ Ahead(a, d, s)
    /\ \A i \in DOMAIN w : Ahead(a, w[i].packets, s)

(* Read, on the wire, with the senders, in the queue: in this order.       *)
InLine(a, d, w, b, q) ==
    /\ Sorted(a, d)
    /\ \A i \in DOMAIN w : Sorted(a, w[i].packets) /\ Ahead(a, d, w[i].packets)
    /\ \A i, j \in DOMAIN w : i < j => Ahead(a, w[i].packets, w[j].packets)
    /\ \A t \in Threads : Sorted(a, b[t]) /\ Behind(a, d, w, b[t]) /\ Ahead(a, b[t], q)
    /\ Sorted(a, q) /\ Behind(a, d, w, q)

AllKnown(n, d, w, b, q) ==
    /\ Known(n, d) /\ Known(n, q)
    /\ \A i \in DOMAIN w : Known(n, w[i].packets)
    /\ \A t \in Threads : Known(n, b[t])

LEMMA NothingAhead ==
    ASSUME NEW a, NEW s
    PROVE  Ahead(a, s, <<>>) /\ Ahead(a, <<>>, s) /\ Sorted(a, <<>>)
BY DEF Ahead, Sorted

LEMMA ImmediateApart ==
    ASSUME NEW a, NEW n, a[n] = "immediate", NEW s
    PROVE  Ahead(a, s, <<n>>) /\ Ahead(a, <<n>>, s) /\ Sorted(a, <<n>>)
BY DEF Ahead, Sorted

LEMMA OrderStays ==
    ASSUME NEW n, NEW a, NEW b, \A i \in 1..n : b[i] = a[i],
           NEW s, NEW u, Known(n, s), Known(n, u)
    PROVE  /\ Ahead(a, s, u) => Ahead(b, s, u)
           /\ Sorted(a, s) => Sorted(b, s)
<1>1. /\ \A i \in DOMAIN s : b[s[i]] = a[s[i]]
      /\ \A i \in DOMAIN u : b[u[i]] = a[u[i]]
  BY DEF Known
<1> QED BY <1>1 DEF Ahead, Sorted

(* The newest packet comes behind all that are known.                      *)
LEMMA NewestLast ==
    ASSUME NEW n \in Nat, NEW b, NEW s, NEW u, Known(n, s), Known(n, u)
    PROVE  /\ Ahead(b, s, u) => Ahead(b, s, Append(u, n + 1))
           /\ Sorted(b, u) => Sorted(b, Append(u, n + 1))
<1>1. PICK v, k : v = Append(u, n + 1) /\ k = Len(u)
  OBVIOUS
<1>2. /\ k \in Nat /\ DOMAIN u = 1..k /\ DOMAIN v = 1..(k + 1)
      /\ v[k + 1] = n + 1 /\ \A i \in 1..k : v[i] = u[i]
  BY <1>1 DEF Known
<1>3. /\ \A i \in DOMAIN s : s[i] \in Nat /\ s[i] < n + 1
      /\ \A i \in DOMAIN u : u[i] \in Nat /\ u[i] < n + 1
  BY DEF Known
<1>4. Ahead(b, s, u) => Ahead(b, s, v)
  <2> SUFFICES ASSUME Ahead(b, s, u), NEW i \in DOMAIN s, NEW j \in 1..(k + 1),
                      b[s[i]] # "immediate", b[v[j]] # "immediate"
               PROVE  s[i] < v[j]
    BY <1>2 DEF Ahead
  <2>1. CASE j = k + 1
    BY <1>2, <1>3, <2>1
  <2>2. CASE j # k + 1
    <3>1. j \in DOMAIN u /\ v[j] = u[j]
      BY <1>2, <2>2
    <3> QED BY <3>1 DEF Ahead
  <2> QED BY <2>1, <2>2
<1>5. Sorted(b, u) => Sorted(b, v)
  <2> SUFFICES ASSUME Sorted(b, u), NEW i \in 1..(k + 1), NEW j \in 1..(k + 1), i < j,
                      b[v[i]] # "immediate", b[v[j]] # "immediate"
               PROVE  v[i] < v[j]
    BY <1>2 DEF Sorted
  <2>0. i \in DOMAIN u /\ v[i] = u[i]
    BY <1>2
  <2>1. CASE j = k + 1
    BY <1>2, <1>3, <2>0, <2>1
  <2>2. CASE j # k + 1
    <3>1. j \in DOMAIN u /\ v[j] = u[j]
      BY <1>2, <2>2
    <3> QED BY <2>0, <3>1 DEF Sorted
  <2> QED BY <2>1, <2>2
<1> QED BY <1>1, <1>4, <1>5

(* Where the packets of two stretches are when the second follows.         *)
LEMMA Joined ==
    ASSUME NEW s \in Seq(Nat), NEW u \in Seq(Nat)
    PROVE  /\ DOMAIN (s \o u) = 1..(Len(s) + Len(u))
           /\ \A i \in DOMAIN s : (s \o u)[i] = s[i]
           /\ \A i \in DOMAIN (s \o u) :
                 i \notin DOMAIN s => i - Len(s) \in DOMAIN u /\ (s \o u)[i] = u[i - Len(s)]
OBVIOUS

LEMMA JoinedOrder ==
    ASSUME NEW a, NEW s \in Seq(Nat), NEW u \in Seq(Nat), NEW v,
           Sorted(a, s), Sorted(a, u), Ahead(a, s, u)
    PROVE  /\ Sorted(a, s \o u)
           /\ Ahead(a, s, v) /\ Ahead(a, u, v) => Ahead(a, s \o u, v)
<1>1. PICK w, k, m : w = s \o u /\ k = Len(s) /\ m = Len(u)
  OBVIOUS
<1>2. /\ k \in Nat /\ m \in Nat /\ DOMAIN s = 1..k /\ DOMAIN u = 1..m /\ DOMAIN w = 1..(k + m)
      /\ \A i \in 1..k : w[i] = s[i]
      /\ \A i \in 1..(k + m) : i > k => i - k \in 1..m /\ w[i] = u[i - k]
  BY <1>1, Joined
<1>3. Sorted(a, w)
  <2> SUFFICES ASSUME NEW i \in 1..(k + m), NEW j \in 1..(k + m), i < j,
                      a[w[i]] # "immediate", a[w[j]] # "immediate"
               PROVE  w[i] < w[j]
    BY <1>2 DEF Sorted
  <2>1. CASE j <= k
    <3>1. i \in DOMAIN s /\ j \in DOMAIN s /\ w[i] = s[i] /\ w[j] = s[j]
      BY <1>2, <2>1
    <3> QED BY <3>1 DEF Sorted
  <2>2. CASE i > k
    <3>1. PICK x \in DOMAIN u, y \in DOMAIN u : x = i - k /\ y = j - k /\ x < y
      BY <1>2, <2>2
    <3>2. w[i] = u[x] /\ w[j] = u[y]
      BY <1>2, <2>2, <3>1
    <3> QED BY <3>1, <3>2 DEF Sorted
  <2>3. CASE i <= k /\ j > k
    <3>1. i \in DOMAIN s /\ w[i] = s[i] /\ j - k \in DOMAIN u /\ w[j] = u[j - k]
      BY <1>2, <2>3
    <3> QED BY <3>1 DEF Ahead
  <2> QED BY <1>2, <2>1, <2>2, <2>3
<1>4. Ahead(a, s, v) /\ Ahead(a, u, v) => Ahead(a, w, v)
  <2> SUFFICES ASSUME Ahead(a, s, v), Ahead(a, u, v), NEW i \in 1..(k + m), NEW j \in DOMAIN v,
                      a[w[i]] # "immediate", a[v[j]] # "immediate"
               PROVE  w[i] < v[j]
    BY <1>2 DEF Ahead
  <2>1. CASE i <= k
    <3>1. i \in DOMAIN s /\ w[i] = s[i]
      BY <1>2, <2>1
    <3> QED BY <3>1 DEF Ahead
  <2>2. CASE i > k
    <3>1. i - k \in DOMAIN u /\ w[i] = u[i - k]
      BY <1>2, <2>2
    <3> QED BY <3>1 DEF Ahead
  <2> QED BY <1>2, <2>1, <2>2
<1> QED BY <1>1, <1>3, <1>4

-----------------------------------------------------------------------------
(* What each step does to the line.                                        *)
LEMMA LineAccepts ==
    ASSUME NEW n, NEW a, NEW a2, \A i \in 1..n : a2[i] = a[i],
           NEW d, NEW w, NEW b, NEW q, AllKnown(n, d, w, b, q), InLine(a, d, w, b, q)
    PROVE  InLine(a2, d, w, b, q)
<1>1. \A s, u : Known(n, s) /\ Known(n, u) => /\ Ahead(a, s, u) => Ahead(a2, s, u)
                                              /\ Sorted(a, s) => Sorted(a2, s)
  BY OrderStays
<1> QED BY <1>1 DEF AllKnown, InLine, Behind

LEMMA LineEnqueues ==
    ASSUME NEW n \in Nat, NEW a, NEW d, NEW w, NEW b, NEW q,
           AllKnown(n, d, w, b, q), InLine(a, d, w, b, q)
    PROVE  InLine(a, d, w, b, Append(q, n + 1))
<1>1. \A s : Known(n, s) /\ Ahead(a, s, q) => Ahead(a, s, Append(q, n + 1))
  BY NewestLast DEF AllKnown
<1>2. Sorted(a, Append(q, n + 1))
  BY NewestLast DEF AllKnown, InLine
<1> QED BY <1>1, <1>2 DEF AllKnown, InLine, Behind

LEMMA LineClears ==
    ASSUME NEW a, NEW d, NEW w, NEW b, NEW q, InLine(a, d, w, b, q)
    PROVE  InLine(a, d, w, b, <<>>)
BY NothingAhead DEF InLine, Behind

(* A batch that fits in front of the queue.                                *)
LEMMA LineBegins ==
    ASSUME NEW a, NEW d, NEW w, NEW b, NEW q, InLine(a, d, w, b, q),
           NEW t \in Threads, NEW b2, NEW s, b2[t] = s,
           \A u \in Threads \ {t} : b2[u] = b[u],
           Sorted(a, s), Behind(a, d, w, s), Ahead(a, s, q)
    PROVE  InLine(a, d, w, b2, q)
BY DEF InLine

LEMMA LineTakes ==
    ASSUME NEW a, NEW d, NEW w, NEW b, NEW q, InLine(a, d, w, b, q),
           NEW t \in Threads, NEW b2, b2[t] = q, \A u \in Threads \ {t} : b2[u] = b[u]
    PROVE  InLine(a, d, w, b2, <<>>)
<1>1. InLine(a, d, w, b, <<>>)
  BY LineClears
<1>2. Sorted(a, q) /\ Behind(a, d, w, q) /\ Ahead(a, q, <<>>)
  BY NothingAhead DEF InLine
<1> QED BY <1>1, <1>2, LineBegins

LEMMA LineSends ==
    ASSUME NEW a, NEW d, NEW w \in Seq(Frames), NEW b, NEW q, InLine(a, d, w, b, q),
           NEW t \in Threads, NEW f \in Frames, f.packets = b[t],
           NEW b2, \A u \in Threads : b2[u] = <<>>
    PROVE  InLine(a, d, Append(w, f), b2, q)
<1>1. PICK x, k : x = Append(w, f) /\ k = Len(w)
  OBVIOUS
<1>2. /\ k \in Nat /\ DOMAIN w = 1..k /\ DOMAIN x = 1..(k + 1)
      /\ x[k + 1] = f /\ \A i \in 1..k : x[i] = w[i]
  BY <1>1
<1>3. /\ Sorted(a, f.packets) /\ Behind(a, d, w, f.packets) /\ Ahead(a, f.packets, q)
  BY DEF InLine
<1>4. \A i \in DOMAIN x : (i \in DOMAIN w /\ x[i] = w[i]) \/ x[i] = f
  BY <1>2
<1>5. \A i \in DOMAIN x : Sorted(a, x[i].packets) /\ Ahead(a, d, x[i].packets)
                          /\ Ahead(a, x[i].packets, q)
  BY <1>3, <1>4 DEF InLine, Behind
<1>6. ASSUME NEW i \in DOMAIN x, NEW j \in DOMAIN x, i < j
      PROVE  Ahead(a, x[i].packets, x[j].packets)
  <2>1. i \in DOMAIN w /\ x[i] = w[i]
    BY <1>2, <1>6
  <2>2. CASE j \in DOMAIN w
    BY <1>2, <1>6, <2>1, <2>2 DEF InLine
  <2>3. CASE j = k + 1
    BY <1>2, <1>3, <2>1, <2>3 DEF Behind
  <2> QED BY <1>2, <2>2, <2>3
<1>7. \A u \in Threads : Sorted(a, b2[u]) /\ Behind(a, d, x, b2[u]) /\ Ahead(a, b2[u], q)
  BY NothingAhead DEF Behind
<1>8. Sorted(a, d) /\ Sorted(a, q) /\ Behind(a, d, x, q)
  BY <1>5 DEF InLine, Behind
<1> QED BY <1>1, <1>5, <1>6, <1>7, <1>8 DEF InLine

(* The first frame is read, or is not.                                     *)
LEMMA LineReads ==
    ASSUME NEW a, NEW d \in Seq(Nat), NEW w \in Seq(Frames), w # <<>>, NEW b, NEW q,
           InLine(a, d, w, b, q)
    PROVE  /\ InLine(a, d \o Head(w).packets, Tail(w), b, q)
           /\ InLine(a, d, Tail(w), b, q)
<1>1. PICK x, s : x = Tail(w) /\ s = Head(w).packets
  OBVIOUS
<1>2. /\ 1 \in DOMAIN w /\ s = w[1].packets /\ s \in Seq(Nat)
      /\ \A i \in DOMAIN x : i \in Nat /\ i + 1 \in DOMAIN w /\ x[i] = w[i + 1] /\ 1 < i + 1
  <2>1. 1 \in DOMAIN w /\ Head(w) = w[1] /\ w[1] \in Frames
    BY <1>1
  <2>2. \A i \in DOMAIN x : i \in Nat /\ i + 1 \in DOMAIN w /\ x[i] = w[i + 1] /\ 1 < i + 1
    BY <1>1
  <2>3. s \in Seq(Nat)
    BY <1>1, <2>1 DEF Frames
  <2> QED BY <1>1, <2>1, <2>2, <2>3
<1>3. \A i \in DOMAIN x : /\ Sorted(a, x[i].packets) /\ Ahead(a, d, x[i].packets)
                          /\ Ahead(a, s, x[i].packets)
  BY <1>2 DEF InLine
<1>4. \A i, j \in DOMAIN x : i < j => Ahead(a, x[i].packets, x[j].packets)
  <2> SUFFICES ASSUME NEW i \in DOMAIN x, NEW j \in DOMAIN x, i < j
               PROVE  Ahead(a, x[i].packets, x[j].packets)
    OBVIOUS
  <2>1. PICK k \in DOMAIN w, m \in DOMAIN w : k = i + 1 /\ m = j + 1 /\ k < m
    BY <1>2
  <2>2. Ahead(a, w[k].packets, w[m].packets)
    BY <2>1 DEF InLine
  <2> QED BY <1>2, <2>1, <2>2
<1>5. ASSUME NEW v, Behind(a, d, w, v)
      PROVE  /\ Behind(a, d, x, v)
             /\ Ahead(a, s, v)
  BY <1>2, <1>5 DEF Behind
<1>6. InLine(a, d, x, b, q)
  BY <1>3, <1>4, <1>5 DEF InLine
<1>7. InLine(a, d \o s, x, b, q)
  <2>1. Sorted(a, d) /\ Sorted(a, s) /\ Ahead(a, d, s)
    BY <1>2 DEF InLine
  <2>2. Sorted(a, d \o s) /\ \A v : Ahead(a, d, v) /\ Ahead(a, s, v) => Ahead(a, d \o s, v)
    BY <1>2, <2>1, JoinedOrder
  <2>3. \A v : Behind(a, d, w, v) => Behind(a, d \o s, x, v)
    BY <1>5, <2>2 DEF Behind
  <2>4. \A i \in DOMAIN x : Ahead(a, d \o s, x[i].packets)
    BY <1>3, <2>2
  <2> QED BY <1>3, <1>4, <2>2, <2>3, <2>4 DEF InLine
<1> QED BY <1>1, <1>6, <1>7

-----------------------------------------------------------------------------
(* A step after which no two threads send at once keeps the line.          *)
Line == InLine(accepted, delivered, wire, batch, mOutboundPackets)

LEMMA AllAreKnown ==
    SendInv => /\ AllKnown(Len(accepted), delivered, wire, batch, mOutboundPackets)
               /\ Len(accepted) \in Nat
BY DEF SendInv, SendTypes, AllKnown

LEMMA LineStays ==
    ASSUME Line, UNCHANGED <<accepted, delivered, wire, batch>>,
           mOutboundPackets' = mOutboundPackets \/ mOutboundPackets' = <<>>
    PROVE  Line'
<1>1. Line => InLine(accepted, delivered, wire, batch, <<>>)
  BY LineClears DEF Line
<1> QED BY <1>1 DEF Line

LEMMA LineAppend ==
    ASSUME SendInv, Line, NEW kind \in Kinds, accepted' = Append(accepted, kind)
    PROVE  /\ InLine(accepted', delivered, wire, batch, mOutboundPackets)
           /\ InLine(accepted', delivered, wire, batch,
                     Append(mOutboundPackets, Len(accepted) + 1))
<1>1. PICK a, b, n, d, w, s, q : /\ a = accepted /\ b = accepted' /\ n = Len(accepted)
                                 /\ d = delivered /\ w = wire /\ s = batch
                                 /\ q = mOutboundPackets
  OBVIOUS
<1>2. AllKnown(n, d, w, s, q) /\ n \in Nat
  BY <1>1, AllAreKnown
<1>3. \A i \in 1..n : b[i] = a[i]
  BY <1>1, AcceptMore DEF SendInv
<1>4. InLine(b, d, w, s, q)
  BY <1>1, <1>2, <1>3, LineAccepts DEF Line
<1>5. InLine(b, d, w, s, Append(q, n + 1))
  BY <1>2, <1>4, LineEnqueues
<1> QED BY <1>1, <1>4, <1>5

LEMMA LineTake ==
    ASSUME SendInv, Line, NEW t \in Threads, Begins(t, mOutboundPackets),
           mOutboundPackets' = <<>>, accepted' = accepted
    PROVE  Line'
<1>1. batch \in [Threads -> Seq(Nat)]
  BY DEF SendInv, SendTypes
<1>2. batch'[t] = mOutboundPackets /\ \A u \in Threads \ {t} : batch'[u] = batch[u]
  BY <1>1 DEF Begins
<1>3. InLine(accepted, delivered, wire, batch', <<>>)
  BY <1>2, LineTakes DEF Line
<1> QED BY <1>3 DEF Line, Begins

LEMMA LineImmediate ==
    ASSUME SendInv, Line, NEW t \in Threads, SendPacketImmediately(t)
    PROVE  Line'
<1>1. /\ Begins(t, <<Len(accepted) + 1>>)
      /\ accepted' = Append(accepted, "immediate") /\ mOutboundPackets' = mOutboundPackets
  BY ImmediateSteps
<1>2. "immediate" \in Kinds /\ SendTypes
  BY DEF Kinds, SendInv
<1>3. PICK n : n = Len(accepted) + 1
  OBVIOUS
<1>4. accepted'[n] = "immediate"
  BY <1>1, <1>2, <1>3, AcceptMore
<1>5. InLine(accepted', delivered, wire, batch, mOutboundPackets)
  BY <1>1, <1>2, LineAppend
<1>6. PICK a : a = accepted'
  OBVIOUS
<1>7. /\ Sorted(a, <<n>>) /\ Behind(a, delivered, wire, <<n>>)
      /\ Ahead(a, <<n>>, mOutboundPackets)
  BY <1>4, <1>6, ImmediateApart DEF Behind
<1>8. batch'[t] = <<n>> /\ \A u \in Threads \ {t} : batch'[u] = batch[u]
  BY <1>1, <1>2, <1>3 DEF Begins, SendTypes
<1>9. InLine(a, delivered, wire, batch', mOutboundPackets)
  BY <1>5, <1>6, <1>7, <1>8, LineBegins
<1> QED BY <1>1, <1>6, <1>9 DEF Line, Begins

LEMMA LineFinish ==
    ASSUME SendInv, ~Overlap, Line, NEW t \in Threads, Sending(t), Finishes(t),
           wire' = wire \/ (Loaded(t) /\ wire' = Append(wire, frame[t]))
    PROVE  Line'
<1>1. /\ batch \in [Threads -> Seq(Nat)] /\ wire \in Seq(Frames) /\ frame \in [Threads -> Frames]
      /\ SenderShape
  BY DEF SendInv, SendTypes
<1>2. \A u \in Threads \ {t} : ~Sending(u)
  BY Alone
<1>3. \A u \in Threads : batch'[u] = <<>>
  BY <1>1, <1>2 DEF Finishes, SenderShape
<1>4. UNCHANGED <<accepted, delivered, mOutboundPackets>>
  BY DEF Finishes
<1>5. CASE wire' = wire
  <2>1. \A u \in Threads : u # t => batch'[u] = batch[u]
    BY <1>1 DEF Finishes
  <2>2. /\ Sorted(accepted, <<>>) /\ Behind(accepted, delivered, wire, <<>>)
        /\ Ahead(accepted, <<>>, mOutboundPackets)
    BY NothingAhead DEF Behind
  <2>3. InLine(accepted, delivered, wire, batch', mOutboundPackets)
    BY <1>3, <2>1, <2>2, LineBegins DEF Line
  <2> QED BY <1>4, <1>5, <2>3 DEF Line
<1>6. CASE Loaded(t) /\ wire' = Append(wire, frame[t])
  <2>1. frame[t] \in Frames /\ frame[t].packets = batch[t]
    BY <1>1, <1>6 DEF SenderShape
  <2>2. InLine(accepted, delivered, Append(wire, frame[t]), batch', mOutboundPackets)
    BY <1>1, <1>3, <2>1, LineSends DEF Line
  <2> QED BY <1>4, <1>6, <2>2 DEF Line
<1> QED BY <1>5, <1>6

LEMMA LineRead ==
    ASSUME SendInv, Line, NEW f \in Frames, Reads(f)
    PROVE  Line'
<1>1. delivered \in Seq(Nat) /\ wire \in Seq(Frames) /\ wire # <<>>
  BY DEF SendInv, SendTypes, Known, Reads
<1>2. /\ InLine(accepted, delivered \o f.packets, Tail(wire), batch, mOutboundPackets)
      /\ InLine(accepted, delivered, Tail(wire), batch, mOutboundPackets)
  BY <1>1, LineReads DEF Line, Reads
<1> QED BY <1>2 DEF Line, Reads

LEMMA EffectKeepsLine ==
    ASSUME SendInv, ~Overlap, Effect, Line
    PROVE  Line'
<1>1. CASE \E t \in Threads : Quiet(t)
  BY <1>1, LineStays DEF Quiet, Untouched
<1>2. ASSUME NEW kind, Enqueues(kind) PROVE Line'
  <2>1. kind \in Kinds /\ accepted' = Append(accepted, kind)
    BY <1>2 DEF Enqueues
  <2>2. InLine(accepted', delivered, wire, batch, Append(mOutboundPackets, Len(accepted) + 1))
    BY <2>1, LineAppend
  <2> QED BY <1>2, <2>2 DEF Enqueues, Line
<1>3. CASE Enqueues("queued") \/ \E mode \in Modes : QueueMarker(mode)
  BY <1>2, <1>3, QueueSteps
<1>4. CASE \E t \in Threads : Flush(t) \/ (t = Strand /\ FlushPending /\ CanFlush)
  BY <1>4, TakeSteps, LineTake
<1>5. CASE \E t \in Threads : SendPacketImmediately(t)
  BY <1>5, LineImmediate
<1>6. CASE \E t \in Threads : LoadPeer(t)
  <2>1. PICK t \in Threads : LoadPeer(t)
    BY <1>6
  <2>2. CASE Loads(t)
    BY <2>2, LineStays DEF Loads
  <2>3. CASE Finishes(t) /\ pc[t] = "load" /\ wire' = wire
    BY <2>3, LineFinish DEF Sending
  <2> QED BY <2>1, <2>2, <2>3, LoadSteps
<1>7. CASE \E t \in Threads : Checksum(t) \/ Cipher(t)
  BY <1>7, LineStays DEF Checksum, Cipher, far, queues
<1>8. CASE \E t \in Threads : CipherFails(t) \/ SendFrame(t)
  <2>1. PICK t \in Threads : CipherFails(t) \/ SendFrame(t)
    BY <1>8
  <2>2. /\ Finishes(t) /\ Sending(t)
        /\ wire' = wire \/ (Loaded(t) /\ wire' = Append(wire, frame[t]))
    BY <2>1, FinishSteps DEF Sending, Loaded
  <2> QED BY <2>2, LineFinish
<1>9. CASE Skips \/ Sets
  BY <1>9, LineStays DEF Skips, Sets
<1>10. CASE \E f \in Frames : Reads(f)
  BY <1>10, LineRead
<1> QED BY <1>1, <1>3, <1>4, <1>5, <1>6, <1>7, <1>8, <1>9, <1>10 DEF Effect

LineInv == ~raced => Line

OrderInv == ModeInv /\ LineInv

LEMMA InitOrder == Init => OrderInv
<1>1. Init => InLine(accepted, delivered, wire, batch, mOutboundPackets)
  BY NothingAhead DEF Init, InLine, Behind
<1> QED BY <1>1, InitMode DEF OrderInv, LineInv, Line

LEMMA NextKeepsOrder == OrderInv /\ [Next]_vars => OrderInv'
<1> SUFFICES ASSUME OrderInv, [Next]_vars PROVE OrderInv'
  OBVIOUS
<1>1. ModeInv' /\ SendInv /\ SwitchInv /\ Effect
  BY NextKeepsMode, StepEffect DEF OrderInv, ModeInv
<1>2. CASE raced'
  BY <1>1, <1>2 DEF OrderInv, LineInv
<1>3. CASE ~raced'
  <2>1. ~raced /\ ~Overlap
    BY <1>1, <1>3, RacedStays DEF SwitchInv
  <2>2. Line'
    BY <1>1, <2>1, EffectKeepsLine DEF OrderInv, LineInv
  <2> QED BY <1>1, <2>2 DEF OrderInv, LineInv
<1> QED BY <1>2, <1>3

(* Whatever is queued, flushed by whom, read and refused in between: as    *)
(* long as no two threads sent at once the packets that went through the   *)
(* queue arrive in the order they were accepted in                         *)
(* (Session.cpp:83-106, 128-213).                                          *)
THEOREM PacketsKeepOrder == Spec => []QueuedInOrder
<1>1. OrderInv => QueuedInOrder
  <2> SUFFICES ASSUME OrderInv, ~raced
               PROVE  /\ InOrder(delivered)
                      /\ \A i \in DOMAIN wire : InOrder(delivered \o wire[i].packets)
                      /\ \A i, j \in DOMAIN wire :
                            i < j => InOrder(wire[i].packets \o wire[j].packets)
    BY DEF QueuedInOrder
  <2>1. Line
    BY DEF OrderInv, LineInv
  <2>2. delivered \in Seq(Nat) /\ \A i \in DOMAIN wire : wire[i].packets \in Seq(Nat)
    BY DEF OrderInv, ModeInv, SendInv, SendTypes, Known
  <2>3. \A s : Sorted(accepted, s) => InOrder(s)
    BY DEF Sorted, InOrder, Queued
  <2>4. \A s, u \in Seq(Nat) : Sorted(accepted, s) /\ Sorted(accepted, u) /\ Ahead(accepted, s, u)
                                 => InOrder(s \o u)
    BY <2>3, JoinedOrder
  <2> QED BY <2>1, <2>2, <2>3, <2>4 DEF Line, InLine
<1> QED BY <1>1, InitOrder, NextKeepsOrder, PTL DEF Spec

-----------------------------------------------------------------------------
(* Where the packets are.  q, b, w, d and r stand for the queue, the       *)
(* batches, the wire, what was read and what was refused.                  *)
Apart(s, u) == Range(s) \intersect Range(u) = {}

Away(s, d, q, r) == Apart(s, d) /\ Apart(s, q) /\ Range(s) \intersect r = {}

(* No packet is in two places, or twice in one.                            *)
Spread(d, w, b, q, r) ==
    /\ IsInjective(d) /\ IsInjective(q) /\ Apart(q, d)
    /\ Range(q) \intersect r = {} /\ Range(d) \intersect r = {}
    /\ \A t \in Threads : IsInjective(b[t]) /\ Away(b[t], d, q, r)
    /\ \A i \in DOMAIN w : IsInjective(w[i].packets) /\ Away(w[i].packets, d, q, r)
    /\ \A t, u \in Threads : t # u => Apart(b[t], b[u])
    /\ \A i, j \in DOMAIN w : i # j => Apart(w[i].packets, w[j].packets)
    /\ \A t \in Threads, i \in DOMAIN w : Apart(b[t], w[i].packets)

Somewhere(p, d, w, b, q, r) ==
    \/ p \in Range(d) \/ p \in Range(q) \/ p \in r
    \/ \E t \in Threads : p \in Range(b[t])
    \/ \E i \in DOMAIN w : p \in Range(w[i].packets)

Covers(n, d, w, b, q, r) == \A p \in 1..n : Somewhere(p, d, w, b, q, r)

LEMMA NoPackets == Range(<<>>) = {} /\ IsInjective(<<>>)
BY DEF Range, IsInjective

LEMMA OnePacket == ASSUME NEW n PROVE Range(<<n>>) = {n} /\ IsInjective(<<n>>)
BY DEF Range, IsInjective

LEMMA OneMore ==
    ASSUME NEW s \in Seq(Nat), NEW n \in Nat
    PROVE  /\ Range(Append(s, n)) = Range(s) \union {n}
           /\ IsInjective(s) /\ n \notin Range(s) => IsInjective(Append(s, n))
<1>1. PICK u, k : u = Append(s, n) /\ k = Len(s)
  OBVIOUS
<1>2. /\ k \in Nat /\ DOMAIN u = 1..(k + 1) /\ DOMAIN s = 1..k
      /\ u[k + 1] = n /\ \A i \in 1..k : u[i] = s[i]
  BY <1>1
<1>3. ASSUME NEW x PROVE x \in Range(u) <=> x \in Range(s) \/ x = n
  BY <1>2 DEF Range
<1>4. IsInjective(s) /\ n \notin Range(s) => IsInjective(u)
  <2> SUFFICES ASSUME IsInjective(s), n \notin Range(s),
                      NEW i \in 1..(k + 1), NEW j \in 1..(k + 1), u[i] = u[j]
               PROVE  i = j
    BY <1>2 DEF IsInjective
  <2>1. \A l \in 1..k : u[l] # n
    BY <1>2 DEF Range
  <2>2. CASE i = k + 1 \/ j = k + 1
    BY <1>2, <2>1, <2>2
  <2>3. CASE i \in 1..k /\ j \in 1..k
    BY <1>2, <2>3 DEF IsInjective
  <2> QED BY <1>2, <2>2, <2>3
<1> QED BY <1>1, <1>3, <1>4

LEMMA BothOfThem ==
    ASSUME NEW s \in Seq(Nat), NEW u \in Seq(Nat)
    PROVE  /\ Range(s \o u) = Range(s) \union Range(u)
           /\ IsInjective(s) /\ IsInjective(u) /\ Apart(s, u) => IsInjective(s \o u)
<1>1. PICK w, k, m : w = s \o u /\ k = Len(s) /\ m = Len(u)
  OBVIOUS
<1>2. /\ k \in Nat /\ m \in Nat /\ DOMAIN s = 1..k /\ DOMAIN u = 1..m /\ DOMAIN w = 1..(k + m)
      /\ \A i \in 1..k : w[i] = s[i]
      /\ \A i \in 1..(k + m) : i > k => i - k \in 1..m /\ w[i] = u[i - k]
      /\ \A j \in 1..m : j + k \in 1..(k + m) /\ w[j + k] = u[j]
  BY <1>1
<1>3. ASSUME NEW x PROVE x \in Range(w) <=> x \in Range(s) \/ x \in Range(u)
  <2>1. ASSUME NEW i \in 1..(k + m) PROVE w[i] \in Range(s) \/ w[i] \in Range(u)
    <3>1. CASE i <= k
      BY <1>2, <3>1 DEF Range
    <3>2. CASE i > k
      BY <1>2, <3>2 DEF Range
    <3> QED BY <1>2, <3>1, <3>2
  <2>2. ASSUME NEW i \in 1..k PROVE s[i] \in Range(w)
    <3>1. i \in 1..(k + m) /\ w[i] = s[i]
      BY <1>2
    <3> QED BY <1>2, <3>1 DEF Range
  <2>3. ASSUME NEW j \in 1..m PROVE u[j] \in Range(w)
    <3>1. j + k \in 1..(k + m) /\ w[j + k] = u[j]
      BY <1>2
    <3> QED BY <1>2, <3>1 DEF Range
  <2> QED BY <1>2, <2>1, <2>2, <2>3 DEF Range
<1>4. IsInjective(s) /\ IsInjective(u) /\ Apart(s, u) => IsInjective(w)
  <2> SUFFICES ASSUME IsInjective(s), IsInjective(u), Apart(s, u),
                      NEW i \in 1..(k + m), NEW j \in 1..(k + m), w[i] = w[j], i < j
               PROVE  FALSE
    BY <1>2 DEF IsInjective
  <2>1. CASE j <= k
    <3>1. i \in DOMAIN s /\ j \in DOMAIN s /\ s[i] = s[j] /\ i # j
      BY <1>2, <2>1
    <3> QED BY <3>1 DEF IsInjective
  <2>2. CASE i > k
    <3>1. PICK x \in 1..m, y \in 1..m : x = i - k /\ y = j - k /\ x # y
      BY <1>2, <2>2
    <3>2. u[x] = u[y]
      BY <1>2, <2>2, <3>1
    <3> QED BY <1>2, <3>1, <3>2 DEF IsInjective
  <2>3. CASE i <= k /\ j > k
    <3>1. i \in 1..k /\ j - k \in 1..m /\ s[i] = u[j - k]
      BY <1>2, <2>3
    <3>2. s[i] \in Range(s) /\ u[j - k] \in Range(u)
      BY <1>2, <3>1 DEF Range
    <3> QED BY <3>1, <3>2 DEF Apart
  <2> QED BY <1>2, <2>1, <2>2, <2>3
<1> QED BY <1>1, <1>3, <1>4

(* What each step does to the places.                                      *)
LEMMA KnownRange ==
    ASSUME NEW n, NEW s, Known(n, s) PROVE Range(s) \subseteq 1..n /\ s \in Seq(Nat)
BY DEF Known, Range

LEMMA SpreadEnqueues ==
    ASSUME NEW n \in Nat, NEW d, NEW w, NEW b, NEW q, NEW r,
           AllKnown(n, d, w, b, q), r \subseteq 1..n, Spread(d, w, b, q, r)
    PROVE  /\ Spread(d, w, b, Append(q, n + 1), r)
           /\ Covers(n, d, w, b, q, r) => Covers(n + 1, d, w, b, Append(q, n + 1), r)
<1>1. PICK x : x = Append(q, n + 1)
  OBVIOUS
<1>2. /\ Range(d) \subseteq 1..n /\ Range(q) \subseteq 1..n /\ q \in Seq(Nat)
      /\ \A t \in Threads : Range(b[t]) \subseteq 1..n
      /\ \A i \in DOMAIN w : Range(w[i].packets) \subseteq 1..n
  BY KnownRange DEF AllKnown
<1>3. n + 1 \notin 1..n
  OBVIOUS
<1>4. IsInjective(x) /\ Range(x) = Range(q) \union {n + 1}
  BY <1>1, <1>2, <1>3, OneMore DEF Spread
<1>5. Spread(d, w, b, x, r)
  <2>1. Apart(x, d) /\ Range(x) \intersect r = {}
    BY <1>2, <1>3, <1>4 DEF Spread, Apart
  <2>2. \A t \in Threads : Apart(b[t], x)
    BY <1>2, <1>3, <1>4 DEF Spread, Away, Apart
  <2>3. \A i \in DOMAIN w : Apart(w[i].packets, x)
    BY <1>2, <1>3, <1>4 DEF Spread, Away, Apart
  <2> QED BY <1>4, <2>1, <2>2, <2>3 DEF Spread, Away
<1>6. Covers(n, d, w, b, q, r) => Covers(n + 1, d, w, b, x, r)
  <2>1. \A p \in 1..(n + 1) : p \in 1..n \/ p \in Range(x)
    BY <1>4
  <2> QED BY <1>4, <2>1 DEF Covers, Somewhere
<1> QED BY <1>1, <1>5, <1>6

LEMMA SpreadBegins ==
    ASSUME NEW n \in Nat, NEW d, NEW w, NEW b, NEW q, NEW r,
           AllKnown(n, d, w, b, q), r \subseteq 1..n, Spread(d, w, b, q, r),
           NEW t \in Threads, b[t] = <<>>, NEW b2, \A u \in Threads \ {t} : b2[u] = b[u]
    PROVE  /\ b2[t] = q => /\ Spread(d, w, b2, <<>>, r)
                           /\ Covers(n, d, w, b, q, r) => Covers(n, d, w, b2, <<>>, r)
           /\ b2[t] = <<n + 1>> =>
                 /\ Spread(d, w, b2, q, r)
                 /\ Covers(n, d, w, b, q, r) => Covers(n + 1, d, w, b2, q, r)
<1>1. /\ Range(d) \subseteq 1..n /\ Range(q) \subseteq 1..n
      /\ \A u \in Threads : Range(b[u]) \subseteq 1..n
      /\ \A i \in DOMAIN w : Range(w[i].packets) \subseteq 1..n
  BY KnownRange DEF AllKnown
<1>2. n + 1 \notin 1..n /\ \A p \in 1..(n + 1) : p \in 1..n \/ p = n + 1
  OBVIOUS
<1>3. ASSUME b2[t] = q PROVE Spread(d, w, b2, <<>>, r)
  <2>1. \A u \in Threads : IsInjective(b2[u]) /\ Away(b2[u], d, <<>>, r)
    BY <1>3, NoPackets DEF Spread, Away, Apart
  <2>2. \A i \in DOMAIN w : Away(w[i].packets, d, <<>>, r)
    BY NoPackets DEF Spread, Away, Apart
  <2>3. \A u, v \in Threads : u # v => Apart(b2[u], b2[v])
    BY <1>3 DEF Spread, Away, Apart
  <2>4. \A u \in Threads, i \in DOMAIN w : Apart(b2[u], w[i].packets)
    BY <1>3 DEF Spread, Away, Apart
  <2> QED BY <2>1, <2>2, <2>3, <2>4, NoPackets DEF Spread, Apart
<1>4. ASSUME b2[t] = q, Covers(n, d, w, b, q, r) PROVE Covers(n, d, w, b2, <<>>, r)
  BY <1>4, NoPackets DEF Covers, Somewhere
<1>5. ASSUME b2[t] = <<n + 1>> PROVE Spread(d, w, b2, q, r)
  <2>0. Range(b2[t]) = {n + 1} /\ IsInjective(b2[t])
    BY <1>5, OnePacket
  <2>1. \A u \in Threads : IsInjective(b2[u]) /\ Away(b2[u], d, q, r)
    BY <1>1, <1>2, <2>0 DEF Spread, Away, Apart
  <2>2. \A u, v \in Threads : u # v => Apart(b2[u], b2[v])
    BY <1>1, <1>2, <2>0 DEF Spread, Apart
  <2>3. \A u \in Threads, i \in DOMAIN w : Apart(b2[u], w[i].packets)
    BY <1>1, <1>2, <2>0 DEF Spread, Apart
  <2> QED BY <2>1, <2>2, <2>3 DEF Spread
<1>6. ASSUME b2[t] = <<n + 1>>, Covers(n, d, w, b, q, r) PROVE Covers(n + 1, d, w, b2, q, r)
  <2>0. Range(b2[t]) = {n + 1}
    BY <1>6, OnePacket
  <2> SUFFICES ASSUME NEW p \in 1..n PROVE Somewhere(p, d, w, b2, q, r)
    BY <1>2, <2>0 DEF Covers, Somewhere
  <2>1. CASE \E u \in Threads : p \in Range(b[u])
    <3>1. PICK u \in Threads : p \in Range(b[u])
      BY <2>1
    <3>2. u # t
      BY <3>1, NoPackets
    <3> QED BY <3>1, <3>2 DEF Somewhere
  <2>2. CASE ~\E u \in Threads : p \in Range(b[u])
    BY <1>6, <2>2 DEF Covers, Somewhere
  <2> QED BY <2>1, <2>2
<1> QED BY <1>3, <1>4, <1>5, <1>6

(* A batch is dropped, or the queue: nothing moves to another place.       *)
LEMMA SpreadDrops ==
    ASSUME NEW d, NEW w, NEW b, NEW q, NEW r, Spread(d, w, b, q, r), NEW b2, NEW q2,
           \A t \in Threads : b2[t] = b[t] \/ b2[t] = <<>>, q2 = q \/ q2 = <<>>
    PROVE  Spread(d, w, b2, q2, r)
<1>1. /\ IsInjective(q2) /\ Range(q2) \subseteq Range(q)
      /\ \A t \in Threads : IsInjective(b2[t]) /\ Range(b2[t]) \subseteq Range(b[t])
  BY NoPackets DEF Spread
<1>2. /\ Apart(q2, d) /\ Range(q2) \intersect r = {}
      /\ \A t \in Threads : Away(b2[t], d, q2, r)
      /\ \A i \in DOMAIN w : Away(w[i].packets, d, q2, r)
  BY <1>1 DEF Spread, Away, Apart
<1>3. /\ \A t, u \in Threads : t # u => Apart(b2[t], b2[u])
      /\ \A t \in Threads, i \in DOMAIN w : Apart(b2[t], w[i].packets)
  BY <1>1 DEF Spread, Apart
<1> QED BY <1>1, <1>2, <1>3 DEF Spread

LEMMA SpreadSends ==
    ASSUME NEW n, NEW d, NEW w \in Seq(Frames), NEW b, NEW q, NEW r, Spread(d, w, b, q, r),
           NEW t \in Threads, NEW f \in Frames, f.packets = b[t],
           NEW b2, b2[t] = <<>>, \A u \in Threads \ {t} : b2[u] = b[u]
    PROVE  /\ Spread(d, Append(w, f), b2, q, r)
           /\ Covers(n, d, w, b, q, r) => Covers(n, d, Append(w, f), b2, q, r)
<1>1. PICK x, k : x = Append(w, f) /\ k = Len(w)
  OBVIOUS
<1>2. /\ k \in Nat /\ DOMAIN w = 1..k /\ DOMAIN x = 1..(k + 1) /\ k + 1 \notin 1..k
      /\ x[k + 1] = f /\ \A i \in 1..k : x[i] = w[i]
      /\ \A i \in 1..(k + 1) : i \in 1..k \/ i = k + 1
  BY <1>1
<1>3. Spread(d, w, b2, q, r)
  BY SpreadDrops
<1>4. /\ IsInjective(f.packets) /\ Away(f.packets, d, q, r)
      /\ \A u \in Threads : Apart(b2[u], f.packets)
      /\ \A i \in DOMAIN w : Apart(w[i].packets, f.packets) /\ Apart(f.packets, w[i].packets)
  BY NoPackets DEF Spread, Apart
<1>5. \A i \in DOMAIN x : /\ IsInjective(x[i].packets) /\ Away(x[i].packets, d, q, r)
                          /\ \A u \in Threads : Apart(b2[u], x[i].packets)
  BY <1>2, <1>3, <1>4 DEF Spread
<1>6. \A i, j \in DOMAIN x : i # j => Apart(x[i].packets, x[j].packets)
  BY <1>2, <1>3, <1>4 DEF Spread
<1>7. Spread(d, x, b2, q, r)
  BY <1>3, <1>5, <1>6 DEF Spread
<1>8. ASSUME NEW p, Somewhere(p, d, w, b, q, r) PROVE Somewhere(p, d, x, b2, q, r)
  <2>1. CASE p \in Range(b[t])
    BY <1>2, <2>1 DEF Somewhere
  <2>2. CASE \E u \in Threads \ {t} : p \in Range(b[u])
    BY <2>2 DEF Somewhere
  <2>3. CASE \E i \in DOMAIN w : p \in Range(w[i].packets)
    <3>1. PICK i \in DOMAIN w : p \in Range(w[i].packets)
      BY <2>3
    <3>2. i \in DOMAIN x /\ x[i] = w[i]
      BY <1>2
    <3> QED BY <3>1, <3>2 DEF Somewhere
  <2> QED BY <1>8, <2>1, <2>2, <2>3 DEF Somewhere
<1> QED BY <1>1, <1>7, <1>8 DEF Covers

LEMMA SpreadReads ==
    ASSUME NEW n, NEW d \in Seq(Nat), NEW w \in Seq(Frames), w # <<>>, NEW b, NEW q, NEW r,
           Spread(d, w, b, q, r)
    PROVE  /\ Spread(d \o Head(w).packets, Tail(w), b, q, r)
           /\ Spread(d, Tail(w), b, q, r \union Range(Head(w).packets))
           /\ Covers(n, d, w, b, q, r) =>
                 /\ Covers(n, d \o Head(w).packets, Tail(w), b, q, r)
                 /\ Covers(n, d, Tail(w), b, q, r \union Range(Head(w).packets))
<1>1. PICK x, s, k : x = Tail(w) /\ s = Head(w).packets /\ k = Len(w)
  OBVIOUS
<1>2. /\ 1 \in DOMAIN w /\ s = w[1].packets /\ s \in Seq(Nat)
      /\ \A i \in DOMAIN x : i \in Nat /\ i + 1 \in DOMAIN w /\ x[i] = w[i + 1] /\ i + 1 # 1
      /\ \A i \in DOMAIN w : i = 1 \/ (i - 1 \in DOMAIN x /\ w[i] = x[i - 1])
  <2>1. 1 \in DOMAIN w /\ Head(w) = w[1] /\ w[1] \in Frames
    BY <1>1
  <2>2. \A i \in DOMAIN x : i \in Nat /\ i + 1 \in DOMAIN w /\ x[i] = w[i + 1] /\ i + 1 # 1
    BY <1>1
  <2>3. \A i \in DOMAIN w : i = 1 \/ (i - 1 \in DOMAIN x /\ w[i] = x[i - 1])
    BY <1>1
  <2>4. s \in Seq(Nat)
    BY <1>1, <2>1 DEF Frames
  <2> QED BY <1>1, <2>1, <2>2, <2>3, <2>4
<1>3. /\ IsInjective(s) /\ Away(s, d, q, r) /\ Apart(d, s)
      /\ \A t \in Threads : Apart(b[t], s)
      /\ \A i \in DOMAIN x : Apart(x[i].packets, s)
  BY <1>2 DEF Spread, Away, Apart
<1>4. /\ \A i \in DOMAIN x : IsInjective(x[i].packets) /\ Away(x[i].packets, d, q, r)
      /\ \A i \in DOMAIN x, t \in Threads : Apart(b[t], x[i].packets)
  BY <1>2 DEF Spread
<1>5. \A i, j \in DOMAIN x : i # j => Apart(x[i].packets, x[j].packets)
  <2> SUFFICES ASSUME NEW i \in DOMAIN x, NEW j \in DOMAIN x, i # j
               PROVE  Apart(x[i].packets, x[j].packets)
    OBVIOUS
  <2>1. PICK l \in DOMAIN w, m \in DOMAIN w : l = i + 1 /\ m = j + 1 /\ l # m
    BY <1>2
  <2>2. Apart(w[l].packets, w[m].packets)
    BY <2>1 DEF Spread
  <2> QED BY <1>2, <2>1, <2>2
<1>6. PICK v : v = d \o s
  OBVIOUS
<1>7. Range(v) = Range(d) \union Range(s) /\ IsInjective(v)
  BY <1>2, <1>3, <1>6, BothOfThem DEF Spread
<1>8. Spread(v, x, b, q, r)
  <2>1. Apart(q, v) /\ Range(v) \intersect r = {}
    BY <1>3, <1>7 DEF Spread, Away, Apart
  <2>2. \A t \in Threads : Away(b[t], v, q, r)
    BY <1>3, <1>7 DEF Spread, Away, Apart
  <2>3. \A i \in DOMAIN x : Away(x[i].packets, v, q, r)
    BY <1>3, <1>4, <1>7 DEF Away, Apart
  <2> QED BY <1>4, <1>5, <1>7, <2>1, <2>2, <2>3 DEF Spread
<1>9. Spread(d, x, b, q, r \union Range(s))
  <2>1. Range(q) \intersect (r \union Range(s)) = {} /\ Range(d) \intersect (r \union Range(s)) = {}
    BY <1>3 DEF Spread, Away, Apart
  <2>2. \A t \in Threads : Away(b[t], d, q, r \union Range(s))
    BY <1>3 DEF Spread, Away, Apart
  <2>3. \A i \in DOMAIN x : Away(x[i].packets, d, q, r \union Range(s))
    BY <1>3, <1>4 DEF Away, Apart
  <2> QED BY <1>4, <1>5, <2>1, <2>2, <2>3 DEF Spread
<1>10. ASSUME NEW p, Somewhere(p, d, w, b, q, r)
       PROVE  Somewhere(p, v, x, b, q, r) /\ Somewhere(p, d, x, b, q, r \union Range(s))
  <2>1. CASE \E i \in DOMAIN w : p \in Range(w[i].packets)
    <3>1. PICK i \in DOMAIN w : p \in Range(w[i].packets)
      BY <2>1
    <3>2. CASE i = 1
      BY <1>2, <1>7, <3>1, <3>2 DEF Somewhere
    <3>3. CASE i - 1 \in DOMAIN x /\ w[i] = x[i - 1]
      BY <3>1, <3>3 DEF Somewhere
    <3> QED BY <1>2, <3>2, <3>3
  <2>2. CASE ~\E i \in DOMAIN w : p \in Range(w[i].packets)
    BY <1>7, <1>10, <2>2 DEF Somewhere
  <2> QED BY <2>1, <2>2
<1> QED BY <1>1, <1>6, <1>8, <1>9, <1>10 DEF Covers

-----------------------------------------------------------------------------
(* Every step keeps the packets apart, and loses none while the session    *)
(* is alive and the cipher works.                                          *)
Lost == ~mConnected \/ ~mPeer \/ cipherFailed

Scattered == Spread(delivered, wire, batch, mOutboundPackets, rejected)

Complete ==
    Lost \/ Covers(Len(accepted), delivered, wire, batch, mOutboundPackets, rejected)

PlaceInv == Scattered /\ Complete

LEMMA PlacesStay ==
    ASSUME PlaceInv, UNCHANGED <<accepted, delivered, wire, batch, rejected>>, Lost => Lost',
           mOutboundPackets' = mOutboundPackets \/ (mOutboundPackets' = <<>> /\ Lost')
    PROVE  PlaceInv'
<1>1. Scattered'
  BY SpreadDrops DEF PlaceInv, Scattered
<1>2. Complete'
  BY DEF PlaceInv, Complete
<1> QED BY <1>1, <1>2 DEF PlaceInv

LEMMA PlaceEnqueue ==
    ASSUME SendInv, PlaceInv, NEW kind, Enqueues(kind)
    PROVE  PlaceInv'
<1>1. PICK n, d, w, s, q, r : /\ n = Len(accepted) /\ d = delivered /\ w = wire /\ s = batch
                              /\ q = mOutboundPackets /\ r = rejected
  OBVIOUS
<1>2. AllKnown(n, d, w, s, q) /\ n \in Nat /\ r \subseteq 1..n
  BY <1>1, AllAreKnown DEF SendInv, SendTypes
<1>3. Len(accepted') = n + 1
  BY <1>1, AcceptMore DEF Enqueues, SendInv
<1>4. /\ Spread(d, w, s, Append(q, n + 1), r)
      /\ Covers(n, d, w, s, q, r) => Covers(n + 1, d, w, s, Append(q, n + 1), r)
  BY <1>1, <1>2, SpreadEnqueues DEF PlaceInv, Scattered
<1>5. /\ delivered' = d /\ wire' = w /\ batch' = s /\ mOutboundPackets' = Append(q, n + 1)
      /\ rejected' = r /\ Lost' = Lost
  BY <1>1 DEF Enqueues, Lost
<1>6. Scattered'
  BY <1>4, <1>5 DEF Scattered
<1>7. Complete'
  BY <1>1, <1>3, <1>4, <1>5 DEF PlaceInv, Complete
<1> QED BY <1>6, <1>7 DEF PlaceInv

LEMMA PlaceBegin ==
    ASSUME SendInv, PlaceInv, NEW t \in Threads,
           \/ /\ Begins(t, mOutboundPackets) /\ mOutboundPackets' = <<>> /\ accepted' = accepted
           \/ SendPacketImmediately(t)
    PROVE  PlaceInv'
<1>1. PICK n, d, w, s, q, r : /\ n = Len(accepted) /\ d = delivered /\ w = wire /\ s = batch
                              /\ q = mOutboundPackets /\ r = rejected
  OBVIOUS
<1>2. AllKnown(n, d, w, s, q) /\ n \in Nat /\ r \subseteq 1..n /\ Spread(d, w, s, q, r)
  BY <1>1, AllAreKnown DEF SendInv, SendTypes, PlaceInv, Scattered
<1>3. PICK packets : Begins(t, packets)
  BY ImmediateSteps
<1>4. s[t] = <<>> /\ s \in [Threads -> Seq(Nat)]
  BY <1>1, <1>3 DEF Begins, SendInv, SenderShape, SendTypes, Sending
<1>5. \A u \in Threads \ {t} : batch'[u] = s[u]
  BY <1>1, <1>3, <1>4 DEF Begins
<1>6. delivered' = d /\ wire' = w /\ rejected' = r /\ Lost' = Lost
  BY <1>1, <1>3 DEF Begins, Lost
<1>7. CASE Begins(t, mOutboundPackets) /\ mOutboundPackets' = <<>> /\ accepted' = accepted
  <2>1. batch'[t] = q
    BY <1>1, <1>4, <1>7 DEF Begins
  <2>2. /\ Spread(d, w, batch', <<>>, r)
        /\ Covers(n, d, w, s, q, r) => Covers(n, d, w, batch', <<>>, r)
    BY <1>2, <1>4, <1>5, <2>1, SpreadBegins
  <2> QED BY <1>1, <1>6, <1>7, <2>2 DEF PlaceInv, Scattered, Complete
<1>8. CASE SendPacketImmediately(t)
  <2>1. /\ Begins(t, <<n + 1>>) /\ accepted' = Append(accepted, "immediate")
        /\ mOutboundPackets' = q
    BY <1>1, <1>8, ImmediateSteps
  <2>2. Len(accepted') = n + 1
    BY <1>1, <2>1, AcceptMore DEF SendInv, Kinds
  <2>3. batch'[t] = <<n + 1>>
    BY <1>1, <1>4, <2>1 DEF Begins
  <2>4. /\ Spread(d, w, batch', q, r)
        /\ Covers(n, d, w, s, q, r) => Covers(n + 1, d, w, batch', q, r)
    BY <1>2, <1>4, <1>5, <2>3, SpreadBegins
  <2> QED BY <1>1, <1>6, <2>1, <2>2, <2>4 DEF PlaceInv, Scattered, Complete
<1> QED BY <1>7, <1>8

LEMMA PlaceFinish ==
    ASSUME SendInv, PlaceInv, NEW t \in Threads, Finishes(t), Lost => Lost',
           \/ wire' = wire /\ Lost'
           \/ Loaded(t) /\ wire' = Append(wire, frame[t])
    PROVE  PlaceInv'
<1>1. /\ batch \in [Threads -> Seq(Nat)] /\ wire \in Seq(Frames) /\ frame \in [Threads -> Frames]
      /\ SenderShape
  BY DEF SendInv, SendTypes
<1>2. batch'[t] = <<>> /\ \A u \in Threads \ {t} : batch'[u] = batch[u]
  BY <1>1 DEF Finishes
<1>3. UNCHANGED <<accepted, delivered, mOutboundPackets, rejected>>
  BY DEF Finishes
<1>4. CASE wire' = wire /\ Lost'
  <2>1. Spread(delivered, wire, batch', mOutboundPackets, rejected)
    BY <1>2, SpreadDrops DEF PlaceInv, Scattered
  <2> QED BY <1>3, <1>4, <2>1 DEF PlaceInv, Scattered, Complete
<1>5. CASE Loaded(t) /\ wire' = Append(wire, frame[t])
  <2>1. frame[t] \in Frames /\ frame[t].packets = batch[t]
    BY <1>1, <1>5 DEF SenderShape
  <2>2. PICK n, d, w, s, q, r : /\ n = Len(accepted) /\ d = delivered /\ w = wire /\ s = batch
                                /\ q = mOutboundPackets /\ r = rejected
    OBVIOUS
  <2>3. /\ Spread(d, Append(w, frame[t]), batch', q, r)
        /\ Covers(n, d, w, s, q, r) => Covers(n, d, Append(w, frame[t]), batch', q, r)
    BY <1>1, <1>2, <2>1, <2>2, SpreadSends DEF PlaceInv, Scattered
  <2> QED BY <1>3, <1>5, <2>2, <2>3 DEF PlaceInv, Scattered, Complete
<1> QED BY <1>4, <1>5

LEMMA PlaceRead ==
    ASSUME SendInv, PlaceInv, NEW f \in Frames, Reads(f)
    PROVE  PlaceInv'
<1>1. PICK n, d, w, s, q, r : /\ n = Len(accepted) /\ d = delivered /\ w = wire /\ s = batch
                              /\ q = mOutboundPackets /\ r = rejected
  OBVIOUS
<1>2. d \in Seq(Nat) /\ w \in Seq(Frames) /\ w # <<>> /\ f = Head(w)
  BY <1>1 DEF SendInv, SendTypes, Known, Reads
<1>3. /\ Spread(d \o f.packets, Tail(w), s, q, r)
      /\ Spread(d, Tail(w), s, q, r \union Range(f.packets))
      /\ Covers(n, d, w, s, q, r) =>
            /\ Covers(n, d \o f.packets, Tail(w), s, q, r)
            /\ Covers(n, d, Tail(w), s, q, r \union Range(f.packets))
  BY <1>1, <1>2, SpreadReads DEF PlaceInv, Scattered
<1>4. /\ wire' = Tail(w) /\ batch' = s /\ mOutboundPackets' = q /\ accepted' = accepted
      /\ Lost' = Lost
      /\ \/ delivered' = d \o f.packets /\ rejected' = r
         \/ delivered' = d /\ rejected' = r \union Range(f.packets)
  BY <1>1 DEF Reads, Lost
<1> QED BY <1>1, <1>3, <1>4 DEF PlaceInv, Scattered, Complete

LEMMA EffectKeepsPlaces ==
    ASSUME SendInv, Effect, PlaceInv
    PROVE  PlaceInv'
<1>0. mConnected \in BOOLEAN /\ mPeer \in BOOLEAN
  BY DEF SendInv, EndInv, EndTypes
<1>1. CASE \E t \in Threads : Quiet(t)
  BY <1>1, PlacesStay DEF Quiet, Untouched, Lost
<1>2. CASE Enqueues("queued") \/ \E mode \in Modes : QueueMarker(mode)
  BY <1>2, QueueSteps, PlaceEnqueue
<1>3. CASE \E t \in Threads : Flush(t) \/ (t = Strand /\ FlushPending /\ CanFlush)
  BY <1>3, TakeSteps, PlaceBegin
<1>4. CASE \E t \in Threads : SendPacketImmediately(t)
  BY <1>4, PlaceBegin
<1>5. CASE \E t \in Threads : LoadPeer(t)
  <2>1. PICK t \in Threads : LoadPeer(t)
    BY <1>5
  <2>2. CASE Loads(t)
    BY <2>2, PlacesStay DEF Loads, Lost
  <2>3. CASE /\ Finishes(t) /\ ~(mPeer /\ mConnected) /\ UNCHANGED <<wire, cipherFailed>>
    <3>1. Lost /\ Lost'
      BY <2>3 DEF Finishes, Lost
    <3> QED BY <2>3, <3>1, PlaceFinish
  <2> QED BY <2>1, <2>2, <2>3, LoadSteps
<1>6. CASE \E t \in Threads : Checksum(t) \/ Cipher(t)
  BY <1>6, PlacesStay DEF Checksum, Cipher, far, queues, ends, Lost
<1>7. CASE \E t \in Threads : CipherFails(t)
  <2>1. PICK t \in Threads : Finishes(t) /\ cipherFailed' /\ wire' = wire
    BY <1>7, FinishSteps
  <2> QED BY <2>1, PlaceFinish DEF Lost
<1>8. CASE \E t \in Threads : SendFrame(t)
  <2>1. PICK t \in Threads :
            /\ Finishes(t) /\ Loaded(t) /\ cipherFailed' = cipherFailed
            /\ wire' = IF link THEN Append(wire, frame[t]) ELSE wire
    BY <1>8, FinishSteps DEF Loaded
  <2>2. Lost' = Lost
    BY <2>1 DEF Finishes, Lost
  <2>3. ~link => Lost
    BY DEF SendInv, SenderShape, Lost
  <2> QED BY <2>1, <2>2, <2>3, PlaceFinish
<1>9. CASE Skips \/ Sets
  BY <1>9, PlacesStay DEF Skips, Sets, Lost
<1>10. CASE \E f \in Frames : Reads(f)
  BY <1>10, PlaceRead
<1> QED BY <1>1, <1>2, <1>3, <1>4, <1>5, <1>6, <1>7, <1>8, <1>9, <1>10 DEF Effect

LEMMA InitPlaces == Init => SendInv /\ PlaceInv
<1> SUFFICES ASSUME Init PROVE PlaceInv
  BY InitSend
<1>1. Range(delivered) = {} /\ Range(mOutboundPackets) = {} /\ rejected = {} /\ wire = <<>>
  BY NoPackets DEF Init
<1>2. \A t \in Threads : batch[t] = <<>>
  BY DEF Init
<1>3. Scattered
  BY <1>1, <1>2, NoPackets DEF Init, Scattered, Spread, Away, Apart
<1>4. Complete
  BY DEF Init, Complete, Covers
<1> QED BY <1>3, <1>4 DEF PlaceInv

(* Whoever queues, flushes, sends past the queue and switches at once:     *)
(* a packet is in one place only, and one that was accepted is somewhere   *)
(* until the session ends, the peer is detached or the cipher fails        *)
(* (Session.cpp:64-81, 83-106, 128-213).                                   *)
THEOREM PacketsStayOne == Spec => []PacketsConserved
<1>1. SendInv /\ PlaceInv => PacketsConserved
  <2> SUFFICES ASSUME SendInv, PlaceInv PROVE PacketsConserved
    OBVIOUS
  <2>1. Scattered /\ Complete
    BY DEF PlaceInv
  <2>2. /\ IsInjective(mOutboundPackets) /\ IsInjective(delivered)
        /\ \A t, u \in Threads : t # u => Distinct(batch[t], batch[u])
        /\ \A i \in DOMAIN wire : IsInjective(wire[i].packets)
        /\ \A i, j \in DOMAIN wire : i # j => Distinct(wire[i].packets, wire[j].packets)
    BY <2>1 DEF Scattered, Spread, Distinct, Apart
  <2>3. PICK a, b, c, d, e : /\ a = Range(mOutboundPackets) /\ b = Batched /\ c = OnWire
                             /\ d = Range(delivered) /\ e = rejected
    OBVIOUS
  <2>4. Whereabouts = <<a, b, c, d, e>>
    BY <2>3 DEF Whereabouts
  <2>5. /\ a \intersect b = {} /\ a \intersect c = {} /\ a \intersect d = {}
        /\ a \intersect e = {} /\ b \intersect d = {} /\ b \intersect e = {}
        /\ c \intersect d = {} /\ c \intersect e = {} /\ d \intersect e = {}
    BY <2>1, <2>3 DEF Scattered, Spread, Away, Apart, Batched, OnWire
  <2>6. b \intersect c = {}
    BY <2>1, <2>3 DEF Scattered, Spread, Apart, Batched, OnWire
  <2>7. \A i, j \in DOMAIN Whereabouts : i # j => Whereabouts[i] \intersect Whereabouts[j] = {}
    <3>1. \A i, j \in 1..5 : i # j => <<a, b, c, d, e>>[i] \intersect <<a, b, c, d, e>>[j] = {}
      BY <2>5, <2>6
    <3> QED BY <2>4, <3>1
  <2>8. Packets \subseteq UNION Range(Whereabouts) \/ Lost
    <3>1. a \union b \union c \union d \union e = UNION Range(Whereabouts)
      BY <2>4 DEF Range
    <3>2. ASSUME ~Lost, NEW p \in Packets PROVE p \in a \union b \union c \union d \union e
      BY <2>1, <2>3, <3>2 DEF Complete, Covers, Somewhere, Packets, Batched, OnWire
    <3> QED BY <3>1, <3>2
  <2> QED BY <2>2, <2>7, <2>8 DEF PacketsConserved, Lost
<1>2. SendInv /\ PlaceInv /\ [Next]_vars => SendInv' /\ PlaceInv'
  BY NextKeepsSend, StepEffect, EffectKeepsPlaces
<1> QED BY <1>1, <1>2, InitPlaces, PTL DEF Spec
=============================================================================
