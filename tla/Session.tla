------------------------------ MODULE Session ------------------------------
(***************************************************************************)
(* One session (src/sculk/protocol/connection/Session.cpp) that sends, the *)
(* CryptoManager it sends through, and the session of the remote side that *)
(* reads what arrives.                                                     *)
(*                                                                         *)
(* The strand runs flushIfDue, the callbacks of the application, and from  *)
(* them setCompressed and setEncrypted.  The strand of the server is a     *)
(* TaskStrand, the client's is its I/O pump.  Other threads of the         *)
(* application queue packets, flush, send past the queue, disconnect and   *)
(* read; the thread that tears the system down disconnects and detaches.   *)
(*                                                                         *)
(* A packet is a number, in the order of acceptance.  A frame keeps what   *)
(* the receiver needs to read it: whether it has a compression header, and *)
(* whether it is encrypted, then with which counter in its checksum and at *)
(* which place of the key stream (one frame counts one).  RakNet delivers  *)
(* frames reliably and in order (RELIABLE_ORDERED on channel 0) until the  *)
(* connection is closed.                                                   *)
(*                                                                         *)
(* The two ends change mode at a marker: a packet (NetworkSettings,        *)
(* ServerToClientHandshake) that the application queues right before the   *)
(* call of setCompressed or setEncrypted, and on which the remote          *)
(* application makes the same call.                                        *)
(***************************************************************************)
EXTENDS Integers, Sequences, FiniteSets, SequencesExt

CONSTANTS Strand,      (* the thread of the session's tasks                *)
          Apps,        (* other threads of the application                 *)
          Teardown,    (* the thread that stops the network system         *)
          MaxPackets,  (* bound: packets sent, markers included            *)
          MaxInbound   (* bound: inbound packets that nobody has read      *)

ASSUME SessionThreads == Strand \notin Apps /\ Teardown \notin Apps \union {Strand}
ASSUME SessionBounds == MaxPackets \in Nat /\ MaxInbound \in Nat

Threads == Apps \union {Strand, Teardown}
Modes   == {"compressed", "encrypted"}
None    == "none"

VARIABLES
    mPeer,             (* the pointer to the RakNet peer is set               *)
    mConnected,
    mOutboundPackets, mInboundPackets,
    lock,              (* thread that holds mOutboundMutex across steps       *)
    modes,             (* mCompressionType and mEncryption that have a value  *)
    mEncryptCounter, keyStream,   (* CryptoManager: counter, place in stream  *)
    mEncryptCtx,       (* "null", "ready" or "unusable"                       *)
    link,              (* RakNet has the connection                           *)
    wire,              (* frames on their way                                 *)
    pc, batch, frame, switch,   (* per thread: statement, packets drained,    *)
                                (* frame under work, mode it is switching to  *)
    remote,            (* the other end: its modes, mDecryptCounter, stream   *)
    delivered, rejected,        (* packets the other end read, could not read *)
    accepted,          (* packets ever accepted, how each was sent            *)
    closes,            (* calls of CloseConnection                            *)
    drained,           (* a disconnect has emptied the queues                 *)
    raced, cipherFailed, detachedEarly   (* history, see the properties       *)

queues  == <<mOutboundPackets, mInboundPackets>>
crypto  == <<modes, mEncryptCounter, keyStream, mEncryptCtx, cipherFailed>>
locals  == <<batch, frame, switch>>
far     == <<remote, delivered, rejected>>
ends    == <<mPeer, mConnected, link, closes, drained, detachedEarly>>
vars == <<queues, lock, crypto, wire, pc, locals, far, accepted, ends, raced>>

NoFrame == [packets |-> <<>>, compressed |-> FALSE, counter |-> -1, place |-> -1]

Init ==
    /\ mPeer = TRUE /\ mConnected = TRUE
    /\ mOutboundPackets = <<>> /\ mInboundPackets = <<>>
    /\ lock = None
    /\ modes = {} /\ mEncryptCounter = 0 /\ keyStream = 0
    /\ mEncryptCtx = "null" /\ cipherFailed = FALSE
    /\ link = TRUE /\ wire = <<>>
    /\ pc = [t \in Threads |-> "idle"]
    /\ batch = [t \in Threads |-> <<>>]
    /\ frame = [t \in Threads |-> NoFrame]
    /\ switch = None
    /\ remote = [modes |-> {}, counter |-> 0, place |-> 0]
    /\ delivered = <<>> /\ rejected = {}
    /\ accepted = <<>>
    /\ closes = 0 /\ drained = FALSE /\ detachedEarly = FALSE
    /\ raced = FALSE

Goto(t, from, to) == pc[t] = from /\ pc' = [pc EXCEPT ![t] = to]

-----------------------------------------------------------------------------
(* Queueing                                                                 *)

NewPacket == Len(accepted) + 1

(* sendPacket: under the lock, so not between the look and the push of      *)
(* another thread.  kind tells a marker from an ordinary packet.            *)
SendPacket_LooksOutsideLock(t, kind) ==
    /\ lock = None
    /\ Len(accepted) < MaxPackets
    /\ mOutboundPackets' = Append(mOutboundPackets, NewPacket)
    /\ accepted' = Append(accepted, kind)

SendPacket(t, kind) ==
    /\ lock = None
    /\ Len(accepted) < MaxPackets
    /\ mConnected
    /\ mOutboundPackets' = Append(mOutboundPackets, NewPacket)
    /\ accepted' = Append(accepted, kind)

QueuePacket(t) ==
    /\ pc[t] = "idle"
    /\ SendPacket(t, "queued")
    /\ UNCHANGED <<mInboundPackets, lock, crypto, wire, pc, locals, far, ends>>

EnqueueInboundPacket ==
    /\ pc[Strand] = "idle"
    /\ Len(mInboundPackets) < MaxInbound
    /\ mConnected
    /\ mInboundPackets' = Append(mInboundPackets, "packet")
    /\ UNCHANGED <<mOutboundPackets, lock, crypto, wire, pc, locals, far, accepted, ends>>

ReceivePacket(t) ==
    /\ pc[t] = "idle"
    /\ mInboundPackets # <<>>
    /\ mInboundPackets' = Tail(mInboundPackets)
    /\ UNCHANGED <<mOutboundPackets, lock, crypto, wire, pc, locals, far, accepted, ends>>

-----------------------------------------------------------------------------
(* flush, flushIfDue and the flush before a change of mode                  *)

CanFlush == mConnected /\ mPeer /\ mOutboundPackets # <<>>

(* The queue is taken under the lock; the lock is released before sending.  *)
Flush_Copies(t) ==
    /\ lock = None
    /\ CanFlush
    /\ Goto(t, "idle", "load")
    /\ batch' = [batch EXCEPT ![t] = mOutboundPackets]
    /\ UNCHANGED <<queues, lock, crypto, wire, frame, switch, far, accepted, ends>>

Flush(t) ==
    /\ lock = None
    /\ CanFlush
    /\ Goto(t, "idle", "load")
    /\ batch' = [batch EXCEPT ![t] = mOutboundPackets]
    /\ mOutboundPackets' = <<>>
    /\ UNCHANGED <<mInboundPackets, lock, crypto, wire, frame, switch, far, accepted, ends>>

(* sendPacketImmediately does not look at the queue.                        *)
SendPacketImmediately(t) ==
    /\ Len(accepted) < MaxPackets
    /\ Goto(t, "idle", "load")
    /\ batch' = [batch EXCEPT ![t] = <<NewPacket>>]
    /\ accepted' = Append(accepted, "immediate")
    /\ UNCHANGED <<queues, lock, crypto, wire, frame, switch, far, ends>>

(* The application queues the marker and makes the call, in one callback.   *)
QueueMarker(mode) ==
    /\ mode \notin modes
    /\ Goto(Strand, "idle", "switch")
    /\ switch' = mode
    /\ SendPacket(Strand, mode)
    /\ UNCHANGED <<mInboundPackets, lock, crypto, wire, batch, frame, far, ends>>

(* flushPendingBeforeStateChangeUnlocked keeps the lock until it has sent.  *)
FlushPending_Backwards ==
    /\ lock = None
    /\ IF CanFlush
       THEN /\ Goto(Strand, "switch", "load")
            /\ lock' = Strand
            /\ batch' = [batch EXCEPT ![Strand] = Reverse(mOutboundPackets)]
            /\ mOutboundPackets' = <<>>
       ELSE Goto(Strand, "switch", "set") /\ UNCHANGED <<lock, batch, mOutboundPackets>>
    /\ UNCHANGED <<mInboundPackets, crypto, wire, frame, switch, far, accepted, ends>>

FlushPending_Skipped ==
    /\ Goto(Strand, "switch", "set")
    /\ UNCHANGED <<queues, lock, batch, crypto, wire, frame, switch, far, accepted, ends>>

FlushPending ==
    /\ lock = None
    /\ IF CanFlush
       THEN /\ Goto(Strand, "switch", "load")
            /\ lock' = Strand
            /\ batch' = [batch EXCEPT ![Strand] = mOutboundPackets]
            /\ mOutboundPackets' = <<>>
       ELSE Goto(Strand, "switch", "set") /\ UNCHANGED <<lock, batch, mOutboundPackets>>
    /\ UNCHANGED <<mInboundPackets, crypto, wire, frame, switch, far, accepted, ends>>

SetMode ==
    /\ Goto(Strand, "set", "idle")
    /\ modes' = modes \union {switch}
    /\ switch' = None
    /\ UNCHANGED <<queues, lock, mEncryptCounter, keyStream, mEncryptCtx, cipherFailed, wire,
                   batch, frame, far, accepted, ends>>

-----------------------------------------------------------------------------
(* sendBatchedBufferImmediately with CryptoManager::encrypt, a step at a    *)
(* time: none of it is under a lock that the sender did not bring along.    *)

Sending(t) == pc[t] \in {"load", "checksum", "cipher", "send"}

(* Sent or dropped; a switching strand goes on to set the mode.             *)
DoneSending(t, from) ==
    /\ Goto(t, from, IF t = Strand /\ switch # None THEN "set" ELSE "idle")
    /\ lock' = IF lock = t THEN None ELSE lock
    /\ batch' = [batch EXCEPT ![t] = <<>>]
    /\ frame' = [frame EXCEPT ![t] = NoFrame]
    /\ UNCHANGED switch

(* The frame is put together in the mode of that moment.                    *)
LoadPeer(t) ==
    /\ IF mPeer /\ mConnected
       THEN /\ Goto(t, "load", "checksum")
            /\ frame' = [frame EXCEPT ![t].packets = batch[t],
                                      ![t].compressed = "compressed" \in modes]
            /\ UNCHANGED <<lock, batch, switch>>
       ELSE DoneSending(t, "load")
    /\ UNCHANGED <<queues, crypto, wire, far, accepted, ends>>

Checksum(t) ==
    /\ IF "encrypted" \in modes
       THEN /\ Goto(t, "checksum", "cipher")
            /\ frame' = [frame EXCEPT ![t].counter = mEncryptCounter]
            /\ mEncryptCounter' = mEncryptCounter + 1
       ELSE Goto(t, "checksum", "send") /\ UNCHANGED <<frame, mEncryptCounter>>
    /\ UNCHANGED <<queues, lock, modes, keyStream, mEncryptCtx, cipherFailed, wire, batch,
                   switch, far, accepted, ends>>

Cipher(t) ==
    /\ Goto(t, "cipher", "send")
    /\ frame' = [frame EXCEPT ![t].place = keyStream]
    /\ keyStream' = keyStream + 1
    /\ mEncryptCtx # "unusable" /\ mEncryptCtx' = "ready"
    /\ UNCHANGED <<queues, lock, modes, mEncryptCounter, cipherFailed, wire, batch, switch,
                   far, accepted, ends>>

(* A context that cannot be created is tried again by the next frame; one   *)
(* that was created and could not be initialised stays, and fails every     *)
(* frame after it.  A context that works can fail a frame, too.  The        *)
(* counter has moved on all the same.                                       *)
CipherFails(t) ==
    /\ cipherFailed' = TRUE
    /\ mEncryptCtx' \in IF mEncryptCtx = "null" THEN {"null", "unusable"} ELSE {mEncryptCtx}
    /\ DoneSending(t, "cipher")
    /\ UNCHANGED <<queues, modes, mEncryptCounter, keyStream, wire, far, accepted, ends>>

SendFrame(t) ==
    /\ wire' = IF link THEN Append(wire, frame[t]) ELSE wire
    /\ DoneSending(t, "send")
    /\ UNCHANGED <<queues, crypto, far, accepted, ends>>

-----------------------------------------------------------------------------
(* disconnect and detachPeer                                                *)

DisconnectExchange_Load(t) ==
    /\ Goto(t, "idle", IF link THEN "drainAndClose" ELSE "drain")
    /\ mConnected' = FALSE
    /\ UNCHANGED <<queues, lock, crypto, wire, locals, far, accepted, mPeer, link,
                   closes, drained, detachedEarly>>

DisconnectExchange(t) ==
    /\ Goto(t, "idle", IF mConnected THEN "drainAndClose" ELSE "drain")
    /\ mConnected' = FALSE
    /\ UNCHANGED <<queues, lock, crypto, wire, locals, far, accepted, mPeer, link,
                   closes, drained, detachedEarly>>

(* Both queues, under both locks.                                           *)
DisconnectDrain(t) ==
    /\ lock = None
    /\ \/ Goto(t, "drainAndClose", "close")
       \/ Goto(t, "drain", IF t = Teardown THEN "detach" ELSE "idle")
    /\ mOutboundPackets' = <<>> /\ mInboundPackets' = <<>>
    /\ drained' = TRUE
    /\ UNCHANGED <<lock, crypto, wire, locals, far, accepted, mPeer, mConnected, link,
                   closes, detachedEarly>>

DisconnectClose(t) ==
    /\ Goto(t, "close", IF t = Teardown THEN "detach" ELSE "idle")
    /\ IF mPeer
       THEN link' = FALSE /\ closes' = closes + 1
       ELSE UNCHANGED <<link, closes>>
    /\ UNCHANGED <<queues, lock, crypto, wire, locals, far, accepted, mPeer, mConnected,
                   drained, detachedEarly>>

DetachPeer ==
    /\ Goto(Teardown, "detach", "done")
    /\ mPeer' = FALSE
    /\ detachedEarly' = (closes = 0)
    /\ UNCHANGED <<queues, lock, crypto, wire, locals, far, accepted, mConnected, link,
                   closes, drained>>

-----------------------------------------------------------------------------
(* The remote session: deserializeBatchPackets with CryptoManager::decrypt. *)

Readable(f) ==
    /\ f.compressed <=> "compressed" \in remote.modes
    /\ IF "encrypted" \in remote.modes
       THEN f.counter = remote.counter /\ f.place = remote.place
       ELSE f.counter = -1

Markers(f) == {accepted[n] : n \in Range(f.packets)} \intersect Modes

(* Decrypting moves the stream, verifying the counter, also when it fails.  *)
Deliver ==
    /\ wire # <<>>
    /\ LET f    == Head(wire)
           step == IF "encrypted" \in remote.modes THEN 1 ELSE 0 IN
       /\ wire' = Tail(wire)
       /\ remote' = [modes   |-> remote.modes \union (IF Readable(f) THEN Markers(f) ELSE {}),
                     counter |-> remote.counter + step,
                     place   |-> remote.place + step]
       /\ IF Readable(f)
          THEN delivered' = delivered \o f.packets /\ UNCHANGED rejected
          ELSE rejected' = rejected \union Range(f.packets) /\ UNCHANGED delivered
    /\ UNCHANGED <<queues, lock, crypto, pc, locals, accepted, ends>>

-----------------------------------------------------------------------------
SendStep(t) ==
    \/ LoadPeer(t) \/ Checksum(t) \/ Cipher(t) \/ CipherFails(t) \/ SendFrame(t)

DisconnectStep(t) == DisconnectDrain(t) \/ DisconnectClose(t)

Step ==
    \/ \E t \in Apps \union {Strand} :
          \/ QueuePacket(t) \/ ReceivePacket(t) \/ Flush(t) \/ SendPacketImmediately(t)
          \/ SendStep(t)
    \/ \E t \in Threads : DisconnectExchange(t) \/ DisconnectStep(t)
    \/ \E mode \in Modes : QueueMarker(mode)
    \/ FlushPending \/ SetMode \/ EnqueueInboundPacket \/ DetachPeer \/ Deliver

(* Two threads send at once, or one sends while the strand switches.        *)
Overlap ==
    \E t, u \in Threads : t # u /\ Sending(t) /\ (Sending(u) \/ (u = Strand /\ switch # None))

Next == Step /\ raced' = (raced \/ Overlap')

Spec == Init /\ [][Next]_vars

-----------------------------------------------------------------------------
Packets == 1..Len(accepted)

TypeOK ==
    /\ mPeer \in BOOLEAN /\ mConnected \in BOOLEAN /\ link \in BOOLEAN
    /\ mOutboundPackets \in Seq(Packets) /\ mInboundPackets \in Seq({"packet"})
    /\ lock \in {None, Strand}
    /\ modes \subseteq Modes /\ switch \in Modes \union {None}
    /\ mEncryptCounter \in Nat /\ keyStream \in Nat
    /\ \A t \in Threads : batch[t] \in Seq(Packets)
    /\ delivered \in Seq(Packets) /\ rejected \subseteq Packets
    /\ remote.modes \subseteq Modes
    /\ accepted \in Seq(Modes \union {"queued", "immediate"})

(* Where a packet can be: waiting, with a sender, on its way, read, refused. *)
Batched == UNION {Range(batch[t]) : t \in Threads}
OnWire  == UNION {Range(wire[i].packets) : i \in DOMAIN wire}
Whereabouts == <<Range(mOutboundPackets), Batched, OnWire, Range(delivered), rejected>>

Distinct(s, u) == IsInjective(s) /\ Range(s) \intersect Range(u) = {}

(* A packet is in one place at most: not in the queue and in a batch, not   *)
(* in two batches, not sent twice.  One that was accepted and is nowhere    *)
(* was dropped because the session ended, the peer was taken away or the    *)
(* cipher failed: no flush and no change of mode loses one                  *)
(* (Session.cpp:64-81, 128-213).                                            *)
PacketsConserved ==
    /\ IsInjective(mOutboundPackets) /\ IsInjective(delivered)
    /\ \A t, u \in Threads : t # u => Distinct(batch[t], batch[u])
    /\ \A i \in DOMAIN wire : IsInjective(wire[i].packets)
    /\ \A i, j \in DOMAIN wire : i # j => Distinct(wire[i].packets, wire[j].packets)
    /\ LET places == Whereabouts IN
          /\ \A i, j \in DOMAIN places : i # j => places[i] \intersect places[j] = {}
          /\ Packets \subseteq UNION Range(places) \/ ~mConnected \/ ~mPeer \/ cipherFailed

Queued(n) == accepted[n] # "immediate"

InOrder(s) ==
    \A i, j \in DOMAIN s : i < j /\ Queued(s[i]) /\ Queued(s[j]) => s[i] < s[j]

(* Packets leave in the order they were accepted in, as long as one thread  *)
(* at a time flushes; those sent past the queue aside (Session.cpp:128-213).*)
QueuedInOrder ==
    \/ raced
    \/ /\ InOrder(delivered)
       /\ \A i \in DOMAIN wire : InOrder(delivered \o wire[i].packets)
       /\ \A i, j \in DOMAIN wire : i < j => InOrder(wire[i].packets \o wire[j].packets)

(* The remote session reads every frame, across changes of mode, as long as *)
(* one thread at a time sends or changes the mode and the cipher never      *)
(* failed: both ends agree on compression, on the counter and on the place  *)
(* in the key stream (Session.cpp:64-81, 226-285, CryptoManager.cpp:194-271)*)
RemoteReadsAll == raced \/ cipherFailed \/ rejected = {}

(* Once a disconnect has drained the queues nothing is queued any more:     *)
(* both sides of a queue look at mConnected under its lock                  *)
(* (Session.cpp:83-106, 380-421).                                           *)
ClosedHoldsNothing == drained => mOutboundPackets = <<>> /\ mInboundPackets = <<>>

(* Of all calls of disconnect one closes the connection, unless the peer is *)
(* detached before it gets there (Session.cpp:380-409).                     *)
ClosedOnce ==
    /\ closes <= 1
    /\ ~mConnected /\ (\A t \in Threads : pc[t] \notin {"drainAndClose", "close"})
          => closes = 1 \/ detachedEarly

=============================================================================
