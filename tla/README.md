# A TLA+ model of BEProtocol

BEProtocol implements the Minecraft Bedrock protocol in C++: packet codecs, authentication, and a
connection layer on top of RakNet with its own thread pool, strands, sessions, a client and a server.
Two parts are modelled. The connection layer (`src/include/sculk/protocol/connection/`,
`src/src/sculk/protocol/connection/`) is concurrent, and what goes wrong there a test hardly reaches. The
codecs (`codec/`, `utility/`) are sequential but wide: 231 packets and as many structures, each written by
one function and read by another, and nothing in the language keeps the two alike.

Below, `strand` stands for `connection/thread/TaskStrand.hpp`, `pool` for `connection/thread/ThreadPool.hpp`
and `.cpp`, `server` for `connection/ServerNetworkSystem.cpp`, and `PROJECT.json` maps every definition to
its lines.

## 1. Inventory

| Component | State | Operations | Hard because | Correct when |
|---|---|---|---|---|
| `TaskStrand` | a concurrent queue, `mPendingTasks`, `mDrainScheduled`, a limit, a backpressure policy | `enqueue`, `scheduleDrain`, `drain`, setters | lock-free hand-over of the right to drain; tasks enqueue while they run; fallback in place when the pool refuses | tasks of one producer run in order, once, one at a time; none is left behind; the counter is exact |
| `ThreadPool` | per worker a queue, a heap of delayed tasks and a semaphore; `mAcceptingSubmissions`, `mInFlightSubmissions`, `mStopping` | `submit`, `submitAfter`, `stop`, the loop of a worker | submissions race stop; a worker decides to sleep while work arrives; timed waits | an accepted task runs exactly once; no worker sleeps on work; stop ends the workers |
| `ServerNetworkSystem`, pumps | `mRunning`, `mFlushPumpScheduled`, three counters of pending work, the receiving thread | `start`, `stop`, receiving loop, flush pump and its delayed wakeups | stop races jobs that create jobs; stops overlap; the pool may refuse | the pump is one and never lost; stop returns, leaves nothing in flight and no session open |
| `ServerNetworkSystem`, sessions | `mSessionContexts`, flush commands, heap and tokens, a strand per session, callbacks | connect, packets, limits, loss, `disconnectClient`, flush tick and flush task | four kinds of threads remove sessions by GUID; commands of several producers; clients reconnect | an established session keeps exactly one next flush; a removed one is closed and reported at most once |
| `Session` | outbound and inbound queue, `mConnected`, `mPeer`, compression and encryption | `sendPacket*`, `flush`, `flushIfDue`, `receivePacket`, `disconnect`, `detachPeer`, `setCompressed`, `setEncrypted` | compressing, encrypting and sending happen outside the queue's lock | packets leave in order, each once, in a mode the remote reads; one disconnect closes; a closed session holds nothing |
| `ClientNetworkSystem` | `mRunning`, `mIoPumpActive`, `mIoPumpScheduled`, one session, two counters | `start`, `stop`, `connect`, `disconnect`, I/O pump | receiving, sessions and flushing all happen in pool jobs that calls start and wait for | one thread receives at a time; the pump lives as long as a connection is wanted; a disconnect leaves nothing behind |
| `CryptoManager` | two cipher streams, two counters | `encrypt`, `decrypt`, `verify` | a failure advances one end only | the two ends agree on the next frame |
| Binary streams, batches | a buffer and a read pointer | integers of variable length, strings, arrays, bit sets, framing, compression byte | width, sign and bounds | reading is the inverse of writing and refuses what is cut short |
| Packet codecs | none; 231 packets, some 220 structures, 131 enumerations, ids, header, factory | `write`, `read`, `createPacket` | two hand-written functions per type, with conditions on members read before; three tables of ids | a reader takes from the wire exactly what the writer put there, every member that is listed travels, every id has its class |
| Authentication, `AuthenticationKeyManager` | public keys, title, issuer | certificate chain, login token, fetching keys | a fetch fails half-way | not modelled |
| Compression, PEM, metrics, build | library calls | | not hard in this sense | not modelled |

How they interact: the server (and the client) owns or shares a `ThreadPool`. Every session has a
`TaskStrand` on it. The receiving thread turns packets into strand tasks; the flush pump is a pool job that
gives due sessions a flush task on their strand and comes back as another job or a delayed wakeup; a flush
task asks for the session's next flush through a command queue. `stop` waits on three counters that every
submission raises and every task lowers. The client has one session and one pump, a pool job that receives,
flushes and comes back. A session joins packets to a batch, compresses and encrypts it and hands it to
RakNet; the remote session undoes that in the opposite order, and a codec makes packets of the bytes. Callbacks of the application run in strand
tasks or, when the strand refuses, on the caller's thread.

The hazards that follow from this are listed one by one, at their lines, in `PROJECT.json` ("hazards"), each
with the properties that would notice it or the reason why none does yet.

## 2. Modules

```
SerialExecutor  <--implements--  TaskStrand  <--  MCTaskStrand, TaskStrandProofs
TaskService     <--implements--  ThreadPool  <--  MCThreadPool, ThreadPoolProofs
                                 ServerLifecycle  <--  MCServerLifecycle, ServerLifecycleProofs  (pool as TaskService)
                                 ServerSessions   <--  MCServerSessions, ServerSessionsProofs    (strands as SerialExecutor)
                                 ClientNetwork    <--  MCClientNetwork, ClientNetworkProofs      (pool as TaskService)
                                 Session          <--  MCSession, SessionProofs
                                 FlushDue         <--  ServerSessionsProofs              (an operator and its theorem)
Counting                         (lemmas the proofs share: how many threads are at some statement)

Streams <-- Format <-- MemberTypes <-- ProtocolEnums <-- Packets*, Codecs* <-- PacketCatalog <-- Exchange <-- MCSession
Streams <-- StreamExchange <-- Exchange, StreamsProofs
```

The upper layers use the lower ones through what the abstract specifications promise, so the state
spaces are not multiplied: `ServerLifecycle` and `ClientNetwork` see the pool as counts of tasks it has
accepted and will run once; `ServerSessions` sees a strand as a serial executor and takes from
`ServerLifecycle` that one flush tick runs at a time; `Session` takes its strand (or the client's pump, by
`TickIsExclusive`) as one thread.

In every module, a definition named `<Action>_<Bug>` is not part of the machine. It is a plausible mistake
in the action of that name, kept beside it to show that a property notices it (`PROJECT.json`, "mutants").

### TaskStrand

One action per access to an atomic or to the queue. `EnqueueCount`, `EnqueueLimit`, `EnqueuePolicy`,
`EnqueuePush(Fails)` are `enqueue`; `ScheduleExchange`, `ScheduleSubmit`, `ScheduleUnflag` are
`scheduleDrain`, the last one with the drain in place after the pool has refused; `DrainDequeue`,
`DrainNone`, `DrainFinish`, `DrainClear`, `DrainSize`, `DrainRetake` are `drain`. A thread whose `pc` is
`run` is inside a task and may call `enqueue` from there; `stack` holds the tasks suspended that way.
`mTasks` is one FIFO per producer with no order between producers, which is what moodycamel's queue gives.
With `StoreBuffers`, `mDrainScheduled.store(false, release)` waits in the thread's store buffer until
`CommitStore` or the thread's next read-modify-write: this is what x86 does with a plain store; the
other writes are read-modify-writes, or the queue's own, which an `enqueue` follows with the exchange of
`scheduleDrain`. A queue that cannot allocate is
`EnqueuePushFails`. The pool is a count of drain closures and the flag `accepting`; it refuses a closure
when it is closed, and may also while it is open (`ThreadPool!SubmitEnqueueFails`), which `refused` remembers.
`Executor` maps the strand to `SerialExecutor`: what is queued waits, what runs or is suspended in a nested
`enqueue` is running, and from the first refusal on tasks may overlap and nest.

### ThreadPool

`Submit*` is `submit` and `submitAfter` statement by statement (look, count, look again, choose a worker,
enqueue or push on the heap, uncount, signal). `DequeueImmediate`, `NoImmediate`, `PopDelayed`, `NoDelayed`,
`CheckStop`, `PlanWait`, `Acquire`, `AcquireTimeout` are `workerLoop`, where `last...` labels are the final
pass after stop; a running task may submit. `Stop*` is `stop`. `Tick` moves a clock; delayed tasks compare
with it. `TaskService` counts how often each task has begun, so that a second time is no step of it.

### ServerLifecycle

Variables carry the names of the members; `pumpJobs`, `wakeups`, `sessionTasks` count what the pool holds.
`Start*`, `Schedule*`, `ClaimPump`, `CountJob`, `SubmitJob`, `UncountJob`, `Unschedule` are `start`,
`scheduleFlushPump` and `submitFlushJob`; `TakeJob` ... `JobDone` are `flushPumpTask` and the wakeup;
`Io*` is `ioPumpThreadMain`; `Stop*` is `stop` with its three waits and
`disconnectAllSessionsForTeardown`. A thread returns from `scheduleFlushPump` to the statement in `ret`.
`DisconnectClient` and `CloseErased` are `disconnectClient`, which takes a session out of the map and disconnects
it in two steps, and so do a session task (`TakeSessionTask`, `CloseSession`) and the receiving thread
(`IoEnqueue`, `IoClose`). A strand takes a task, runs it in place when the pool refuses the drain, or refuses it
when it is full. The pool refuses a job when it is closed, and may while it is open; it takes every wakeup while
it is open, since `submitAfter` (`pool:150-190`) has no push that can fail. The strand
tasks that only call `mOnConnected` or `mOnDisconnected` are counted nowhere in the code; they belong to
`ServerSessions`, as do the contents of the flush schedule; that `start` and `stop` clear it (`clearFlushSchedule`) is
in neither module, since `ServerSessions` is one life of the server. `quiet`, `alone`, `leftover`, `failedOver` and
`refused` are history, read by properties only: a stop is
over, it overlapped no other, some stop left a wakeup behind, some start failed while something was about to
run the pump, the job of the last thread that claimed the pump was refused.

### ServerSessions

`Io*` is `processIncomingPacket` (new connection, lost or over-limit or empty packet), `Remove*` is
`removeSessionContext` with what its callers do next, `DisconnectClient` is the call of that name, `TaskBegin`
and `Flush*` run in strands, `Tick*` is `flushTickOnce` with `applyFlushScheduleCommandUnlocked`, `Destroy`
is the destructor of a session nothing refers to. The command queue keeps the order of each producer. When
an entry is due is left open, so every order of due times is covered. `DisconnectClient` may be called for any
GUID at any time: one that has no session yet has a Cancel queued all the same, and `stray` remembers the GUIDs
for which that happened. `DrainCommand` is also what becomes of a command that finds no room in the queue: its
thread drains the queue and applies the command then. A strand is serial here, that is, the pool refuses none of
its drains. `Session::disconnect` closes the
connection RakNet has with the session's GUID, whichever session that belongs to by then; `link` is that set
of connections.

### ClientNetwork

`Start*`, `Connect*` with `Activate`, `DisconnectBegin` and `StopBegin` with `Deactivate`, `Wait`, `Teardown*`
and `Finish` are the four calls; `ScheduleIoPump`, `ClaimPump`, `SubmitJob`, `Unschedule` are
`scheduleIoPump` and `submitIoJob`; `TakeJob`, `DropFlag`, `TickEnds`, `PumpAgain`, `JobDone` are `ioPumpTask`
and what the pool does around it; `SubmitWakeup`, `TakeWakeup`, `WakeupDone` are `scheduleIoPumpAfter`.
`Receive`, `EndSession` and `ClearSession` are `processIncomingPacket`: a packet is a notice that an attempt
was accepted or failed, that the connection is lost, or data. The limits are looked at before the kind, so any
of them may be over a limit, and then ends the session or, when the application lets it, is dropped; `missed`
remembers the accepted connections nobody heard of. The application may hold a session (`getSession`) that is
replaced while it is connected; `kept` are those, and `AppReleases` their end. The pool refuses jobs as it does
for the server. The peer accepts one connection at a time (`Startup(1, ...)`). Callbacks and the strand they run on
are left out: they do not touch the state.

### Session

`SendPacket`, `Flush`, `SendPacketImmediately`, `FlushPending` with `SetMode`, `EnqueueInboundPacket`,
`ReceivePacket`, `DisconnectExchange`/`Drain`/`Close` and `DetachPeer` are the operations; a sender goes
through `LoadPeer`, `Checksum`, `Cipher` and `SendFrame` one step at a time, since
`sendBatchedBufferImmediately` holds no lock of its own. `CryptoManager` is its counter, its place in the
key stream, and `mEncryptCtx`, a cipher context that is not there yet, ready, or unusable for good after a failed
initialisation (`CipherFails`, which may also happen to a context that was ready, on a later frame); a frame keeps the values it was made with, and `Deliver` is the remote session with its own
`CryptoManager`, which reads a frame only in its mode, at its counter and place. `modes` changes at a marker,
the packet after which the application calls `setCompressed` or `setEncrypted`.

### Streams, Format and the codecs

`Streams` writes and reads numbers bit by bit in their width (fixed, big-endian, groups of seven bits,
zig-zag), texts, bit sets, the header of a packet, and batches with their framing and compression byte.
`StreamExchange` exchanges samples of them, and `StreamsReturn` says that they come back. `Format` gives meaning to a
codec's two formats, each a sequence of nodes in program order, one per stream call: `Events` says which
tokens `write` puts on the wire for a value, `Reads` what `read` makes of tokens. `Codecs*` and `Packets*`
give each type the members of its header and the formats of its two functions: `Mirror` where `write` and `read`
make the same calls in the same order, `Codec` with both formats where they do not; the structures of one source
file stand in one record. `Codecs*` follows the directories of `codec/`, `Packets*` the first letters of the
files. `MemberTypes` and `ProtocolEnums` have the C++ types, reduced to what decides whether a primitive is wide enough.
`PacketCatalog` has the table of ids and the cases of the factory. `Exchange` is the statement:
everything that can be exchanged, one sample after another, and the exceptions the code makes.

`Streams` and `StreamExchange` recurse through recursive functions, so that there are proofs about them;
`Format` walks its trees with RECURSIVE operators.

A sample of a codec is a value of its members up to two deviations from the plain one: every branch of a
format depends on one member or on two, so every branch and every pair of branches that could disagree is
taken. A structure in a structure is one token, since its own codec is exchanged by itself.

### FlushDue

`nextScheduledFlushDue` with its integer division. What it promises, for every pair of times, is the theorem
`NextDueIsLater` in `ServerSessionsProofs`.

## 3. What the runs check

| Run | Instance | States | Shows |
|---|---|---|---|
| `strand_sc` | 1 caller, 2 workers, limits 1 and 2, policy on or off, pool may stop or refuse, one `enqueue` per thread | sequentially consistent | no task stranded, the flag has an owner, tasks overlap only after the pool refused, the counter is exact, every task runs |
| `strand_tso` | 2 threads that enqueue and drain, 3 calls each, pool may stop or refuse | delayed stores | the limit is never exceeded; the strand implements `SerialExecutor`, also after a refusal |
| `strand_tso_lost` | 2 callers, 1 worker | delayed stores | **violation**: a task stays behind |
| `pool_safety` | 2 workers, 1 client, 2 submissions, 2 stops | | no submission after `mStopping`, nobody sleeps on work, the pool implements `TaskService` |
| `pool_live` | 1 worker, 1 client, 2 submissions | fair | accepted tasks run, stop ends the workers |
| `lifecycle` | 2 callers, 2 workers, 1 client, 3 starts, 1 session task at a time | 3.7 M (symmetric) | counters exact, pump neither lost nor doubled, stop leaves no job, no session task, no session |
| `lifecycle_live` | 2 callers, 1 worker, 2 starts | fair | stop returns, the pump ticks |
| `lifecycle_wakeup` | 1 caller, 2 workers | | **violation**: a wakeup outlives stop |
| `sessions` | 1 GUID, 2 sessions, 2 workers, 1 caller of `disconnectClient`, 2 flushes scheduled | 3.6 M (symmetric workers) | flush never lost, never doubled, no token leaks, reported once, removed is closed |
| `sessions_report` | 1 client that connects once | | **violation**: an ended session that is never reported |
| `client` | 2 callers, 2 workers, 2 starts, 2 attempts, 1 packet waiting (symmetric) | 2.9 M | one thread receives; the pump is not lost, also over restarts; a disconnect or a stop leaves no session but those the application holds, no connection that was heard of, no job |
| `session` | the strand, 1 thread of the application, the teardown, 3 packets; beside it every sample of `Exchange` | 1.6 M | no packet lost or doubled, order kept, the remote reads every frame, one close; readers follow writers, every listed member travels, every id has its class |

`session` has two systems side by side that share no state: `MCSession` exchanges samples only while the
session has not moved, so the samples add to its states and do not multiply them.

Why the bounds are enough for the cases the properties are about:

- Strand: a lost wakeup or an overlap needs an enqueuer, a drain, and a second drain that starts from the
  flag given up: three threads, and at most two tasks per producer for an order to exist. Nested `enqueue`
  is reached because workers call it too. Delayed stores get two threads with three calls each, enough for an
  overlap, a nesting and an order after a refusal. Limits 1 and 2 are below and at the number of racing callers.
- Pool: a submission that crosses `stop` needs one submitter and one stopper; two stoppers add the call that
  waits although it did not win. Two submissions give a task that submits from inside a task, and an
  immediate beside a delayed one.
- Lifecycle: two workers let the pump's job and a wakeup (or a leftover of an earlier life) run at once; two
  callers let stops overlap; two starts give a restart with leftovers, and the third one a start after one
  that failed with leftovers about, which is what it takes to lose the pump (below). Sessions connect once each: a second
  one adds no order of steps that stop could tell apart. The counters are bounded only through the one bound
  on session tasks (`MaxPackets`).
- Client: a second attempt in flight beside the first, or after a disconnect or a restart, is all the
  interference of attempts there is (the peer has one connection). Two workers let a wakeup or a second pump
  run beside a tick. A packet waits alone (`MaxInbox`): packets are handled one by one by one thread, and more
  of them only repeat what happens between two.
- Session: three packets are a packet before, at and behind a change of mode, or two packets and one sent
  past the queue. One thread of the application beside the strand and the teardown gives two senders, two
  flushers and three disconnects.
- Exchange: the numbers are at the ends of every width and at every boundary between groups of seven bits;
  bit sets have the sizes in the code and those around multiples of seven. That what holds of these samples
  holds of all numbers, sizes and lengths is proved (`StreamsProofs`).
- Sessions: everything is keyed by GUID, so one GUID with two connections has all the interference two
  sessions of different GUIDs do not have. Two workers let a flush task or a packet task run beside the
  tick. Two tokens give an entry that is superseded by a later one.

Bounds in guards: `MaxCalls` (strand and pool), `MaxTime`, `MaxStarts`, `MaxPackets`, `MaxSessions`,
`MaxQueued`, `MaxCommands` (commands a caller of `disconnectClient` has in the queue at a time: one, so that it calls
again once its last was applied; with early reconnects none, so that TLC leaves the call out there and the theorems
keep it), `MaxTokens`, `MaxConnects`, `MaxInbox`,
`MaxInbound`; as a constraint on the client's run, `MaxCrossed`: two starts and attempts together
once a connect has met a disconnect or a stop, because only `TickIsExclusive` still says something
then. Deadlock is not checked: each of these systems stops when its bounded inputs are used up, or when nobody
calls it.

### Assumptions the properties are stated under

- `start` is not called during another `start` or `stop` (it does not defend itself; `stop` may be called by
  any number of threads).
- `SessionsClosed` is about stops that do not overlap. When they do, the call that found the system stopped
  tears sessions down while the receiving thread still creates them, and can take one out of the map that
  it did not disconnect; TLC shows it when `alone` is dropped. It excepts the session a call of `disconnectClient`
  has taken out of the map and not yet disconnected (`server:499`): no counter covers that call, so `stop` can return
  before it has.
- `OnePump` is about systems in which no `stop` has left a wakeup behind (`~leftover`, section 5): such a wakeup
  can start a second chain after a restart.
- Both `PumpNeverLost`, and `PumpTicks`, except a pump whose job the pool refused (`refused`), which an open pool
  does when its queue cannot allocate (`pool:139`). The code clears the flag (`server:637`,
  `ClientNetworkSystem.cpp:295`) and leaves nobody to run the pump until somebody claims it again: on the server
  a wakeup that is still about or the next `start`, on the client also the next `connect`.
- The server's `PumpNeverLost` and `PumpTicks` except a start that failed while something was about to run the
  pump (`~failedOver`). A wakeup left over by `stop` runs while the next `start` is under way, finds `mRunning`
  set and takes the pump's flag; the start fails in RakNet and clears `mRunning`; the start after that finds the
  flag up and leaves the pump to its owner; the owner has already decided to give up. The server then runs
  without flushing. Two starts do not show it: TLC needs the third.
- `FlushNeverLost` excepts GUIDs for which a call of `disconnectClient` began before their session was in the
  table (`stray`). Such a call finds nobody to disconnect, but its Cancel (`server:967`) can be applied after the
  session's first Schedule, and then the session is never flushed; TLC shows it when the exception is dropped.
- `FlushNeverLost`, `OneFlush` and `RemovedIsClosed` are about clients that connect again only after
  everything of their last session has ended (`~early`). TLC violates each of the three when this is dropped,
  because flushes are cancelled, contexts removed and connections closed by GUID: a Cancel meant for the old
  session is applied after the new one's Schedule; a removal meant for the old one takes the new one; the
  replaced session's destructor closes the new connection. `NoTokenLeak` and `ReportedOnce` are checked with
  early reconnects as well.
- `PumpNeverLost` and `DisconnectQuiesces` of the client are about a connect that does not meet a disconnect
  or a stop, and stops that do not meet (`~crossed`). TLC violates both when this is dropped: connect sets
  `mIoPumpActive` after disconnect has cleared it, and the pump goes on over the teardown, or clears the
  session of a pump that is still wanted. `TickIsExclusive` has no such condition.
- What `DisconnectQuiesces` leaves: a session that was replaced while connected, because the limits dropped the
  notice of its loss, and that the application holds (`kept`), and a connection whose notice nobody heard
  (`Unheard`). Both come of looking at the limits before the kind of a packet (`ClientNetworkSystem.cpp:382-429`).
- `QueuedInOrder` and `RemoteReadsAll` are about one thread that sends at a time (`~raced`), the second also
  about a cipher that never failed; `ClosedOnce` excepts a peer that was detached before the
  disconnect that won got to close (`detachedEarly`). TLC violates each without its condition. Markers are
  queued, as the callers in the repository do; with `sendPacketImmediately` the packets queued before would
  be flushed behind the marker, in the old mode.
- `ReaderFollowsWriter`, `WireHoldsMember` and `FactoryBuildsEveryId` hold if and only if the value, the member
  or the packet is none of the exceptions in `Exchange` (`Refused`, `Confused`, `LeftBehind`, `InDisguise`,
  `Retired`), so an exception the code no longer makes is noticed as well (section 5).
- `AdmissionBound` is claimed without a backpressure policy (a policy admits beyond the limit by design), and
  `StrandIsSerial` until the pool has refused a drain, on an open pool or a closed one (`~refused`): the refused
  thread gives up the flag and drains in place, beside whoever takes it. `ImplementsExecutor` has no condition;
  `SerialExecutor` itself says what a refusal changes.
- `WireHoldsMember` is about the members a codec lists. The members of some alternatives (the descriptors of
  `RecipeIngredient`, the payloads of `PrimitiveShapes`) are not listed.

### Fairness

- Strand and pool: every thread is scheduled (WF on its own steps), tasks return, a store buffer drains, a
  clock moves on. The strand's `WorkerTake` is fair because the pool runs what it accepted, which is
  `AcceptedRuns` of `ThreadPool`.
- Lifecycle: strong fairness for taking each kind of task from the pool (again `AcceptedRuns`: with one
  worker, taking one kind is disabled while another runs); strong fairness of `IoIdle`, which says that
  `Receive` runs out of packets again and again: `ioTickOnce` looks at the stop token only then
  (`server:521`), and an endless stream would keep `stop` waiting; strong fairness of `TickEnds`, since a
  tick has a budget. Nobody has to call `start`, `stop`, connect or send.

## 4. What is proved

Every safety property a passing run checks, except the three of the packet codecs, is also a theorem, and both
refinements are. The theorems are about `Spec`, for every value of the constants under the assumptions
below; what TLC bounds (threads, calls, packets, starts, attempts, delays) is arbitrary in them, and the
constraints of the client's run play no part. Those of `StreamsProofs` are about operators, for every input.

| Module | Theorem | States | Inductive invariant |
|---|---|---|---|
| `TaskStrandProofs` | `TypeCorrect` | `TypeOK` | itself |
| | `FlagIsOwned` | `FlagHasOwner`, without delayed stores | with `TypeOK` |
| | `NothingStranded` | `NoStrandedTask`, without delayed stores | with `FlagHasOwner` |
| | `TokenIsUnique`, `Serial` | `TokenInv`, `StrandIsSerial` | `TokenInv`, `AcceptingOnce` |
| | `PendingCounts` | `PendingIsExact` | with `TypeOK` and finiteness |
| | `AdmissionIsBounded` | `AdmissionBound` | `AdmitInv` |
| | `StrandServes` | `ImplementsExecutor` | `OrderInv`, `TokenInv` |
| `ThreadPoolProofs` | `TypeCorrect` | `TypeOK` | `PoolInv` |
| | `StopWaitsForSubmissions` | `StopSeesNoSubmission` | `StopInv` |
| | `NobodySleepsOnWork` | `NoSleepOnWork` | `AwakeInv` |
| | `PoolServes` | `ImplementsService` | `ServiceInv` |
| `ServerLifecycleProofs` | `CountersExact`, `TypeCorrect` | `CountsAreExact`, `TypeOK` | `LifeInv` |
| | `QuietAfterStop` | `StopQuiesces` | `StopInv` |
| | `TeardownComplete` | `SessionsClosed` | `SessionsInv` |
| | `PumpIsOne` | `OnePump` | `OnePumpInv` with `SessionsInv` |
| | `PumpIsKept` | `PumpNeverLost` | `PumpInv` |
| `ServerSessionsProofs` | `TypeCorrect` | `TypeOK` | `Shape` |
| | `DisconnectIsReportedOnce` | `ReportedOnce` | `ReportInv` |
| | `RemovedSessionsAreClosed` | `RemovedIsClosed` | `CloseInv` |
| | `TokensAreErased` | `NoTokenLeak` | `TokenInv` |
| | `FlushesGoOn`, `FlushesAreOne` | `FlushNeverLost`, `OneFlush` | `LineInv` |
| | `NextDueIsLater` | `FlushDue`: the next due time is later than now, on the phase, the first such moment | none needed |
| `SessionProofs` | `TypeCorrect` | the session's `TypeOK` | `SendInv` |
| | `DrainedStaysEmpty`, `OneCloses` | `ClosedHoldsNothing`, `ClosedOnce` | `EndInv` |
| | `RemoteReads` | `RemoteReadsAll` | `ModeInv` |
| | `PacketsKeepOrder` | `QueuedInOrder` | `OrderInv` |
| | `PacketsStayOne` | `PacketsConserved` | `PlaceInv` with `SendInv` |
| `ClientNetworkProofs` | `OneTickAtATime` | `TickIsExclusive` | `PumpInv` |
| | `DisconnectEndsAll` | `DisconnectQuiesces` | `NetInv` |
| | `PumpIsKept` | `PumpNeverLost` | `GoInv` with `NetInv` |
| `StreamsProofs` | `NumbersReturn` | a number of any width is read as written, whatever follows it, and every cut is refused | none: for every input |
| | `BitsetsReturn`, `TextsReturn` | the same of bit sets of any size and texts of any length | none: for every input |
| | `HeadersReturn` | the same of an id below 1024 and sub-clients below 4 | none: for every input |
| | `BatchesReturn` | any number of packets come back from a batch one by one, for every algorithm and threshold | none: for every input |
| | `SamplesReturn` | `StreamsReturn` | `StreamSampled` |

Assumptions on the constants, all of which TLC evaluates in the runs: sets of threads are finite (a process
has finitely many) and disjoint where one thread cannot be both; bounds are naturals; the limits of a strand
are naturals with a largest one (they are `size_t`); the pool has a worker; no GUID of a client is the one that
stands for none (`None`); bit sets are not empty and texts no longer than a signed length of 32 bits can say
(`StreamsAssumption`; `BinaryStream.hpp:138` and `:145` cast the length to 32 bits, so the length field of a
longer one says something else). Two theorems are about `StoreBuffers = FALSE`,
as the properties are (section 3). `NextDueIsLater` assumes what `flushTickOnce` checks, that the flush was due. The
conditions in the properties themselves (`~early`, `~crossed`, `~raced`, `~leftover`, `~failedOver`, `~refused`, `stray`, `alone`) are
those of section 3.

Few of the properties are inductive as they stand. The arguments:

**Strand.** `FlagHasOwner`: whoever sets the flag is `Holding`, and stops holding only by clearing the flag, by
handing a closure to the pool, or by leaving it to one who holds it. `NoStrandedTask`: a producer that finds the
flag set relies on the flag's owner, and an owner looks at the queue after it has cleared the flag.
`StrandIsSerial` follows from `TokenInv`: until the pool refuses a drain, the right to drain is a token that is in one
place at most, in the pool as a closure, with a thread that is `Holding`, or in a store buffer as the clear that
has not reached memory; `TokenShape` says where a thread may be while it has a delayed store or a suspended
task. It holds with delayed stores because every step that could take the flag a second time is a
read-modify-write, which waits for the thread's own stores. `PendingIsExact`: every step is one of a few
kinds of move (`Kind`) that change the queue, the stack, the thread's statement and the counter by at most one;
`KindBalance` checks the sum for each kind, so the sums over all threads are never unfolded. `AdmissionBound`
needs more than the counter, since a caller compares an old value of it: in `AdmitInv` the calls that will
find their number within the limit are already counted among those that fit, because a caller's number
includes all of them and itself. `StrandServes`: until a refusal nobody else runs when a task begins, by the
token, and by `OrderInv` (a task that is being accepted has a higher number than those that wait) it begins once
and in its producer's order, before a refusal and after it. The refusal itself is a step of `SerialExecutor`.

**Pool.** `PoolInv` makes `mInFlightSubmissions` the number of threads between the two statements that count.
`StopInv` adds what a winning `stop` has seen: after it closed the pool nobody newly counts himself in and stays,
and after it saw zero nobody is about to insert. `AwakeInv` says for each worker on its way to sleep which work
it may still have missed, and that a signal for that work is on its way. `ServiceInv` says that an accepted
task is begun or in exactly one queue or heap (`Conserved`), that its count is one if it has begun and zero if not, and that a worker in its last pass has seen
`mStopping` and emptied what it has passed (`LastPass`); each step of the pool is then a step of `TaskService` or
none.

**Lifecycle.** `LifeInv` counts each worker's contribution to the three counters; `Counting` turns a move of
one thread into a change of one. `StopInv` follows a `stop` through its three waits (`Waited`): the receiving thread
stays away once joined, a wakeup that is still to come turns back at `mRunning`, then no job, then no session
task; `Past` makes that hold for the caller at each statement and for the state it leaves. `SessionsInv` adds the
teardown: the receiving thread is gone, so the map and the connected sessions only shrink, first to the ones
collected and then to none, but for what `Erased` names, the sessions calls of `disconnectClient` hold. `OnePumpInv` says there is at most one continuation, and none while no start has
got to the pump. `PumpKept` says who owns a flag that is up, that a
stopped system has no pump left, that a running one never drops the flag, and that something goes on unless the
pool has refused (`GoesOn`). `failedOver` excepts the one way
in which a stopped system keeps a pump: a start that fails while the pump is about to run.

**Sessions.** `ReportInv`: the right to report a session moves from the table to the one thread that took it
out, to one task in one strand, to the count, and is never in two of these. `CloseInv` follows a connected
session the same way to the thread that closes it. `TokenInv` says who will give up the token of a GUID that has
one. `LineInv` is the flush schedule: for one GUID there is one line along which its next flush travels, a
`Schedule` command, the entry in the heap, the hands of the tick or of a flush task, a task in a strand.
`OneCommand`, `OneHand`, `OneTask` and `OnePlace` say the flush is in one of them, and, for a GUID that is not
`stray`, `LineGoesOn` that a session that
lives is somewhere on it, and `CancelsEnd` that a Cancel belongs to a session that is gone. It needs `AloneInv`,
that at most one session of a GUID is in anybody's hands but a call of `disconnectClient` that knows only the GUID
(`Asks`, `ClientsAsk`), which is what `~early` gives, and `NewIsQuiet`, that nobody is about to cancel for a GUID
that is being connected unless it is `stray`.

**Session.** `CloserInv` says that the right to close is with nobody while connected, then with the one thread
whose exchange took `mConnected` down. `DrainedInv` says that whoever is inside `disconnect` has seen it down.
`RemoteReadsAll` needs to know what the remote will be after everything on the wire: a `Course` is the
sequence of its states, one for each frame, and `AgreeInv` says that the last of them agrees with the sender on
mode, counter and place in the key stream, or, between two frames, with the mode it is about to set. A frame
sent extends the course at one end, a frame read shortens it at the other. `InLine` orders what was read, each
frame, what a sender holds and the queue against one another; `Spread` says that no packet is in two of these
places, and `Complete` that none is in no place. These are statements about sequences in any state; each kind of
effect a step can have keeps them by one lemma.

**Client.** `PumpInv`: the right to run the pump is one job, or one thread that holds it, and the flag is set
wherever it is; `FlagInv` is the converse. `CountInv` makes the counters exact, and `StillInv` says what a caller
knows at each statement of a disconnect or stop: nobody activates the pump, then wakeups turn back, then the
pump is calm. `SessionInv` is about the packets that wait: the connection there is belongs to the session that is stored, or
the packets have yet to tell of it, or the limits dropped that notice (`LineInv`), and a session that is connected
and not stored is held by the application (`Owned`). `GoInv` then says that a pump
that is wanted and was not refused is a job, a wakeup, or with a thread at one of nine statements from which it
goes on.

**Streams.** What a recursive function computes for every input takes induction over data. The induction
theorems of the library have an operator for a parameter, so induction is done by hand: `LeastNumber`, from the
library's well-founded order of the naturals, says that a set of numbers has a least one, and `NumberInduction`
follows. A recursive function in TLA+ is a choice of some function that satisfies its equation; `StepsExist`
builds one, so the equation may be used. For each function there are then two lemmas, that it exists and what
it is: halving and summing bits give `NumberReturns`. Variable-length numbers and bit sets are groups of seven
bits: `Grouped` says what is written, one byte for each group up to the highest bit that is set, all but the last
marked; `GroupedReturns` that the reader stops at that byte, neither before (`NoLastGroup`) nor at a limit of its
own. `ZigZagReturns` is about the sign. The loop of `deserializeBatchPackets` is a function of the place it has
reached; it is defined because a text that is read leaves fewer bytes (`TextShortens`, `ReadFromExists`), and
`PacketsReturn` goes through the packets from the last to the first. `SamplesReturn` needs only that a sample of
these kinds is one of the samples: a step of `Exchange` that takes another kind of sample is any step at all.

Only model-checked:

- liveness, and everything with `ENABLED` (out of the prover's reach): `EveryTaskRuns`, `AcceptedRuns`,
  `StopEndsWorkers`, `StopReturns`, `PumpTicks`;
- the properties of the packet codecs (`FactoryBuildsEveryId`, `ReaderFollowsWriter`, `WireHoldsMember`):
  `Events` and `Reads` of `Format` are RECURSIVE over trees of formats, which leaves the prover without its
  arithmetic and sets. Little is lost: they are about the finite tables of the repository, every one of which the
  run goes through, and not about a constant;
- that a module may take another's abstract specification for it (a strand in `ServerSessions`, the pool in
  `ServerLifecycle` and `ClientNetwork`): the refinements are proved, their composition is by construction.

## 5. Findings

1. `strand_tso_lost` (`strand:169`): the drain clears the flag with a release store and then looks at the
   queue with plain loads. Nothing orders the two, so an enqueuer can find the flag still set while the drain
   finds the queue still empty; its task waits for the next `enqueue`, and `stop` waits for its counter.
   `strand_sc` and `NothingStranded` show that the algorithm is right when the two are ordered.
2. `lifecycle_wakeup` (`server:259`): `stop` waits for wakeups and then for jobs, and a job can submit a wakeup in
   between. The wakeup uses the system after `stop` returned and, after a restart, starts a second pump; or, if
   that restart fails, it leaves the next one without a pump (section 3, `failedOver`).
   `ClientNetworkSystem::stop` and `disconnect` (`ClientNetworkSystem.cpp:75`, `:108`) wait in the same order.
3. `sessions_report` (`server:862`): `setOnDisconnected` documents a callback for a client that disconnects; it is
   not called for a client the server disconnects for exceeding a limit or for an empty packet.

The exceptions of `Exchange` are differences between a writer and its reader. The repository documents the
wire format nowhere, so they are listed there and not as findings:

- Left behind: `AddVolumeEntityPacket` writes and reads `mMaxBounds` twice and `mMinBounds` never;
  `AnimatePacket::mRowingTime`, `Attribute::mTick`, `CameraAimAssistPresetDefinition::mCategories` and
  `mExclusionList`, `CameraAimAssistPresetsPacket::mCatagories`, `CameraPreset::mAlignTargetAndCameraForward`,
  `LevelChunkPacket::mIsChunkInTickRange`, `ResourcePackStackPacket::mAddonList` never travel.
- Confused: `ItemStackRequestAction` writes the id of `MineBlock` under a condition and always reads it;
  its alternative, and that of `PlayerUpdateEntityOverridesPacket`, can differ from the type written before it;
  `NetworkItemStackDescriptor` writes a net id without its alternative; two sub-chunk counts of
  `LevelChunkPacket` are markers too, and every negative limit of sub-chunks is read back as -1; a
  `LevelSoundEventPacket` whose event is a text that names an enumerator is read back as the enumerator; an absent member of a legacy `InventoryTransactionSource` comes back as a
  present zero; a `ShapedRecipe` is written by the size of its list and read by width times height (the
  samples have height one); `CompoundTag` drops entries of type End.
- Refused: limits that only `read` checks, in five packets.
- `PlayerInputPacket` has a class and an id, and its case in the factory is a deprecated one, so every
  receiver refuses it. `ItemRegistry` and `ItemComponent` share the number 162.

## 6. Not modelled, and why

- Authentication (certificate chains, tokens, handshake): sequential parsing of JSON, base64 and keys with a
  signature check after each step; the content of each step is in OpenSSL and the JSON library, and what is
  left is one conjunction of checks.
- `AuthenticationKeyManager`: one call of one thread over an external HTTP client. A fetch that fails
  half-way leaves old and new keys mixed, and the code promises nothing about the object then.
- zlib, snappy, AES, SHA-256, PEM and signature wrappers, RakNet: external. RakNet matters through the order
  in which it delivers, the one connection it allows a client, and its closing of connections by GUID.
- Callbacks of the application on a client's strand, settings, announcement and network metrics, and the
  ingress window's arithmetic (a packet is over the limit or not, by choice).
- `clearFlushSchedule`: it empties the flush schedule between two lives of the server, when no session is left
  to be flushed, and `ServerSessions` is about one life.
- Formatting of values as text, unless it goes over the wire.
- Lengths read from the wire that exceed memory; `Format` reads what was written, so the allocation before
  the elements are known to be there (`ReadOnlyBinaryStream.hpp:309`) has no counterpart.
- Enumerator tables other than packet ids: an enumeration is its least and greatest value and its width, since
  only the cast to the wire's type can go wrong.
- The pool, the server or the client stopped from one of their own tasks, which waits for itself.

## 7. What is left

1. The composition of `ServerSessions` with `stop`: callbacks that are in none of the counters `stop` waits for
   (the hazards at `server:508` and `server:771`).
2. The abstract specifications in the place of what implements them: `ServerSessions` on `SerialExecutor` and
   `ServerLifecycle` and `ClientNetwork` on `TaskService` as instances, instead of by construction.
