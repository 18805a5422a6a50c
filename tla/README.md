# A TLA+ verification of dts-framework

The framework runs measurement processes: a middleware (detmw over FastDDS, with a
shared-memory transport of its own) delivers frames to business threads, the data thread
cuts them into reports, and a web server stores the reports in Kafka and streams them to
browsers. This directory models the parts of it that are hard to test, model-checks them
with TLC on small instances, and proves the most important results with TLAPS for every
value of the constants.

`PROJECT.json` lists the components, runs, mutants, the map from definitions to source
lines, the hazards and the theorems. Paths below are relative to the repository, `src/`.

    tlc -workers 2 -config Thread.cfg MCThreadRun     # a run: config, module
    tlapm ThreadRunProofs.tla                         # the proofs of a module

## 1. Inventory

| Component (source) | State | Operations | Interacts with |
|---|---|---|---|
| Bootstrap (`bootstrap/src/run.cpp`, `bootstrap/main.cpp`) | communicator, workers, subscriptions, stop signal, `g_mw` | Run, Start, Stop, the route callbacks, the signal handler | owns everything else in a process |
| detsched (`thirdparty/detsched/src/thread_factory.cpp`) | domains, registry of threads, each handle's policy | DeclareDomain, CreateThread, DestroyThread, QueryThreads | bootstrap creates, the control thread lists |
| Command registry (`infrastructure/src/ctl.cpp`) | vector of commands | Register, Find, Execute | filled by Start, read by the control thread |
| Console and control (`infrastructure/src/console.cpp`) | sessions, `g_activeFds`, job queue, stop flags | console thread, session threads, control thread, control_stop, console_stop | clients on a unix socket, the middleware, `Process::Stop` |
| detmw (`thirdparty/detmw/src/detmw.cpp`, `detmw_fastdds.cpp`) | writers, readers, the table of local subscriptions | construction, subscribe, publish, publish_internal, the receive listener | FastDDS; its callbacks post to mailboxes |
| Message tables (`infrastructure/include/msg_table.h`) | constant tables of groups and handlers | FindSessionTable, Find | the threads' entries |
| Agent (`agent/src`) | double buffer, stop flag | Write, ReadAndFlip, reader loop, destroy | the measured application writes, the middleware publishes |
| Bucket segment (`thirdparty/bucket/src/BucketSegment.cpp`) | header in shared memory: positions, two futex words, robust mutex, owner pid; the ring | Create, Open, ClaimOwnership, Write, Read, two waits with deadline | writer processes and one reader process share it |
| Bucket transport (`thirdparty/bucket/src/BucketTransport.cpp`) | input channels with their receive thread; a writer's cache of opened segments | OpenInputChannel, CloseInputChannel, run, stop, send, is_locator_reachable | FastDDS calls it; it uses segments |
| Thread mailbox and body (`infrastructure/include/mailbox.h`, `infrastructure/src/dts_thread.cpp`) | queue, mutex, condition variable, `m_stop`, `m_status`, next tick | Send, RequestStop, ThreadRun | middleware callbacks send, the main thread stops, the entry is the business |
| Cache pool (`contexts/data/domain/src/data_mem_manager.cpp`) | blocks with key, last tick, in use | AcquireBlock, FindBlock, EvictExpired | called by the data factory only |
| Data factory (`data_factory_v2.cpp`, `report_aggregator.cpp`, `extractors.cpp`, `data_msg_handler.cpp`) | current task, sequence number, tick, thresholds, statistics | OnTask, Process, OnTick, SetBudget | data thread; the control thread sets the budget |
| Task thread (`contexts/task`) | none of its own | OnTaskActive, OnTaskConfig | forwards activations to the data thread |
| Kafka client and statistics (`webserver/src/kafka_client.cpp`, `stats.h`, `main.cpp`) | producer handle and queue, consumer thread, last sequence number, gap counter | Produce, OnDelivery, Shutdown, consumer loop, OnReport | middleware callback thread, librdkafka, main thread |
| HTTP and event streams (`webserver/src/http_sse.cpp`) | `m_streams`, `m_connMutex`, `m_running` | accept loop, ServeConn, ServeStream, Broadcast, Stop | consumer thread and main thread broadcast |
| Log sink (`infrastructure/src/ts_rotating_sink.cpp`) | file in use and its bytes; the directory | sink_it_, Rotate, OpenNew, EvictOldestIfNeeded | spdlog calls it under its mutex |
| Timer wheel, TdMap, log front end, generators, client | | | no process uses the first two; the others keep no state that matters |

What is hard here, and what each part must guarantee:

* **Process assembly and shutdown.** A dozen steps, any of which may fail, while the threads
  already created receive, publish and execute commands; then the opposite order. Nothing may
  be used after it is freed, a process that says it is up must be complete, and it must end.
  FastDDS's own receive threads are not the process's to join.
* **Stop signal.** A handler that takes a mutex and notifies, on top of any thread, at any
  instant, perhaps of the thread that holds the mutex.
* **Registries.** A list of handles and a vector of commands that one thread reads while
  another extends them or frees what they name.
* **detmw.** Notifications that are not repeated, histories that overwrite, subscriptions of
  the own process that must bypass the wire, and messages of several groups in one thread.
* **Agent.** A double buffer without any synchronisation beside an atomic index.
* **Bucket segment.** Writers in several processes, a reader, deadlines on both sides and
  crashes at any instruction. Messages must come out whole, once and in order; the ring must
  not be overrun; no process may wait for ever because another died.
* **Transport.** A reader creates its segment in several steps without a lock, restarts and takes
  a segment over while writers keep sending through several destinations under one deadline: one
  reader at a time, no writer left with a segment that nobody serves, and a result that is true
  of every destination.
* **Thread.** A stop request that is stored without the mutex, a tick that must come under
  load, and a status that must change between the messages it was sent between.
* **Console.** Detached sessions that wait for a control thread which may be stopping, and that
  push jobs while it is; descriptor numbers that the kernel reuses.
* **Cache pool and data factory.** Linear probing with deletion, wrapping counters, blocks that
  are reused uncleared, truncated frames; a report must hold only its own frame's values.
* **Report chain.** Loss, delay, reordering and duplication between the data thread and the
  consumer; a loss must not go unnoticed, and the shutdown must end although the consumer's
  callback is a blocking broadcast.
* **Event streams.** Sends under a mutex to clients that hang up or stop reading.
* **Log sink.** Rotation, deletion and name clashes across restarts and failures to open.

`PROJECT.json` lists these as hazards, each at its line with the properties that cover it.

## 2. Modules and how they correspond to the code

    Process  = ThreadFactory + StopSignal + CommandRegistry, with workers as Worker promises
    Ingest   = PingPong + Communicator
    DataFactory extends CachePool                   its steps are the region's, or leave it alone
    ThreadRun      implements Worker                RefinesWorker, proved for safety
    BucketSegment  implements BoundedFifo           RefinesFifo, for entries of one size
    BucketChannel  takes a segment as that queue

Histories (variables no code reads) are marked as such where they are declared. Definitions
named `X_Something` with the comment "Faulty variant" are mutants: `X` is replaced by them to
show that a property can fail. Steps are as fine as the code's accesses to shared state: an
operation under a mutex that calls nothing which blocks is one action, everything else is
split at each access.

**Process** is `Run` from its first line to its last. The main thread's place is a name and an
index (`main`): the communicator and its failures, the domain, each worker with its creation
and its entry in the registry, the subscriptions, console, control thread, command
registration, the verdict, the wait, and then `Stop`: control, console and the workers asked,
erased, joined; `g_mw`; the communicator; the subscriptions. Beside it run the receive
callbacks, the workers (which load `DtsMw()` twice, as the code does, and borrow a
subscription's session name while they handle a message), the sessions, which push jobs whether
control is stopping or not, and the control thread. A worker is what Worker promises, its mailbox
a counter. `FreeComm` does not end the receive callbacks: the transport's destructor calls
`delete_participant` with publisher, subscriber, topics, readers and writers still there and does
not look at the result, and DDS refuses to delete a participant that has such entities. What
`run.cpp:235` takes for granted is therefore not assumed; section 6 has `CallbacksUseLive`.

**ThreadFactory** is detsched: declaration of domains, creation with the fallback to normal
scheduling or the refusal under `DTS_STRICT_SCHED`, the registry, erasure and join.
**StopSignal** is the condition variable of the main thread and the handlers, which run on top
of any thread and nest. **CommandRegistry** is the vector with its reallocations and the
pointer that `Find` returns.

**Communicator** is detmw in one process: construction with writers that may be missing,
subscription in its two steps, `publish`, `publish_internal` under the mutex, the listener that
takes samples until none is left, the mailbox, and what the thread's entry calls for a message:
the tick, if it has the number of one (tested first), else the handler found by group and number,
else nothing. A message with the status's number sets the thread's status and goes on to the
entry like any other. A handler may publish in turn. The local table has one subscriber per
endpoint, where the code keeps a list and calls each: the routes of the shipped processes enter
every endpoint once. FastDDS is a keep-last history per reader with one pending notification.
**PingPong** is the agent's double buffer. Its fields are plain memory, so an offset the writer
needs twice is either the one it has loaded or a new load. The index is accessed with relaxed
order (`pingpong.cpp:9` and `:20`); the model reads these accesses as sequentially consistent, so
what a weakly ordered machine adds to the interleavings is not covered. **Ingest** composes the
two: a batch from the buffer and requests of other processes reach the listeners of the data
process while it is still subscribing.

**BucketSegment** has one action per access to shared memory. `WriteBegin ... WriteUnlock`
are `Write` (lock, `wait_drain` as `DrainCheck`/`DrainArm`/`DrainFutex`/timeouts, the copy
unit by unit, the store of `write_pos`, the increment of `wake_word`, `FUTEX_WAKE`, unlock).
`RunLoop`, `ReadHead ... ReadWake` and `Wake...` are the receive thread with `Read` and
`wait_wake`. `WriterCrash` ends a writer anywhere and leaves the robust mutex `ownerdead`.
Sizes are in units of 8 bytes, to which the code aligns everything; `HasRoom` keeps the
unsigned arithmetic. **BoundedFifo** is what the segment promises; `Fifo` in BucketSegment is
the refinement mapping.

**BucketChannel** is the life of segments on several ports: create or open, claim (`MayClaim` is
the test of `owner_pid`), serve, stop (which unlinks), crash. Create is as many steps as others
can tell apart: the name (`ChannelCreate`), magic and capacity, from which on `Open` succeeds
(`CreatePublish`), the positions (`CreateClear`), the owner (`CreateDisown`), or a failure in
between; a crash may come anywhere. Then there are the writers' cache, which a send
and the question whether a port is reachable both fill; and a send over several destinations
under one deadline. A segment is the queue that BucketSegment implements. Once two readers
serve one segment, or the creator resets one that is served already (possible, see section 6),
the queue is no longer an exact account of private cursors: what such a reader receives again
or misses is not in it. `SendTruth` depends only on what a segment has accepted, the other two
properties not on queues at all. `hurried` marks segments claimed before their creator was done.

**Worker** is what a business thread promises: order, no loss, at most one more message after a
stop request, and the end. **ThreadRun** is the mailbox and `ThreadRun`. The predicate, the
block and the push are separate actions with the mutex as a variable, so that the stop request
can fall between predicate and block. Time is the predicate "the next tick has passed".
`Promise` is the refinement mapping to Worker; ticks and waits are stutters.

**Console** is the console thread, one session per connection, the control thread, the
commands from the middleware and the main thread in `Process::Stop`. A client sends as many lines
as it likes, each when it has the answer to the last (`awaiting`), as the command-line client
does. The kernel's descriptor
numbers are modelled because the code keys its bookkeeping by them.

**CachePool** is the region of the data thread with its wrapping tick; **DataFactory** extends
it with the data thread's messages, the task thread's forwarding and the control thread's
`SetBudget`, whose two stores and the two loads in `Process` are steps of their own. A slice is
represented by the number of the frame it was cut from. `AsRequest` is the reading of a
`TaskActiveMsg` as a `TaskRequest`. `DETMW_DATA_BYPASS` is chosen at the start.

**ReportChain** goes from `++m_seq` to the gap counter. librdkafka and the broker are external
and modelled from how the code uses them: a message keeps its place in the producer's queue
until its delivery report is served; a message may expire, be delivered out of order or twice;
the consumer's `OFFSET_END` becomes an offset some time after the assignment (`ResolveEnd`), and
what is stored below it is passed over. The consumer's callback broadcasts to the event streams
and does not return while a client has stopped reading (`stalled`); HttpSse is the detail of that.
A delivery report that the final flush serves crashes the server (`OnDelivery`).

**HttpSse** is the accept thread, the connection threads, the two broadcasters and the
shutdown. A broadcast sends to one stream per step with the mutex held. A client may hang up
and may stop reading.

**LogSink** is one action per logged message, with rotation, opening and deletion in it as in
the code, the clock, and a restart of the process.

**MC...** modules give TLC its symmetry sets and structured constants. **...Proofs** modules
hold the theorems.

Each module's `TypeOK` documents the ranges of its variables. Those of BucketSegment,
BucketChannel, ThreadRun, CachePool, PingPong and HttpSse are proved; the runs are spent on the
other properties.

## 3. Runs

| Run | Properties | Bounds and why they are enough |
|---|---|---|
| `bucket_uniform` | `NoOverwrite`, `RefinesFifo`, `AllDelivered`, `WriteReturns`, `StopJoins` | two writers, a ring of two entries, three messages: the ring fills, a writer waits for room, entries wrap round, both writers can crash |
| `bucket_mixed` | `ReaderBehind`, `ReturnIsTruth` | entries of one to three units in a ring of two: too long, exactly full, overrun, and a receive buffer that is too small |
| `bucket_overwrite` (violation) | `NoOverwrite` | as above |
| `channel_safety` | `OneClaimant`, `CrashKeepsWriters`, `SendTruth` | three readers on two ports, two of them on one, so that a claim can fall between any two steps of a creation and a takeover can follow a stop and a crash; one writer and segments of one message, so that one destination of a send is full while another has room, no segment or one in the making |
| `thread` | `StatusInOrder`, `TickPunctual`, `NoMissedMessage`, `RefinesWorker` | two senders, four messages with three kinds, two statuses |
| `console` | `CommandAnswered`, `StopCompletes`, `OnlyStrandedSessions` | two clients one after the other on one descriptor number, so that it is reused, each sending any number of lines, and one command from the middleware |
| `data` | `NoForeignData`, `Accounted`, `FreshestFirst`, `TtlBound`, `NoEarlyEviction` | two blocks, two objects with the same home, two slices of which a report holds one, so that the other is beyond its capacity, a counter that wraps at 3, three frames: enough for a broken probe chain and a second block |
| `chain` | `LossShows`, `Consumed`, `StopEnds` | a producer queue of three, three frames: loss before, between and after, reordering and duplicates; the offset found before, between and after them; clients that stall and read on |
| `sse` | `StreamsAreStreams`, `LiveStreamsRegistered`, `GoneCleaned`, `StopReturns` | two clients, two descriptors, reused after a close |
| `log_safety` | `WithinLimit`, `OldestGoFirst` | files of two units, a limit of five, six messages in four seconds, several rotations in one second |
| `process` | `ThreadsUseLive`, `MwUsedAlive`, `UpMeansComplete`, `SignalEndsRun` | task and data thread, of which the first publishes to the second; one failure anywhere in the assembly, with or without privilege and strict scheduling, one signal at any instant on main or a worker, two messages or commands |
| `ingest` | `OnlyOwnHandler`, `InternalOnce`, `CleanWhenSeparate`, `AllTaken` | a buffer of three units with records of two, so that a second record fits only after a flip; two writes, one request to any of four endpoints, one writer or reader that is refused; the data thread has two groups that use one message number and handlers under the numbers of status and tick, and histories hold two samples |

`bucket_overwrite` is the only run that is to fail: section 5.

The instances stop when their messages, frames or clients are used up, and after a shutdown
nothing is left to do; the configurations of such runs say `CHECK_DEADLOCK FALSE`. Whether a
thread hangs that should not is asked by the liveness properties instead.

**Fairness.** Threads of a process that can run do run (weak fairness of each thread's steps),
and clocks advance, so deadlines pass. Nothing obliges a caller to write, a client to send or
hang up, a process to crash or an operator to stop. In Process the main thread, every thread it
creates, a running receive callback and a running signal handler are weakly fair; signals,
messages and failures need not come. In Communicator the listeners and the business threads are
weakly fair, and nothing else of Ingest: FastDDS calls a listener it has notified. Worker asks
for weak fairness of its own steps only, which ThreadRun's fairness implements. In HttpSse the
threads that wait for `m_connMutex` get it (strong fairness): the broadcasters release it between
broadcasts that are at least 100 ms apart in the main thread and a message apart in the consumer
thread, so a waiter is not kept out for ever. In ReportChain the broker is assumed to come back
for `Consumed`; `StopEnds` needs it only through the timeouts that librdkafka itself has. Nobody
makes a client read there: a broadcast returns only while none has stalled.

**What the results mean.** `AllDelivered`, `StopJoins` and the liveness half of `RefinesWorker`
hold although wake-ups can be lost: each is rescued by a deadline (200 ms, one tick).
`WriteReturns` rests on the robust mutex. `SendTruth` relates one result to several segments
while they are claimed and wiped by others; what a claim wipes counts as delivered, as it does
for the code. `StopReturns` and `GoneCleaned` hold only while every client reads;
`OnlyStrandedSessions` names the only two ways in which a session survives a shutdown.
`StopCompletes` says that the shutdown ends or commands are pushed for ever: `PushJob` does not
look at `g_controlStop`, and the control thread leaves only on an empty queue, so clients that
never stop sending hold the join. `SignalEndsRun` is about finitely many commands for the same
reason, and excepts `SelfLocked`. `Consumed` and `StopEnds` hold if clients do not stall for good
(`ClientsRead`), and `StopEnds` if no delivery report crashes the flush. `OneClaimant` excepts
claims made before the creator was done, which it wipes out; what `SendTruth` calls accepted may
be wiped, too, by a claim or by the creator. `ThreadsUseLive` is about the process's own threads:
receive callbacks may outlive what they use (`CallbacksUseLive`), and the control thread calls
through a pointer that may have moved (`FoundLive`). `OnlyOwnHandler` says that an endpoint with
the tick's number never reaches its handler; `AllTaken` is about the others. `FreshestFirst`
shows that an object which eviction has left with two blocks is still served from the right one.
`CleanWhenSeparate` says how far the agent's buffer can be trusted: it is exact as long as no
flip falls into a running `Write`. `InternalOnce` is about messages that did go to a local
subscriber; one published before the subscription is entered goes to the wire.

## 4. Proofs

All constants are arbitrary, under the assumptions named in the modules (`BucketAssumption`,
`ChannelAssumption`, `ThreadAssumption`, `CacheAssumption`, `DataAssumption`, `PingPongAssumption`,
`CommunicatorAssumption`, `IngestAssumption`, `ChainAssumption`, `ProcessAssumption`,
`SignalAssumption`), which TLC evaluates in the runs. `ChannelAssumption` has that a send names
each destination once, `ProcessAssumption` that the workers are listed once each. Three results
hold under a hypothesis of their own, which the bullets below name: entries of one size
(`Uniform`, twice), `OwnTargets`. The passing runs of these properties satisfy them.

* **BucketSegmentProofs.** `TypeCorrect` (invariant `TypeOK /\ MsgInv`: the message of a pending
  Write fits the ring and its copy stays inside). `ReaderStaysBehind` needs `ReaderInv`, which
  also covers the place where the length is read. `UniformNoOverwrite` assumes that all entries
  have one size `E` and that `E` divides the capacity. `NoOverwrite` is far from inductive:
  `UInv(E)` adds that the mutex excludes (`LockInv`), that positions are multiples of `E`
  (`Aligned`), that every entry boundary holds a first unit, so the length the reader finds is
  `E` (`HeaderInv`, `EntryInv`), and that a writer past `wait_drain` has room for a whole entry
  (`RoomInv`); divisibility is what makes one free unit imply `E` free units (`RoomForOne`).
  `WriteTellsTruth` from `ResultInv`: calls in progress have different messages, and the message
  of each (`CallOK`) is published exactly from the step that moves the write position on.
  `UniformRefinesFifo`: under the same assumption the segment implements BoundedFifo. On top of
  `UInv(E)` the invariant `QueueInv(E)` says where the j-th message published starts
  (`CursorInv`), that every unread one is in the ring unit by unit, as is what a writer has
  copied so far (`ContentInv`), and what the reader's buffer holds (`BufferInv`). The store of
  `write_pos` is `Send`, the store of `read_pos` is `Take`, the delivery is `HandOn`; every other
  step, lock, waits, time-outs, wake-ups and deaths of writers, is a stutter.
* **BucketChannelProofs.** `ChannelTypeCorrect`. `ClaimsExclude` from `ClaimsHold`: a segment
  that a running reader obtained by a claim names that reader as its owner and has a creator that
  is done, unless it was claimed while the creator was at work (`hurried`). `SendsTellTruth` from
  `SendsOK`: numbers of sends are not reused, and of each send in progress (`SendOK`) the result
  so far is true exactly when the destinations it has passed have got the message; `PutSet`, the
  pairs of port and message that were ever in a segment, only grows, by the step of the send
  itself; claims, receptions and the creator's reset leave it alone. `CrashesStrandNobody` from
  `NamedOnce`: as long as no reader has stopped in order, the name of a port is given once, and
  every reader and every cache has the segment it denotes, whichever of them came after a crash.
* **ThreadRunProofs.** `TypeCorrect`; `NoMessageMissed` from `PlaceInv` (the mutex is held from
  the test of the mailbox to the wait); `TickIsPunctual` from `LateInv` (after a message that
  was late the thread is on its way to the tick); `MailboxKeepsOrder` from `OrderInv`, which
  says position by position where the i-th message sent is; `StatusKeepsOrder` from that and
  `StatusInv`. `ThreadImplementsWorker`: the initial state maps to Worker's, and every step to a
  step of Worker or a stutter, hence `Spec => Promise!Spec`.
* **DataFactoryProofs.** Of the region: `PoolTypeCorrect`, `TtlHolds` and `EvictedOnlyWhenStale`
  from `AgeInv`: the unsigned difference of the counters is the true age of a block in use, which
  holds across the wrap because the counter is wider than the time to live (`AgeOneTickLater`).
  `FreshestIsFound` needs `NearerIsFresher`: of two blocks of an object the one nearer to its
  home is the fresher. The lemma `ProbeOnce` shows that a probe visits every block once. Every
  step of the data thread is a step of the region or leaves it alone (lemma `DataUsesPool`);
  hence `DataThreadPool`. Of the data thread: `ReportsOwnData`, since a report takes only the
  slices that extraction has just written; `FramesAccounted` from `CountsOK`, which adds that the
  frame being judged has been counted and not judged yet, and that the isolation modes judge
  none; the step that cuts a frame's slices sends each of them or counts it as beyond the cap.
* **IngestProofs.** Of the agent's buffer: `StaysWithinBuffer` needs `RoomKept`: what a writer
  has loaded or may load again still leaves room for its record, although the reader can set the
  offset to zero. `CleanUnlessSpanned` from `Separate`: until a flip hits a running `Write`,
  reader and writer are on different faces, and published, pending and accepted units agree. The
  copy, which moves nothing that is counted, and the advance, which adds exactly the record
  copied, are the two steps with content. `AgentTrafficClean`: a step of the composition is a
  step of the buffer or leaves it alone. `HandlersMatch` (a tick exactly for the tick's number,
  by `TickIsNone`, and otherwise the endpoint's own handler or none, by `OwnHandler`) from
  `RoutesOK`: every message on its way (history, mailbox, about to be published) carries the
  endpoint it was published to, and a mailbox holds only messages whose endpoint is routed to its
  thread. `InternalDeliveredOnce` assumes `OwnTargets`: a handler publishes to an endpoint of its
  own, which neither the agent nor other processes use; so endpoint and number identify a
  message. Its invariant `OnceInv` says that a message waits in one place at most (`Alone`,
  `Single`), that what waits has not been handled and what a handler is about to publish has not
  been published (`Ahead`), and that what a handler has published presupposes that its own
  message was handled (`Follows`), so it cannot come a second time. Two theorems carry the safety
  part of `AllTaken`: `ListenerLeavesNone` (`Noticed`: a sample in a history has a listener call
  ahead of it or under way) and `NothingDropped` (a step property: a sample stays, moves to the
  mailbox of its thread or is overwritten; a message in a mailbox stays or is handled). What is
  left of `AllTaken` is fairness.
* **ReportChainProofs.** `LossIsCounted` from `Consecutive`: as long as no gap is counted, what the
  consumer has seen is a run of consecutive numbers, so nothing between two of them is missing;
  producer, broker and retries need only keep to numbers (`PlacesOK`). `ChainTypeCorrect` from
  `TypeInv`, which adds that the callback holds a number that has been published: nothing
  unpublished reaches the topic, and the producer's queue keeps to its limit although nobody
  polls the delivery reports.
* **HttpSseProofs.** `BroadcastsToStreams` and `StreamsStayRegistered` from `StreamInv`: connections
  whose thread has not closed its descriptor own different open numbers (`DescriptorsOK`), so who
  erases or shuts a number meets its own stream only, and a stream is registered until a failed
  send has shut it down (`RegisteredOrShut`). `ServerInv` adds that every open number has a
  connection (`Owned`), that a broadcaster's remaining targets stay in `m_streams` because it
  holds the mutex (`CastersOK`), and the order of the shutdown (`StopOK`). Hence
  `SendsReachOneStream` (from snapshot to send a target is open and one stream's), `StopRunsAlone`
  (no Broadcast is under way when the streams are shut, nor later) and `StopLeavesNoStream` (once
  `Stop` has returned, no stream's thread waits in `recv` untold).
* **ProcessProofs.** The first three rest on `TeardownOK`: `Stop` has ended every thread it has
  come past, a handle is erased from the registry before it is deleted, and before the middleware
  is touched no thread is left. `PublishersKeepMiddleware` adds `MiddlewareOK`: who publishes is
  a running thread in the middle of its work. `ThreadsNeverUseFreed` adds `TrafficOK`: a worker
  that handles a message does so over a live subscription, and those are cleared when no worker
  is left. It assumes nothing of FastDDS's threads, which may still post to mailboxes then.
  `UpIsComplete` adds `AssemblyOK`: `ok` says at every place of `Start` whether the workers so
  far are complete, and before `Stop` none of them is asked to leave. Of the stop signal, for any
  set of signals nested on any threads: `SignalOK` says that a handler that runs lies on one
  stack, once (`FramesOK`), who holds the mutex, and that whatever interrupts the holder waits
  for it (`MutexOK`), and that the flag is set exactly when a handler is past its store
  (`FlagOK`). `StopIsNotLost`: the main thread is blocked with the flag set only while a handler
  has yet to notify. `OnlySelfLockBlocks`: the holder of the mutex can run on, except where a
  handler waits for it on top of the holder, which section 6 has as `SignalAlwaysEndsRun`.

Only model-checked, on the bounds above: everything about liveness, `AllTaken` included (TLAPS
does not do fairness or ENABLED); the properties of Console, which are all temporal; and the two
of LogSink, which are about sums of sizes over sets of files and would need induction over data.

## 5. Findings

* `bucket_overwrite`: `wait_drain` (`BucketSegment.cpp:243`) waits until 8 bytes are free,
  whatever the entry needs. With entries of different sizes a writer overwrites entries that
  are unread; after that the unsigned difference wraps and every later test succeeds.

## 6. Further disagreements between code and comments

Met while modelling. Each property is defined in its module; put in the place of the
configuration's properties (the first column names the configuration and the module it is for)
TLC finds it violated. The last two configurations are kept for this purpose: they need
constants that no run has. The properties of section 3 are stated so as to hold in spite of
all of these.

| Config (module) | Property | What happens |
|---|---|---|
| `BucketUniform` (MCBucketSegment) | `NoLostWakeup` | the futex value is loaded after the position was tested (`BucketSegment.cpp:232`), so a wake-up in between is lost; the 200 ms deadline ends the sleep |
| `ChannelSafety` (MCBucketChannel) | `OneReader` | the creator of a segment does not enter itself as owner, so a second reader can claim it (`BucketTransport.cpp:80`) |
| `ChannelSafety` (MCBucketChannel) | `ClaimKept` | `Create` stores `owner_pid = 0` after the segment can be opened (`BucketSegment.cpp:138`): a claim in between is undone, and a third reader can claim beside the second, which `BucketSegment.h:36` rules out |
| `ChannelSafety` (MCBucketChannel) | `FreshIsEmpty` | `Create` clears the positions after the magic (`BucketSegment.cpp:134`): a message accepted in between is wiped although its Write returned true |
| `ChannelSafety` (MCBucketChannel) | `LeftCanBeClaimed` | a reader that dies before it has written the magic leaves a name that can be neither created nor opened (`BucketSegment.cpp:132`); a segment left by a dead owner is to be taken over (`BucketSegment.h:35`) |
| `ChannelSafety` (MCBucketChannel) | `RemovedUnused` | stop unlinks the segment while writers have it cached (`BucketTransport.cpp:109`; `BucketSegment.h:39` asks the caller to exclude this) |
| `Thread` (MCThreadRun) | `StatusConsumed` | status messages are forwarded to the entry; `contracts/contexts.md:124` says they are consumed |
| `Console` (MCConsole) | `ActiveFdsComplete` | a session closes its descriptor before it erases the number (`console.cpp:134`) and may erase a newer session's entry |
| `Console` (MCConsole) | `OverlongAnswered` | an overlong line ends the session without the error that `console.cpp:65` announces |
| `Console` (MCConsole) | `SessionsEnd` | a command pushed after control_stop is never answered and its session waits for ever (`console.cpp:97`) |
| `Console` (MCConsole) | `StopAlwaysCompletes` | commands pushed while `control_stop` joins keep the control thread in its loop (`console.cpp:97`, `:187`), for ever if clients never stop |
| `Data` (MCDataFactory) | `BudgetOrdered` | warn and alarm are stored one after the other; a frame can be judged by warn > alarm (`data_factory_v2.cpp:76`) |
| `Data` (MCDataFactory) | `ActivationTaken` | the task thread forwards a `TaskActiveMsg` that the data thread reads as a `TaskRequest`, so the activation of `dts_def.h:88` has no effect |
| `Chain` (ReportChain), with `QueueMax = 2` | `RefusedOnlyWhenDown` | nobody calls `rd_kafka_poll`, so delivery reports keep their place in the producer's queue; when it is full, `Produce` fails for good although the broker is up, which `kafka_client.h:33` expects only with the broker away |
| `Chain` (ReportChain) | `GapMeansLoss` | a frame without slices uses up a sequence number; a gap is counted although nothing was lost (`stats.h:23`) |
| `Chain` (ReportChain) | `ShutdownSurvives` | no opaque is configured, so the delivery callback served by the final flush dereferences a null context (`kafka_client.cpp:96`); `contracts/webserver.md:52` has the flush as a step of an orderly shutdown |
| `Chain` (ReportChain) | `HandleAlive` | the producer is destroyed while the middleware callback may be using it (`kafka_client.cpp:144`) |
| `Chain` (ReportChain) | `JoinReturns` | the consumer's callback broadcasts with blocking sends, so a client that never reads again holds the join of its thread (`kafka_client.cpp:272`), and the flush that `main.cpp:137` (web server) announces is never reached |
| `Sse` (MCHttpSse) | `StopAlwaysReturns` | a client that stops reading blocks Broadcast with the mutex held, and with it the shutdown; `http_sse.h:3` says slow connections are evicted |
| `LogSafety` (LogSink) | `RotatesToFresh` | the third rotation within a second goes back to the first file (`ts_rotating_sink.cpp:100`) |
| `Process` (MCProcess) | `FoundLive` | `Find` returns a pointer into the vector and releases the mutex (`ctl.cpp:106`), while Start still registers commands: the vector moves under the control thread |
| `Process` (MCProcess) | `CallbacksUseLive` | `run.cpp:235` takes it that `delete_participant` waits for the receive threads; it is called with contained entities and its refusal is ignored (`detmw_fastdds.cpp:368`), so a callback can use a subscription after `subs.clear()`, as R2 of `docs/design/bootstrap-run-review-2026-08-05.md` suspects |
| `Process` (MCProcess) | `SignalAlwaysEndsRun` | a handler that interrupts the holder of the stop signal's mutex waits for it for ever; `run.cpp:43` says that any thread may call `Request` |
| `Ingest` (MCIngest) | `RecordsWhole` | only the index is atomic, not the flip that `pingpong.h:11` (agent) calls atomic: a flip within a `Write` publishes records in pieces |
| `IngestPlain` (MCIngest) | `PlainIsFixed` | `publish_internal` hands a message to a local subscriber without the size test that `detmw_fixed_type.h:7` promises for plain channels |
| `CacheOneBlock` (CachePool) | `OneBlockPerObject` | eviction leaves no tombstone, so an object can have two blocks; `data_model.h:22` says one |

## 7. Not modelled

* **State that cannot go wrong by itself.** Static construction of the process's state and a
  second call of `Run`; locator selection and defaults of the transport; counters and dumps of
  detmw; statistics snapshots and the rate window; the content of HTTP answers, JSON texts and
  log lines.
* **A data race on a diagnostic.** `writeCount` of detmw (`detmw_fastdds.cpp:476`) is a hash map to
  which publishing threads add without synchronisation. Its content is only printed, but two
  first publications at once may corrupt the map; the models leave it out.
* **Inside of libraries.** FastDDS, librdkafka, spdlog and cJSON, whose behaviour is modelled where
  the code depends on it; what POSIX leaves undefined about a condition variable in a signal
  handler beyond the mutex, which StopSignal has; spdlog's queue behind the log front end.
* **Agent.** A batch that waits when the agent is destroyed is lost, and a batch holds records end
  to end without separators; both are as the code has them, and nothing states otherwise.
* **Web server object.** Detached connection threads may use it after `main` has returned
  (`http_sse.cpp:139`): HttpSse ends with `Stop`.
* **Weak memory.** All models interleave whole accesses. Where the code uses acquire and release
  or locks that is what it gets; the relaxed index of the agent's buffer (`pingpong.cpp:9`, `:20`)
  is read more strongly than it is written.
* **Several subscribers of one endpoint** in a process (`detmw.cpp:56`, `:195`): the models have
  one, as the shipped configurations do.
* **Destinations of a send** are taken to be distinct, as FastDDS's locator lists are.
* **Not used by any process:** the timer wheel and TdMap, which only their unit tests call, and the
  parameter overrides of detsched. **Not part of a process:** generators and command-line client.
* **Out of the prover's reach:** liveness, and what a recursive definition computes for every
  input. Nothing proved here depends on either.
