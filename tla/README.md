# Ridgeline: a TLA+ verification project

Ridgeline detects smoke in camera video at the edge and delivers the detections
to a cloud backbone. This directory models the parts of it that hold state or run
concurrently, checks them with TLC on small instances, and proves the most
important of the properties with TLAPS for every value of the constants.

Paths below are relative to the repository's source root.

## The system

| Part | Code | What it does |
|---|---|---|
| Ring buffer | `core/include/ridgeline/ring_buffer.h` | lock-free queue between exactly one producer and one consumer thread |
| Edge pipeline | `inference/src/edge_pipeline.cc` | capture thread, frame ring, inference thread, event ring |
| Confirmer | `core/include/ridgeline/kofn_confirmer.h` | turns verdicts on frames into episodes: at least k of the last n |
| Write-ahead log | `core/src/wal.cc` | the agent's events on disk, a checkpoint of what is acknowledged, compaction |
| Agent | `agent/src/main.cc` | producer, ack reader and main (send) thread; reconnects, resends, applies configuration |
| Gateway | `gateway/src/main.cc` | one `Connect` handler per gRPC stream: duplicates, gaps, rate limit, publish, ack, heartbeat, configuration |
| Kafka producer | `kafka/src/kafka_producer.cc` | synchronous publish over librdkafka's asynchronous reports |
| Device shadow | `dynamodb/src/device_shadow_store.cc` | optimistic, versioned writes to DynamoDB |
| Rate limiter | `core/include/ridgeline/token_bucket.h` | a token bucket per tenant |
| Weather and alerts | `weather/src` | cached reading, severity of a detection |
| Hot state | `redis/src` | last heartbeat of each device, over one shared connection |
| Detector | `inference/src/onnx_cpu_detector.cc` | letterboxes a frame, decodes the network's rows, suppresses overlaps, picks a box |
| Synthetic producer | `agent/src/main.cc` | emits events at a rate a configuration may change |
| Fleet simulator | `tools/fleet/device_simulator.cc` | many devices without durable state that reconnect at will |
| Demo lambda | `demo/lambda` | computes, records and lists events over one DynamoDB table |
| OTA manifests | `tools/ota_tool.cc`, `ota/src` | `genkey`, `sign` and `verify` of signed update manifests |
| SigV4, HTTP transports, deployment | `dynamodb`, `weather`, `deploy`, `terraform` | see "Not modelled" |

A detection travels: video → frame ring → inference → event ring → producer
thread → log and outbox → stream → handler → rate limit → Kafka → cumulative ack →
checkpoint. Configuration travels the other way, from the gateway's file by way
of the heartbeat's answer to the pipeline.

## Modules

Each component module has its state as variables, with the name of the program's
variable in a comment, and one action per step that another thread, process or
crash can come between. `MC*` modules give the constants that a `.cfg` cannot write;
`*Proofs` modules hold theorems. Definitions named as mutants in a comment are
deliberately wrong variants of the definition that follows them; no specification
uses them.

**`SpscRingBuffer`, `BoundedFifo`, `SpscRingBufferProofs`.** A `TryPush` is the load
of `head_`, the write of the slot and the store of `tail_`, each a step; `TryPop`
likewise. A load of the other side's index may return an older value, as acquire
and release allow. `TryPushWith` may decline. `BoundedFifo` is what the ring
promises: a queue of `Capacity - 1` items. The refinement mapping is `Published`, the
slots from `head_` to `tail_`.

**`AgentWal`, `DurableOutbox`, `AgentWalProofs`.** The log is what `DecodeRecord` can make of it: `good`,
the records before the first undecodable byte, a flag for a torn record, and `behind`,
the records hidden behind it. `Append`, `Acknowledge` and `Compact` run on three threads
of the agent and are split at their system calls. `Crash` may come between any two of
these; it may leave a torn record. `Restart` is the constructor, `ReplayUnacked` and the
computation of the next sequence number. `committed` records which appends have
returned, `exposed` those that met a torn record or overlapped a compaction. `DurableOutbox`
is what the send loop is promised of the rest: a set of numbers to be sent, from which an
ack removes some in memory and then on disk, and which a restart rebuilds from what is
on disk. Under the mapping, an event is promised when its append has returned and is not
exposed.

**`GatewaySession`, `DetectionPathProofs`.** `IngestServiceImpl::Connect` for one stream:
hello, resync, duplicates, rejections by the rate limiter or by Kafka, gap accounting,
acks, the `lost=` figure, and each early return. A client may say hello again on the same
stream, and its numbers may come in any order, as when a rejected detection is resent. The
numbers since the last hello are a segment; the history variables follow it and add up
the segments before.

**`Delivery`, `AtLeastOnce`, `DeliveryProofs`.** The composition: agent, a succession of streams,
their handlers, the Kafka log. A stream delivers in order until it breaks, and then
loses a suffix in each direction. The handler of a broken stream may continue beside
its successor. A handler's step is the accepting path of `GatewaySession`; the log and
outbox are a durable outbox whose numbers have no holes, an ack being taken and saved in
one step. The time may run out while the producer is inside `emit()`: main may then find the
outbox empty and leave before that event is in it. `AtLeastOnce` is the promise end to end, with streams, crashes and resends
hidden: which events exist, are stored, refused, and forgotten by the agent.

**`KafkaProducer`, `StoreClientsProofs`.** `PublishSync` in several threads: the produce call, the test of
`done`, the poll, the deadline; any thread's poll runs any message's delivery callback. The
destructor's flush may return with reports outstanding. librdkafka and the broker are external.

**`EdgePipeline`, `EdgePipelineProofs`.** The two pipeline threads with the K-of-N window, and the agent's
producer thread that pops events and rebuilds the pipeline for a new configuration.
The rings are atomic queues, by `ImplementsFifo`. The detector's verdicts are free; the
source may end at any frame.

**`DeviceShadow`, `ServicesProofs`.** Read, conditional write and retry by several
handlers. A read may fail and then looks like an absent item; an answer may be lost; a
request given up may be carried out later.

**`ConfigReconciliation`, `ConfigAndFleetProofs`.** Edits of the desired file, heartbeats and pushes in flight,
the pending update, its application, an abort for k > n, restart, reconnect.

**`DetectionPolicies`, `ServicesProofs`.** The shared token buckets under a wall clock that may be set
back, the weather cache with its last-good rule, and `ComputeAlertSeverity`.

**`HotState`.** Handler threads on the one hiredis connection: the method's own mutex,
the command, an answer, a refusal, a timeout after which the command may have run, a
Redis that goes away with its data or evicts a key. `Ops` says which methods are called;
the gateway calls only `Update`.

**`OnnxDetector`, `DetectionPathProofs`.** Frames of different shapes one after another through the members they
share. A tensor cell is where its value comes from (the frame, the two pixels and the
weight on each axis), a row of the output is its box and scores, in exact fractions.
What is kept is a set of positions in the sorted candidates.
`Preprocess`, `DetectAll` and `Detect` are the steps; the network answers with any rows.
The resized size and a sample position that are whole numbers may come out just below
them in floating point.

**`FakeProducer`, `ServicesProofs`.** The producer loop for synthetic events in discrete time: the slices of
its wait, sleeps and emits that take too long, a configuration at any moment, the
deadline and the signal.

**`FleetSimulator`, `ConfigAndFleetProofs`.** `main`, the sending thread and ack reader of each device, its streams
and the gap accounting of their handlers, with refusals by the rate limiter and by Kafka. A device's numbers go on from stream to stream
while each hello says that nothing is durable.

**`DemoFeed`, `StoreClientsProofs`.** Concurrent invocations of the Lambda handler, split at their requests: the
time is read, then the weather, then the item is put; a listing is a scan and a sort.
A failed request may have been applied. The scan asks for no consistent read, so it finds
each item in the table or in a copy that lags (`replica`). `Quantum` is the rounding of a timestamp parsed
into a double.

**`OtaTool`, `ServicesProofs`.** Commands as processes over three files that are truncated and then written,
with crashes, short writes, edits of the manifest and overlapping commands. A text is a
sequence of pieces and `CanonicalBytes` concatenates them with the separators, so that a text
with a separator in it can make two manifests the same bytes. A signature is the canonical
bytes and the key that made it.

**Hosts.** `Services`, `DetectionPath`, `ConfigAndFleet` and `StoreClients` put components that
share no state side by side: a variable (`active`, `station`, `client`) picks one at the start
and the others keep their initial state, so that the numbers of states add up instead of
multiplying. `MCServices` and `MCFleetAndStores` join two of these each, with `half`, and give
the constants; fairness of a component is stated there, as it depends on what runs. A component
that a host instantiates is proved in the host's proof module: its invariant is inductive
for `Component!Next`, and the other components' steps leave its variables alone.

## Runs

| Run | Instance | What it shows |
|---|---|---|
| `ring` | capacity 4, two items, fair | the two threads never touch one slot; the ring implements the FIFO although loads may be stale; what is published is popped |
| `wal` | 3 events, 2 crashes, torn appends, compaction whenever the file has grown | an event whose append met neither torn bytes nor a compaction stays replayable until acknowledged; for such events log, checkpoint and outbox implement `DurableOutbox`; appends ascend |
| `wal_compact_race` | the same without torn appends | **violation**, see Findings |
| `delivery` | 2 events, 3 streams, 2 crashes, 2 rejections, fair | `AtLeastOnce` is implemented: the agent forgets only events that some handler had; where nothing is rejected, first copies are in order, every event is acknowledged but perhaps the last, emitted as the time ran out, and the agent exits |
| `delivery_swallowed` | 2 events, 1 stream, 1 rejection | **violation**, see Findings |
| `delivery_republished` | 1 event, 2 streams | **violation**, see Findings |
| `edge` | 5 frames, rings of 2 and 1, two settings, 1 rebuild, fair | frames are processed, counted as dropped, or in flight; one event per episode as defined over the whole history of verdicts; "finished" leaves nothing behind; both joins return |
| `hot_state_shared` | 2 threads in `Update` and `Get` | **violation**, see Findings |
| `hot_state_rebuilt` | 1 thread in `Update`, 1 outage, fair | **violation**, see Findings |
| `fleet_and_stores` | Config: 2 versions, 1 restart, 1 reconnect, 2 messages each way. Fleet: 2 devices, 3 streams, 1 fault. Kafka: 2 callers, 3 calls. Demo: 3 invocations. Fair | see below |
| `services` | 2 shadow writers with 4 upserts; 2 handlers of a tenant; 4 OTA commands; 10 time units of the producer; 6 messages of a stream; 2 frames of the detector | see below |
| `demo_recent` | 2 events, a list of 1 | **violation**, see Findings |

`services` shows, per component:

- *Shadow*: each write replaces the version its writer read, a report is stored at most
  once, and what the caller is told is true.
- *Policies*: a tenant's grants obey the documented limit in every stretch of time and
  its bucket holds exactly what the limit leaves; weather suppresses no alert.
- *OTA*: the bytes of a manifest called OK were signed by the private half of the key it is
  checked against, and no single field was altered since.
- *Synthetic producer*: never faster than the rate and no drift; a configuration takes
  effect within a slice unless emits have fallen behind.
- *Session*: `gap_events` is exactly the numbers passed over without being published, over all
  hellos of the stream; rate limiting is never reported as loss; an ack names a published
  event.
- *Detector*: the tensor holds this frame and padding and nothing of earlier frames, sampled
  within bounds; no two kept boxes overlap, each dropped one overlaps a better kept one, and
  the best wanted one is reported.

`fleet_and_stores` shows, per component:

- *Config*: a reported version is true of the settings, nothing is applied twice, a usable
  line ends up in effect.
- *Fleet*: no more is reported lost than the same summaries count as refused by Kafka, the
  totals add up, the simulation ends.
- *Kafka*: true means stored, a wrapper lives exactly until its report has run (or, after a
  flush that timed out, for good), every call returns.
- *Demo*: while the table fits the limit, every recorded event that has reached every copy of
  it is listed, once, newest first up to the rounding.

### Bounds, and why they are enough

- *Ring.* Capacity 4 is the smallest power of two at which a stale index, a wrapped
  index and a partly full ring differ. Two items tell order and duplication apart. The
  proof covers every capacity.
- *Log.* Three events and two crashes allow a torn record, a restart that appends
  behind it, and a second restart that replays; `CompactSlack = 0` lets a compaction
  start wherever the real 1 MB threshold might put it. The proof covers all bounds.
- *Session.* Six messages with numbers up to four allow a resync, a skipped number, a
  rejection between two accepted detections, its resend and a second hello on one stream.
- *Delivery.* Three streams allow an old handler, a broken successor and a working
  third; the last stream does not break, as liveness needs an end to the failures. Two
  events are enough for one to be lost, refused, resent or overtaken beside the other; the
  safety properties are proved for any number.
- *Kafka.* Two callers and three messages let a thread give up, start a second call, and
  meet the late report of its first through the other thread's poll.
- *Edge.* The rings are small so that both overflow. With five frames the windows
  1-of-1 and 2-of-3 fill, evict, and confirm twice.
- *Shadow.* Three attempts is the code's own constant.
- *Policies.* Time is in whole ticks, so a refill is a whole number of tokens: rounding
  of the code's floating-point count is not covered.
- *Fleet.* One device has three detections over two streams, so that one can be lost or
  refused between two others and the numbering goes on; the other only connects, and the end
  waits for it.
- *Detector.* The input is 4 by 4. Frames are wider, taller and smaller than it. The second
  output has three rows, each any of four that tie, overlap, and miss the threshold.
- *Demo.* Three invocations: two that record and one that lists, at three instants, two of
  which fall in one quantum; the limit is 2.
- *OTA.* Four commands: a key, a manifest and a second of either before or while a
  `verify` runs, and a crash, short write or edit in between. One of the two texts holds the
  separator of two fields.
- *Synthetic producer.* Periods of one and four slices; a sleep overruns by one unit, an emit
  takes up to two, which is longer than the short period.

Deadlock checking is off where a component may legitimately stop (the agent exits, a
stream ends, the bound on calls is used up); `ring` checks it.

### Fairness

Fairness is weak and per thread, and stands for the operating system scheduling a
runnable thread: the ring's consumer, the agent's main and reader threads, each
handler, the pipeline's and the simulator's threads. Nothing obliges a producer to emit,
the network to fail, a gateway to refuse or an operator to edit. Beyond threads:

- `Delivery` assumes that the time is up some day and that an `emit()` under way returns.
- `Delivery` and `ConfigReconciliation` assume that a crashed agent is started again;
  that is the supervisor's part, and `scripts/chaos_test.sh` plays it.
- `ConfigReconciliation` needs strong fairness of `HandleHeartbeat`: the desired file
  may be unreadable at some heartbeats, not at every one from some time on.
- `KafkaProducer` assumes only that a caller's loop goes on and that its deadline
  passes. Delivery reports may never come.
- `HotState`, in `hot_state_rebuilt`: Redis is up at the start and comes back from an outage,
  heartbeats keep coming, and a command ends because `redisSetTimeout` bounds it.
- `FleetSimulator` assumes that a device's deadline comes.

## Theorems

Every safety invariant and action property of the passing runs is proved. Bounds are
arbitrary. Assumptions are the named `ASSUME`s of the modules:

- `DeliveryAssumption`, `KafkaAssumption`, `ProducerAssumption` and the like: bounds are
  natural numbers, a ring holds at least one item, there is a stream and an attempt, a
  period is not 0.
- `EdgeAssumption`: `1 <= k <= n`, without which `KOfNConfirmer` aborts.
- `PolicyAssumption`: capacity, thresholds, readings and confidences are whole numbers, the
  refill rate is not negative.
- `DetectorAssumption`, `DemoAssumption`: the network's input has a pixel, the sides of frames
  are natural numbers (0 for a frame that is refused), a stride is not 0, thresholds are
  natural numbers, timestamps have a spacing.
- `OutputAssumption`: an output that is not refused has a row for each grid cell (the shape
  check of `DetectAll`), and in a row objectness and class scores are between 0 and 1
  (`onnx_cpu_detector.h:52`, "both already sigmoid-ed in the model") and there is a class.
- `ManifestAssumption`: versions are integers and texts are sequences of pieces.
- The theorems about the fleet assume in their statement that `Devices` is finite.

| Theorem | Statement |
|---|---|
| `RingInvariance`, `RaceFreedom`, `ImplementsFifo` | the ring's invariant, slot ownership, and the refinement of `BoundedFifo` |
| `CleanAppendsAreDurable`, `AppendOrder`, `WalIsDurableOutbox` | the properties of `wal`, the last the refinement of `DurableOutbox` |
| `OutboxHoldsUnacked` | a clean append is in the outbox of the running agent until acknowledged |
| `CleanSeqsAreUnique` | a clean append has its number to itself in the log |
| `AcksArePublished` | `AckIsPublished` of the session |
| `GapsAreUnpublished`, `RejectedIsNotLost` | `GapIsUnpublished` and `LostIsNotRejected` |
| `DeliveryIsAtLeastOnce`, `OutboxIsDurable` | the refinements of `AtLeastOnce` and, by the same steps, of `DurableOutbox` |
| `AckSoundness`, `ResendsAreNew` | `AckedIsHandled`; and that whatever the agent sends is above the handler's `last_seq`, so that the duplicate test never fires for it |
| `RecordsFirstSeenInOrder` | `FirstSeenInOrder`: per-device order in Kafka while nothing is refused |
| `AckIsStoredWithoutRejects` | with `MaxRejects = 0`, an acknowledged event is in Kafka |
| `TrueIsStored`, `WrappersAreLive` | `TrueMeansStored` and `WrapperIsLive` of the Kafka producer |
| `NoFrameIsLost`, `EpisodesAreReportedOnce`, `FinishedLeavesNothing` | `FramesAccounted`, `OneEventPerEpisode` and `FinishedIsComplete` of the pipeline |
| `ReportedVersionIsTrue`, `UpdatesAreNewer` | `VersionMeansSetting` and `NoReapply` |
| `NoDetectionIsCalledLost`, `FinalCountsAddUp` | `NoFalseLoss` and `SummaryAddsUp` of the fleet |
| `ShadowWritesFormAChain`, `ReportsStoredOnce`, `CallersAreToldTheTruth` | `WritesFormAChain`, `StoredAtMostOnce` and `ReturnIsTrue` |
| `RateLimitIsExact`, `WeatherNeverSuppresses` | `LimitIsExact` and `AlertsReported` |
| `OnlySignedIsVerified` | `VerifiedIsSigned` |
| `ProducerKeepsTheRate`, `ProducerTakesConfigsPromptly` | `RateIsKept` and `ConfigIsPrompt` |
| `TensorHoldsThisFrame`, `KeptBoxesAreSound` | `TensorIsThisFrame` and `SuppressionIsSound` of the detector |
| `RecordedEventsAreListed` | `FeedIsComplete` of the demo |

**Ring.** `SlotOwnership` is not inductive since each side decides on an old index.
`RingInv` orders the four indices around the ring, from the producer's view of `head_`:
`head_`, the consumer's view of `tail_`, `tail_`. A push in progress leaves a slot free in
the *old* view, hence in the present one. Lemmas on `Dist` (step, wrap, rebasing) carry
the modular arithmetic. For the refinement, only `PushPublish` and `PopRelease` change
`Published`; the others stutter.

**Log.** `WalInv` adds that a dead process has idle threads, that `last_acked_seq_` is at
most the checkpoint, that nothing is numbered `nextSeq` or more but the record being
written, and that a compaction still holds each clean record the log needs. The last
is why a compaction with an old `last_acked_seq_` is harmless: it keeps more. For the
refinement, writing and compacting stutter; an append is promised when it returns
(`ReturnPromises`), an ack has its two steps, and what a restart replays is what is promised
and not covered by the checkpoint (`RestartReplays`), because clean records survive in `good`.

**Session.** `AckIsPublished` needs that `last_seq`, once above the start of its segment, was
published, and that an ack is at most `last_seq`. The two properties of the counters
(`GapsInv`) need that what is published is at most `last_seq`, so that each number between it
and the next accepted one is a new gap, however the client orders its numbers; and that the
rejected numbers of this segment and the gaps of the earlier ones are skipped numbers or were
counted by a rejection. A hello moves the gaps of its segment into that sum (`HelloStep`).

**Delivery.** An acknowledgement is sound because every stream carries consecutive events
starting behind handled ones, `last_seq` and the acks in flight cover handled events
only, and `last_sent_seq` continues where the detections in flight end. `DeliveryInv` says
this of every stream, old ones included. Order in Kafka follows: while nothing is refused,
"handled" is "stored", so a record is only ever appended when all events before its own
are in the log (`GapFree`), whichever handler appends it. `AtLeastOnce` is refined under
`DeliveryInv`: the step in which the agent forgets is `ReadAck`, and the invariant after it
says that what it forgets was handled (`AckForgets`).

**Kafka.** `KafkaInv` adds that a waiting caller has a message of its own, that
numbers not handed out are untouched, and that what a callback calls a success, or is
about to, is stored.

**Edge pipeline.** Three invariants. `FlowInv`: the frames processed and those in the ring
are one increasing sequence, of which the frame being processed is counted once
although it stays in its slot. `EventsInv`: the window is the last n verdicts of the
history and its count is theirs, `was_confirmed` is "k of the last n" of the whole history,
and emitted and queued events are its rises; a new rise is a new frame because the ring
is increasing. `FinishInv`: before `stop_requested_` is set the inference thread leaves only
after the capture thread's last push and with an empty ring.

**Configuration.** `ConfigInv`: each line under way or pending was once the desired one, one
version has one line, and the applied version is at most the pending one's.

**Fleet.** `FleetInv`: a stream carries consecutive numbers, and the gaps of a handler are at
most what it counted as rate-limited or refused by Kafka, so that a stream's `lost=` is at most
its Kafka refusals. For the totals, sent is acked, under way or lost to a fault; the
sum over devices of what is under way is the size of a set of pairs (`Units`), as sums by
recursion would need induction.

**Shadow.** `WritesFormAChain` is inductive once the writers' local state is typed: the
conditional write compares with the stored version at the moment it is carried out, so
neither a failed read nor a late request can break the chain. `OutcomeInv` adds that a
call in progress has nothing stored and no request left behind: only a conflict, which
stored nothing, makes it go on.

**Policies.** `LimiterInv`: a bucket holds the least of what the capacity and each stretch of
time that ends at its last refill leave, and one of them exactly. Taking a token lowers
all of them by one; a refill raises all but the capacity's. `AlertInv` types the readings; the
rest is the case distinction of `Severity`.

**OTA.** `OtaInv`: the bytes that a signature on disk, about to be written or parsed names were
signed with the key it names, whatever the fields beside it have become, and key files are
whole keys or do not parse. Two manifests of the same bytes cannot differ in one field alone,
because concatenation with the rest fixed can be cancelled.

**Synthetic producer.** `ProducerInv`: `next_due` is a whole number of periods after the last
change of rate, and a pending configuration arrived in this slice or in the emit before.

**Detector, input.** Nothing has to be known of earlier frames: `Preprocess` fills the tensor anew and
reads only those table entries that it has just rebuilt. What is left is arithmetic
(`SampleInside`, `SamplesAdvance`): for a position inside the resized axis the quotient is
inside the frame's, also when a whole one comes out just below itself, so the clamp of the lower
index never acts, the weight is the remainder or 1, and quotients keep the order of positions.

**Detector, output.** `AnswerInv` adds to `SuppressionIsSound` that a frame past `Preprocess` has a
size and an output; the rest is about one run of `DetectAll`. Its loops are recursions over
data. They are reached without the library's induction theorems, from the least element of
a set of natural numbers (`LeastOf`): were the scan undefined, or the grid ill-typed, for
some length, it would be so for a least one. `GreedyScan` and `GreedyScanUnique` show that
"stays unless it overlaps one before it that stayed" determines one set, so that `Nms` is
the code's loop; `LevelsByStride` unfolds the grid. Then: clamping keeps corners in order and inside
the frame, a class score of at most 1 makes the early exit on objectness harmless
(`DecodeInside`, `ScoreNeedsObjectness`), IoU is symmetric (`OverlapsBothWays`), and sorting loses
no row (`SortedIsListed`), so a suppressed box overlaps one that comes before it and hence
scores no less.

**Demo.** `DemoInv`: an item of the table is what an invocation that is done wrote under its
instant, and a recorded event is there unless another invocation of that instant replaced
it; an item of the copy is one the table had. An invocation that is done does not change, so a
list stays right. When it is made, a scan of a table within the limit returns as many items as there are keys, hence
all, and an item that has reached the copy is the same wherever the scan finds it; an arrangement of a finite set without repetition has each element once
(`FS_Injection`); and `ParseN` is at most half a quantum off.

Type correctness is proved by name for the ring, the log, delivery and the shadow
(`TypeCorrect`, `WalTypeCorrect`, `DeliveryTypeCorrect`, `ShadowTypeCorrect`), and as a part of the invariants elsewhere. `RingInv`, `CleanSeqsUnique`,
`UnackedInOutbox`, `AckedIsHandled`, `OutboxAsPromised`, `ResendsLookNew` and the `TypeOK`s are in
no `.cfg`, since the theorems hold them for every instance.

Model-checked only: all liveness (`HeadIsPopped`, `EventuallyAcked`, `EventuallyExits`,
`AlwaysReturns`, `ProducerEnds`, `Converges`, `FleetEnds`). Fairness and
`ENABLED` are outside the prover.

## Findings

1. **Compaction races with appends** (`wal_compact_race`, `PromisesKept`). The main thread
   calls `Compact` (`agent/src/main.cc:519`) while the producer thread appends. A record
   written between `Compact`'s read of the file and its rename is not in the new file,
   and a crash loses it, although `Append` had returned. `wal.h:91` calls `Compact`
   "Safe to call at any time"; `wal.h:44` asks for one owning thread; `agent/src/main.cc:18`
   promises that a kill "loses nothing that was successfully WAL-appended".
2. **A cumulative ack swallows a rejected event** (`delivery_swallowed`, `AckMeansStored`).
   After a rate-limit or Kafka rejection the handler leaves `last_seq` alone, but the next
   accepted event moves it past the rejected one and is acknowledged cumulatively. The
   agent then drops an event that is not in Kafka. ADR-0007 line 16 says that the agent's
   resend retries it; `gateway/src/main.cc:3` that "an ack means durably stored".
3. **Two mutexes for one connection** (`hot_state_shared`, `OneCommandAtATime`). `Update` and
   `Get` each lock a static mutex of their own body (`redis_hot_state_store.cc:64`, `:80`), and
   `Reconnect` none, so that two threads may be in a command of the one connection.
   `redis_hot_state_store.h:33` says that the store "serializes access with an internal
   mutex". The gateway itself calls only `Update`.
4. **Redeliveries are published again** (`delivery_republished`, `NotRepublished`). The duplicate
   test (`gateway/src/main.cc:285`) compares with a `last_seq` that the hello has set to the
   agent's checkpoint. An event that was published on a stream that broke before its ack was
   read is resent, is above that `last_seq`, and is in Kafka twice. ADR-0007 line 28 says
   "Replayed (duplicate) events are not republished to Kafka", ADR-0006 line 16 that the
   gateway "deduplicates redeliveries by sequence number". `ResendsAreNew` proves that the test
   never fires for this agent.
5. **Nobody reconnects to Redis** (`hot_state_rebuilt`, `RebuiltByHeartbeat`). After a restart of
   Redis the gateway's connection fails every command, the handler ignores that, and
   `Reconnect` (`redis_hot_state_store.cc:108`) has no caller. `redis_hot_state_store.h:18-20`
   says that nothing is lost "because it's rebuilt from the next heartbeat".
6. **The feed may miss the newest event** (`demo_recent`, `ListsMostRecent`). `ListRecent` passes
   its limit to the scan (`dynamo_demo_writer.cc:83`) and sorts what comes back. With more
   items than the limit, the scan's first items are not the newest.
   `dynamo_demo_writer.h:78` says "Returns the most recent events".

Reading and modelling also met these; they have no run of their own:

- After a torn record every later append to the same file is hidden from replay, and the
  next compaction drops it for good (`wal.cc:146-149`); `exposed` excludes such events from
  the `wal` properties, although `agent/src/main.cc:18` promises their survival too.
- `lost=` subtracts only `rate_limited`, so a Kafka failure followed by an accepted event is
  counted as lost, and rejections after the last accepted event can hide a real gap; the
  comment at `gateway/src/main.cc:388-392` says "no other cause exists".
- A rejected event with no successor is not resent while its stream stays up
  (`gateway/src/main.cc:291` and ADR-0013 line 36 expect a resend). `EventuallyAcked` and
  `EventuallyExits` therefore speak of behaviours as long as nothing is rejected.
- A publish that times out may be stored all the same, and is stored again when the event is
  resent; `Reject` of `Delivery` has it.
- The time may be up while the producer is inside `emit()`: main may leave with that event in
  the log only, and exit code 1 (`agent/src/main.cc:542`); hence `LeftBehind` in
  `EventuallyAcked`.
- The comment at `ota_manifest.cc:14-17` says that the canonical bytes of different manifests
  "can never collide". Fields joined without escaping do not give that for every text, so
  `VerifiedIsSigned` speaks of the bytes, and of a single altered field.
- A `confidence` that is no number in the body of a demo request raises a `type_error` that the
  handler does not catch (`demo/lambda/src/handler.cc:89-91`).
- With a rejection, first copies may be out of order in Kafka.
- A shadow retry after a conflict writes its own, possibly older, report over the newer.
- A configuration line that leaves a field at 0 makes the settings depend on history, and
  may combine with an older line to k > n, which aborts the agent after every restart.
- A rebuild of the pipeline discards confirmed events that were not popped yet.
- The weather cache keeps its last reading however old; `gateway/src/main.cc:81-82` calls this a
  "deliberate simplification".
- A synthetic producer behind its schedule does not reach the code that applies a
  configuration (`agent/src/main.cc:344`); hence `behind` in `ConfigIsPrompt`.
- Two invocations of the demo in the same instant share an id, and one event replaces the
  other; `FeedIsComplete` excepts them.

## Not modelled

- *SigV4, CRC-32 and record bytes, JSON*: conversions of bytes without state. Records are
  modelled by what decoding yields, requests by whether they succeed and are applied.
- *HTTP transports*: one call of libcurl each; their failures are the failed requests of
  `DeviceShadow`, `DemoFeed` and `DetectionPolicies`.
- *Frame decoding and the network's arithmetic*: data. The verdict on a frame is free in
  `EdgePipeline`, the network's rows are free in `OnnxDetector`.
- *Backoff arithmetic*: the delay is the choice of when a connection is made, and every
  property holds for every delay.
- *TLS identity*: one cause among the handler's refusals; the handshake is gRPC's.
- *Ed25519*: ideal, a signature verifies for the bytes and the key that made it.
- *Deployment, benchmarks, command-line tools other than `ota_tool` and the fleet
  simulator*: no state to speak of.
- *Power failures*: `wal.h` excludes them from its promise. A crash here is the death of
  the process, as in `kill -9`; what `write` has taken survives it.
- *Composition beyond `Delivery`*: `AgentWal` and `Delivery` are joined by `DurableOutbox`, which
  the first implements and the second conforms to. The join is not complete:
  `Delivery` numbers events without holes, while a crash in an append may leave one, and
  takes every append for a clean one. That `GatewaySession` is what `Delivery` assumes of a
  handler is by construction of the actions and not shown as a refinement.
