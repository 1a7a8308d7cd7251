-------------------------------- MODULE Delivery --------------------------------
(***************************************************************************)
(* Delivery of one device's events, end to end: the agent's producer, send *)
(* loop and ack reader (agent/src/main.cc), the gRPC streams it opens one  *)
(* after the other, the gateway's Connect handler of each of them          *)
(* (gateway/src/main.cc) and the Kafka log.                                *)
(*                                                                         *)
(* Event n is the event with sequence number n.  The log and the outbox    *)
(* behave as AgentWal shows for clean appends: events 1 .. produced have   *)
(* been appended, ckpt is the last acknowledged one, and the outbox is     *)
(* what lies between, after a restart too.                                 *)
(*                                                                         *)
(* A stream delivers in order until it breaks; then a suffix of what is in *)
(* flight is lost in each direction.  The handler of a broken stream may   *)
(* still work through what had arrived, beside its successor.  A gateway   *)
(* crash is a break of its streams whose handlers end at once: the gateway *)
(* keeps no state between streams.                                         *)
(***************************************************************************)
EXTENDS Integers, Sequences

CONSTANTS MaxSeq,      \* bound: events
          MaxStreams,  \* bound: streams; the last one does not break, and is not
                       \* closed while an emit() is under way
          MaxCrashes,  \* bound: agent crashes
          MaxRejects   \* bound: rate limiter and Kafka refusals

ASSUME DeliveryAssumption ==
  /\ MaxSeq \in Nat /\ MaxStreams \in Nat \ {0}
  /\ MaxCrashes \in Nat /\ MaxRejects \in Nat

VARIABLES
  produced,  \* next_seq - 1
  ckpt,      \* Wal::LastAcked, on disk
  producer,  \* "running", "late" (inside emit() when the time is up), "done"
  pc,        \* main thread: "connecting", "streaming", "closing", "leaving" (the loop
             \* has ended, the producer is joined), "exited", "down"
  cur,       \* the stream it uses, 0 before the first
  lastSent,  \* last_sent_seq
  link,      \* link[i]: "none", "up", "draining" (WritesDone), "broken", "ended"
  toGw,      \* toGw[i]: detections in flight to the gateway
  toAg,      \* toAg[i]: acks in flight to the agent
  lastSeq,   \* lastSeq[i]: last_seq of the handler of stream i
  log,       \* the device's records in Kafka, in order
  rejected,  \* events that some handler refused
  rejects, crashes

agent == <<produced, ckpt, producer, pc, cur, lastSent>>
stream == <<link, toGw, toAg>>
vars == <<agent, stream, lastSeq, log, rejected, rejects, crashes>>

Streams == 1 .. MaxStreams
Outbox == ckpt + 1 .. produced

\* time_up() || producer_finished()
Finished == producer # "running"

\* What is left of a channel that has lost a suffix.
Prefixes(q) == {SubSeq(q, 1, k) : k \in 0 .. Len(q)}

Init ==
  /\ produced = 0 /\ ckpt = 0 /\ producer = "running" /\ pc = "connecting" /\ cur = 0 /\ lastSent = 0
  /\ link = [i \in Streams |-> "none"]
  /\ toGw = [i \in Streams |-> <<>>] /\ toAg = [i \in Streams |-> <<>>]
  /\ lastSeq = [i \in Streams |-> 0]
  /\ log = <<>> /\ rejected = {} /\ rejects = 0 /\ crashes = 0

--------------------------------------------------------------------------------
\* The agent.

\* Producer thread: emit().  It looks at the time, and at g_stop, between two events.
Emit ==
  /\ pc \notin {"down", "exited"} /\ producer # "done" /\ produced < MaxSeq
  /\ produced' = produced + 1
  /\ producer' = IF producer = "late" THEN "done" ELSE producer
  /\ UNCHANGED <<ckpt, pc, cur, lastSent, stream, lastSeq, log, rejected, rejects,
                 crashes>>

\* The time is up, with the producer inside emit() or not, or the video is over.
TimeUp ==
  /\ pc \notin {"down", "exited"} /\ producer = "running"
  /\ \/ producer' = "late" /\ produced < MaxSeq
     \/ producer' = "done"
  /\ UNCHANGED <<produced, ckpt, pc, cur, lastSent, stream, lastSeq, log, rejected,
                 rejects, crashes>>

\* Mutant: last_sent_seq outlives the connection.
StickyConnect ==
  /\ pc = "connecting" /\ cur < MaxStreams
  /\ ~(Finished /\ Outbox = {})
  /\ cur' = cur + 1 /\ pc' = "streaming"
  /\ link' = [link EXCEPT ![cur'] = "up"]
  /\ lastSeq' = [lastSeq EXCEPT ![cur'] = ckpt]
  /\ UNCHANGED <<produced, ckpt, producer, lastSent, toGw, toAg, log, rejected, rejects,
                 crashes>>

\* Main thread: a new stream, opened by the Hello that seeds the handler's last_seq.
Connect ==
  /\ pc = "connecting" /\ cur < MaxStreams
  /\ ~(Finished /\ Outbox = {})
  /\ cur' = cur + 1 /\ lastSent' = 0 /\ pc' = "streaming"
  /\ link' = [link EXCEPT ![cur'] = "up"]
  /\ lastSeq' = [lastSeq EXCEPT ![cur'] = ckpt]
  /\ UNCHANGED <<produced, ckpt, producer, toGw, toAg, log, rejected, rejects, crashes>>

\* Main thread: the next event of the outbox that was not yet sent on this stream.
Send ==
  /\ pc = "streaming" /\ link[cur] = "up"
  /\ \E n \in Outbox :
       /\ n > lastSent
       /\ \A m \in Outbox : m > lastSent => n <= m
       /\ toGw' = [toGw EXCEPT ![cur] = Append(@, n)]
       /\ lastSent' = n
  /\ UNCHANGED <<produced, ckpt, producer, pc, cur, link, toAg, lastSeq, log, rejected,
                 rejects, crashes>>

\* A Write fails, of an event or of the heartbeat: TryCancel, which drops what the
\* reader has not read yet.
NoticeBreak ==
  /\ pc = "streaming" /\ link[cur] \in {"broken", "ended"}
  /\ pc' = "closing"
  /\ \E q \in Prefixes(toAg[cur]) : toAg' = [toAg EXCEPT ![cur] = q]
  /\ UNCHANGED <<produced, ckpt, producer, cur, lastSent, link, toGw, lastSeq, log,
                 rejected, rejects, crashes>>

\* The exit condition of the send loop: WritesDone.
Finish ==
  /\ pc = "streaming" /\ link[cur] = "up" /\ Finished /\ Outbox = {}
  /\ cur < MaxStreams \/ producer = "done"
  /\ pc' = "closing"
  /\ link' = [link EXCEPT ![cur] = "draining"]
  /\ UNCHANGED <<produced, ckpt, producer, cur, lastSent, toGw, toAg, lastSeq, log,
                 rejected, rejects, crashes>>

\* Reader thread: outbox.AckUpTo and wal.Acknowledge.
ReadAck ==
  /\ pc \in {"streaming", "closing"} /\ toAg[cur] # <<>>
  /\ ckpt' = IF Head(toAg[cur]) > ckpt THEN Head(toAg[cur]) ELSE ckpt
  /\ toAg' = [toAg EXCEPT ![cur] = Tail(@)]
  /\ UNCHANGED <<produced, producer, pc, cur, lastSent, link, toGw, lastSeq, log,
                 rejected, rejects, crashes>>

\* reader.join and Finish have returned; the main loop goes round.
Rejoin ==
  /\ pc = "closing" /\ link[cur] \in {"broken", "ended"} /\ toAg[cur] = <<>>
  /\ pc' = "connecting"
  /\ UNCHANGED <<produced, ckpt, producer, cur, lastSent, stream, lastSeq, log, rejected,
                 rejects, crashes>>

\* The exit condition of the main loop.
Stop ==
  /\ pc = "connecting" /\ Finished /\ Outbox = {}
  /\ pc' = "leaving"
  /\ UNCHANGED <<produced, ckpt, producer, cur, lastSent, stream, lastSeq, log, rejected,
                 rejects, crashes>>

\* producer.join has returned; main ends, with exit code 1 if the outbox is not empty.
Exit ==
  /\ pc = "leaving" /\ producer = "done"
  /\ pc' = "exited"
  /\ UNCHANGED <<produced, ckpt, producer, cur, lastSent, stream, lastSeq, log, rejected,
                 rejects, crashes>>

\* kill -9, or SIGTERM with events outstanding.
Crash ==
  /\ pc \notin {"down", "exited"} /\ crashes < MaxCrashes /\ cur \in 1 .. MaxStreams - 1
  /\ pc' = "down" /\ crashes' = crashes + 1 /\ lastSent' = 0
  /\ link' = [link EXCEPT ![cur] = IF @ = "ended" THEN @ ELSE "broken"]
  /\ \E q \in Prefixes(toGw[cur]) : toGw' = [toGw EXCEPT ![cur] = q]
  /\ toAg' = [toAg EXCEPT ![cur] = <<>>]
  /\ UNCHANGED <<produced, ckpt, producer, cur, lastSeq, log, rejected, rejects>>

\* The agent is started again and replays its log.
Restart ==
  /\ pc = "down"
  /\ pc' = "connecting" /\ producer' = "running"
  /\ UNCHANGED <<produced, ckpt, cur, lastSent, stream, lastSeq, log, rejected,
                 rejects, crashes>>

--------------------------------------------------------------------------------
\* The network and the gateway.

\* The connection of stream i is lost.
Break(i) ==
  /\ link[i] \in {"up", "draining"} /\ i < MaxStreams
  /\ link' = [link EXCEPT ![i] = "broken"]
  /\ \E q \in Prefixes(toGw[i]) : toGw' = [toGw EXCEPT ![i] = q]
  /\ \E q \in Prefixes(toAg[i]) : toAg' = [toAg EXCEPT ![i] = q]
  /\ UNCHANGED <<agent, lastSeq, log, rejected, rejects, crashes>>

\* Mutant: the handler takes the latest detection first.
LatestReceive(i, n) ==
  /\ toGw[i] # <<>> /\ n = toGw[i][Len(toGw[i])]
  /\ toGw' = [toGw EXCEPT ![i] = SubSeq(@, 1, Len(@) - 1)]

\* The handler of stream i takes the next detection.
Receive(i, n) ==
  /\ toGw[i] # <<>> /\ n = Head(toGw[i])
  /\ toGw' = [toGw EXCEPT ![i] = Tail(@)]

\* It writes the ack for its last_seq; on a broken stream nobody gets it.
WriteAck(i, n) ==
  toAg' = IF link[i] = "broken" THEN toAg ELSE [toAg EXCEPT ![i] = Append(@, n)]

\* Mutant: the ack does not wait for Kafka, whose refusal only skips the publish.
AckBeforePublishReject(i) ==
  /\ rejects < MaxRejects
  /\ \E n \in 1 .. MaxSeq :
       /\ Receive(i, n) /\ n > lastSeq[i]
       /\ lastSeq' = [lastSeq EXCEPT ![i] = n]
       /\ WriteAck(i, n)
  /\ rejects' = rejects + 1
  /\ UNCHANGED <<agent, link, log, rejected, crashes>>

\* The rate limiter refuses detection n, or PublishSync returns false: no ack.  A
\* publish that timed out may have reached the log all the same.
Reject(i) ==
  /\ rejects < MaxRejects
  /\ \E n \in 1 .. MaxSeq :
       /\ Receive(i, n) /\ n > lastSeq[i]
       /\ rejected' = rejected \cup {n}
       /\ log' \in {log, Append(log, n)}
  /\ rejects' = rejects + 1
  /\ UNCHANGED <<agent, link, toAg, lastSeq, crashes>>

\* Mutant: last_seq is not advanced, so the ack names the previous event.
LaggingHandle(i) ==
  \E n \in 1 .. MaxSeq :
    /\ Receive(i, n)
    /\ log' = IF n <= lastSeq[i] THEN log ELSE Append(log, n)
    /\ WriteAck(i, lastSeq[i])
    /\ UNCHANGED <<agent, link, lastSeq, rejected, rejects, crashes>>

\* A replayed detection is acknowledged again; a new one is published and becomes
\* last_seq; the cumulative ack is for last_seq.
Handle(i) ==
  \E n \in 1 .. MaxSeq :
    /\ Receive(i, n)
    /\ log' = IF n <= lastSeq[i] THEN log ELSE Append(log, n)
    /\ lastSeq' = [lastSeq EXCEPT ![i] = IF n <= @ THEN @ ELSE n]
    /\ WriteAck(i, lastSeq'[i])
    /\ UNCHANGED <<agent, link, rejected, rejects, crashes>>

\* The handler returns: its client is done, or a Read or Write has failed.
EndHandler(i) ==
  /\ link[i] = "broken" \/ (link[i] = "draining" /\ toGw[i] = <<>>)
  /\ link' = [link EXCEPT ![i] = "ended"]
  /\ toGw' = [toGw EXCEPT ![i] = <<>>]
  /\ UNCHANGED <<agent, toAg, lastSeq, log, rejected, rejects, crashes>>

Next ==
  \/ Emit \/ TimeUp \/ Connect \/ Send \/ NoticeBreak \/ Finish \/ ReadAck \/ Rejoin
  \/ Stop \/ Exit \/ Crash \/ Restart
  \/ \E i \in Streams : Break(i) \/ Reject(i) \/ Handle(i) \/ EndHandler(i)

Spec == Init /\ [][Next]_vars

\* The agent's main thread, its reader and every handler keep running, the agent is
\* started again after a crash, its time is up some day (--duration-s, or the end of
\* the video) and an emit() that is under way returns.  Nothing obliges the producer to
\* begin another, the network to fail or the gateway to refuse.
FairSpec ==
  /\ Spec
  /\ WF_vars(Connect \/ Send \/ NoticeBreak \/ Finish \/ Rejoin \/ Stop \/ Exit \/ Restart)
  /\ WF_vars(TimeUp) /\ WF_vars(producer = "late" /\ Emit)
  /\ WF_vars(ReadAck)
  /\ \A i \in Streams : WF_vars(Handle(i) \/ EndHandler(i))

--------------------------------------------------------------------------------
Events == 1 .. MaxSeq
Stored == {log[k] : k \in DOMAIN log}

\* Every variable keeps its type.
TypeOK ==
  /\ produced \in 0 .. MaxSeq /\ ckpt \in 0 .. produced
  /\ producer \in {"running", "late", "done"}
  /\ pc \in {"connecting", "streaming", "closing", "leaving", "exited", "down"}
  /\ cur \in 0 .. MaxStreams /\ lastSent \in 0 .. MaxSeq
  /\ link \in [Streams -> {"none", "up", "draining", "broken", "ended"}]
  /\ toGw \in [Streams -> Seq(Events)] /\ toAg \in [Streams -> Seq(Events)]
  /\ lastSeq \in [Streams -> 0 .. MaxSeq]
  /\ log \in Seq(Events) /\ rejected \subseteq Events
  /\ rejects \in Nat /\ crashes \in Nat

\* The agent checkpoints an event only if a handler has published it to Kafka or
\* has refused it: no acknowledgement, however delayed, and no successor stream
\* makes the agent forget an event that is still in flight or was lost in flight.
AckedIsHandled == \A n \in 1 .. ckpt : n \in Stored \/ n \in rejected

\* The gateway takes every event the agent resends for a new one: what it is sent
\* on a stream is above that stream's last_seq.  (Its duplicate test compares with
\* what the agent knows to be acknowledged, which the agent does not resend.)
ResendsLookNew ==
  \A i \in Streams : \A k \in DOMAIN toGw[i] : toGw[i][k] > lastSeq[i]

EndToEnd == INSTANCE AtLeastOnce
              WITH emitted <- produced, stored <- Stored, refused <- rejected,
                   forgotten <- ckpt

\* Delivery is at least once.  With streams, resends, crashes and late handlers hidden,
\* only emitted events are stored or refused, no record is taken back, and the agent
\* gives up an event (checkpoints it) only when that event and every one before it has
\* been stored or refused; the checkpoint never goes back.
DeliversAtLeastOnce == EndToEnd!Spec

Durable == INSTANCE DurableOutbox
             WITH running <- pc # "down", promised <- 1 .. produced,
                  pending <- IF pc = "down" THEN {} ELSE Outbox,
                  acking <- 0, acked <- ckpt

\* What this module assumes of the log and the outbox is no more than AgentWal
\* implements: its steps are steps of the same durable outbox.
OutboxAsPromised == Durable!Spec

\* "An ack means durably stored" (gateway main.cc:3-7, ADR-0007): what the agent
\* has checkpointed, and will never send again, is in Kafka.
AckMeansStored == \A n \in 1 .. ckpt : n \in Stored

\* "device_id alone preserves per-device ordering" (ADR-0007): where nothing was
\* refused, an event that follows a later one in the log is the replay of a record
\* before both.
FirstSeenInOrder ==
  rejected = {} =>
    \A j, k \in DOMAIN log :
      j < k /\ log[k] < log[j] => \E h \in 1 .. j - 1 : log[h] = log[k]

\* ADR-0007:28, "Replayed (duplicate) events are not republished to Kafka", and
\* ADR-0006: no event is in the log twice.
NotRepublished == \A j, k \in DOMAIN log : log[j] = log[k] => j = k

\* The event that was inside emit() when the time was up, and entered the outbox after
\* main had found it empty: the agent ends (exit code 1) with it in the log on disk.
LeftBehind == pc = "exited" /\ Outbox = {produced}

\* At-least-once delivery (ADR-0006): emitted events are eventually acknowledged, all
\* of them once the producer pauses, through crashes and broken streams ("the agent's
\* WAL-backed resend will retry", gateway main.cc:291, 299), unless one is refused.
\* The agent may end with one event outstanding, the last one, and never with more.
EventuallyAcked ==
  (Outbox # {} /\ rejected = {}) ~> (Outbox = {} \/ rejected # {} \/ LeftBehind)

\* The agent comes to an end, whenever its time is up and however often it crashed and
\* its streams broke before, unless an event was refused.
EventuallyExits == <>(pc = "exited" \/ rejected # {})
================================================================================
