----------------------------- MODULE GatewaySession -----------------------------
(***************************************************************************)
(* One stream of the ingest gateway: IngestServiceImpl::Connect            *)
(* (gateway/src/main.cc), from the Hello to the summary it logs.  The      *)
(* handler is sequential; what varies is the client (the agent, the fleet  *)
(* simulator, the gap test), the rate limiter, Kafka, and writes that fail *)
(* because the peer has gone.                                              *)
(*                                                                         *)
(* A client may say hello again on the same stream, which moves last_seq   *)
(* but no counter, and may number its detections in any order: an agent    *)
(* resends what a rejection left unacknowledged.  The numbers between two  *)
(* Hellos are a segment; the history variables follow the current one and  *)
(* add up the earlier ones.                                                *)
(***************************************************************************)
EXTENDS Integers, FiniteSets

CONSTANTS MaxSeq,      \* bound: largest sequence number
          MaxMessages  \* bound: Hellos and detections on the stream

ASSUME SessionAssumption == MaxSeq \in Nat /\ MaxMessages \in Nat

VARIABLES
  status,      \* "open", or the status Connect has returned
  hello,       \* a Hello has been accepted: device_id is not empty
  resync,      \* awaiting_resync
  lastSeq,     \* last_seq
  received, duplicates, gapEvents, rateLimited, kafkaFailed,
  \* history
  messages,    \* Hellos and detections so far
  ack,         \* the last ack written in this segment, 0 before the first
  start,       \* where the numbering of this segment starts
  offered,     \* numbers that were new when they reached the handler
  published,   \* numbers it has accepted
  pastGaps,    \* earlier segments: numbers passed over without being published
  pastSkipped  \* of those, the ones that were never offered

counters == <<received, duplicates, gapEvents, rateLimited, kafkaFailed>>
sessionVars == <<status, hello, resync, lastSeq, counters, messages, ack, start, offered,
                 published, pastGaps, pastSkipped>>

Seqs == 1 .. MaxSeq

SessionInit ==
  /\ status = "open" /\ hello = FALSE /\ resync = FALSE /\ lastSeq = 0
  /\ received = 0 /\ duplicates = 0 /\ gapEvents = 0 /\ rateLimited = 0
  /\ kafkaFailed = 0 /\ messages = 0 /\ ack = 0
  /\ start = 0 /\ offered = {} /\ published = {} /\ pastGaps = 0 /\ pastSkipped = 0

\* Mutant: rate-limited detections are reported as lost.
RawLost == gapEvents

\* attributed_lost, the "lost=" of the summary.
Lost == IF gapEvents > rateLimited THEN gapEvents - rateLimited ELSE 0

\* Numbers of this segment that last_seq has passed: unpublished, and never offered.
Gaps == {m \in start + 1 .. lastSeq : m \notin published}
Skipped == {m \in start + 1 .. lastSeq : m \notin offered}

--------------------------------------------------------------------------------
\* Another Hello or detection arrives.
Read ==
  /\ status = "open" /\ messages < MaxMessages
  /\ messages' = messages + 1

\* Hello from a device that resumes after n; without durable state n means nothing.
Hello(n, durable) ==
  /\ Read
  /\ hello' = TRUE
  /\ lastSeq' = n /\ start' = n
  /\ resync' = ~durable
  /\ ack' = 0 /\ offered' = {} /\ published' = {}
  /\ pastGaps' = pastGaps + Cardinality(Gaps)
  /\ pastSkipped' = pastSkipped + Cardinality(Skipped)
  /\ UNCHANGED <<status, counters>>

\* Messages the handler answers by ending the stream: a Hello without device id
\* or an empty message, a Hello that its certificate contradicts, anything before
\* the Hello.
Refuse ==
  /\ status = "open"
  /\ \/ status' = "INVALID_ARGUMENT"
     \/ status' = "PERMISSION_DENIED"
     \/ ~hello /\ status' = "FAILED_PRECONDITION"
  /\ UNCHANGED <<hello, resync, lastSeq, counters, messages, ack, start, offered,
                 published, pastGaps, pastSkipped>>

\* The ack for last_seq is written, or the write fails and the stream ends.
WriteAck ==
  \/ ack' = lastSeq' /\ UNCHANGED status
  \/ status' = "UNAVAILABLE" /\ UNCHANGED ack

\* A detection reaches the handler with a number above last_seq.
Offer(n) ==
  /\ Read /\ hello /\ n > lastSeq
  /\ offered' = offered \cup {n}

\* Mutant: a rejected detection is acknowledged like any other.
AckedRejection(n) ==
  /\ Offer(n)
  /\ \/ rateLimited' = rateLimited + 1 /\ UNCHANGED kafkaFailed
     \/ kafkaFailed' = kafkaFailed + 1 /\ UNCHANGED rateLimited
  /\ lastSeq' = n
  /\ WriteAck
  /\ UNCHANGED <<hello, resync, received, duplicates, gapEvents, start, published,
                 pastGaps, pastSkipped>>

\* CheckRateLimit or PublishSync says no: counted, and no ack.
Reject(n) ==
  /\ Offer(n)
  /\ \/ rateLimited' = rateLimited + 1 /\ UNCHANGED kafkaFailed
     \/ kafkaFailed' = kafkaFailed + 1 /\ UNCHANGED rateLimited
  /\ UNCHANGED <<status, hello, resync, lastSeq, received, duplicates, gapEvents,
                 ack, start, published, pastGaps, pastSkipped>>

\* A replayed or late detection is only counted and acknowledged again.
Duplicate(n) ==
  /\ Read /\ hello /\ n <= lastSeq
  /\ duplicates' = duplicates + 1
  /\ UNCHANGED lastSeq
  /\ WriteAck
  /\ UNCHANGED <<hello, resync, received, gapEvents, rateLimited, kafkaFailed, start,
                 offered, published, pastGaps, pastSkipped>>

\* Mutant: the numbers skipped are counted one too many.
MiscountedAccept(n) ==
  /\ Offer(n)
  /\ gapEvents' = IF resync \/ n = lastSeq + 1 THEN gapEvents
                  ELSE gapEvents + (n - lastSeq)
  /\ start' = IF resync THEN n - 1 ELSE start
  /\ resync' = FALSE
  /\ lastSeq' = n /\ received' = received + 1
  /\ published' = published \cup {n}
  /\ WriteAck
  /\ UNCHANGED <<hello, duplicates, rateLimited, kafkaFailed, pastGaps, pastSkipped>>

\* A new detection, published; the numbers it skips are a gap, unless it is the
\* first of a device without durable state.
Accept(n) ==
  /\ Offer(n)
  /\ gapEvents' = IF resync THEN gapEvents ELSE gapEvents + (n - lastSeq - 1)
  /\ start' = IF resync THEN n - 1 ELSE start
  /\ resync' = FALSE
  /\ lastSeq' = n /\ received' = received + 1
  /\ published' = published \cup {n}
  /\ WriteAck
  /\ UNCHANGED <<hello, duplicates, rateLimited, kafkaFailed, pastGaps, pastSkipped>>

\* A heartbeat feeds Redis, the device shadow and the configuration; to the stream
\* it matters only if its ConfigUpdate cannot be written.
HeartbeatFails ==
  /\ status = "open" /\ hello
  /\ status' = "UNAVAILABLE"
  /\ UNCHANGED <<hello, resync, lastSeq, counters, messages, ack, start, offered,
                 published, pastGaps, pastSkipped>>

\* Read returns false: the client has finished, or the connection is gone.
StreamEnd ==
  /\ status = "open"
  /\ status' = "OK"
  /\ UNCHANGED <<hello, resync, lastSeq, counters, messages, ack, start, offered,
                 published, pastGaps, pastSkipped>>

SessionNext ==
  \/ \E n \in 0 .. MaxSeq, durable \in BOOLEAN : Hello(n, durable)
  \/ Refuse
  \/ \E n \in Seqs : Reject(n) \/ Duplicate(n) \/ Accept(n)
  \/ HeartbeatFails
  \/ StreamEnd

SessionSpec == SessionInit /\ [][SessionNext]_sessionVars

--------------------------------------------------------------------------------
\* Every variable keeps its type; no counter goes below zero.
SessionTypeOK ==
  /\ status \in {"open", "OK", "INVALID_ARGUMENT", "PERMISSION_DENIED",
                 "FAILED_PRECONDITION", "UNAVAILABLE"}
  /\ hello \in BOOLEAN /\ resync \in BOOLEAN
  /\ lastSeq \in Nat /\ ack \in Nat /\ start \in Nat /\ messages \in Nat
  /\ received \in Nat /\ duplicates \in Nat /\ gapEvents \in Nat
  /\ rateLimited \in Nat /\ kafkaFailed \in Nat
  /\ offered \subseteq Nat /\ published \subseteq Nat
  /\ pastGaps \in Nat /\ pastSkipped \in Nat

\* gap_events is exactly the numbers last_seq has passed without their being
\* published, added up over the Hellos of the stream: a Hello that moves last_seq,
\* forwards or back, and a resync (ADR-0010) neither add to it nor lose from it.
GapIsUnpublished == gapEvents = pastGaps + Cardinality(Gaps)

\* As long as Kafka accepts everything, the summary never reports as lost more
\* numbers than the client skipped: a rate-limited detection is not data loss,
\* whether it is resent, overtaken by a later one or followed by another Hello.
LostIsNotRejected == kafkaFailed = 0 => Lost <= pastSkipped + Cardinality(Skipped)

\* An ack names the number the last Hello said was acknowledged before, or a
\* detection published since: never one that was rejected.
AckIsPublished == ack > start => ack \in published
================================================================================
