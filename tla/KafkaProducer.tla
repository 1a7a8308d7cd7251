------------------------------ MODULE KafkaProducer ------------------------------
(***************************************************************************)
(* KafkaProducer::PublishSync and the delivery callback                    *)
(* (kafka/src/kafka_producer.cc), called by the gateway's handler threads. *)
(*                                                                         *)
(* librdkafka and the broker are external: an accepted message is          *)
(* eventually stored or expires, an expired one may have been stored (its  *)
(* response was lost), and its delivery report waits until some thread     *)
(* polls.  Any thread's poll runs the callbacks of all of them, so a       *)
(* report may come before its caller looks, or after the caller has given  *)
(* up.  Message m has one PendingDelivery, referenced by its caller and by *)
(* the wrapper handed to librdkafka.                                       *)
(***************************************************************************)
EXTENDS Integers, FiniteSets

CONSTANTS Callers,   \* handler threads
          MaxCalls   \* bound: calls of PublishSync, messages 1 .. MaxCalls

ASSUME KafkaAssumption == MaxCalls \in Nat

VARIABLES
  step,       \* step[c]: "idle", "testing" the loop condition, "polling"
  call,       \* call[c]: the message caller c publishes
  overdue,    \* callers whose deadline has passed
  calls,      \* messages handed to produce() so far
  msg,        \* msg[m]: "none", "queued", "sent", "expired", "reported", "refused"
  wrapped,    \* messages whose wrapper librdkafka still holds
  done, success,             \* PendingDelivery's flags
  returned,   \* returned[m]: "none", "true", "false"
  published, failed, timedOut,  \* stats_
  stored,     \* messages the broker has
  closing     \* "no", "flushing" in the destructor, "closed"

kafkaVars == <<step, call, overdue, calls, msg, wrapped, done, success, returned,
               published, failed, timedOut, stored, closing>>

Messages == 1 .. MaxCalls

KafkaInit ==
  /\ step = [c \in Callers |-> "idle"] /\ call = [c \in Callers |-> 0] /\ overdue = {}
  /\ calls = 0 /\ msg = [m \in Messages |-> "none"] /\ wrapped = {}
  /\ done = {} /\ success = {} /\ returned = [m \in Messages |-> "none"]
  /\ published = 0 /\ failed = 0 /\ timedOut = 0 /\ stored = {} /\ closing = "no"

--------------------------------------------------------------------------------
\* produce() accepts the message.
Produce(c) ==
  /\ closing = "no" /\ step[c] = "idle" /\ calls < MaxCalls
  /\ calls' = calls + 1
  /\ call' = [call EXCEPT ![c] = calls']
  /\ step' = [step EXCEPT ![c] = "testing"]
  /\ msg' = [msg EXCEPT ![calls'] = "queued"]
  /\ wrapped' = wrapped \cup {calls'}
  /\ UNCHANGED <<overdue, done, success, returned, published, failed, timedOut, stored,
                 closing>>

\* produce() refuses it (queue full): the wrapper is deleted, no report will come.
ProduceRefused(c) ==
  /\ closing = "no" /\ step[c] = "idle" /\ calls < MaxCalls
  /\ calls' = calls + 1
  /\ msg' = [msg EXCEPT ![calls'] = "refused"]
  /\ returned' = [returned EXCEPT ![calls'] = "false"]
  /\ failed' = failed + 1
  /\ UNCHANGED <<step, call, overdue, wrapped, done, success, published, timedOut, stored, closing>>

\* PublishSync of caller c returns, drops its reference and has no locals any more.
Return(c, value) ==
  /\ step' = [step EXCEPT ![c] = "idle"]
  /\ returned' = [returned EXCEPT ![call[c]] = value]
  /\ call' = [call EXCEPT ![c] = 0] /\ overdue' = overdue \ {c}

\* The condition of the wait loop.
TestDone(c) ==
  /\ step[c] = "testing"
  /\ IF call[c] \in done
     THEN Return(c, IF call[c] \in success THEN "true" ELSE "false")
     ELSE step' = [step EXCEPT ![c] = "polling"] /\ UNCHANGED <<returned, call, overdue>>
  /\ UNCHANGED <<calls, msg, wrapped, done, success, published, failed, timedOut, stored,
                 closing>>

\* Callbacks run inside poll() or flush(), on any thread.
Polled == closing = "flushing" \/ \E c \in Callers : step[c] = "polling"

\* Mutant: the callback reports success whatever the error.
OptimisticDrCb(m) ==
  /\ Polled
  /\ msg[m] \in {"sent", "expired"}
  /\ published' = published + 1 /\ UNCHANGED failed
  /\ success' = success \cup {m} /\ done' = done \cup {m}
  /\ wrapped' = wrapped \ {m}
  /\ msg' = [msg EXCEPT ![m] = "reported"]
  /\ UNCHANGED <<step, call, overdue, calls, returned, timedOut, stored, closing>>

\* dr_cb: the report of m, success iff the broker confirmed it.
DrCb(m) ==
  /\ Polled
  /\ msg[m] \in {"sent", "expired"}
  /\ IF msg[m] = "sent"
     THEN published' = published + 1 /\ success' = success \cup {m} /\ UNCHANGED failed
     ELSE failed' = failed + 1 /\ UNCHANGED <<published, success>>
  /\ done' = done \cup {m}
  /\ wrapped' = wrapped \ {m}
  /\ msg' = [msg EXCEPT ![m] = "reported"]
  /\ UNCHANGED <<step, call, overdue, calls, returned, timedOut, stored, closing>>

\* Mutant: a call that times out takes its wrapper back.
ReclaimingPollEnd(c) ==
  /\ step[c] = "polling"
  /\ IF call[c] \notin done /\ c \in overdue
     THEN /\ timedOut' = timedOut + 1 /\ Return(c, "false")
          /\ wrapped' = wrapped \ {call[c]}
     ELSE step' = [step EXCEPT ![c] = "testing"] /\ UNCHANGED <<returned, call, overdue, timedOut, wrapped>>
  /\ UNCHANGED <<calls, msg, done, success, published, failed, stored, closing>>

\* Mutant: the deadline is compared the wrong way round, so the loop never gives up.
PatientPollEnd(c) ==
  /\ step[c] = "polling"
  /\ step' = [step EXCEPT ![c] = "testing"]
  /\ UNCHANGED <<call, overdue, calls, msg, wrapped, done, success, returned, published,
                 failed, timedOut, stored, closing>>

\* poll() returns: give up after the deadline, else go round.
PollEnd(c) ==
  /\ step[c] = "polling"
  /\ IF call[c] \notin done /\ c \in overdue
     THEN timedOut' = timedOut + 1 /\ Return(c, "false")
     ELSE step' = [step EXCEPT ![c] = "testing"] /\ UNCHANGED <<returned, call, overdue, timedOut>>
  /\ UNCHANGED <<calls, msg, wrapped, done, success, published, failed, stored, closing>>

\* The deadline of caller c passes.
Deadline(c) ==
  /\ step[c] # "idle" /\ c \notin overdue
  /\ overdue' = overdue \cup {c}
  /\ UNCHANGED <<step, call, calls, msg, wrapped, done, success, returned, published,
                 failed, timedOut, stored, closing>>

\* ~KafkaProducer, once the gateway's handlers have returned.
Flush ==
  /\ closing = "no" /\ \A c \in Callers : step[c] = "idle"
  /\ closing' = "flushing"
  /\ UNCHANGED <<step, call, overdue, calls, msg, wrapped, done, success, returned, published,
                 failed, timedOut, stored>>

\* flush() returns, with all reports run or after its timeout, and the producer goes:
\* the wrappers of messages not reported by then are never freed.
Closed ==
  /\ closing = "flushing"
  /\ closing' = "closed"
  /\ UNCHANGED <<step, call, overdue, calls, msg, wrapped, done, success, returned, published,
                 failed, timedOut, stored>>

--------------------------------------------------------------------------------
\* The broker confirms message m.
Confirm(m) ==
  /\ closing # "closed" /\ msg[m] = "queued"
  /\ msg' = [msg EXCEPT ![m] = "sent"]
  /\ stored' = stored \cup {m}
  /\ UNCHANGED <<step, call, overdue, calls, wrapped, done, success, returned, published,
                 failed, timedOut, closing>>

\* The library gives up on message m, which the broker may have stored.
Expire(m) ==
  /\ closing # "closed" /\ msg[m] = "queued"
  /\ msg' = [msg EXCEPT ![m] = "expired"]
  /\ stored' \in {stored, stored \cup {m}}
  /\ UNCHANGED <<step, call, overdue, calls, wrapped, done, success, returned, published,
                 failed, timedOut, closing>>

KafkaNext ==
  \/ \E c \in Callers : \/ Produce(c) \/ ProduceRefused(c) \/ TestDone(c)
                        \/ PollEnd(c) \/ Deadline(c)
  \/ \E m \in Messages : DrCb(m) \/ Confirm(m) \/ Expire(m)
  \/ Flush \/ Closed

KafkaSpec == KafkaInit /\ [][KafkaNext]_kafkaVars

--------------------------------------------------------------------------------
\* "Returns true only on confirmed broker acceptance" (kafka_producer.h:80): the
\* gateway's ack rests on it, whichever thread runs the callback and whenever.
TrueMeansStored == \A m \in Messages : returned[m] = "true" => m \in stored

\* The use-after-free of kafka_producer.cc:14-41 cannot come back, nor a double free:
\* librdkafka holds the wrapper of a message exactly until its report has run, however
\* long the caller has been gone.  Only a message that Flush gave up on keeps it.
WrapperIsLive ==
  \A m \in Messages : m \in wrapped <=> msg[m] \in {"queued", "sent", "expired"}

\* PublishSync returns, also when the broker never answers ("must fail within
\* roughly delivery_timeout_ms, not hang", tests/kafka/kafka_producer_test.cc:136).
AlwaysReturns == \A c \in Callers : []<>(step[c] = "idle")
================================================================================
