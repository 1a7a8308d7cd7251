------------------------------- MODULE HotState -------------------------------
(***************************************************************************)
(* RedisHotStateStore (redis/src/redis_hot_state_store.cc) as the          *)
(* gateway's heartbeat handlers use it (gateway/src/main.cc): threads that *)
(* share one hiredis connection, made at startup, to a Redis that may go   *)
(* away with its data, evict a key, refuse a command, or not answer.       *)
(*                                                                         *)
(* Redis and hiredis are external.  What a hash holds does not matter      *)
(* here, only whether the device has one.  A connection whose server went  *)
(* away ("broken") fails the next command, which makes it unusable         *)
(* ("dead").                                                               *)
(***************************************************************************)
EXTENDS Naturals, FiniteSets

CONSTANTS Threads, Devices,
          Ops,       \* the methods the threads call: "Update", "Get", "Reconnect"
          MaxEvents  \* bound: outages, evictions, refusals and lost answers

VARIABLES server, \* Redis is up
          cache,  \* the devices that have a hash
          conn,   \* "none" (integrations_.redis is null), "ok", "broken", "dead"
          thread, \* thread[t]: [pc, op, dev] of the call it makes
          events

vars == <<server, cache, conn, thread, events>>

Idle == [pc |-> "idle", op |-> "none", dev |-> "none"]

\* A connection is made with a timeout, or the constructor throws.
Connection == IF server THEN "ok" ELSE "none"

\* When it throws, main goes on without the store.
Init ==
  /\ server \in BOOLEAN
  /\ conn = Connection
  /\ cache = {} /\ events = 0
  /\ thread = [t \in Threads |-> Idle]

\* Unless the store is null, a heartbeat calls Update.
Call(t, op, d) ==
  /\ thread[t].pc = "idle" /\ conn # "none"
  /\ thread' = [thread EXCEPT ![t] = [pc |-> "locking", op |-> op, dev |-> d]]
  /\ UNCHANGED <<server, cache, conn, events>>

InCommand == {t \in Threads : thread[t].pc = "waiting"}

\* The threads whose lock t waits for: each method has a mutex of its own, a static of
\* its body, and Reconnect has none.
Holders(t) ==
  {u \in InCommand : thread[t].op # "Reconnect" /\ thread[u].op = thread[t].op}

\* The lock, and the command is sent.
Send(t) ==
  /\ thread[t].pc = "locking" /\ Holders(t) = {}
  /\ thread' = [thread EXCEPT ![t].pc = "waiting"]
  /\ UNCHANGED <<server, cache, conn, events>>

Return(t) == thread' = [thread EXCEPT ![t] = Idle]

\* Redis answers; HSET makes the hash.  Reconnect replaces the connection if it can.
Answer(t) ==
  /\ t \in InCommand
  /\ server /\ (conn = "ok" \/ thread[t].op = "Reconnect")
  /\ cache' = IF thread[t].op = "Update" THEN cache \cup {thread[t].dev} ELSE cache
  /\ conn' = "ok"
  /\ Return(t)
  /\ UNCHANGED <<server, events>>

\* REDIS_REPLY_ERROR: false.
Refuse(t) ==
  /\ t \in InCommand /\ conn = "ok" /\ events < MaxEvents
  /\ events' = events + 1
  /\ Return(t)
  /\ UNCHANGED <<server, cache, conn>>

\* The answer takes longer than the timeout: the command may have been run.
LateAnswer(t) ==
  /\ t \in InCommand /\ conn = "ok" /\ events < MaxEvents
  /\ events' = events + 1
  /\ conn' = "dead"
  /\ cache' \in {cache, cache \cup (IF thread[t].op = "Update" THEN {thread[t].dev} ELSE {})}
  /\ Return(t)
  /\ UNCHANGED server

\* A null reply, at once or after the timeout: false, which the handler ignores.
Fail(t) ==
  /\ t \in InCommand /\ conn \in {"broken", "dead"}
  /\ conn' = "dead"
  /\ Return(t)
  /\ UNCHANGED <<server, cache, events>>

\* Redis goes away, with its data, and comes back.
Outage ==
  /\ server /\ events < MaxEvents
  /\ server' = FALSE /\ cache' = {} /\ events' = events + 1
  /\ conn' = IF conn = "ok" THEN "broken" ELSE conn
  /\ UNCHANGED thread

Recover ==
  /\ ~server /\ server' = TRUE
  /\ UNCHANGED <<cache, conn, thread, events>>

Evict(d) ==
  /\ d \in cache /\ events < MaxEvents
  /\ cache' = cache \ {d} /\ events' = events + 1
  /\ UNCHANGED <<server, conn, thread>>

Next ==
  \/ Outage \/ Recover \/ \E d \in Devices : Evict(d)
  \/ \E t \in Threads :
       \/ \E op \in Ops, d \in Devices : Call(t, op, d)
       \/ Send(t) \/ Answer(t) \/ Refuse(t) \/ LateAnswer(t) \/ Fail(t)

Spec == Init /\ [][Next]_vars

-------------------------------------------------------------------------------
\* redis_hot_state_store.h:33, "RedisHotStateStore serializes access with an internal
\* mutex": two threads are never in a command of the one connection at a time.
OneCommandAtATime == Cardinality(InCommand) <= 1

\* redis_hot_state_store.h:18-20, "if it's lost (process restart, cache eviction),
\* nothing is lost that matters, because it's rebuilt from the next heartbeat": a
\* device that has had a hash, and goes on sending heartbeats, always gets it back.
RebuiltByHeartbeat == \A d \in Devices : <>(d \in cache) => []<>(d \in cache)
===============================================================================
