----------------------------- MODULE DurableOutbox -----------------------------
(***************************************************************************)
(* What the agent's send loop is promised by the log and the outbox        *)
(* together (core/src/wal.cc, agent/src/main.cc): the number of an event   *)
(* once promised is pending, hence sent on every connection, until an      *)
(* acknowledgement for it has arrived, and pending again after a crash     *)
(* unless that acknowledgement has reached the disk.  AgentWal implements  *)
(* this with files and three threads; Delivery takes it in single steps.   *)
(***************************************************************************)
EXTENDS Naturals

VARIABLES running,   \* the agent's process runs
          promised,  \* the numbers of appended events
          pending,   \* those in memory, to be sent
          acking,    \* an acknowledgement that is not yet on disk, 0 for none
          acked      \* the last one on disk

outboxVars == <<running, promised, pending, acking, acked>>

Init == running = TRUE /\ promised = {} /\ pending = {} /\ acking = 0 /\ acked = 0

\* An append returns: a number above all earlier ones, and above all acknowledged ones.
Promise(n) ==
  /\ running /\ n > acked /\ n > acking /\ \A m \in promised : n > m
  /\ promised' = promised \cup {n} /\ pending' = pending \cup {n}
  /\ UNCHANGED <<running, acking, acked>>

\* An acknowledgement arrives, possibly a repeated one.
AckArrives ==
  /\ running /\ acking = 0
  /\ acking' \in Nat \ {0} /\ pending' = {n \in pending : n > acking'}
  /\ UNCHANGED <<running, promised, acked>>

\* It is saved; the checkpoint never goes back.
Checkpoint ==
  /\ running /\ acking # 0 /\ acking' = 0
  /\ acked' = IF acking > acked THEN acking ELSE acked
  /\ UNCHANGED <<running, promised, pending>>

\* Both in one step.
Acknowledge ==
  /\ running /\ acking = 0
  /\ acked' \in Nat /\ acked' > acked /\ pending' = {n \in pending : n > acked'}
  /\ UNCHANGED <<running, promised, acking>>

Crash ==
  /\ running /\ running' = FALSE
  /\ pending' = {} /\ acking' = 0
  /\ UNCHANGED <<promised, acked>>

Restart ==
  /\ ~running /\ running' = TRUE
  /\ pending' = {n \in promised : n > acked}
  /\ UNCHANGED <<promised, acking, acked>>

Next ==
  \/ \E n \in promised' : Promise(n)
  \/ AckArrives \/ Checkpoint \/ Acknowledge \/ Crash \/ Restart

Spec == Init /\ [][Next]_outboxVars
================================================================================
