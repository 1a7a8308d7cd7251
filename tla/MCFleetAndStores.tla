---------------------------- MODULE MCFleetAndStores ----------------------------
(***************************************************************************)
(* Config reconciliation, the simulated fleet and the clients of Kafka and *)
(* DynamoDB on small instances, checked in one run: they share no state,   *)
(* so a behaviour moves one and leaves the others in their first state.    *)
(*                                                                         *)
(* Config: two edits with every combination of named and unnamed           *)
(* thresholds, some of which abort the agent; a crash, a broken stream,    *)
(* and two heartbeats and pushes under way at a time.  Fleet: one device   *)
(* with three detections over two streams, so that one can be lost or      *)
(* refused between two others and the numbers go on in the second stream;  *)
(* a second device that only connects, for which the end waits; a fault.   *)
(* Kafka: two threads and three calls: a call that has timed out, a second *)
(* one of the same thread that runs its callback, and one of another       *)
(* thread.  Demo: three invocations at three instants, two of which are    *)
(* parsed as one.                                                          *)
(***************************************************************************)
EXTENDS ConfigAndFleet, StoreClients

VARIABLE half

MCStartup == [k |-> 2, n |-> 3]
MCMaxSeq == [d \in Devices |-> IF d = "d1" THEN 3 ELSE 0]
MCMaxStreams == [d \in Devices |-> IF d = "d1" THEN 2 ELSE 1]

\* What does not run starts in one state only.
MCInit ==
  /\ BothInit /\ ClientsInit
  /\ \/ half = "devices" /\ client = "kafka"
     \/ half = "stores" /\ active = "fleet"

MCNext ==
  \/ half = "devices" /\ BothNext /\ UNCHANGED <<half, clientVars>>
  \/ half = "stores" /\ ClientsNext /\ UNCHANGED <<half, bothVars>>

Runs(part) ==
  \/ half = "devices" /\ active = part
  \/ half = "stores" /\ client = part

\* The agent's threads keep running, a heartbeat is sent every second and the gateway
\* reads its stream; the agent is started again when it dies (the deployment's part);
\* the file is readable again and again when a heartbeat is handled.
ConfigFairness ==
  /\ WF_vars(Runs("config") /\ (SendHeartbeat \/ Restart))
  /\ WF_vars(Runs("config") /\ Receive)
  /\ WF_vars(Runs("config") /\ (Apply \/ Abort))
  /\ SF_vars(Runs("config") /\ HandleHeartbeat)

\* The simulator's threads, the gateway's handlers and time go on; nobody has to send,
\* to cut a stream or to refuse.
FleetFairness ==
  /\ WF_fleetVars(Runs("fleet") /\ Fleet!Summary)
  /\ \A d \in Devices :
       /\ WF_fleetVars(Runs("fleet") /\ Fleet!Spawn(d))
       /\ WF_fleetVars(Runs("fleet") /\ Fleet!Deadline(d))
       /\ WF_fleetVars(Runs("fleet") /\ (Fleet!Leave(d) \/ Fleet!Rejoin(d) \/ Fleet!Return(d)))
       /\ WF_fleetVars(Runs("fleet") /\ Fleet!ReadAck(d))
       /\ WF_fleetVars(Runs("fleet") /\ (Fleet!Handle(d) \/ Fleet!EndHandler(d)))

\* PublishSync's threads run, its polls return after their 50 ms and time passes, but
\* nothing obliges the broker to answer.
KafkaFairness ==
  \A c \in Callers :
    /\ WF_kafkaVars(Runs("kafka") /\ (TestDone(c) \/ PollEnd(c)))
    /\ WF_kafkaVars(Runs("kafka") /\ Deadline(c))

MCSpec ==
  /\ MCInit
  /\ [][MCNext]_<<half, bothVars, clientVars>>
  /\ ConfigFairness /\ FleetFairness /\ KafkaFairness
=================================================================================
