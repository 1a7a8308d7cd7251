------------------------------ MODULE StoreClients ------------------------------
(***************************************************************************)
(* Clients of two stores, side by side: the gateway's of Kafka and the     *)
(* demo's of DynamoDB.  They share no state, so that a behaviour runs one  *)
(* and leaves the other as it is.                                          *)
(***************************************************************************)
EXTENDS KafkaProducer

CONSTANTS MaxInvocations, Limit, Quantum, MaxInstant

ASSUME DemoAssumption == MaxInvocations \in Nat /\ Limit \in Nat /\ Quantum \in Nat \ {0}

VARIABLES client, \* which of the two runs: "kafka" or "demo"
          instant, table, replica, invocation

demoVars == <<instant, table, replica, invocation>>
clientVars == <<client, kafkaVars, demoVars>>

Demo == INSTANCE DemoFeed
          WITH MaxCalls <- MaxInvocations, MaxClock <- MaxInstant,
               clock <- instant, call <- invocation

ClientsInit ==
  /\ client \in {"kafka", "demo"}
  /\ KafkaInit /\ Demo!Init

ClientsNext ==
  \/ client = "kafka" /\ KafkaNext /\ UNCHANGED <<client, demoVars>>
  \/ client = "demo" /\ Demo!Next /\ UNCHANGED <<client, kafkaVars>>

ClientsSpec == ClientsInit /\ [][ClientsNext]_clientVars

---------------------------------------------------------------------------------
\* ListRecent: every recorded event is listed, newest first, while the table is small.
FeedIsComplete == Demo!FeedIsComplete
=================================================================================
