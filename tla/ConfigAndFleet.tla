----------------------------- MODULE ConfigAndFleet -----------------------------
(***************************************************************************)
(* Config reconciliation between agent and gateway, and the simulated      *)
(* fleet against the gateway, side by side: they share no state, so that a *)
(* behaviour runs one and leaves the other as it is.                       *)
(***************************************************************************)
EXTENDS ConfigReconciliation, Integers, FiniteSets

CONSTANTS Devices, MaxSeq, MaxStreams, MaxFaults

VARIABLES active,
          spawned, pc, late, seq, streams, link, toGw, acks, handler, lost, refused, stats,
          faults, exit

fleetVars == <<spawned, pc, late, seq, streams, link, toGw, acks, handler, lost, refused,
               stats, faults, exit>>

Fleet == INSTANCE FleetSimulator

BothInit == active \in {"config", "fleet"} /\ Init /\ Fleet!Init

BothNext ==
  \/ active = "config" /\ Next /\ UNCHANGED <<active, fleetVars>>
  \/ active = "fleet" /\ Fleet!Next /\ UNCHANGED <<active, vars>>

bothVars == <<active, vars, fleetVars>>

BothSpec == BothInit /\ [][BothNext]_bothVars

---------------------------------------------------------------------------------
\* The gateway calls no detection of a device without durable state lost that Kafka
\* did not refuse.
NoFalseLoss == Fleet!NoFalseLoss

\* The simulator's summary adds up; without faults every detection sent was acked.
SummaryAddsUp == Fleet!SummaryAddsUp

\* The simulation ends, whatever happened to the streams.
FleetEnds == Fleet!FleetEnds
=================================================================================
