---------------------------- MODULE FleetSimulator ----------------------------
(***************************************************************************)
(* The fleet simulator against the gateway: the device threads and their   *)
(* ack readers (tools/fleet/device_simulator.cc), the stream each of them  *)
(* has open, and the gap accounting of that stream's handler               *)
(* (gateway/src/main.cc).                                                  *)
(*                                                                         *)
(* A device keeps no log: its numbers go on from stream to stream while    *)
(* every Hello says "no durable resume".  A stream delivers in order until *)
(* it is cancelled or breaks, which loses a suffix in each direction; its  *)
(* handler ends before the device's next one starts, which only brings its *)
(* summary forward.  Waiting for the channel and backing off move nothing  *)
(* but the attempt count.                                                  *)
(***************************************************************************)
EXTENDS Integers, Sequences, FiniteSets

CONSTANTS Devices,
          MaxSeq,     \* bound: MaxSeq[d] detections of device d
          MaxStreams, \* bound: MaxStreams[d] streams of device d
          MaxFaults   \* bound: broken streams and rejected detections

VARIABLES
  spawned, \* devices whose thread main has started
  pc,      \* pc[d]: "connecting", "sending", "joining", "returned"
  late,    \* devices past their run_deadline
  seq,     \* seq[d]: the next number
  streams, \* streams[d]: streams opened
  link,    \* link[d]: "none", "up", "draining" (WritesDone), "cut", "ended"
  toGw,    \* toGw[d]: detections in flight
  acks,    \* acks[d]: acks in flight
  handler, \* handler[d]: [last, resync, gap, limited, failed] of the stream's handler
  lost,    \* the "lost=" of the summaries logged so far, added up
  refused, \* and their "kafka_failed="
  stats,   \* FleetStats
  faults,
  exit     \* main's exit code, -1 while it runs

device == <<spawned, pc, late, seq, streams>>
vars == <<device, link, toGw, acks, handler, lost, refused, stats, faults, exit>>

NoHandler == [last |-> 0, resync |-> FALSE, gap |-> 0, limited |-> 0, failed |-> 0]

Init ==
  /\ spawned = {} /\ late = {}
  /\ pc = [d \in Devices |-> "connecting"]
  /\ seq = [d \in Devices |-> 1] /\ streams = [d \in Devices |-> 0]
  /\ link = [d \in Devices |-> "none"]
  /\ toGw = [d \in Devices |-> <<>>] /\ acks = [d \in Devices |-> 0]
  /\ handler = [d \in Devices |-> NoHandler]
  /\ lost = 0 /\ refused = 0 /\ faults = 0 /\ exit = -1
  /\ stats = [sent |-> 0, acked |-> 0, reconnects |-> 0, forced |-> 0]

\* A channel that loses a suffix of what it carries.
Cut(d) ==
  /\ \E k \in 0 .. Len(toGw[d]) : toGw' = [toGw EXCEPT ![d] = SubSeq(@, 1, k)]
  /\ \E k \in 0 .. acks[d] : acks' = [acks EXCEPT ![d] = k]
  /\ link' = [link EXCEPT ![d] = IF @ = "ended" THEN @ ELSE "cut"]

-------------------------------------------------------------------------------
\* The simulator.

\* main starts the device's thread.
Spawn(d) ==
  /\ d \notin spawned
  /\ spawned' = spawned \cup {d}
  /\ UNCHANGED <<pc, late, seq, streams, link, toGw, acks, handler, lost, refused, stats, faults, exit>>

\* run_deadline passes.
Deadline(d) ==
  /\ d \in spawned \ late
  /\ late' = late \cup {d}
  /\ UNCHANGED <<spawned, pc, seq, streams, link, toGw, acks, handler, lost, refused, stats, faults, exit>>

\* Mutant: the device claims that its last_acked_seq, 0, is durable.
DurableHello == [NoHandler EXCEPT !.resync = FALSE]

\* The Hello, as the handler takes it.
Hello == [NoHandler EXCEPT !.resync = TRUE]

\* A stream, its reader thread and the Hello.
Connect(d) ==
  /\ d \in spawned \ late /\ pc[d] = "connecting" /\ streams[d] < MaxStreams[d]
  /\ streams' = [streams EXCEPT ![d] = @ + 1]
  /\ pc' = [pc EXCEPT ![d] = "sending"]
  /\ link' = [link EXCEPT ![d] = "up"]
  /\ handler' = [handler EXCEPT ![d] = Hello]
  /\ UNCHANGED <<spawned, late, seq, toGw, acks, lost, refused, stats, faults, exit>>

\* A detection is written, and counted as sent.  On a dead stream the write may pass
\* unnoticed; a failed one uses up the number and ends the loop with TryCancel.
Send(d) ==
  /\ pc[d] = "sending" /\ d \notin late /\ seq[d] <= MaxSeq[d]
  /\ seq' = [seq EXCEPT ![d] = @ + 1]
  /\ \/ /\ toGw' = IF link[d] = "up" THEN [toGw EXCEPT ![d] = Append(@, seq[d])] ELSE toGw
        /\ stats' = [stats EXCEPT !.sent = @ + 1]
        /\ UNCHANGED <<pc, link, acks>>
     \/ /\ link[d] # "up"
        /\ pc' = [pc EXCEPT ![d] = "joining"]
        /\ Cut(d)
        /\ UNCHANGED stats
  /\ UNCHANGED <<spawned, late, streams, handler, lost, refused, faults, exit>>

\* The forced disconnect: TryCancel.
ForcedDisconnect(d) ==
  /\ pc[d] = "sending" /\ d \notin late
  /\ stats' = [stats EXCEPT !.forced = @ + 1]
  /\ pc' = [pc EXCEPT ![d] = "joining"]
  /\ Cut(d)
  /\ UNCHANGED <<spawned, late, seq, streams, handler, lost, refused, faults, exit>>

\* Why the send loop ends with the last write a success: the time is up, or the
\* reader has seen the stream end.
Over(d) == pc[d] = "sending" /\ (d \in late \/ (link[d] = "ended" /\ acks[d] = 0))

\* Mutant: the loop always ends in TryCancel.
CancellingLeave(d) ==
  /\ Over(d)
  /\ pc' = [pc EXCEPT ![d] = "joining"]
  /\ Cut(d)
  /\ UNCHANGED <<spawned, late, seq, streams, handler, lost, refused, stats, faults, exit>>

\* Mutant: the loop ends without WritesDone.
SilentLeave(d) ==
  /\ Over(d)
  /\ pc' = [pc EXCEPT ![d] = "joining"]
  /\ UNCHANGED <<spawned, late, seq, streams, link, toGw, acks, handler, lost, refused, stats, faults, exit>>

\* WritesDone.
Leave(d) ==
  /\ Over(d)
  /\ pc' = [pc EXCEPT ![d] = "joining"]
  /\ link' = [link EXCEPT ![d] = IF @ = "up" THEN "draining" ELSE @]
  /\ UNCHANGED <<spawned, late, seq, streams, toGw, acks, handler, lost, refused, stats, faults, exit>>

\* Reader thread: one ack.
ReadAck(d) ==
  /\ acks[d] > 0
  /\ acks' = [acks EXCEPT ![d] = @ - 1]
  /\ stats' = [stats EXCEPT !.acked = @ + 1]
  /\ UNCHANGED <<device, link, toGw, handler, lost, refused, faults, exit>>

\* reader.join and Finish return; a device with time left counts a reconnect.
Rejoin(d) ==
  /\ pc[d] = "joining" /\ link[d] = "ended" /\ acks[d] = 0
  /\ pc' = [pc EXCEPT ![d] = "connecting"]
  /\ link' = [link EXCEPT ![d] = "none"]
  /\ stats' = IF d \in late THEN stats ELSE [stats EXCEPT !.reconnects = @ + 1]
  /\ UNCHANGED <<spawned, late, seq, streams, toGw, acks, handler, lost, refused, faults, exit>>

\* Run returns at the deadline.
Return(d) ==
  /\ d \in late /\ pc[d] = "connecting"
  /\ pc' = [pc EXCEPT ![d] = "returned"]
  /\ UNCHANGED <<spawned, late, seq, streams, link, toGw, acks, handler, lost, refused, stats, faults, exit>>

\* main has joined every thread and reports.
Summary ==
  /\ exit = -1 /\ \A d \in Devices : pc[d] = "returned"
  /\ exit' = IF stats.sent > 0 /\ stats.acked = 0 THEN 1 ELSE 0
  /\ UNCHANGED <<device, link, toGw, acks, handler, lost, refused, stats, faults>>

-------------------------------------------------------------------------------
\* The network and the gateway.

Break(d) ==
  /\ link[d] \in {"up", "draining"} /\ faults < MaxFaults
  /\ faults' = faults + 1
  /\ Cut(d)
  /\ UNCHANGED <<device, handler, lost, refused, stats, exit>>

\* The numbers detection n skips: none when it is the first without durable resume.
Gap(h, n) == IF h.resync THEN 0 ELSE n - h.last - 1

\* The handler takes the next detection; numbers ascend, so none is a duplicate.
\* Its ack reaches a device whose stream is not cut.
Handle(d) ==
  /\ toGw[d] # <<>>
  /\ LET n == Head(toGw[d]) IN
       handler' = [handler EXCEPT ![d] = [last |-> n, resync |-> FALSE,
                     gap |-> @.gap + Gap(@, n), limited |-> @.limited, failed |-> @.failed]]
  /\ toGw' = [toGw EXCEPT ![d] = Tail(@)]
  /\ acks' = [acks EXCEPT ![d] = IF link[d] = "cut" THEN @ ELSE @ + 1]
  /\ UNCHANGED <<device, link, lost, refused, stats, faults, exit>>

\* CheckRateLimit or PublishSync says no: counted, and no ack.
Reject(d) ==
  /\ toGw[d] # <<>> /\ faults < MaxFaults
  /\ faults' = faults + 1
  /\ toGw' = [toGw EXCEPT ![d] = Tail(@)]
  /\ \/ handler' = [handler EXCEPT ![d].limited = @ + 1]
     \/ handler' = [handler EXCEPT ![d].failed = @ + 1]
  /\ UNCHANGED <<device, link, acks, lost, refused, stats, exit>>

\* Writing the ack fails: the handler returns without a summary.
AckFails(d) ==
  /\ link[d] = "cut" /\ toGw[d] # <<>>
  /\ toGw' = [toGw EXCEPT ![d] = <<>>]
  /\ link' = [link EXCEPT ![d] = "ended"]
  /\ UNCHANGED <<device, acks, handler, lost, refused, stats, faults, exit>>

\* The handler returns and logs its summary.
EndHandler(d) ==
  /\ link[d] \in {"draining", "cut"} /\ toGw[d] = <<>>
  /\ link' = [link EXCEPT ![d] = "ended"]
  /\ lost' = lost + (LET h == handler[d]
                     IN IF h.gap > h.limited THEN h.gap - h.limited ELSE 0)
  /\ refused' = refused + handler[d].failed
  /\ UNCHANGED <<device, toGw, acks, handler, stats, faults, exit>>

Next ==
  \/ Summary
  \/ \E d \in Devices :
       \/ Spawn(d) \/ Deadline(d) \/ Connect(d) \/ Send(d) \/ ForcedDisconnect(d)
       \/ Leave(d) \/ ReadAck(d) \/ Rejoin(d) \/ Return(d)
       \/ Break(d) \/ Handle(d) \/ Reject(d) \/ AckFails(d) \/ EndHandler(d)

Spec == Init /\ [][Next]_vars

-------------------------------------------------------------------------------
\* ADR-0010, "0 false gaps across 100 reconnects": however the streams of a device
\* without durable state are cut, and whatever is rejected on the way, the summaries of
\* the gateway call nothing lost but detections that Kafka refused and that they report
\* as kafka_failed too.
NoFalseLoss == lost <= refused

\* What the summary prints adds up: no more acks than detections sent, and exactly
\* as many "with no fault injection" (fleet_smoke_test.sh:29), where the end of the
\* run must not cut off acks that are still under way.
SummaryAddsUp ==
  exit # -1 =>
    /\ stats.acked <= stats.sent
    /\ faults + stats.forced = 0 => stats.acked = stats.sent /\ exit = 0
    /\ stats.reconnects + Cardinality(Devices) >= stats.forced

\* The simulation ends: every thread can be joined, whatever happened to its stream.
FleetEnds == spawned # {} ~> exit # -1
===============================================================================
