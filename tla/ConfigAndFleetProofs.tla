-------------------------- MODULE ConfigAndFleetProofs --------------------------
(***************************************************************************)
(* Config reconciliation for any fields, versions, restarts, reconnects    *)
(* and messages under way; and the simulated fleet for any devices,        *)
(* detections, streams and faults.                                         *)
(***************************************************************************)
EXTENDS ConfigAndFleet, FiniteSetTheorems, TLAPS

--------------------------------------------------------------------------------
\* ConfigReconciliation.

ConfigTypes ==
  /\ desired \in Lines /\ pending \in Lines
  /\ pushes \in Seq(Lines)
  /\ applied \in Nat
  /\ desired.version = 0 => desired = NoLine

\* A line that is, or once was, the desired one: one version, one line.
OnceDesired(line) == line = desired \/ line.version < desired.version

\* The inductive invariant: every line under way or pending was once desired, and the
\* applied version is that of the pending line or an earlier one.
ConfigInv ==
  /\ ConfigTypes
  /\ \A i \in 1 .. Len(pushes) : OnceDesired(pushes[i])
  /\ OnceDesired(pending)
  /\ applied <= pending.version
  /\ pendingSet => applied < pending.version
  /\ VersionMeansSetting

\* The fields of a line of the gateway's file are numbers; no line is version 0.
LEMMA LineFields ==
  /\ NoLine \in Lines /\ NoLine.version = 0
  /\ \A line \in Lines : line.version \in Nat /\ line.k \in Nat /\ line.n \in Nat
<1>1. MaxVersion \in Nat /\ \A f \in Fields \cup {0} : f \in Nat
  BY ConfigAssumption
<1>2. NoLine \in Lines /\ NoLine.version = 0
  BY <1>1 DEF NoLine, Lines
<1>3. ASSUME NEW line \in Lines
      PROVE  line.version \in Nat /\ line.k \in Nat /\ line.n \in Nat
  <2>1. /\ line.version \in 0 .. MaxVersion
        /\ line.k \in Fields \cup {0} /\ line.n \in Fields \cup {0}
    BY DEF Lines
  <2> QED BY <1>1, <2>1
<1> QED BY <1>2, <1>3

\* No line, no push, and version 0 applied.
LEMMA ConfigInitially == Init => ConfigInv
<1> SUFFICES ASSUME Init PROVE ConfigInv
  OBVIOUS
<1>1. NoLine \in Lines /\ NoLine.version = 0
  BY LineFields
<1>2. pushes \in Seq(Lines) /\ Len(pushes) = 0
  BY DEF Init
<1> QED BY <1>1, <1>2 DEF Init, ConfigInv, ConfigTypes, OnceDesired, VersionMeansSetting

\* Every step of the operator, the gateway, the agent's threads and the network keeps
\* the invariant.
LEMMA ConfigStep == ConfigInv /\ [Next]_vars => ConfigInv'
<1> SUFFICES ASSUME ConfigInv, [Next]_vars PROVE ConfigInv'
  OBVIOUS
<1> USE DEF ConfigInv, ConfigTypes
<1>0. /\ NoLine \in Lines /\ NoLine.version = 0
      /\ \A line \in Lines : line.version \in Nat /\ line.k \in Nat /\ line.n \in Nat
  BY LineFields
<1>1. CASE Edit
  <2>1. PICK line \in Lines : line.version = desired.version + 1 /\ desired' = line
    BY <1>1 DEF Edit
  <2>2. \A i \in 1 .. Len(pushes) : pushes[i] \in Lines
    OBVIOUS
  <2>3. desired'.version = desired.version + 1 /\ desired'.version # 0
    BY <1>0, <2>1
  <2>4. \A l \in Lines : OnceDesired(l) => OnceDesired(l)'
    BY <1>0, <2>3 DEF OnceDesired
  <2>5. applied < desired'.version
    BY <1>0, <2>3 DEF OnceDesired
  <2> QED BY <1>0, <1>1, <2>1, <2>2, <2>3, <2>4, <2>5
          DEF Edit, agent, OnceDesired, VersionMeansSetting
<1>2. CASE SendHeartbeat
  BY <1>2 DEF SendHeartbeat, agent, OnceDesired, VersionMeansSetting
<1>3. CASE HandleHeartbeat
  <2>1. UNCHANGED <<desired, agent>>
    BY <1>3 DEF HandleHeartbeat
  <2>2. CASE pushes' = pushes
    BY <2>1, <2>2 DEF agent, OnceDesired, VersionMeansSetting
  <2>3. CASE pushes' = Append(pushes, desired)
    <3>1. /\ pushes' \in Seq(Lines) /\ Len(pushes') = Len(pushes) + 1
          /\ \A i \in 1 .. Len(pushes) : pushes'[i] = pushes[i]
          /\ pushes'[Len(pushes) + 1] = desired
      BY <2>3
    <3>2. \A i \in 1 .. Len(pushes') : OnceDesired(pushes'[i])
      BY <3>1 DEF OnceDesired
    <3> QED BY <2>1, <3>1, <3>2 DEF agent, OnceDesired, VersionMeansSetting
  <2> QED BY <1>3, <2>2, <2>3 DEF HandleHeartbeat
<1>4. CASE HandleUnreadable
  BY <1>4 DEF HandleUnreadable, agent, OnceDesired, VersionMeansSetting
<1>5. CASE Receive
  <2>1. /\ pushes # << >> /\ pushes' = Tail(pushes)
        /\ UNCHANGED <<desired, applied, setting>>
    BY <1>5 DEF Receive
  <2>2. /\ pushes' \in Seq(Lines) /\ Len(pushes') = Len(pushes) - 1
        /\ \A i \in 1 .. Len(pushes') : pushes'[i] = pushes[i + 1]
        /\ Head(pushes) = pushes[1] /\ Head(pushes) \in Lines /\ Len(pushes) >= 1
    BY <2>1
  <2>3. \A i \in 1 .. Len(pushes') : OnceDesired(pushes'[i])
    BY <2>2
  <2>4. OnceDesired(Head(pushes))
    BY <2>2
  <2>5. CASE UNCHANGED <<pending, pendingSet>>
    BY <2>1, <2>2, <2>3, <2>5 DEF OnceDesired, VersionMeansSetting
  <2>6. CASE /\ pending' = Head(pushes)
             /\ \/ Head(pushes).version > pending.version
                \/ applied < Head(pushes).version
    <3>1. applied < pending'.version
      BY <1>0, <2>2, <2>6
    <3> QED BY <1>0, <2>1, <2>2, <2>3, <2>4, <2>6, <3>1 DEF OnceDesired, VersionMeansSetting
  <2> QED BY <1>5, <2>5, <2>6 DEF Receive
<1>6. CASE Apply
  <2>1. /\ UNCHANGED <<desired, pushes, pending>> /\ pendingSet' = FALSE
        /\ applied' = pending.version /\ setting' = Override(pending)
    BY <1>6 DEF Apply
  <2>2. VersionMeansSetting'
    <3> SUFFICES ASSUME applied' = desired.version
                 PROVE  /\ desired.k > 0 => setting'.k = desired.k
                        /\ desired.n > 0 => setting'.n = desired.n
      BY <2>1 DEF VersionMeansSetting
    <3>1. pending = desired
      BY <1>0, <2>1 DEF OnceDesired
    <3> QED BY <2>1, <3>1 DEF Override
  <2> QED BY <1>0, <2>1, <2>2 DEF OnceDesired
<1>7. CASE Abort \/ Crash \/ Reconnect
  <2>1. pushes' = << >> /\ UNCHANGED <<desired, pending, pendingSet, applied, setting>>
    BY <1>7 DEF Abort, Crash, Reconnect, Die, agent
  <2>2. pushes' \in Seq(Lines) /\ Len(pushes') = 0
    BY <2>1
  <2> QED BY <2>1, <2>2 DEF OnceDesired, VersionMeansSetting
<1>8. CASE Restart
  BY <1>0, <1>8 DEF Restart, OnceDesired, VersionMeansSetting
<1>9. CASE UNCHANGED vars
  BY <1>9 DEF vars, agent, OnceDesired, VersionMeansSetting
<1> QED BY <1>1, <1>2, <1>3, <1>4, <1>5, <1>6, <1>7, <1>8, <1>9 DEF Next

\* The version a heartbeat reports is true of the agent's settings (agent/src/main.cc
\* applies pending_config; gateway/src/main.cc pushes what is newer than reported).
THEOREM ReportedVersionIsTrue == Spec => []VersionMeansSetting
<1>1. ConfigInv => VersionMeansSetting
  BY DEF ConfigInv
<1> QED BY ConfigInitially, ConfigStep, <1>1, PTL DEF Spec

\* No process of the agent applies the same or an older update again, however often
\* the gateway pushes it (the reader thread's version test in agent/src/main.cc).
THEOREM UpdatesAreNewer == Spec => NoReapply
<1>1. ConfigInv /\ [Next]_vars => [Apply => applied' > applied]_vars
  <2> SUFFICES ASSUME ConfigInv, Apply PROVE applied' > applied
    OBVIOUS
  <2> QED BY LineFields DEF ConfigInv, ConfigTypes, Apply
<1> QED BY ConfigInitially, ConfigStep, <1>1, PTL DEF Spec, NoReapply

--------------------------------------------------------------------------------
\* FleetSimulator.

Stats == [sent : Nat, acked : Nat, reconnects : Nat, forced : Nat]
Handlers == [last : Nat, resync : BOOLEAN, gap : Nat, limited : Nat, failed : Nat]

FleetTypes ==
  /\ pc \in [Devices -> {"connecting", "sending", "joining", "returned"}]
  /\ link \in [Devices -> {"none", "up", "draining", "cut", "ended"}]
  /\ seq \in [Devices -> Nat] /\ acks \in [Devices -> Nat]
  /\ toGw \in [Devices -> Seq(Nat)]
  /\ handler \in [Devices -> Handlers]
  /\ stats \in Stats
  /\ faults \in Nat /\ exit \in {-1, 0, 1} /\ lost \in Nat /\ refused \in Nat

\* What the handler has yet to count before a detection with number n: every number it
\* skipped so far, and those it skips now, were rejected.
SkippedAreRejected(h, n) ==
  ~h.resync => n > h.last /\ h.gap + (n - h.last - 1) <= h.limited + h.failed

\* A stream of device d carries consecutive numbers, up to the last one drawn while it
\* is up, and starts where the handler has got to but for rejected detections.  Between
\* streams nothing is under way.
StreamOK(d) ==
  LET q == toGw[d] h == handler[d] IN
  /\ link[d] \in {"none", "ended"} => q = <<>>
  /\ pc[d] \in {"connecting", "returned"} => link[d] = "none" /\ acks[d] = 0
  /\ \A k \in 1 .. Len(q) - 1 : q[k + 1] = q[k] + 1
  /\ h.gap <= h.limited + h.failed
  /\ q # <<>> => SkippedAreRejected(h, q[1])
  /\ link[d] = "up" => IF q = <<>> THEN SkippedAreRejected(h, seq[d])
                                   ELSE seq[d] = q[Len(q)] + 1

FaultFree == faults = 0 /\ stats.forced = 0

\* A stream that met no fault is not cut, and is up for as long as its device sends.
CleanOK(d) == FaultFree => link[d] # "cut" /\ (pc[d] = "sending" => link[d] = "up")

\* As many elements as f adds up to.
Units(f) == {p \in Devices \X Nat : p[2] < f[p[1]]}

\* Detections and acks of each device that are under way.
InFlight == [d \in Devices |-> acks[d] + Len(toGw[d])]

\* Devices whose latest stream has ended or is ending without a reconnect to show for it.
Unreturned == {d \in Devices : \/ pc[d] = "joining"
                               \/ d \in late /\ pc[d] \in {"connecting", "returned"}}

\* Every detection sent is acked, under way or lost to a fault.
SentOK ==
  /\ IsFiniteSet(Units(InFlight))
  /\ stats.acked + Cardinality(Units(InFlight)) <= stats.sent
  /\ FaultFree => stats.acked + Cardinality(Units(InFlight)) = stats.sent

\* A forced disconnect is followed by a reconnect, or is the last its device had time for.
ForcedOK == stats.forced <= stats.reconnects + Cardinality(Unreturned)

\* The exit code is that of the final counts.
ExitOK ==
  exit # -1 => /\ \A d \in Devices : pc[d] = "returned"
               /\ exit = IF stats.sent > 0 /\ stats.acked = 0 THEN 1 ELSE 0

\* The inductive invariant.
FleetInv ==
  /\ FleetTypes
  /\ \A d \in Devices : StreamOK(d) /\ CleanOK(d)
  /\ lost <= refused
  /\ SentOK /\ ForcedOK /\ ExitOK

\* A cut stream keeps a prefix of its detections and some of its acks.
LEMMA CutTypes ==
  ASSUME FleetTypes, NEW d \in Devices, Fleet!Cut(d)
  PROVE  /\ toGw' \in [Devices -> Seq(Nat)] /\ acks' \in [Devices -> Nat]
         /\ link' \in [Devices -> {"none", "up", "draining", "cut", "ended"}]
<1>1. PICK k \in 0 .. Len(toGw[d]) : toGw' = [toGw EXCEPT ![d] = SubSeq(@, 1, k)]
  BY Zenon DEF Fleet!Cut
<1>2. SubSeq(toGw[d], 1, k) \in Seq(Nat)
  BY DEF FleetTypes
<1>3. PICK j \in 0 .. acks[d] : acks' = [acks EXCEPT ![d] = j]
  BY Zenon DEF Fleet!Cut
<1>4. link' = [link EXCEPT ![d] = IF @ = "ended" THEN @ ELSE "cut"]
  BY DEF Fleet!Cut
<1> QED BY <1>1, <1>2, <1>3, <1>4 DEF FleetTypes

\* A counter of the simulator's Stats stays one when a thread adds to it.
LEMMA StatsCount ==
  ASSUME NEW s \in Stats
  PROVE  /\ [s EXCEPT !.sent = @ + 1] \in Stats
         /\ [s EXCEPT !.acked = @ + 1] \in Stats
         /\ [s EXCEPT !.reconnects = @ + 1] \in Stats
         /\ [s EXCEPT !.forced = @ + 1] \in Stats
<1>1. [s EXCEPT !.sent = @ + 1] \in Stats
  BY DEF Stats
<1>2. [s EXCEPT !.acked = @ + 1] \in Stats
  BY DEF Stats
<1>3. [s EXCEPT !.reconnects = @ + 1] \in Stats
  BY DEF Stats
<1>4. [s EXCEPT !.forced = @ + 1] \in Stats
  BY SMTT(40) DEF Stats
<1> QED
  BY <1>1, <1>2, <1>3, <1>4

\* The simulator, the gateway and the network keep the types.  A handler counts no
\* negative gap, as numbers in a stream ascend.
LEMMA FleetTypesStep ==
  ASSUME FleetTypes, \A d \in Devices : StreamOK(d), [Fleet!Next]_(Fleet!vars)
  PROVE  FleetTypes'
<1> USE DEF FleetTypes
<1>0. /\ [stats EXCEPT !.sent = @ + 1] \in Stats
      /\ [stats EXCEPT !.acked = @ + 1] \in Stats
      /\ [stats EXCEPT !.reconnects = @ + 1] \in Stats
      /\ [stats EXCEPT !.forced = @ + 1] \in Stats
  <2> stats \in Stats
    OBVIOUS
  <2> HIDE DEF FleetTypes
  <2> QED BY StatsCount
<1>1. ASSUME NEW d \in Devices, Fleet!Spawn(d) PROVE FleetTypes'
  BY <1>1 DEF Fleet!Spawn
<1>2. ASSUME NEW d \in Devices, Fleet!Deadline(d) PROVE FleetTypes'
  BY <1>2 DEF Fleet!Deadline
<1>3. ASSUME NEW d \in Devices, Fleet!Connect(d) PROVE FleetTypes'
  BY Zenon, <1>3 DEF Fleet!Connect, Fleet!Hello, Fleet!NoHandler, Handlers
<1>4. ASSUME NEW d \in Devices, Fleet!Send(d) PROVE FleetTypes'
  <2>1. seq' \in [Devices -> Nat] /\ UNCHANGED <<handler, faults, exit, lost, refused>>
    BY <1>4 DEF Fleet!Send
  <2>2. CASE /\ toGw' = IF link[d] = "up" THEN [toGw EXCEPT ![d] = Append(@, seq[d])] ELSE toGw
             /\ stats' = [stats EXCEPT !.sent = @ + 1]
             /\ UNCHANGED <<pc, link, acks>>
    BY <1>0, <2>1, <2>2
  <2>3. CASE pc' = [pc EXCEPT ![d] = "joining"] /\ Fleet!Cut(d) /\ UNCHANGED stats
    BY <2>1, <2>3, CutTypes
  <2> QED BY Zenon, <1>4, <2>2, <2>3 DEF Fleet!Send
<1>5. ASSUME NEW d \in Devices, Fleet!ForcedDisconnect(d) PROVE FleetTypes'
  <2>1. Fleet!Cut(d) /\ pc' = [pc EXCEPT ![d] = "joining"]
    BY <1>5 DEF Fleet!ForcedDisconnect
  <2> QED BY <1>0, <1>5, <2>1, CutTypes DEF Fleet!ForcedDisconnect
<1>6. ASSUME NEW d \in Devices, Fleet!Leave(d) PROVE FleetTypes'
  BY <1>6 DEF Fleet!Leave
<1>7. ASSUME NEW d \in Devices, Fleet!ReadAck(d) PROVE FleetTypes'
  BY <1>0, <1>7 DEF Fleet!ReadAck, Fleet!device
<1>8. ASSUME NEW d \in Devices, Fleet!Rejoin(d) PROVE FleetTypes'
  BY <1>0, <1>8 DEF Fleet!Rejoin
<1>9. ASSUME NEW d \in Devices, Fleet!Return(d) PROVE FleetTypes'
  BY <1>9 DEF Fleet!Return
<1>10. ASSUME NEW d \in Devices, Fleet!Break(d) PROVE FleetTypes'
  <2>1. Fleet!Cut(d) /\ faults' = faults + 1 /\ UNCHANGED <<pc, seq, handler, stats, exit, lost, refused>>
    BY <1>10 DEF Fleet!Break, Fleet!device
  <2> QED BY <2>1, CutTypes
<1>11. ASSUME NEW d \in Devices, Fleet!Handle(d) PROVE FleetTypes'
  <2>1. toGw[d] # <<>> /\ Head(toGw[d]) = toGw[d][1] /\ Head(toGw[d]) \in Nat
    BY <1>11 DEF Fleet!Handle
  <2>2. handler[d].gap + Fleet!Gap(handler[d], Head(toGw[d])) \in Nat
    BY <2>1 DEF Fleet!Gap, StreamOK, SkippedAreRejected, Handlers
  <2>3. handler' \in [Devices -> Handlers]
    BY <1>11, <2>1, <2>2 DEF Fleet!Handle, Handlers
  <2>4. Tail(toGw[d]) \in Seq(Nat)
    BY <2>1
  <2>5. toGw' \in [Devices -> Seq(Nat)] /\ acks' \in [Devices -> Nat]
    BY <1>11, <2>4 DEF Fleet!Handle
  <2> QED BY <1>11, <2>3, <2>5 DEF Fleet!Handle, Fleet!device
<1>12. ASSUME NEW d \in Devices, Fleet!Reject(d) PROVE FleetTypes'
  <2>1. Tail(toGw[d]) \in Seq(Nat)
    BY <1>12 DEF Fleet!Reject
  <2>2. handler[d] \in Handlers /\ handler[d].limited + 1 \in Nat /\ handler[d].failed + 1 \in Nat
    BY DEF Handlers
  <2>3. \A h \in Handlers, m \in Nat :
          [h EXCEPT !.limited = m] \in Handlers /\ [h EXCEPT !.failed = m] \in Handlers
    BY Zenon DEF Handlers
  <2>4. handler' \in [Devices -> Handlers]
    <3>1. CASE handler' = [handler EXCEPT ![d].limited = @ + 1]
      BY <2>2, <2>3, <3>1
    <3>2. CASE handler' = [handler EXCEPT ![d].failed = @ + 1]
      BY <2>2, <2>3, <3>2
    <3> QED BY Zenon, <1>12, <3>1, <3>2 DEF Fleet!Reject
  <2> QED BY <1>12, <2>1, <2>4 DEF Fleet!Reject, Fleet!device
<1>13. ASSUME NEW d \in Devices, Fleet!AckFails(d) PROVE FleetTypes'
  <2>1. <<>> \in Seq(Nat)
    OBVIOUS
  <2> QED BY <1>13, <2>1 DEF Fleet!AckFails, Fleet!device
<1>14. ASSUME NEW d \in Devices, Fleet!EndHandler(d) PROVE FleetTypes'
  <2>1. handler[d].gap \in Nat /\ handler[d].limited \in Nat /\ handler[d].failed \in Nat
    BY DEF Handlers
  <2>2. lost' \in Nat /\ refused' \in Nat
    BY <1>14, <2>1 DEF Fleet!EndHandler
  <2> QED BY <1>14, <2>2 DEF Fleet!EndHandler, Fleet!device
<1>15. CASE Fleet!Summary
  BY <1>15 DEF Fleet!Summary, Fleet!device
<1>16. CASE UNCHANGED Fleet!vars
  BY <1>16 DEF Fleet!vars, Fleet!device
<1> QED BY ZenonT(40), <1>1, <1>2, <1>3, <1>4, <1>5, <1>6, <1>7, <1>8, <1>9, <1>10, <1>11, <1>12,
           <1>13, <1>14, <1>15, <1>16 DEF Fleet!Next

\* A step that does not touch device e or its stream.
Untouched(e) ==
  /\ pc'[e] = pc[e] /\ link'[e] = link[e] /\ seq'[e] = seq[e] /\ acks'[e] = acks[e]
  /\ toGw'[e] = toGw[e] /\ handler'[e] = handler[e]

\* StreamOK(e) is about device e only.
LEMMA UntouchedStream ==
  ASSUME NEW e \in Devices, StreamOK(e), Untouched(e)
  PROVE  StreamOK(e)'
BY DEF StreamOK, SkippedAreRejected, Untouched

\* A prefix of what is under way is as good, on a stream that is no longer up.
LEMMA CutStream ==
  ASSUME FleetTypes, NEW d \in Devices, StreamOK(d), Fleet!Cut(d),
         pc[d] \notin {"connecting", "returned"}, pc'[d] \notin {"connecting", "returned"},
         handler' = handler
  PROVE  StreamOK(d)' /\ \A e \in Devices \ {d} : /\ toGw'[e] = toGw[e] /\ acks'[e] = acks[e]
                                                  /\ link'[e] = link[e]
<1> USE DEF FleetTypes
<1>1. PICK k \in 0 .. Len(toGw[d]) : toGw' = [toGw EXCEPT ![d] = SubSeq(@, 1, k)]
  BY Zenon DEF Fleet!Cut
<1>2. toGw'[d] = SubSeq(toGw[d], 1, k)
  BY <1>1
<1>3. /\ Len(toGw'[d]) = k /\ (k = 0 => toGw'[d] = <<>>)
      /\ \A i \in 1 .. k : toGw'[d][i] = toGw[d][i]
      /\ toGw[d] = <<>> => k = 0
  BY <1>2
<1>4. link'[d] # "up" /\ (link'[d] \in {"none", "ended"} => link[d] = "ended")
  BY DEF Fleet!Cut
<1>5. \A e \in Devices \ {d} : /\ toGw'[e] = toGw[e] /\ acks'[e] = acks[e]
                               /\ link'[e] = link[e]
  BY DEF Fleet!Cut
<1>6. link'[d] \in {"none", "ended"} => toGw'[d] = <<>>
  BY <1>3, <1>4 DEF StreamOK
<1>7. \A i \in 1 .. Len(toGw'[d]) - 1 : toGw'[d][i + 1] = toGw'[d][i] + 1
  <2>1. \A i \in 1 .. Len(toGw[d]) - 1 : toGw[d][i + 1] = toGw[d][i] + 1
    BY DEF StreamOK
  <2>2. ASSUME NEW i \in 1 .. k - 1 PROVE toGw'[d][i + 1] = toGw'[d][i] + 1
    <3>1. i \in 1 .. k /\ i + 1 \in 1 .. k /\ i \in 1 .. Len(toGw[d]) - 1
      OBVIOUS
    <3> QED BY Zenon, <1>3, <2>1, <3>1
  <2> QED BY <1>3, <2>2
<1>8. toGw'[d] # <<>> => toGw[d] # <<>> /\ toGw'[d][1] = toGw[d][1]
  BY <1>2, <1>3
<1> QED BY <1>4, <1>5, <1>6, <1>7, <1>8 DEF StreamOK, SkippedAreRejected

\* The handler's state after it took detection n.
Accepted(h, n) ==
  [last |-> n, resync |-> FALSE, gap |-> h.gap + Fleet!Gap(h, n), limited |-> h.limited,
   failed |-> h.failed]

\* The handler's counters leave room for its gap, also before a detection numbered n.
Room(h, n) == h.gap <= h.limited + h.failed /\ SkippedAreRejected(h, n)

\* A rejection makes room for one more number.
LEMMA RoomForOne ==
  ASSUME NEW h \in Handlers, NEW r \in Handlers, NEW n \in Nat, Room(h, n),
         r.last = h.last, r.gap = h.gap, r.resync = h.resync,
         r.limited + r.failed = h.limited + h.failed + 1
  PROVE  Room(r, n + 1)
<1> DEFINE last == h.last
           gap == h.gap
           total == h.limited + h.failed
<1>1. last \in Nat /\ gap \in Nat /\ total \in Nat /\ gap <= total
  BY DEF Handlers, Room
<1>2. h.resync \/ (n > last /\ gap + (n - last - 1) <= total)
  BY DEF Room, SkippedAreRejected
<1>3. r.last = last /\ r.gap = gap /\ r.limited + r.failed = total + 1
  OBVIOUS
<1> HIDE DEF last, gap, total
<1>4. /\ gap <= total + 1
      /\ h.resync \/ (n + 1 > last /\ gap + ((n + 1) - last - 1) <= total + 1)
  BY <1>1, <1>2
<1> QED BY Zenon, <1>3, <1>4 DEF Room, SkippedAreRejected

\* Taking the next detection adds to the gap no more than what was rejected;
\* rejecting it makes room for one more.
LEMMA HandlerCounts ==
  ASSUME NEW h \in Handlers, NEW n \in Nat, Room(h, n)
  PROVE  /\ Room(Accepted(h, n), n + 1)
         /\ Room([h EXCEPT !.limited = @ + 1], n + 1)
         /\ Room([h EXCEPT !.failed = @ + 1], n + 1)
<1> DEFINE last == h.last
           gap == h.gap
           total == h.limited + h.failed
           new == IF h.resync THEN 0 ELSE n - last - 1
<1>1. last \in Nat /\ gap \in Nat /\ total \in Nat /\ gap <= total
  BY DEF Handlers, Room
<1>2. h.resync \/ (n > last /\ gap + (n - last - 1) <= total)
  BY DEF Room, SkippedAreRejected
<1>3. /\ Accepted(h, n).last = n /\ Accepted(h, n).gap = gap + new
      /\ Accepted(h, n).limited + Accepted(h, n).failed = total /\ Accepted(h, n).resync = FALSE
  BY DEF Accepted, Fleet!Gap
<1>4. LET r == [h EXCEPT !.limited = @ + 1]
      IN /\ r \in Handlers /\ r.last = h.last /\ r.gap = h.gap /\ r.resync = h.resync
         /\ r.limited + r.failed = h.limited + h.failed + 1
  BY SMTT(40) DEF Handlers
<1>5. LET r == [h EXCEPT !.failed = @ + 1]
      IN /\ r \in Handlers /\ r.last = h.last /\ r.gap = h.gap /\ r.resync = h.resync
         /\ r.limited + r.failed = h.limited + h.failed + 1
  BY SMTT(40) DEF Handlers
<1>6. new \in Nat /\ gap + new <= total
  BY <1>1, <1>2
<1> HIDE DEF last, gap, total, new
<1>7. n + 1 > n /\ (gap + new) + ((n + 1) - n - 1) <= total
  BY <1>1, <1>6
<1>8. Room(Accepted(h, n), n + 1)
  BY <1>3, <1>6, <1>7 DEF Room, SkippedAreRejected
<1>9. Room([h EXCEPT !.limited = @ + 1], n + 1)
  BY Zenon, <1>4, RoomForOne
<1>10. Room([h EXCEPT !.failed = @ + 1], n + 1)
  BY Zenon, <1>5, RoomForOne
<1> QED BY <1>8, <1>9, <1>10

\* Consecutive numbers, and what is left of them when the first is taken.
Consecutive(q) == \A i \in 1 .. Len(q) - 1 : q[i + 1] = q[i] + 1

Taken(q, r) ==
  /\ Head(q) = q[1] /\ q[1] \in Nat /\ Consecutive(r)
  /\ r # <<>> => r[1] = q[1] + 1 /\ r[Len(r)] = q[Len(q)]
  /\ r = <<>> => q[Len(q)] = q[1]

\* Only the empty sequence has no element.
LEMMA NoElement ==
  ASSUME NEW q \in Seq(Nat)
  PROVE  q = <<>> <=> Len(q) = 0
OBVIOUS

\* They are the same numbers without the first, hence consecutive.
LEMMA TakeFirst ==
  ASSUME NEW q \in Seq(Nat), q # <<>>, Consecutive(q), NEW r, r = Tail(q)
  PROVE  Taken(q, r)
<1>0. /\ Len(q) \in Nat /\ Len(q) > 0 /\ Head(q) = q[1] /\ q[1] \in Nat
      /\ r \in Seq(Nat) /\ Len(r) = Len(q) - 1
  OBVIOUS
<1>1. \A i \in 1 .. Len(r) : r[i] = q[i + 1]
  OBVIOUS
<1>2. r = <<>> => Len(r) = 0
  BY <1>0, NoElement, Zenon
<1>3. r # <<>> => Len(r) # 0
  BY <1>0, NoElement, Zenon
<1>4. ASSUME NEW i \in 1 .. Len(r) - 1 PROVE r[i + 1] = r[i] + 1
  <2>1. i \in 1 .. Len(r) /\ i + 1 \in 1 .. Len(r) /\ i + 1 \in 1 .. Len(q) - 1
    BY <1>0, <1>4
  <2> QED BY <1>1, <2>1, Zenon DEF Consecutive
<1>5. ASSUME r # <<>> PROVE r[1] = q[1] + 1 /\ r[Len(r)] = q[Len(q)]
  <2>1. /\ 1 \in 1 .. Len(r) /\ 1 \in 1 .. Len(q) - 1 /\ Len(r) \in 1 .. Len(r)
        /\ Len(r) + 1 = Len(q)
    BY <1>0, <1>3, <1>5
  <2> QED BY <1>1, <2>1, Zenon DEF Consecutive
<1>6. r = <<>> => Len(q) = 1
  BY <1>0, <1>2
<1> QED BY <1>0, <1>4, <1>5, <1>6, Zenon DEF Taken, Consecutive

\* Every step of the simulator, the gateway and the network keeps the streams in order.
LEMMA StreamStep ==
  ASSUME FleetTypes, \A d \in Devices : StreamOK(d), [Fleet!Next]_(Fleet!vars)
  PROVE  \A e \in Devices : StreamOK(e)'
<1> USE DEF FleetTypes
<1>0. ASSUME NEW d \in Devices, StreamOK(d)', \A e \in Devices \ {d} : Untouched(e)
      PROVE  \A e \in Devices : StreamOK(e)'
  BY <1>0, UntouchedStream
<1>1. CASE \/ Fleet!Summary \/ UNCHANGED Fleet!vars
           \/ \E d \in Devices : Fleet!Spawn(d) \/ Fleet!Deadline(d)
  <2>1. UNCHANGED <<pc, link, seq, acks, toGw, handler>>
    BY <1>1 DEF Fleet!Summary, Fleet!Spawn, Fleet!Deadline, Fleet!vars, Fleet!device
  <2> QED BY <2>1, UntouchedStream DEF Untouched
<1>2. ASSUME NEW d \in Devices, Fleet!Connect(d) PROVE \A e \in Devices : StreamOK(e)'
  <2>1. \A e \in Devices \ {d} : Untouched(e)
    BY <1>2 DEF Fleet!Connect, Untouched
  <2>2. /\ toGw[d] = <<>> /\ toGw' = toGw /\ pc'[d] = "sending" /\ link'[d] = "up"
        /\ handler'[d] = [last |-> 0, resync |-> TRUE, gap |-> 0, limited |-> 0, failed |-> 0]
    BY Zenon, <1>2 DEF Fleet!Connect, Fleet!Hello, Fleet!NoHandler, StreamOK
  <2>3. StreamOK(d)'
    BY SMTT(40), <2>2 DEF StreamOK, SkippedAreRejected
  <2> QED BY Zenon, <1>0, <2>1, <2>3
<1>3. ASSUME NEW d \in Devices, Fleet!Send(d) PROVE \A e \in Devices : StreamOK(e)'
  <2>1. /\ pc[d] = "sending" /\ seq' = [seq EXCEPT ![d] = @ + 1] /\ handler' = handler
    BY <1>3 DEF Fleet!Send
  <2>2. CASE link[d] = "up" /\ toGw' = [toGw EXCEPT ![d] = Append(@, seq[d])]
             /\ UNCHANGED <<pc, link, acks>>
    <3>1. \A e \in Devices \ {d} : Untouched(e)
      BY <2>1, <2>2 DEF Untouched
    <3>2. /\ toGw'[d] = Append(toGw[d], seq[d]) /\ toGw'[d] # <<>>
          /\ seq'[d] = seq[d] + 1 /\ link'[d] = "up" /\ pc'[d] = "sending"
      BY <2>1, <2>2, SMTT(30)
    <3>3. /\ Len(toGw'[d]) = Len(toGw[d]) + 1
          /\ \A i \in 1 .. Len(toGw[d]) : toGw'[d][i] = toGw[d][i]
          /\ toGw'[d][Len(toGw[d]) + 1] = seq[d]
      BY <3>2
    <3> SUFFICES StreamOK(d)'
      BY Zenon, <1>0, <3>1
    <3>4. CASE toGw[d] = <<>>
      BY SMTT(40), <2>1, <2>2, <3>2, <3>3, <3>4 DEF StreamOK, SkippedAreRejected
    <3>5. CASE toGw[d] # <<>>
      <4>1. seq[d] = toGw[d][Len(toGw[d])] + 1 /\ Len(toGw[d]) > 0
        BY <2>2, <3>5 DEF StreamOK
      <4>2. ASSUME NEW i \in 1 .. Len(toGw[d]) PROVE toGw'[d][i + 1] = toGw'[d][i] + 1
        <5>1. CASE i = Len(toGw[d])
          BY <3>3, <4>1, <5>1
        <5>2. CASE i # Len(toGw[d])
          <6>1. i \in 1 .. Len(toGw[d]) - 1 /\ i + 1 \in 1 .. Len(toGw[d])
            BY <5>2
          <6>2. toGw[d][i + 1] = toGw[d][i] + 1
            BY <6>1 DEF StreamOK
          <6> QED BY SMTT(40), <3>3, <6>1, <6>2
        <5> QED BY <5>1, <5>2
      <4>3. 1 \in 1 .. Len(toGw[d]) /\ toGw'[d][1] = toGw[d][1]
        <5>1. 1 \in 1 .. Len(toGw[d])
          BY <4>1
        <5> QED BY Zenon, <3>3, <5>1
      <4>4. \A i \in 1 .. Len(toGw'[d]) - 1 : toGw'[d][i + 1] = toGw'[d][i] + 1
        BY <3>3, <4>2
      <4>5. seq'[d] = toGw'[d][Len(toGw'[d])] + 1
        BY <3>2, <3>3
      <4>6. /\ handler'[d].gap <= handler'[d].limited + handler'[d].failed
            /\ SkippedAreRejected(handler'[d], toGw'[d][1])
        BY <2>1, <3>5, <4>3 DEF StreamOK
      <4> QED BY Zenon, <2>1, <3>2, <4>3, <4>4, <4>5, <4>6 DEF StreamOK
    <3> QED BY <3>4, <3>5
  <2>3. CASE link[d] # "up" /\ toGw' = toGw /\ UNCHANGED <<pc, link, acks>>
    <3>1. \A e \in Devices \ {d} : Untouched(e)
      BY <2>1, <2>3 DEF Untouched
    <3>2. StreamOK(d)'
      BY <2>1, <2>3 DEF StreamOK, SkippedAreRejected
    <3> QED BY Zenon, <1>0, <3>1, <3>2
  <2>4. CASE link[d] # "up" /\ pc' = [pc EXCEPT ![d] = "joining"] /\ Fleet!Cut(d)
    <3>1. StreamOK(d)' /\ \A e \in Devices \ {d} : Untouched(e)
      BY Zenon, <2>1, <2>4, CutStream DEF Untouched
    <3> QED BY Zenon, <1>0, <3>1
  <2> QED BY SMTT(40), <1>3, <2>2, <2>3, <2>4 DEF Fleet!Send
<1>4. ASSUME NEW d \in Devices, Fleet!ForcedDisconnect(d) PROVE \A e \in Devices : StreamOK(e)'
  <2>1. /\ pc[d] = "sending" /\ pc' = [pc EXCEPT ![d] = "joining"] /\ Fleet!Cut(d)
        /\ UNCHANGED <<seq, handler>>
    BY <1>4 DEF Fleet!ForcedDisconnect
  <2>2. StreamOK(d)' /\ \A e \in Devices \ {d} : Untouched(e)
    BY Zenon, <2>1, CutStream DEF Untouched
  <2> QED BY Zenon, <1>0, <2>2
<1>5. ASSUME NEW d \in Devices, Fleet!Break(d) PROVE \A e \in Devices : StreamOK(e)'
  <2>1. /\ pc[d] \notin {"connecting", "returned"} /\ Fleet!Cut(d)
        /\ UNCHANGED <<pc, seq, handler>>
    BY <1>5 DEF Fleet!Break, Fleet!device, StreamOK
  <2>2. StreamOK(d)' /\ \A e \in Devices \ {d} : Untouched(e)
    BY <2>1, CutStream DEF Untouched
  <2> QED BY Zenon, <1>0, <2>2
<1>6. ASSUME NEW d \in Devices, Fleet!Leave(d) \/ Fleet!Rejoin(d) \/ Fleet!Return(d)
                                  \/ Fleet!ReadAck(d) \/ Fleet!EndHandler(d)
      PROVE  \A e \in Devices : StreamOK(e)'
  <2>1. \A e \in Devices \ {d} : Untouched(e)
    BY <1>6 DEF Fleet!Leave, Fleet!Rejoin, Fleet!Return, Fleet!ReadAck, Fleet!EndHandler,
                Fleet!device, Untouched
  <2>2. StreamOK(d)'
    BY SMTT(40), <1>6 DEF Fleet!Leave, Fleet!Over, Fleet!Rejoin, Fleet!Return, Fleet!ReadAck,
                Fleet!EndHandler, Fleet!device, StreamOK, SkippedAreRejected
  <2> QED BY Zenon, <1>0, <2>1, <2>2
<1>7. ASSUME NEW d \in Devices, Fleet!AckFails(d) PROVE \A e \in Devices : StreamOK(e)'
  <2>1. \A e \in Devices \ {d} : Untouched(e)
    BY <1>7 DEF Fleet!AckFails, Fleet!device, Untouched
  <2>2. StreamOK(d)'
    BY SMTT(40), <1>7 DEF Fleet!AckFails, Fleet!device, StreamOK
  <2> QED BY Zenon, <1>0, <2>1, <2>2
<1>8. ASSUME NEW d \in Devices, Fleet!Handle(d) \/ Fleet!Reject(d)
      PROVE  \A e \in Devices : StreamOK(e)'
  <2>1. \A e \in Devices \ {d} : Untouched(e)
    BY <1>8 DEF Fleet!Handle, Fleet!Reject, Fleet!device, Untouched
  <2>2. /\ toGw[d] # <<>> /\ toGw'[d] = Tail(toGw[d])
        /\ pc' = pc /\ link' = link /\ seq' = seq
        /\ pc[d] \notin {"connecting", "returned"} /\ link[d] \notin {"none", "ended"}
    BY SMTT(40), <1>8 DEF Fleet!Handle, Fleet!Reject, Fleet!device, StreamOK
  <2>3. toGw[d] \in Seq(Nat) /\ Consecutive(toGw[d])
    BY DEF StreamOK, Consecutive
  <2>4. Taken(toGw[d], toGw'[d])
    BY <2>2, <2>3, TakeFirst, Zenon
  <2>5. Room(handler'[d], toGw[d][1] + 1)
    <3>1. handler[d] \in Handlers /\ Room(handler[d], toGw[d][1])
      BY <2>2 DEF StreamOK, Room
    <3>2. toGw[d][1] \in Nat
      BY <2>4 DEF Taken
    <3>3. CASE Fleet!Handle(d)
      <4>1. handler'[d] = Accepted(handler[d], toGw[d][1])
        BY <2>4, <3>3 DEF Fleet!Handle, Accepted, Taken
      <4> QED BY Zenon, <3>1, <3>2, <4>1, HandlerCounts
    <3>4. CASE Fleet!Reject(d)
      <4>1. \/ handler'[d] = [handler[d] EXCEPT !.limited = @ + 1]
            \/ handler'[d] = [handler[d] EXCEPT !.failed = @ + 1]
        BY <3>4 DEF Fleet!Reject
      <4> QED BY Zenon, <3>1, <3>2, <4>1, HandlerCounts
    <3> QED BY Zenon, <1>8, <3>3, <3>4
  <2>6. link[d] = "up" => seq[d] = toGw[d][Len(toGw[d])] + 1
    BY <2>2 DEF StreamOK
  <2>7. link[d] = "up" => IF toGw'[d] = <<>> THEN seq[d] = toGw[d][1] + 1
                                             ELSE seq[d] = toGw'[d][Len(toGw'[d])] + 1
    BY <2>4, <2>6, Zenon DEF Taken
  <2>8. StreamOK(d)'
    <3>1. /\ link'[d] = link[d] /\ link'[d] \notin {"none", "ended"} /\ seq'[d] = seq[d]
          /\ pc'[d] \notin {"connecting", "returned"}
      BY Zenon, <2>2
    <3>2. \A k \in 1 .. Len(toGw'[d]) - 1 : toGw'[d][k + 1] = toGw'[d][k] + 1
      BY Zenon, <2>4 DEF Taken, Consecutive
    <3>3. toGw'[d] # <<>> => SkippedAreRejected(handler'[d], toGw'[d][1])
      BY Zenon, <2>4, <2>5 DEF Taken, Room
    <3>4. link'[d] = "up" => IF toGw'[d] = <<>> THEN SkippedAreRejected(handler'[d], seq'[d])
                                                ELSE seq'[d] = toGw'[d][Len(toGw'[d])] + 1
      BY Zenon, <2>5, <2>7, <3>1 DEF Room
    <3> QED BY Zenon, <2>5, <3>1, <3>2, <3>3, <3>4 DEF StreamOK, Room
  <2> QED BY Zenon, <1>0, <2>1, <2>8
<1> QED BY <1>1, <1>2, <1>3, <1>4, <1>5, <1>6, <1>7, <1>8 DEF Fleet!Next

\* Without a fault or a forced disconnect no stream is cut while its device sends.
LEMMA CleanStep ==
  ASSUME FleetTypes, \A d \in Devices : StreamOK(d) /\ CleanOK(d), [Fleet!Next]_(Fleet!vars)
  PROVE  \A e \in Devices : CleanOK(e)'
<1> USE DEF FleetTypes
<1> SUFFICES ASSUME NEW e \in Devices, FaultFree'
             PROVE  link'[e] # "cut" /\ (pc'[e] = "sending" => link'[e] = "up")
  BY Zenon DEF CleanOK
<1>0. FaultFree => link[e] # "cut" /\ (pc[e] = "sending" => link[e] = "up")
  BY SMTT(40) DEF CleanOK
<1>1. CASE \/ Fleet!Summary \/ UNCHANGED Fleet!vars
           \/ \E d \in Devices : \/ Fleet!Spawn(d) \/ Fleet!Deadline(d) \/ Fleet!Handle(d)
  BY <1>0, <1>1 DEF Fleet!Summary, Fleet!Spawn, Fleet!Deadline, Fleet!Handle, Fleet!vars,
                    Fleet!device, FaultFree
<1>2. ASSUME NEW d \in Devices, \/ Fleet!Connect(d) \/ Fleet!Leave(d) \/ Fleet!Return(d)
                                \/ Fleet!AckFails(d)
      PROVE  link'[e] # "cut" /\ (pc'[e] = "sending" => link'[e] = "up")
  BY SMTT(40), <1>0, <1>2 DEF Fleet!Connect, Fleet!Leave, Fleet!Return, Fleet!AckFails,
                    Fleet!device, FaultFree, CleanOK
<1>3. ASSUME NEW d \in Devices, Fleet!Send(d)
      PROVE  link'[e] # "cut" /\ (pc'[e] = "sending" => link'[e] = "up")
  <2>1. FaultFree
    BY <1>3 DEF Fleet!Send, FaultFree, Stats
  <2>2. link[d] = "up"
    BY <1>3, <2>1 DEF Fleet!Send, CleanOK
  <2> QED BY <1>0, <1>3, <2>1, <2>2 DEF Fleet!Send
<1>4. ASSUME NEW d \in Devices, Fleet!ForcedDisconnect(d) PROVE FALSE
  BY <1>4 DEF Fleet!ForcedDisconnect, FaultFree, Stats
<1>5. ASSUME NEW d \in Devices, Fleet!Break(d) \/ Fleet!Reject(d) PROVE FALSE
  BY <1>5 DEF Fleet!Break, Fleet!Reject, FaultFree
<1>6. ASSUME NEW d \in Devices, Fleet!EndHandler(d)
      PROVE  link'[e] # "cut" /\ (pc'[e] = "sending" => link'[e] = "up")
  BY <1>0, <1>6 DEF Fleet!EndHandler, Fleet!device, FaultFree
<1>7. ASSUME NEW d \in Devices, Fleet!Rejoin(d) \/ Fleet!ReadAck(d)
      PROVE  link'[e] # "cut" /\ (pc'[e] = "sending" => link'[e] = "up")
  <2>1. FaultFree
    BY <1>7 DEF Fleet!Rejoin, Fleet!ReadAck, FaultFree, Stats
  <2> QED BY <1>0, <1>7, <2>1 DEF Fleet!Rejoin, Fleet!ReadAck, Fleet!device
<1> QED BY Zenon, <1>1, <1>2, <1>3, <1>4, <1>5, <1>6, <1>7 DEF Fleet!Next

\* Raising one count by one adds an element.
LEMMA UnitsRaise ==
  ASSUME NEW f \in [Devices -> Nat], NEW d \in Devices, IsFiniteSet(Units(f))
  PROVE  LET g == [f EXCEPT ![d] = @ + 1] IN
         IsFiniteSet(Units(g)) /\ Cardinality(Units(g)) = Cardinality(Units(f)) + 1
<1> DEFINE g == [f EXCEPT ![d] = @ + 1]
           u == <<d, f[d]>>
<1>1. u \notin Units(f)
  BY DEF Units
<1>2. ASSUME NEW p \in Devices \X Nat
      PROVE  p \in Units(g) <=> p \in Units(f) \/ p = u
  <2>1. p[1] \in Devices /\ p[2] \in Nat /\ p = <<p[1], p[2]>>
    OBVIOUS
  <2>2. CASE p[1] = d
    BY <2>1, <2>2 DEF Units
  <2>3. CASE p[1] # d
    BY <2>1, <2>3 DEF Units
  <2> QED BY <2>2, <2>3
<1>3. Units(g) \subseteq Devices \X Nat /\ Units(f) \subseteq Devices \X Nat /\ u \in Devices \X Nat
  BY DEF Units
<1>4. Units(g) = Units(f) \cup {u}
  BY <1>2, <1>3, Zenon
<1>5. /\ IsFiniteSet(Units(f) \cup {u})
      /\ Cardinality(Units(f) \cup {u}) = Cardinality(Units(f)) + 1
  BY <1>1, FS_AddElement
<1> QED BY Zenon, <1>4, <1>5

\* Lowering one count leaves a subset.
LEMMA UnitsLower ==
  ASSUME NEW f \in [Devices -> Nat], NEW d \in Devices, NEW k \in Nat, k <= f[d],
         IsFiniteSet(Units(f))
  PROVE  LET g == [f EXCEPT ![d] = k] IN
         /\ IsFiniteSet(Units(g)) /\ Cardinality(Units(g)) <= Cardinality(Units(f))
         /\ f[d] = k + 1 => Cardinality(Units(g)) + 1 = Cardinality(Units(f))
<1> DEFINE g == [f EXCEPT ![d] = k]
<1>1. Units(g) \subseteq Units(f)
  BY DEF Units
<1>2. IsFiniteSet(Units(g)) /\ Cardinality(Units(g)) <= Cardinality(Units(f))
  BY Zenon, <1>1, FS_Subset
<1>3. ASSUME f[d] = k + 1 PROVE Cardinality(Units(g)) + 1 = Cardinality(Units(f))
  <2>1. g \in [Devices -> Nat] /\ f = [g EXCEPT ![d] = @ + 1]
    BY Zenon, <1>3
  <2> QED BY <1>2, <2>1, UnitsRaise
<1> QED BY <1>2, <1>3

\* What a step may do to the counts, with nothing but InFlight[d] changed.
LEMMA SentKept ==
  ASSUME FleetTypes, SentOK, NEW d \in Devices, NEW k \in Nat,
         InFlight' = [InFlight EXCEPT ![d] = k],
         \/ /\ k = InFlight[d] + 1
            /\ stats'.sent = stats.sent + 1 /\ stats'.acked = stats.acked
         \/ /\ k <= InFlight[d] /\ ~FaultFree'
            /\ stats'.sent = stats.sent /\ stats'.acked = stats.acked
         \/ /\ k + 1 = InFlight[d]
            /\ stats'.sent = stats.sent /\ stats'.acked = stats.acked + 1
         \/ /\ k = InFlight[d]
            /\ stats'.sent = stats.sent /\ stats'.acked = stats.acked,
         FaultFree' => FaultFree
  PROVE  SentOK'
<1>1. InFlight \in [Devices -> Nat]
  BY DEF InFlight, FleetTypes
<1>2. IsFiniteSet(Units(InFlight)) /\ Cardinality(Units(InFlight)) \in Nat
  BY FS_CardinalityType DEF SentOK
<1>3. stats.sent \in Nat /\ stats.acked \in Nat
  BY DEF FleetTypes, Stats
<1>4. Units(InFlight)' = Units(InFlight')
  BY DEF Units
<1>5. CASE k = InFlight[d] + 1
  <2>1. InFlight' = [InFlight EXCEPT ![d] = @ + 1]
    BY <1>5
  <2>2. /\ IsFiniteSet(Units(InFlight'))
        /\ Cardinality(Units(InFlight')) = Cardinality(Units(InFlight)) + 1
    BY Zenon, <1>1, <1>2, <2>1, UnitsRaise
  <2>3. stats'.sent = stats.sent + 1 /\ stats'.acked = stats.acked
    BY <1>1, <1>5
  <2> QED BY SMTT(40), <1>2, <1>3, <1>4, <2>2, <2>3 DEF SentOK
<1>6. CASE k <= InFlight[d]
  <2>1. /\ IsFiniteSet(Units(InFlight'))
        /\ Cardinality(Units(InFlight')) <= Cardinality(Units(InFlight))
        /\ InFlight[d] = k + 1 =>
             Cardinality(Units(InFlight')) + 1 = Cardinality(Units(InFlight))
    BY Zenon, <1>1, <1>2, <1>6, UnitsLower
  <2>2. Cardinality(Units(InFlight')) \in Nat
    BY <2>1, FS_CardinalityType
  <2>3. k = InFlight[d] => InFlight' = InFlight
    BY <1>1
  <2>4. InFlight[d] \in Nat
    BY <1>1
  <2>5. CASE k + 1 = InFlight[d] /\ stats'.sent = stats.sent /\ stats'.acked = stats.acked + 1
    BY SMTT(40), <1>2, <1>3, <1>4, <2>1, <2>2, <2>5 DEF SentOK
  <2>6. CASE k = InFlight[d] /\ stats'.sent = stats.sent /\ stats'.acked = stats.acked
    BY Zenon, <1>4, <2>1, <2>3, <2>6 DEF SentOK
  <2>7. CASE ~FaultFree' /\ stats'.sent = stats.sent /\ stats'.acked = stats.acked
    BY SMTT(40), <1>2, <1>3, <1>4, <2>1, <2>2, <2>7 DEF SentOK
  <2> QED BY <1>6, <2>4, <2>5, <2>6, <2>7
<1> QED BY <1>1, <1>5, <1>6

\* A cut stream has at most as much under way.
LEMMA CutInFlight ==
  ASSUME FleetTypes, NEW d \in Devices, Fleet!Cut(d)
  PROVE  \E k \in Nat : k <= InFlight[d] /\ InFlight' = [InFlight EXCEPT ![d] = k]
<1> USE DEF FleetTypes
<1>1. PICK i \in 0 .. Len(toGw[d]) : toGw' = [toGw EXCEPT ![d] = SubSeq(@, 1, i)]
  BY Zenon DEF Fleet!Cut
<1>2. PICK j \in 0 .. acks[d] : acks' = [acks EXCEPT ![d] = j]
  BY Zenon DEF Fleet!Cut
<1>3. Len(SubSeq(toGw[d], 1, i)) = i
  BY SMTT(40)
<1>4. j + i \in Nat /\ j + i <= InFlight[d]
  BY DEF InFlight
<1>5. InFlight' = [InFlight EXCEPT ![d] = j + i]
  BY Zenon, <1>1, <1>2, <1>3 DEF InFlight
<1> QED BY Zenon, <1>4, <1>5

\* A step that touches what is under way for device d only.
LEMMA InFlightAt ==
  ASSUME NEW d \in Devices, NEW k, acks'[d] + Len(toGw'[d]) = k,
         \A e \in Devices \ {d} : acks'[e] = acks[e] /\ toGw'[e] = toGw[e]
  PROVE  InFlight' = [InFlight EXCEPT ![d] = k]
BY Zenon DEF InFlight

\* What a message or an ack more or less makes of what is under way.
LEMMA InFlightBecomes ==
  ASSUME NEW d \in Devices, acks[d] \in Nat, Len(toGw[d]) \in Nat
  PROVE  LET now == acks'[d] + Len(toGw'[d]) IN
         /\ acks'[d] = acks[d] /\ Len(toGw'[d]) = Len(toGw[d]) + 1
              => now = InFlight[d] + 1 /\ InFlight[d] + 1 \in Nat
         /\ acks[d] > 0 /\ acks'[d] = acks[d] - 1 /\ Len(toGw'[d]) = Len(toGw[d])
              => now = InFlight[d] - 1 /\ InFlight[d] > 0
         /\ Len(toGw[d]) > 0 /\ acks'[d] = acks[d] /\ Len(toGw'[d]) = Len(toGw[d]) - 1
              => now = InFlight[d] - 1 /\ InFlight[d] > 0
         /\ acks'[d] = acks[d] + 1 /\ Len(toGw'[d]) = Len(toGw[d]) - 1
              => now = InFlight[d]
<1> DEFINE a == acks[d]
           u == Len(toGw[d])
           b == acks'[d]
           v == Len(toGw'[d])
           f == InFlight[d]
<1>1. a \in Nat /\ u \in Nat /\ f = a + u
  BY DEF InFlight
<1> HIDE DEF a, u, b, v, f
<1>2. /\ b = a /\ v = u + 1 => b + v = f + 1 /\ f + 1 \in Nat
      /\ a > 0 /\ b = a - 1 /\ v = u => b + v = f - 1 /\ f > 0
      /\ u > 0 /\ b = a /\ v = u - 1 => b + v = f - 1 /\ f > 0
      /\ b = a + 1 /\ v = u - 1 => b + v = f
  BY <1>1
<1> QED
  BY <1>2, Zenon DEF a, u, b, v, f

\* A detection counted as sent that no stream carries leaves room.
LEMMA OneMoreSent == \A a, m, u \in Nat : a + u <= m => a + u <= m + 1
OBVIOUS

\* Every step keeps account of the detections sent.
LEMMA SentStep ==
  ASSUME FleetTypes, \A d \in Devices : StreamOK(d) /\ CleanOK(d), SentOK,
         [Fleet!Next]_(Fleet!vars)
  PROVE  SentOK'
<1> USE DEF FleetTypes
<1>0. \A d \in Devices : InFlight[d] \in Nat /\ InFlight[d] = acks[d] + Len(toGw[d])
  BY DEF InFlight
<1>11. \A d \in Devices : acks[d] \in Nat /\ Len(toGw[d]) \in Nat
  OBVIOUS
<1>10. \A d \in Devices : InFlight[d] > 0 =>
         InFlight[d] - 1 \in Nat /\ (InFlight[d] - 1) + 1 = InFlight[d]
           /\ InFlight[d] - 1 <= InFlight[d]
  BY <1>0
<1>1. CASE \/ Fleet!Summary \/ UNCHANGED Fleet!vars
           \/ \E d \in Devices : \/ Fleet!Spawn(d) \/ Fleet!Deadline(d) \/ Fleet!Connect(d)
                                 \/ Fleet!Leave(d) \/ Fleet!Return(d) \/ Fleet!EndHandler(d)
  <2>1. UNCHANGED <<acks, toGw, stats, faults>>
    BY <1>1 DEF Fleet!Summary, Fleet!Spawn, Fleet!Deadline, Fleet!Connect, Fleet!Leave,
                Fleet!Return, Fleet!EndHandler, Fleet!vars, Fleet!device
  <2> QED BY SMTT(40), <2>1 DEF SentOK, InFlight, Units, FaultFree
<1>2. ASSUME NEW d \in Devices, Fleet!Rejoin(d) PROVE SentOK'
  <2>1. /\ UNCHANGED <<acks, toGw, faults>> /\ stats'.sent = stats.sent
        /\ stats'.acked = stats.acked /\ stats'.forced = stats.forced
    BY <1>2 DEF Fleet!Rejoin, Stats
  <2> QED BY <2>1 DEF SentOK, InFlight, Units, FaultFree
<1>3. ASSUME NEW d \in Devices, Fleet!Send(d) PROVE SentOK'
  <2>0. FaultFree => link[d] = "up"
    BY <1>3 DEF Fleet!Send, CleanOK
  <2>1. CASE /\ link[d] = "up" /\ toGw' = [toGw EXCEPT ![d] = Append(@, seq[d])]
             /\ stats' = [stats EXCEPT !.sent = @ + 1] /\ UNCHANGED <<acks, faults>>
    <3>1. /\ acks' = acks /\ Len(toGw'[d]) = Len(toGw[d]) + 1
          /\ \A e \in Devices \ {d} : toGw'[e] = toGw[e]
      BY <2>1
    <3>2. InFlight' = [InFlight EXCEPT ![d] = InFlight[d] + 1] /\ InFlight[d] + 1 \in Nat
      <4>1. acks'[d] + Len(toGw'[d]) = InFlight[d] + 1 /\ InFlight[d] + 1 \in Nat
        BY Zenon, <1>11, <3>1, InFlightBecomes
      <4> QED BY <3>1, <4>1, InFlightAt
    <3>3. /\ stats'.sent = stats.sent + 1 /\ stats'.acked = stats.acked
          /\ stats'.forced = stats.forced
      BY <2>1 DEF Stats
    <3> QED BY Zenon, <1>0, <2>1, <3>2, <3>3, SentKept DEF FaultFree
  <2>2. CASE link[d] # "up" /\ stats' = [stats EXCEPT !.sent = @ + 1]
             /\ UNCHANGED <<toGw, acks, faults>>
    <3>1. /\ stats'.sent = stats.sent + 1 /\ stats'.acked = stats.acked
          /\ stats'.forced = stats.forced /\ stats.sent \in Nat /\ stats.acked \in Nat
      BY <2>2 DEF Stats
    <3>2. ~FaultFree'
      BY <2>0, <2>2, <3>1 DEF FaultFree
    <3>3. Units(InFlight)' = Units(InFlight)
      BY <2>2 DEF Units, InFlight
    <3>4. Cardinality(Units(InFlight)) \in Nat
      BY FS_CardinalityType DEF SentOK
    <3> DEFINE u == Cardinality(Units(InFlight))
    <3>5. u \in Nat /\ stats.acked + u <= stats.sent
      BY <3>4 DEF SentOK
    <3>6. IsFiniteSet(Units(InFlight)') /\ Cardinality(Units(InFlight)') = u
      BY <3>3 DEF SentOK
    <3> HIDE DEF u, FleetTypes
    <3>7. stats'.acked + u <= stats'.sent
      BY <3>1, <3>5, OneMoreSent, Zenon
    <3> QED BY <3>2, <3>6, <3>7, Zenon DEF SentOK
  <2>3. CASE link[d] # "up" /\ Fleet!Cut(d) /\ UNCHANGED <<stats, faults>>
    BY Zenon, <2>0, <2>3, CutInFlight, SentKept DEF FaultFree
  <2> QED BY <1>3, <2>1, <2>2, <2>3 DEF Fleet!Send
<1>4. ASSUME NEW d \in Devices, Fleet!ForcedDisconnect(d) PROVE SentOK'
  <2>1. /\ Fleet!Cut(d) /\ ~FaultFree'
        /\ stats'.sent = stats.sent /\ stats'.acked = stats.acked
    BY <1>4 DEF Fleet!ForcedDisconnect, Stats, FaultFree
  <2> QED BY Zenon, <2>1, CutInFlight, SentKept
<1>5. ASSUME NEW d \in Devices, Fleet!Break(d) PROVE SentOK'
  <2>1. Fleet!Cut(d) /\ ~FaultFree' /\ UNCHANGED stats
    BY <1>5 DEF Fleet!Break, FaultFree
  <2> QED BY Zenon, <2>1, CutInFlight, SentKept
<1>6. ASSUME NEW d \in Devices, Fleet!ReadAck(d) PROVE SentOK'
  <2>1. /\ stats'.sent = stats.sent /\ stats'.acked = stats.acked + 1
        /\ stats'.forced = stats.forced /\ faults' = faults
    BY <1>6 DEF Fleet!ReadAck, Stats
  <2>2. InFlight' = [InFlight EXCEPT ![d] = InFlight[d] - 1] /\ InFlight[d] > 0
    <3>1. /\ acks[d] > 0 /\ acks'[d] = acks[d] - 1 /\ toGw' = toGw
          /\ \A e \in Devices \ {d} : acks'[e] = acks[e]
      BY SMTT(40), <1>6 DEF Fleet!ReadAck
    <3>2. acks'[d] + Len(toGw'[d]) = InFlight[d] - 1 /\ InFlight[d] > 0
      BY Zenon, <1>11, <3>1, InFlightBecomes
    <3> QED BY <3>1, <3>2, InFlightAt
  <2> QED BY Zenon, <1>10, <2>1, <2>2, SentKept DEF FaultFree
<1>7. ASSUME NEW d \in Devices, Fleet!Handle(d) PROVE SentOK'
  <2>1. /\ Len(toGw[d]) > 0 /\ Len(toGw'[d]) = Len(toGw[d]) - 1
        /\ acks'[d] = IF link[d] = "cut" THEN acks[d] ELSE acks[d] + 1
        /\ \A e \in Devices \ {d} : acks'[e] = acks[e] /\ toGw'[e] = toGw[e]
    BY SMTT(40), <1>7 DEF Fleet!Handle
  <2>2. UNCHANGED <<stats, faults>>
    BY <1>7 DEF Fleet!Handle
  <2>3. CASE link[d] = "cut"
    <3>1. InFlight' = [InFlight EXCEPT ![d] = InFlight[d] - 1] /\ InFlight[d] > 0
      <4>1. acks'[d] + Len(toGw'[d]) = InFlight[d] - 1 /\ InFlight[d] > 0
        BY Zenon, <1>11, <2>1, <2>3, InFlightBecomes
      <4> QED BY Zenon, <2>1, <4>1, InFlightAt
    <3>2. ~FaultFree'
      BY <2>2, <2>3 DEF CleanOK, FaultFree
    <3> QED BY Zenon, <1>10, <2>2, <3>1, <3>2, SentKept
  <2>4. CASE link[d] # "cut"
    <3>1. InFlight' = [InFlight EXCEPT ![d] = InFlight[d]]
      <4>1. acks'[d] + Len(toGw'[d]) = InFlight[d]
        BY Zenon, <1>11, <2>1, <2>4, InFlightBecomes
      <4> QED BY SMTT(40), <2>1, <4>1, InFlightAt
    <3> QED BY Zenon, <1>0, <2>2, <3>1, SentKept DEF FaultFree
  <2> QED BY <2>3, <2>4
<1>8. ASSUME NEW d \in Devices, Fleet!Reject(d) PROVE SentOK'
  <2>1. /\ Len(toGw[d]) > 0 /\ Len(toGw'[d]) = Len(toGw[d]) - 1 /\ acks' = acks
        /\ \A e \in Devices \ {d} : toGw'[e] = toGw[e]
    BY <1>8 DEF Fleet!Reject
  <2>2. InFlight' = [InFlight EXCEPT ![d] = InFlight[d] - 1] /\ InFlight[d] > 0
    <3>1. acks'[d] + Len(toGw'[d]) = InFlight[d] - 1 /\ InFlight[d] > 0
      BY Zenon, <1>11, <2>1, InFlightBecomes
    <3> QED BY SMTT(40), <2>1, <3>1, InFlightAt
  <2>3. ~FaultFree' /\ UNCHANGED stats
    BY <1>8 DEF Fleet!Reject, FaultFree
  <2> QED BY Zenon, <1>10, <2>2, <2>3, SentKept
<1>9. ASSUME NEW d \in Devices, Fleet!AckFails(d) PROVE SentOK'
  <2>1. InFlight' = [InFlight EXCEPT ![d] = acks[d]] /\ acks[d] \in Nat
    <3>1. /\ acks' = acks /\ Len(toGw'[d]) = 0 /\ acks[d] \in Nat
          /\ \A e \in Devices \ {d} : toGw'[e] = toGw[e]
      BY <1>9 DEF Fleet!AckFails
    <3>2. acks'[d] + Len(toGw'[d]) = acks[d]
      BY <3>1
    <3> QED BY <3>1, <3>2, InFlightAt
  <2>2. acks[d] <= InFlight[d]
    BY DEF InFlight
  <2>3. ~FaultFree' /\ UNCHANGED stats
    BY <1>9 DEF Fleet!AckFails, FaultFree, CleanOK
  <2> QED BY Zenon, <2>1, <2>2, <2>3, SentKept
<1> QED BY SMTT(40), <1>1, <1>2, <1>3, <1>4, <1>5, <1>6, <1>7, <1>8, <1>9 DEF Fleet!Next

\* A forced disconnect puts its device among the unreturned; only a reconnect takes it
\* out again.
LEMMA ForcedStep ==
  ASSUME IsFiniteSet(Devices), FleetTypes, ForcedOK, [Fleet!Next]_(Fleet!vars)
  PROVE  ForcedOK'
<1> USE DEF FleetTypes
<1>0. /\ stats.forced \in Nat /\ stats.reconnects \in Nat
      /\ IsFiniteSet(Unreturned) /\ IsFiniteSet(Unreturned')
      /\ Cardinality(Unreturned) \in Nat /\ Cardinality(Unreturned') \in Nat
  <2>1. Unreturned \subseteq Devices /\ Unreturned' \subseteq Devices
    BY DEF Unreturned
  <2> QED BY <2>1, FS_Subset, FS_CardinalityType DEF Stats
<1>1. ASSUME Unreturned \subseteq Unreturned',
             stats'.forced = stats.forced, stats'.reconnects = stats.reconnects
      PROVE  ForcedOK'
  <2>1. Cardinality(Unreturned) <= Cardinality(Unreturned')
    BY <1>0, <1>1, FS_Subset
  <2> QED BY <1>0, <1>1, <2>1 DEF ForcedOK
<1>2. ASSUME UNCHANGED <<pc, late>>,
             stats'.forced = stats.forced, stats'.reconnects = stats.reconnects
      PROVE  ForcedOK'
  BY <1>1, <1>2 DEF Unreturned
<1>3. CASE \/ Fleet!Summary \/ UNCHANGED Fleet!vars
           \/ \E d \in Devices : \/ Fleet!Spawn(d) \/ Fleet!Break(d) \/ Fleet!Handle(d)
                                 \/ Fleet!Reject(d) \/ Fleet!AckFails(d) \/ Fleet!EndHandler(d)
  BY <1>2, <1>3 DEF Fleet!Summary, Fleet!vars, Fleet!Spawn, Fleet!Break, Fleet!Handle,
                    Fleet!Reject, Fleet!AckFails, Fleet!EndHandler, Fleet!device
<1>4. ASSUME NEW d \in Devices, Fleet!ReadAck(d) PROVE ForcedOK'
  BY SMTT(40), <1>2, <1>4 DEF Fleet!ReadAck, Fleet!device, Stats
<1>5. ASSUME NEW d \in Devices, Fleet!Deadline(d) \/ Fleet!Connect(d) \/ Fleet!Leave(d)
                                  \/ Fleet!Return(d)
      PROVE  ForcedOK'
  <2>1. Unreturned \subseteq Unreturned'
    BY Zenon, <1>5 DEF Fleet!Deadline, Fleet!Connect, Fleet!Leave, Fleet!Over, Fleet!Return, Unreturned
  <2> QED BY Zenon, <1>1, <1>5, <2>1 DEF Fleet!Deadline, Fleet!Connect, Fleet!Leave, Fleet!Return
<1>6. ASSUME NEW d \in Devices, Fleet!Send(d) PROVE ForcedOK'
  <2>1. Unreturned \subseteq Unreturned'
    BY <1>6 DEF Fleet!Send, Unreturned
  <2>2. stats'.forced = stats.forced /\ stats'.reconnects = stats.reconnects
    BY <1>6 DEF Fleet!Send, Stats
  <2> QED BY Zenon, <1>1, <2>1, <2>2
<1>7. ASSUME NEW d \in Devices, Fleet!ForcedDisconnect(d) PROVE ForcedOK'
  <2>1. d \notin Unreturned /\ Unreturned' = Unreturned \cup {d}
    BY <1>7 DEF Fleet!ForcedDisconnect, Unreturned
  <2>2. Cardinality(Unreturned') = Cardinality(Unreturned) + 1
    BY <1>0, <2>1, FS_AddElement
  <2>3. stats'.forced = stats.forced + 1 /\ stats'.reconnects = stats.reconnects
    BY <1>7 DEF Fleet!ForcedDisconnect, Stats
  <2> QED BY <1>0, <2>2, <2>3 DEF ForcedOK
<1>8. ASSUME NEW d \in Devices, Fleet!Rejoin(d) PROVE ForcedOK'
  <2>1. CASE d \in late
    <3>1. Unreturned \subseteq Unreturned' /\ UNCHANGED stats
      BY <1>8, <2>1 DEF Fleet!Rejoin, Unreturned
    <3> QED BY <1>1, <3>1
  <2>2. CASE d \notin late
    <3>1. d \in Unreturned /\ Unreturned' = Unreturned \ {d}
      BY <1>8, <2>2 DEF Fleet!Rejoin, Unreturned
    <3>2. Cardinality(Unreturned') = Cardinality(Unreturned) - 1
      BY <1>0, <3>1, FS_RemoveElement
    <3>3. stats'.forced = stats.forced /\ stats'.reconnects = stats.reconnects + 1
      BY <1>8, <2>2 DEF Fleet!Rejoin, Stats
    <3> QED BY <1>0, <3>2, <3>3 DEF ForcedOK
  <2> QED BY <2>1, <2>2
<1> QED BY <1>3, <1>4, <1>5, <1>6, <1>7, <1>8 DEF Fleet!Next

\* Once main has reported, every thread has returned and nothing is counted any more.
LEMMA ExitStep ==
  ASSUME FleetTypes, \A d \in Devices : StreamOK(d), ExitOK, [Fleet!Next]_(Fleet!vars)
  PROVE  ExitOK'
<1> USE DEF FleetTypes
<1>1. CASE exit = -1 /\ ~Fleet!Summary
  <2>1. exit' = -1
    BY <1>1 DEF Fleet!Next, Fleet!vars, Fleet!Spawn, Fleet!Deadline, Fleet!Connect, Fleet!Send,
                Fleet!ForcedDisconnect, Fleet!Leave, Fleet!ReadAck, Fleet!Rejoin, Fleet!Return,
                Fleet!Break, Fleet!Handle, Fleet!Reject, Fleet!AckFails, Fleet!EndHandler
  <2> QED BY SMTT(40), <2>1 DEF ExitOK
<1>2. CASE Fleet!Summary
  BY <1>2 DEF Fleet!Summary, Fleet!device, ExitOK
<1>3. CASE exit # -1 /\ ~Fleet!Summary
  <2>1. \A d \in Devices : pc[d] = "returned" /\ link[d] = "none" /\ acks[d] = 0 /\ toGw[d] = <<>>
    BY <1>3 DEF ExitOK, StreamOK
  <2>2. ASSUME NEW d \in Devices
        PROVE  /\ ~Fleet!Connect(d) /\ ~Fleet!Send(d) /\ ~Fleet!ForcedDisconnect(d)
               /\ ~Fleet!Leave(d) /\ ~Fleet!ReadAck(d) /\ ~Fleet!Rejoin(d) /\ ~Fleet!Return(d)
               /\ ~Fleet!Break(d) /\ ~Fleet!Handle(d) /\ ~Fleet!Reject(d)
               /\ ~Fleet!AckFails(d) /\ ~Fleet!EndHandler(d)
    BY <2>1 DEF Fleet!Connect, Fleet!Send, Fleet!ForcedDisconnect, Fleet!Leave, Fleet!Over,
                Fleet!ReadAck, Fleet!Rejoin, Fleet!Return, Fleet!Break, Fleet!Handle,
                Fleet!Reject, Fleet!AckFails, Fleet!EndHandler
  <2>3. UNCHANGED <<pc, stats, exit>>
    BY <1>3, <2>2 DEF Fleet!Next, Fleet!vars, Fleet!device, Fleet!Spawn, Fleet!Deadline
  <2> QED BY <2>3 DEF ExitOK
<1> QED BY <1>1, <1>2, <1>3

\* No stream is open and nothing is counted.
LEMMA FleetInitially == IsFiniteSet(Devices) /\ Fleet!Init => FleetInv
<1> SUFFICES ASSUME IsFiniteSet(Devices), Fleet!Init PROVE FleetInv
  OBVIOUS
<1>1. Fleet!NoHandler \in Handlers
  BY DEF Fleet!NoHandler, Handlers
<1>2. stats = [sent |-> 0, acked |-> 0, reconnects |-> 0, forced |-> 0] /\ stats \in Stats
  BY DEF Fleet!Init, Stats
<1>3. <<>> \in Seq(Nat) /\ Len(<<>>) = 0
  OBVIOUS
<1>4. FleetTypes
  BY <1>1, <1>2, <1>3 DEF Fleet!Init, FleetTypes
<1>5. \A d \in Devices : StreamOK(d) /\ CleanOK(d)
  <2> TAKE d \in Devices
  <2>1. CleanOK(d)
    BY SMTT(40) DEF Fleet!Init, CleanOK
  <2>2. StreamOK(d)
    <3>1. /\ toGw[d] = <<>> /\ link[d] = "none" /\ pc[d] = "connecting" /\ acks[d] = 0
          /\ handler[d].gap = 0 /\ handler[d].limited = 0 /\ handler[d].failed = 0
      BY DEF Fleet!Init, Fleet!NoHandler
    <3>2. \A k \in 1 .. Len(toGw[d]) - 1 : FALSE
      BY <1>3, <3>1
    <3> QED BY SMTT(40), <3>1, <3>2 DEF StreamOK
  <2> QED BY <2>1, <2>2
<1>6. Units(InFlight) = {}
  <2>1. \A d \in Devices : InFlight[d] = 0
    BY <1>3 DEF Fleet!Init, InFlight
  <2>2. ASSUME NEW p \in Devices \X Nat PROVE ~(p[2] < InFlight[p[1]])
    BY <2>1
  <2> QED BY <2>2 DEF Units
<1>7. Unreturned = {}
  BY DEF Fleet!Init, Unreturned
<1>8. SentOK /\ ForcedOK
  BY SMTT(40), <1>2, <1>6, <1>7, FS_EmptySet DEF SentOK, ForcedOK
<1>9. lost <= refused /\ ExitOK
  BY DEF Fleet!Init, ExitOK
<1> QED BY <1>4, <1>5, <1>8, <1>9 DEF FleetInv

\* Every step of the fleet keeps the invariant; a handler that ends has skipped nothing
\* but rejected detections.
LEMMA FleetStep ==
  IsFiniteSet(Devices) /\ FleetInv /\ [Fleet!Next]_(Fleet!vars) => FleetInv'
<1> SUFFICES ASSUME IsFiniteSet(Devices), FleetInv, [Fleet!Next]_(Fleet!vars) PROVE FleetInv'
  OBVIOUS
<1>0. FleetTypes /\ (\A d \in Devices : StreamOK(d) /\ CleanOK(d)) /\ lost <= refused
        /\ SentOK /\ ForcedOK /\ ExitOK
  BY DEF FleetInv
<1>1. FleetTypes'
  BY <1>0, FleetTypesStep
<1>2. \A d \in Devices : StreamOK(d)' /\ CleanOK(d)'
  BY <1>0, StreamStep, CleanStep
<1>3. SentOK' /\ ForcedOK' /\ ExitOK'
  BY <1>0, SentStep, ForcedStep, ExitStep
<1>4. lost' <= refused'
  <2>1. ASSUME NEW d \in Devices, Fleet!EndHandler(d) PROVE lost' <= refused'
    <3> DEFINE h == handler[d]
               more == IF h.gap > h.limited THEN h.gap - h.limited ELSE 0
    <3>1. /\ h.gap \in Nat /\ h.limited \in Nat /\ h.failed \in Nat
          /\ h.gap <= h.limited + h.failed /\ lost \in Nat /\ refused \in Nat
      BY SMTT(40), <1>0 DEF StreamOK, FleetTypes, Handlers
    <3>2. more \in Nat /\ more <= h.failed
      BY <3>1
    <3>3. lost' = lost + more /\ refused' = refused + h.failed
      BY <2>1, ZenonT(40) DEF Fleet!EndHandler
    <3> HIDE DEF more, h
    <3> QED BY <1>0, <3>1, <3>2, <3>3
  <2>2. CASE ~(\E d \in Devices : Fleet!EndHandler(d))
    <3>1. UNCHANGED <<lost, refused>>
      BY Zenon, <2>2 DEF Fleet!Next, Fleet!vars, Fleet!Summary, Fleet!Spawn, Fleet!Deadline,
           Fleet!Connect, Fleet!Send, Fleet!ForcedDisconnect, Fleet!Leave, Fleet!ReadAck,
           Fleet!Rejoin, Fleet!Return, Fleet!Break, Fleet!Handle, Fleet!Reject, Fleet!AckFails
    <3> QED BY <1>0, <3>1
  <2> QED BY <2>1, <2>2
<1> QED BY <1>1, <1>2, <1>3, <1>4 DEF FleetInv

\* FleetInv holds throughout, whichever of the two systems runs.
LEMMA FleetInvariant ==
  ASSUME IsFiniteSet(Devices) PROVE BothSpec => []FleetInv
<1>1. BothInit => FleetInv
  BY FleetInitially DEF BothInit
<1>2. FleetInv /\ [BothNext]_bothVars => FleetInv'
  BY FleetStep DEF BothNext, bothVars, fleetVars, Fleet!vars, Fleet!device
<1> QED BY <1>1, <1>2, PTL DEF BothSpec

\* ADR-0010's "0 false gaps", for any fleet: however its streams are cut and whatever is
\* rate-limited, the gap accounting of Connect calls no detection of a device without
\* durable resume lost that the same summaries do not count as refused by Kafka.
THEOREM NoDetectionIsCalledLost ==
  ASSUME IsFiniteSet(Devices) PROVE BothSpec => []NoFalseLoss
<1>1. FleetInv => NoFalseLoss
  BY DEF FleetInv, NoFalseLoss, Fleet!NoFalseLoss
<1> QED BY FleetInvariant, <1>1, PTL

\* What the simulator's main prints and returns adds up for any fleet: without faults and
\* forced disconnects every detection was acked, and the exit code is 0.
THEOREM FinalCountsAddUp ==
  ASSUME IsFiniteSet(Devices) PROVE BothSpec => []SummaryAddsUp
<1>1. FleetInv => SummaryAddsUp
  <2> SUFFICES ASSUME FleetInv, exit # -1
               PROVE  /\ stats.acked <= stats.sent
                      /\ faults + stats.forced = 0 => stats.acked = stats.sent /\ exit = 0
                      /\ stats.reconnects + Fleet!Cardinality(Devices) >= stats.forced
    BY DEF SummaryAddsUp, Fleet!SummaryAddsUp
  <2>0. Fleet!Cardinality(Devices) = Cardinality(Devices)
    BY DEF Fleet!Cardinality, Cardinality
  <2>1. /\ stats.sent \in Nat /\ stats.acked \in Nat /\ stats.forced \in Nat
        /\ stats.reconnects \in Nat /\ faults \in Nat
    BY DEF FleetInv, FleetTypes, Stats
  <2>2. \A d \in Devices : InFlight[d] = 0
    BY SMTT(40) DEF FleetInv, FleetTypes, ExitOK, StreamOK, InFlight
  <2>3. Units(InFlight) = {}
    <3>1. ASSUME NEW p \in Devices \X Nat PROVE ~(p[2] < InFlight[p[1]])
      BY <2>2
    <3> QED BY <3>1 DEF Units
  <2>4. Cardinality(Units(InFlight)) = 0
    BY <2>3, FS_EmptySet
  <2>5. stats.acked <= stats.sent /\ (FaultFree => stats.acked = stats.sent)
    BY <2>1, <2>4 DEF FleetInv, SentOK
  <2>6. faults + stats.forced = 0 => stats.acked = stats.sent /\ exit = 0
    <3>1. exit = IF stats.sent > 0 /\ stats.acked = 0 THEN 1 ELSE 0
      BY DEF FleetInv, ExitOK
    <3>2. faults + stats.forced = 0 => FaultFree
      BY <2>1 DEF FaultFree
    <3> QED BY <2>1, <2>5, <3>1, <3>2
  <2>7. Cardinality(Unreturned) <= Cardinality(Devices) /\ Cardinality(Unreturned) \in Nat
          /\ Cardinality(Devices) \in Nat
    <3>1. Unreturned \subseteq Devices
      BY DEF Unreturned
    <3> QED BY <3>1, FS_Subset, FS_CardinalityType
  <2>8. stats.reconnects + Cardinality(Devices) >= stats.forced
    BY <2>1, <2>7 DEF FleetInv, ForcedOK
  <2> QED BY <2>0, <2>5, <2>6, <2>8
<1> QED BY FleetInvariant, <1>1, PTL
================================================================================
