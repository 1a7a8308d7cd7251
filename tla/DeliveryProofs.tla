----------------------------- MODULE DeliveryProofs -----------------------------
(***************************************************************************)
(* What an acknowledgement means, for any number of events, streams,       *)
(* crashes and rejections.                                                 *)
(*                                                                         *)
(* AckedIsHandled is not inductive: an ack in flight, a detection in       *)
(* flight and last_sent_seq all have to be ahead of nothing unhandled.     *)
(* The invariant says that each stream carries consecutive events, the     *)
(* first of which comes after handled ones only, that last_seq and the     *)
(* acks cover handled events only, and that the send loop continues where  *)
(* the detections in flight end.                                           *)
(***************************************************************************)
EXTENDS Delivery, SequenceTheorems, TLAPS

HandledSet == Stored \cup rejected

\* Detections q in flight to a handler that is at ls: consecutive numbers up to
\* top at most, above ls, the first of them after members of H only.
QueueOK(q, ls, H, top) ==
  /\ \A k \in 1 .. Len(q) : q[k] = q[1] + k - 1 /\ q[k] <= top
  /\ q # <<>> => q[1] > ls /\ \A n \in 1 .. q[1] - 1 : n \in H

StreamOK(i) ==
  /\ QueueOK(toGw[i], lastSeq[i], HandledSet, produced)
  /\ lastSeq[i] <= produced
  /\ \A n \in 1 .. lastSeq[i] : n \in HandledSet
  /\ \A k \in 1 .. Len(toAg[i]) : toAg[i][k] <= lastSeq[i]
  /\ i > cur => link[i] = "none" /\ toGw[i] = <<>> /\ toAg[i] = <<>>

\* The send loop of the current stream.
SendOK ==
  pc = "streaming" =>
    /\ cur >= 1
    /\ link[cur] = "up" =>
         /\ toGw[cur] # <<>> => lastSent = toGw[cur][Len(toGw[cur])]
         /\ toGw[cur] = <<>> => \A n \in 1 .. lastSent : n \in HandledSet
         /\ lastSent = 0 => toGw[cur] = <<>> /\ lastSeq[cur] = ckpt
         /\ lastSent > 0 => ckpt <= lastSent /\ lastSeq[cur] <= lastSent

DeliveryInv ==
  /\ TypeOK
  /\ \A n \in 1 .. ckpt : n \in HandledSet
  /\ \A i \in Streams : StreamOK(i)
  /\ SendOK
  /\ pc = "closing" => cur >= 1

--------------------------------------------------------------------------------
\* Losing a suffix of the detections in flight.
LEMMA QueuePrefix ==
  ASSUME NEW q \in Seq(Events), NEW ls \in Nat, NEW H, NEW top \in Nat,
         QueueOK(q, ls, H, top), NEW p \in Prefixes(q)
  PROVE  p \in Seq(Events) /\ QueueOK(p, ls, H, top)
<1>1. PICK k \in 0 .. Len(q) : p = SubSeq(q, 1, k)
  BY DEF Prefixes
<1>2. p \in Seq(Events) /\ Len(p) = k /\ \A j \in 1 .. k : p[j] = q[j]
  BY <1>1, SubSeqProperties
<1>3. p # <<>> => k >= 1 /\ p[1] = q[1] /\ q # <<>>
  BY <1>2, EmptySeq
<1>4. \A j \in 1 .. Len(p) : p[j] = p[1] + j - 1 /\ p[j] <= top
  <2> SUFFICES ASSUME NEW j \in 1 .. Len(p) PROVE p[j] = p[1] + j - 1 /\ p[j] <= top
    OBVIOUS
  <2>1. j \in 1 .. Len(q) /\ p[j] = q[j] /\ p[1] = q[1]
    BY <1>2
  <2> QED
    BY <2>1 DEF QueueOK
<1> QED
  BY <1>2, <1>3, <1>4 DEF QueueOK

\* Losing a suffix of the acks in flight.
LEMMA AcksPrefix ==
  ASSUME NEW q \in Seq(Events), NEW ls, \A k \in 1 .. Len(q) : q[k] <= ls,
         NEW p \in Prefixes(q)
  PROVE  p \in Seq(Events) /\ \A k \in 1 .. Len(p) : p[k] <= ls
<1>1. PICK k \in 0 .. Len(q) : p = SubSeq(q, 1, k)
  BY DEF Prefixes
<1>2. p \in Seq(Events) /\ Len(p) = k /\ \A j \in 1 .. k : p[j] = q[j]
  BY <1>1, SubSeqProperties
<1> QED
  BY <1>2

\* The handler takes the first detection in flight.
LEMMA QueueTail ==
  ASSUME NEW q \in Seq(Events), NEW ls \in Nat, NEW H, NEW top \in Nat,
         QueueOK(q, ls, H, top), q # <<>>,
         NEW ls2 \in Nat, ls2 <= Head(q), NEW H2, H \subseteq H2, Head(q) \in H2
  PROVE  /\ Tail(q) \in Seq(Events) /\ QueueOK(Tail(q), ls2, H2, top)
         /\ Head(q) \in Events /\ Head(q) > ls /\ Head(q) <= top
         /\ \A n \in 1 .. Head(q) : n \in H2
         /\ Head(q) <= q[Len(q)]
         /\ Tail(q) = <<>> => q[Len(q)] = Head(q)
         /\ Tail(q) # <<>> => q[Len(q)] = Tail(q)[Len(Tail(q))]
<1>1. /\ Head(q) = q[1] /\ Len(q) >= 1 /\ Tail(q) \in Seq(Events)
      /\ Len(Tail(q)) = Len(q) - 1
      /\ \A k \in 1 .. Len(q) - 1 : Tail(q)[k] = q[k + 1]
  BY HeadTailProperties, EmptySeq
<1>2. Head(q) \in Events /\ Head(q) > ls /\ Head(q) <= top
  <2>1. 1 \in 1 .. Len(q) /\ q[1] \in Events
    BY <1>1, ElementOfSeq
  <2> QED
    BY <1>1, <2>1 DEF QueueOK
<1>3. \A n \in 1 .. Head(q) : n \in H2
  BY <1>1, <1>2 DEF QueueOK, Events
<1>4. Tail(q) # <<>> => Len(q) >= 2
  <2>1. Len(q) \in Nat /\ (Tail(q) = <<>> <=> Len(Tail(q)) = 0)
    BY <1>1, LenProperties, EmptySeq
  <2> QED
    BY <1>1, <2>1
<1>5. Tail(q) = <<>> => Len(q) = 1
  <2>1. Len(q) \in Nat /\ (Tail(q) = <<>> <=> Len(Tail(q)) = 0)
    BY <1>1, LenProperties, EmptySeq
  <2> QED
    BY <1>1, <2>1
<1>6. Len(q) \in Nat /\ q[Len(q)] = q[1] + Len(q) - 1
  BY <1>1, LenProperties DEF QueueOK
<1>7. QueueOK(Tail(q), ls2, H2, top)
  <2>1. \A k \in 1 .. Len(Tail(q)) : Tail(q)[k] = q[1] + k /\ Tail(q)[k] <= top
    BY <1>1, <1>2, <1>6 DEF QueueOK, Events
  <2>2. Tail(q) # <<>> => Tail(q)[1] = q[1] + 1
    BY <1>1, <1>4, <1>6, <2>1
  <2>3. q[1] \in Nat /\ Len(Tail(q)) \in Nat
    BY <1>1, <1>2, <1>6, DeliveryAssumption DEF Events
  <2>4. ASSUME NEW k \in 1 .. Len(Tail(q))
        PROVE  Tail(q)[k] = Tail(q)[1] + k - 1
    <3>1. 1 \in 1 .. Len(Tail(q))
      BY <2>3
    <3>2. Tail(q)[1] = q[1] + 1 /\ Tail(q)[k] = q[1] + k
      BY <2>1, <3>1
    <3> QED
      BY <2>3, <3>2
  <2>5. ASSUME Tail(q) # <<>>
        PROVE  Tail(q)[1] > ls2 /\ \A n \in 1 .. Tail(q)[1] - 1 : n \in H2
    <3>1. Tail(q)[1] = Head(q) + 1 /\ Tail(q)[1] - 1 = Head(q)
      BY <1>1, <2>2, <2>3, <2>5
    <3>2. Tail(q)[1] > ls2
      <4> DEFINE h == Head(q)
      <4> DEFINE t == Tail(q)[1]
      <4>1. h \in Nat /\ t = h + 1 /\ ls2 <= h
        BY Zenon, <1>1, <2>3, <3>1
      <4> HIDE DEF h, t
      <4>2. t > ls2
        BY <4>1
      <4> QED
        BY Zenon, <4>2 DEF t
    <3> QED
      BY Zenon, <1>3, <3>1, <3>2
  <2> QED
    BY <2>1, <2>4, <2>5 DEF QueueOK
<1> QED
  BY <1>1, <1>2, <1>3, <1>4, <1>5, <1>6, <1>7 DEF Events

\* The send loop appends the next detection.
LEMMA QueueAppend ==
  ASSUME NEW q \in Seq(Events), NEW ls \in Nat, NEW H, NEW top \in Nat,
         QueueOK(q, ls, H, top), NEW n \in Events, n <= top,
         q = <<>> => n > ls /\ \A m \in 1 .. n - 1 : m \in H,
         q # <<>> => n = q[Len(q)] + 1
  PROVE  /\ Append(q, n) \in Seq(Events) /\ QueueOK(Append(q, n), ls, H, top)
         /\ Append(q, n) # <<>> /\ Append(q, n)[Len(Append(q, n))] = n
<1>1. /\ Append(q, n) \in Seq(Events) /\ Len(Append(q, n)) = Len(q) + 1
      /\ \A k \in 1 .. Len(q) : Append(q, n)[k] = q[k]
      /\ Append(q, n)[Len(q) + 1] = n /\ Append(q, n) # <<>>
  BY AppendProperties
<1>2. Len(q) \in Nat /\ (q = <<>> <=> Len(q) = 0)
  BY LenProperties, EmptySeq
<1>3. \A k \in 1 .. Len(q) : q[k] \in Events
  BY ElementOfSeq
<1>4. CASE q = <<>>
  BY <1>1, <1>2, <1>4 DEF QueueOK, Events
<1>5. CASE q # <<>>
  <2>1. Len(q) \in 1 .. Len(q) /\ 1 \in 1 .. Len(q) /\ q[1] \in Events
    BY <1>2, <1>3, <1>5
  <2>2. q[Len(q)] = q[1] + Len(q) - 1
    BY <2>1 DEF QueueOK
  <2>3. n = q[1] + Len(q) /\ Append(q, n)[1] = q[1]
    BY <1>1, <1>2, <1>5, <2>1, <2>2 DEF Events
  <2>4. \A k \in 1 .. Len(q) + 1 :
          Append(q, n)[k] = q[1] + k - 1 /\ Append(q, n)[k] <= top
    <3> SUFFICES ASSUME NEW k \in 1 .. Len(q) + 1
                 PROVE  Append(q, n)[k] = q[1] + k - 1 /\ Append(q, n)[k] <= top
      OBVIOUS
    <3>1. CASE k \in 1 .. Len(q)
      BY <1>1, <3>1 DEF QueueOK
    <3>2. CASE k = Len(q) + 1
      BY <1>1, <1>2, <2>1, <2>3, <3>2 DEF Events
    <3> QED
      BY <1>2, <3>1, <3>2
  <2>5. q[1] > ls /\ \A m \in 1 .. q[1] - 1 : m \in H
    BY <1>5 DEF QueueOK
  <2> QED
    BY <1>1, <2>3, <2>4, <2>5 DEF QueueOK
<1> QED
  BY <1>4, <1>5

--------------------------------------------------------------------------------
\* The initial state: nothing produced, sent or acknowledged.
LEMMA DeliveryInvInit == Init => DeliveryInv
<1> SUFFICES ASSUME Init PROVE DeliveryInv
  OBVIOUS
<1>1. TypeOK
  BY DeliveryAssumption, EmptySeq DEF Init, TypeOK, Streams, Events
<1>2. \A i \in Streams : StreamOK(i)
  BY DeliveryAssumption, EmptySeq DEF Init, StreamOK, QueueOK, Streams
<1> QED
  BY <1>1, <1>2 DEF Init, DeliveryInv, SendOK

\* A step that publishes and rejects nothing and leaves the streams alone, or only
\* loses what is in flight, keeps every stream in order.
LEMMA StreamsKept ==
  ASSUME DeliveryInv, TypeOK', UNCHANGED <<lastSeq, log, rejected>>,
         produced <= produced', cur' = cur,
         \A i \in Streams : toGw'[i] \in Prefixes(toGw[i]) \/ toGw'[i] = toGw[i]
                                                        \/ toGw'[i] = <<>>,
         \A i \in Streams : toAg'[i] \in Prefixes(toAg[i]) \/ toAg'[i] = toAg[i]
                                                        \/ toAg'[i] = <<>>,
         \A i \in Streams : i > cur => link'[i] = link[i] /\ toGw'[i] = toGw[i]
                                       /\ toAg'[i] = toAg[i]
  PROVE  HandledSet' = HandledSet /\ \A i \in Streams : StreamOK(i)'
<1>1. HandledSet' = HandledSet
  BY DEF HandledSet, Stored
<1> SUFFICES ASSUME NEW i \in Streams PROVE StreamOK(i)'
  BY <1>1
<1>2. /\ toGw[i] \in Seq(Events) /\ toAg[i] \in Seq(Events) /\ lastSeq[i] \in Nat
      /\ produced \in Nat /\ produced' \in Nat /\ StreamOK(i)
  BY DEF DeliveryInv, TypeOK
<1>3. QueueOK(toGw'[i], lastSeq[i], HandledSet, produced)
  <2>1. CASE toGw'[i] \in Prefixes(toGw[i])
    BY <1>2, <2>1, QueuePrefix DEF StreamOK
  <2>2. CASE toGw'[i] = toGw[i]
    BY <1>2, <2>2 DEF StreamOK
  <2>3. CASE toGw'[i] = <<>>
    BY <2>3 DEF QueueOK
  <2> QED
    BY <2>1, <2>2, <2>3
<1>4. toGw'[i] \in Seq(Events)
  BY DEF TypeOK
<1>5. QueueOK(toGw'[i], lastSeq'[i], HandledSet', produced')
  <2>1. \A k \in 1 .. Len(toGw'[i]) : toGw'[i][k] \in Events
    BY <1>4, ElementOfSeq
  <2> QED
    <3>1. produced <= produced' /\ lastSeq'[i] = lastSeq[i]
      OBVIOUS
    <3>2. \A k \in 1 .. Len(toGw'[i]) : toGw'[i][k] <= produced'
      BY <1>2, <1>3, <2>1, <3>1, DeliveryAssumption DEF QueueOK, Events
    <3> QED
      BY <1>1, <1>3, <3>1, <3>2 DEF QueueOK
<1>6. \A k \in 1 .. Len(toAg'[i]) : toAg'[i][k] <= lastSeq[i]
  <2>1. CASE toAg'[i] \in Prefixes(toAg[i])
    BY SMTT(40), <1>2, <2>1, AcksPrefix DEF StreamOK
  <2>2. CASE toAg'[i] = toAg[i]
    BY <1>2, <2>2 DEF StreamOK
  <2>3. CASE toAg'[i] = <<>>
    BY <2>3
  <2> QED
    BY <2>1, <2>2, <2>3
<1> QED
  BY <1>1, <1>2, <1>5, <1>6 DEF StreamOK

\* The agent's steps other than Connect and Send, and the loss of a connection.
LEMMA QuietSteps ==
  ASSUME DeliveryInv,
         \/ Emit \/ TimeUp \/ NoticeBreak \/ Finish \/ Rejoin \/ Stop \/ Exit \/ Crash
         \/ Restart
         \/ \E i \in Streams : Break(i) \/ EndHandler(i)
  PROVE  DeliveryInv'
<1> USE DEF DeliveryInv
<1>1. CASE Emit
  <2> USE <1>1 DEF Emit, stream
  <2>1. TypeOK'
    BY DeliveryAssumption DEF TypeOK
  <2>2. HandledSet' = HandledSet /\ \A i \in Streams : StreamOK(i)'
    BY <2>1, StreamsKept DEF TypeOK
  <2>3. SendOK'
    BY <2>2 DEF SendOK
  <2> QED
    BY <2>1, <2>2, <2>3
<1>2. CASE NoticeBreak
  <2> USE <1>2 DEF NoticeBreak
  <2>1. cur \in Streams
    BY DEF SendOK, TypeOK, Streams
  <2>2. PICK q \in Prefixes(toAg[cur]) : toAg' = [toAg EXCEPT ![cur] = q]
    BY Zenon
  <2>3. q \in Seq(Events)
    <3>1. toAg[cur] \in Seq(Events) /\ StreamOK(cur)
      BY <2>1 DEF TypeOK
    <3> HIDE <1>2 DEF DeliveryInv, NoticeBreak
    <3> QED
      BY Zenon, <2>2, <3>1, AcksPrefix DEF StreamOK
  <2>4. TypeOK'
    BY SMTT(40), <2>1, <2>2, <2>3 DEF TypeOK
  <2>5. HandledSet' = HandledSet /\ \A i \in Streams : StreamOK(i)'
    BY <2>1, <2>2, <2>4, StreamsKept DEF TypeOK, Streams
  <2> QED
    BY <2>1, <2>4, <2>5 DEF SendOK, Streams
<1>3. CASE Finish
  <2> USE <1>3 DEF Finish
  <2>1. cur \in Streams
    BY DEF SendOK, TypeOK, Streams
  <2>2. TypeOK'
    BY <2>1 DEF TypeOK
  <2>3. HandledSet' = HandledSet /\ \A i \in Streams : StreamOK(i)'
    BY <2>1, <2>2, StreamsKept DEF TypeOK, Streams
  <2> QED
    BY <2>1, <2>2, <2>3 DEF SendOK, Streams
<1>4. CASE TimeUp \/ Rejoin \/ Stop \/ Exit \/ Restart
  <2>1. /\ pc' = pc \/ pc' \in {"connecting", "leaving", "exited"}
        /\ producer' \in {"running", "late", "done"}
        /\ UNCHANGED <<produced, ckpt, cur, lastSent, link, toGw, toAg, lastSeq, log,
                       rejected, rejects, crashes>>
    BY <1>4 DEF TimeUp, Rejoin, Stop, Exit, Restart, TypeOK, stream
  <2>2. TypeOK'
    BY <2>1 DEF TypeOK
  <2>3. produced <= produced'
    BY <2>1 DEF TypeOK
  <2>4. HandledSet' = HandledSet /\ \A i \in Streams : StreamOK(i)'
    BY <2>1, <2>2, <2>3, StreamsKept
  <2> QED
    BY <2>1, <2>2, <2>4 DEF SendOK
<1>5. CASE Crash
  <2> USE <1>5 DEF Crash
  <2>1. cur \in Streams
    BY DeliveryAssumption DEF TypeOK, Streams
  <2>2. PICK q \in Prefixes(toGw[cur]) : toGw' = [toGw EXCEPT ![cur] = q]
    BY Zenon
  <2>3. q \in Seq(Events)
    BY <2>1, QueuePrefix DEF StreamOK, TypeOK
  <2>4. TypeOK'
    <3>1. toGw' \in [Streams -> Seq(Events)]
      BY <2>1, <2>2, <2>3 DEF TypeOK
    <3>2. toAg' \in [Streams -> Seq(Events)]
      BY <2>1, EmptySeq DEF TypeOK
    <3>3. link' \in [Streams -> {"none", "up", "draining", "broken", "ended"}]
      BY <2>1 DEF TypeOK
    <3>4. lastSent' \in 0 .. MaxSeq /\ crashes' \in Nat
      BY DeliveryAssumption DEF TypeOK
    <3> QED
      BY SMTT(40), <3>1, <3>2, <3>3, <3>4 DEF TypeOK
  <2>5. HandledSet' = HandledSet /\ \A i \in Streams : StreamOK(i)'
    <3>1. /\ UNCHANGED <<lastSeq, log, rejected>> /\ cur' = cur
          /\ produced <= produced' /\ cur \in Nat
      BY DEF TypeOK
    <3>2. ASSUME NEW j \in Streams
          PROVE  /\ toGw'[j] \in Prefixes(toGw[j]) \/ toGw'[j] = toGw[j]
                 /\ toAg'[j] = toAg[j] \/ toAg'[j] = <<>>
      BY <2>1, <2>2 DEF TypeOK
    <3>3. ASSUME NEW j \in Streams, j > cur
          PROVE  link'[j] = link[j] /\ toGw'[j] = toGw[j] /\ toAg'[j] = toAg[j]
      BY <2>1, <2>2, <3>1, <3>3 DEF TypeOK, Streams
    <3> HIDE <1>5 DEF DeliveryInv, Crash
    <3> QED
      BY <2>4, <3>1, <3>2, <3>3, StreamsKept
  <2> QED
    BY <2>4, <2>5 DEF SendOK
<1>6. ASSUME NEW i \in Streams, Break(i) PROVE DeliveryInv'
  <2> USE <1>6 DEF Break, agent
  <2>1. i <= cur
    BY DEF StreamOK, TypeOK, Streams
  <2>2. PICK q \in Prefixes(toGw[i]) : toGw' = [toGw EXCEPT ![i] = q]
    BY Zenon
  <2>3. PICK a \in Prefixes(toAg[i]) : toAg' = [toAg EXCEPT ![i] = a]
    BY Zenon
  <2>4. q \in Seq(Events) /\ a \in Seq(Events)
    <3>1. /\ toGw[i] \in Seq(Events) /\ toAg[i] \in Seq(Events) /\ lastSeq[i] \in Nat
          /\ produced \in Nat /\ StreamOK(i)
      BY DEF TypeOK
    <3>2. q \in Seq(Events)
      BY <2>2, <3>1, QueuePrefix DEF StreamOK
    <3>3. a \in Seq(Events)
      BY Zenon, <2>3, <3>1, AcksPrefix DEF StreamOK
    <3> QED
      BY <3>2, <3>3
  <2>5. TypeOK'
    BY SMTT(40), <2>2, <2>3, <2>4 DEF TypeOK
  <2>6. HandledSet' = HandledSet /\ \A j \in Streams : StreamOK(j)'
    <3>1. /\ UNCHANGED <<lastSeq, log, rejected>> /\ cur' = cur
          /\ produced <= produced' /\ cur \in Nat
      BY DEF TypeOK
    <3>2. ASSUME NEW j \in Streams
          PROVE  /\ toGw'[j] \in Prefixes(toGw[j]) \/ toGw'[j] = toGw[j]
                 /\ toAg'[j] \in Prefixes(toAg[j]) \/ toAg'[j] = toAg[j]
      BY <2>2, <2>3 DEF TypeOK
    <3>3. ASSUME NEW j \in Streams, j > cur
          PROVE  link'[j] = link[j] /\ toGw'[j] = toGw[j] /\ toAg'[j] = toAg[j]
      BY <2>1, <2>2, <2>3, <3>1, <3>3 DEF TypeOK, Streams
    <3> HIDE <1>6 DEF DeliveryInv, Break
    <3> QED
      BY <2>5, <3>1, <3>2, <3>3, StreamsKept
  <2>7. SendOK'
    <3>1. CASE pc = "streaming" /\ cur # i
      <4>1. cur \in Streams
        BY <3>1 DEF SendOK, TypeOK, Streams
      <4>2. toGw'[cur] = toGw[cur] /\ link'[cur] = link[cur]
        BY <2>2, <3>1, <4>1 DEF TypeOK
      <4> QED
        BY <2>6, <3>1, <4>2 DEF SendOK
    <3>2. CASE pc = "streaming" /\ cur = i
      <4>1. link'[cur] # "up"
        BY <3>2 DEF TypeOK
      <4> QED
        BY <3>2, <4>1 DEF SendOK
    <3> QED
      BY <3>1, <3>2 DEF SendOK
  <2> QED
    BY <2>5, <2>6, <2>7
<1>7. ASSUME NEW i \in Streams, EndHandler(i) PROVE DeliveryInv'
  <2> USE <1>7 DEF EndHandler, agent
  <2>1. i <= cur
    <3>1. StreamOK(i) /\ link[i] # "none"
      OBVIOUS
    <3>2. i \in Nat /\ cur \in Nat
      BY DeliveryAssumption DEF TypeOK, Streams
    <3> HIDE <1>7 DEF DeliveryInv, EndHandler
    <3> QED
      BY <3>1, <3>2 DEF StreamOK
  <2>2. TypeOK'
    BY EmptySeq DEF TypeOK
  <2>3. HandledSet' = HandledSet /\ \A j \in Streams : StreamOK(j)'
    BY SMTT(40), <2>1, <2>2, StreamsKept DEF TypeOK, Streams
  <2>4. SendOK'
    BY <2>3 DEF SendOK, TypeOK, Streams
  <2> QED
    BY <2>2, <2>3, <2>4
<1> QED
  BY <1>1, <1>2, <1>3, <1>4, <1>5, <1>6, <1>7

\* A new stream starts where the checkpoint is.
LEMMA ConnectStep == DeliveryInv /\ Connect => DeliveryInv'
<1> SUFFICES ASSUME DeliveryInv, Connect PROVE DeliveryInv'
  OBVIOUS
<1> USE DEF DeliveryInv, Connect
<1>1. cur' \in Streams /\ cur' = cur + 1 /\ cur \in Nat /\ ckpt \in Nat /\ produced \in Nat
  BY DeliveryAssumption DEF TypeOK, Streams
<1>2. TypeOK'
  <2>1. cur' \in 0 .. MaxStreams /\ lastSent' \in 0 .. MaxSeq
    BY <1>1, DeliveryAssumption DEF Streams
  <2>2. link' \in [Streams -> {"none", "up", "draining", "broken", "ended"}]
    BY <1>1 DEF TypeOK
  <2>3. lastSeq' \in [Streams -> 0 .. MaxSeq]
    BY <1>1, DeliveryAssumption DEF TypeOK
  <2> QED
    BY <2>1, <2>2, <2>3 DEF TypeOK
<1>3. HandledSet' = HandledSet
  BY DEF HandledSet, Stored
<1>4. toGw[cur'] = <<>> /\ toAg[cur'] = <<>> /\ lastSeq'[cur'] = ckpt /\ link'[cur'] = "up"
  BY <1>1 DEF StreamOK, TypeOK
<1>5. ASSUME NEW i \in Streams PROVE StreamOK(i)'
  <2>1. CASE i = cur'
    <3>1. /\ toGw'[i] = <<>> /\ toAg'[i] = <<>> /\ lastSeq'[i] = ckpt
          /\ ckpt <= produced' /\ ~(i > cur') /\ \A n \in 1 .. ckpt : n \in HandledSet'
      BY <1>1, <1>3, <1>4, <2>1 DEF TypeOK
    <3>2. Len(<<>>) = 0
      BY EmptySeq
    <3> HIDE DEF DeliveryInv, Connect
    <3> QED
      BY <3>1, <3>2 DEF StreamOK, QueueOK
  <2>2. CASE i # cur'
    <3>1. lastSeq'[i] = lastSeq[i] /\ link'[i] = link[i] /\ StreamOK(i) /\ i \in Nat
      BY <2>2 DEF TypeOK, Streams
    <3> QED
      BY <1>1, <1>3, <2>2, <3>1 DEF StreamOK
  <2> QED
    BY <2>1, <2>2
<1>6. SendOK'
  BY <1>1, <1>3, <1>4 DEF SendOK
<1> QED
  BY <1>2, <1>3, <1>5, <1>6

\* The send loop continues where the detections in flight end.
LEMMA SendStep == DeliveryInv /\ Send => DeliveryInv'
<1> SUFFICES ASSUME DeliveryInv, Send PROVE DeliveryInv'
  OBVIOUS
<1> USE DEF DeliveryInv
<1>1. PICK n \in Outbox :
        /\ n > lastSent
        /\ \A m \in Outbox : m > lastSent => n <= m
        /\ toGw' = [toGw EXCEPT ![cur] = Append(@, n)]
        /\ lastSent' = n
  BY Zenon DEF Send
<1>2. /\ pc = "streaming" /\ link[cur] = "up"
      /\ UNCHANGED <<produced, ckpt, producer, pc, cur, link, toAg, lastSeq, log,
                     rejected, rejects, crashes>>
  BY DEF Send
<1>3. /\ cur \in Streams /\ ckpt \in Nat /\ produced \in Nat /\ lastSent \in Nat
      /\ toGw[cur] \in Seq(Events) /\ lastSeq[cur] \in Nat
      /\ n \in Events /\ n \in Nat /\ n <= produced /\ n > ckpt
  BY <1>1, <1>2, DeliveryAssumption DEF SendOK, TypeOK, Streams, Outbox, Events
<1>4. n = IF lastSent = 0 THEN ckpt + 1 ELSE lastSent + 1
  <2>1. CASE lastSent = 0
    <3>1. ckpt + 1 \in Outbox /\ ckpt + 1 > lastSent
      BY <1>3, <2>1 DEF Outbox
    <3> QED
      BY <1>1, <1>3, <2>1, <3>1
  <2>2. CASE lastSent > 0
    <3>1. ckpt <= lastSent
      BY <1>2, <2>2 DEF SendOK
    <3>2. lastSent + 1 \in Outbox /\ lastSent + 1 > lastSent
      BY <1>1, <1>3, <3>1 DEF Outbox
    <3> QED
      BY <1>1, <1>3, <2>2, <3>2
  <2> QED
    BY <1>3, <2>1, <2>2
<1>5. toGw[cur] = <<>> => n > lastSeq[cur] /\ \A m \in 1 .. n - 1 : m \in HandledSet
  BY <1>2, <1>3, <1>4 DEF SendOK
<1>6. toGw[cur] # <<>> => n = toGw[cur][Len(toGw[cur])] + 1
  BY <1>2, <1>3, <1>4 DEF SendOK
<1>7. QueueOK(toGw[cur], lastSeq[cur], HandledSet, produced)
  BY <1>3 DEF StreamOK
<1>8. /\ toGw'[cur] \in Seq(Events)
      /\ QueueOK(toGw'[cur], lastSeq[cur], HandledSet, produced)
      /\ toGw'[cur] # <<>> /\ toGw'[cur][Len(toGw'[cur])] = n
  <2>1. toGw'[cur] = Append(toGw[cur], n)
    BY <1>1, <1>3 DEF TypeOK
  <2> QED
    BY <1>3, <1>5, <1>6, <1>7, <2>1, QueueAppend
<1>9. HandledSet' = HandledSet
  BY <1>2 DEF HandledSet, Stored
<1>10. TypeOK'
  <2>1. toGw' \in [Streams -> Seq(Events)]
    BY <1>1, <1>3, <1>8 DEF TypeOK
  <2>2. lastSent' \in 0 .. MaxSeq
    BY <1>1, <1>3 DEF Events
  <2> QED
    BY <1>2, <2>1, <2>2 DEF TypeOK
<1>11. ASSUME NEW i \in Streams PROVE StreamOK(i)'
  <2>1. CASE i = cur
    BY <1>2, <1>3, <1>8, <1>9, <2>1 DEF StreamOK, Streams
  <2>2. CASE i # cur
    <3>1. toGw'[i] = toGw[i]
      BY <1>1, <2>2 DEF TypeOK
    <3> QED
      BY <1>2, <1>9, <3>1 DEF StreamOK
  <2> QED
    BY <2>1, <2>2
<1>12. SendOK'
  <2>1. lastSeq[cur] <= n /\ n > 0
    BY <1>2, <1>3, <1>4 DEF SendOK
  <2>2. /\ cur >= 1 /\ lastSent' = n /\ cur' = cur /\ ckpt' = ckpt /\ ckpt <= n
        /\ lastSeq' = lastSeq
    BY <1>1, <1>2, <1>3 DEF Streams
  <2> HIDE DEF DeliveryInv
  <2> QED
    BY <1>3, <1>8, <2>1, <2>2 DEF SendOK
<1> QED
  BY <1>2, <1>9, <1>10, <1>11, <1>12

\* The checkpoint follows an ack, which is for handled events.
LEMMA ReadAckStep == DeliveryInv /\ ReadAck => DeliveryInv'
<1> SUFFICES ASSUME DeliveryInv, ReadAck PROVE DeliveryInv'
  OBVIOUS
<1> USE DEF DeliveryInv, ReadAck
<1>1. cur \in Streams /\ ckpt \in Nat /\ produced \in Nat /\ lastSeq[cur] \in Nat
  BY DEF SendOK, TypeOK, Streams
<1>2. toAg[cur] \in Seq(Events) /\ toAg[cur] # <<>>
  BY <1>1 DEF TypeOK
<1>3. /\ Head(toAg[cur]) = toAg[cur][1] /\ Len(toAg[cur]) >= 1
      /\ Tail(toAg[cur]) \in Seq(Events) /\ Len(Tail(toAg[cur])) = Len(toAg[cur]) - 1
      /\ \A k \in 1 .. Len(toAg[cur]) - 1 : Tail(toAg[cur])[k] = toAg[cur][k + 1]
  <2>1. Len(toAg[cur]) \in Nat /\ Len(toAg[cur]) # 0
    BY <1>2, LenProperties, EmptySeq
  <2> QED
    BY <1>2, <2>1, HeadTailProperties
<1>4. Head(toAg[cur]) \in Nat /\ Head(toAg[cur]) <= lastSeq[cur]
  <2>1. 1 \in 1 .. Len(toAg[cur]) /\ toAg[cur][1] \in Events
    BY <1>2, <1>3, ElementOfSeq
  <2> QED
    BY <1>1, <1>3, <2>1 DEF StreamOK, Events
<1>5. StreamOK(cur)
  BY <1>1
<1>6. ckpt' \in Nat /\ ckpt' <= produced /\ \A n \in 1 .. ckpt' : n \in HandledSet
  <2>1. ckpt' \in Nat /\ (ckpt' = ckpt \/ ckpt' = Head(toAg[cur]))
    BY <1>1, <1>4
  <2>2. ckpt <= produced /\ \A n \in 1 .. ckpt : n \in HandledSet
    BY DEF TypeOK
  <2>3. lastSeq[cur] <= produced /\ \A n \in 1 .. lastSeq[cur] : n \in HandledSet
    BY <1>5 DEF StreamOK
  <2> HIDE DEF DeliveryInv, ReadAck
  <2> QED
    BY <1>1, <1>4, <2>1, <2>2, <2>3
<1>7. TypeOK'
  <2>1. toAg' \in [Streams -> Seq(Events)]
    BY <1>1, <1>3 DEF TypeOK
  <2>2. ckpt' \in 0 .. produced
    BY <1>1, <1>6
  <2> QED
    BY <2>1, <2>2 DEF TypeOK
<1>8. HandledSet' = HandledSet
  BY DEF HandledSet, Stored
<1>9. ASSUME NEW i \in Streams PROVE StreamOK(i)'
  <2>1. CASE i = cur
    <3>1. toAg'[i] = Tail(toAg[cur])
      BY <1>1, <2>1 DEF TypeOK
    <3>2. \A k \in 1 .. Len(Tail(toAg[cur])) : Tail(toAg[cur])[k] <= lastSeq[cur]
      <4>1. Len(toAg[cur]) \in Nat
        BY <1>2, LenProperties
      <4> QED
        BY SMTT(40), <1>3, <1>5, <4>1 DEF StreamOK
    <3> QED
      BY <1>1, <1>5, <1>8, <2>1, <3>1, <3>2 DEF StreamOK, Streams
  <2>2. CASE i # cur
    <3>1. toAg'[i] = toAg[i]
      BY <2>2 DEF TypeOK
    <3> QED
      BY <1>8, <3>1 DEF StreamOK
  <2> QED
    BY <2>1, <2>2
<1>10. SendOK'
  <2>1. CASE pc = "streaming" /\ link[cur] = "up"
    <3>1. lastSent = 0 => ckpt' = ckpt
      BY <1>1, <1>4, <2>1 DEF SendOK
    <3>2. lastSent > 0 => ckpt' <= lastSent
      BY <1>1, <1>4, <2>1 DEF SendOK, TypeOK
    <3> QED
      BY <1>8, <2>1, <3>1, <3>2 DEF SendOK
  <2> QED
    BY <2>1 DEF SendOK
<1> QED
  BY <1>1, <1>6, <1>7, <1>8, <1>9, <1>10

\* The handler of stream i takes detection n, and publishes or rejects it.
LEMMA HandlerStep ==
  ASSUME DeliveryInv, NEW i \in Streams, NEW n, Receive(i, n),
         UNCHANGED <<agent, link>>, TypeOK', HandledSet \subseteq HandledSet',
         n \in HandledSet', NEW ls, ls \in {lastSeq[i], n},
         lastSeq' = [lastSeq EXCEPT ![i] = ls],
         \/ toAg' = toAg
         \/ toAg' = [toAg EXCEPT ![i] = Append(@, ls)]
  PROVE  DeliveryInv'
<1> USE DEF DeliveryInv
<1> DEFINE q == toGw[i]
<1>1. /\ q \in Seq(Events) /\ q # <<>> /\ n = Head(q) /\ toGw'[i] = Tail(q)
      /\ \A j \in Streams : j # i => toGw'[j] = toGw[j]
  BY DEF Receive, TypeOK
<1>2. /\ lastSeq[i] \in Nat /\ produced \in Nat /\ cur \in Nat /\ StreamOK(i)
      /\ ckpt \in Nat /\ lastSent \in Nat /\ i \in Nat
  BY DeliveryAssumption DEF TypeOK, Streams
<1>3. QueueOK(q, lastSeq[i], HandledSet, produced)
  BY <1>2 DEF StreamOK
<1>4. n \in Events /\ n \in Nat /\ n > lastSeq[i]
  <2>1. 1 \in 1 .. Len(q) /\ Head(q) = q[1] /\ q[1] \in Events
    <3>1. Len(q) \in Nat /\ Len(q) # 0
      BY <1>1, LenProperties, EmptySeq
    <3> QED
      BY <1>1, <3>1, ElementOfSeq, HeadTailProperties
  <2> QED
    BY <1>1, <1>3, <2>1, DeliveryAssumption DEF QueueOK, Events
<1>5. ls \in Nat /\ ls <= n /\ lastSeq[i] <= ls /\ lastSeq'[i] = ls
  <2>1. lastSeq'[i] = ls
    BY DEF TypeOK
  <2>2. CASE ls = n
    BY <1>2, <1>4, <2>1, <2>2
  <2>3. CASE ls = lastSeq[i]
    BY <1>2, <1>4, <2>1, <2>3
  <2> QED
    BY <2>2, <2>3
<1>6. /\ QueueOK(Tail(q), ls, HandledSet', produced) /\ n <= produced
      /\ \A m \in 1 .. n : m \in HandledSet'
      /\ n <= q[Len(q)]
      /\ Tail(q) = <<>> => q[Len(q)] = n
      /\ Tail(q) # <<>> => q[Len(q)] = Tail(q)[Len(Tail(q))]
  <2>1. ls <= Head(q) /\ Head(q) \in HandledSet'
    BY <1>1, <1>5
  <2> HIDE DEF q, DeliveryInv
  <2> QED
    BY SMTT(40), <1>1, <1>2, <1>3, <1>5, <2>1, QueueTail
<1>7. i <= cur
  BY <1>1, <1>2 DEF StreamOK
<1>8. produced' = produced /\ cur' = cur /\ ckpt' = ckpt /\ pc' = pc
      /\ lastSent' = lastSent /\ link' = link
  BY DEF agent
<1>9. \A k \in 1 .. Len(toAg'[i]) : toAg'[i][k] <= ls
  <2>1. toAg[i] \in Seq(Events) /\ Len(toAg[i]) \in Nat
    BY LenProperties DEF TypeOK
  <2>2. \A k \in 1 .. Len(toAg[i]) : toAg[i][k] <= ls
    <3> HIDE DEF DeliveryInv
    <3>1. \A k \in 1 .. Len(toAg[i]) : toAg[i][k] \in Events
      BY <2>1, ElementOfSeq
    <3>2. \A k \in 1 .. Len(toAg[i]) : toAg[i][k] <= lastSeq[i]
      BY <1>2 DEF StreamOK
    <3>3. \A e \in Events : e <= lastSeq[i] => e <= ls
      BY <1>2, <1>5, DeliveryAssumption DEF Events
    <3> QED
      BY <3>1, <3>2, <3>3
  <2>3. CASE toAg' = toAg
    BY <2>2, <2>3
  <2>4. CASE toAg' = [toAg EXCEPT ![i] = Append(@, ls)]
    <3>1. toAg'[i] = Append(toAg[i], ls)
      BY <2>4 DEF TypeOK
    <3>2. toAg[i] \in Seq(Nat)
      <4>1. Events \subseteq Nat
        BY DeliveryAssumption DEF Events
      <4>2. \A k \in 1 .. Len(toAg[i]) : toAg[i][k] \in Nat
        BY <2>1, <4>1, ElementOfSeq
      <4> QED
        <5>1. toAg[i] \in [1 .. Len(toAg[i]) -> Events]
          BY <2>1, LenProperties
        <5>2. toAg[i] \in [1 .. Len(toAg[i]) -> Nat]
          BY <4>2, <5>1
        <5> HIDE DEF DeliveryInv
        <5> QED
          BY <2>1, <5>2, SeqDef
    <3>3. /\ Len(toAg'[i]) = Len(toAg[i]) + 1 /\ toAg'[i][Len(toAg[i]) + 1] = ls
          /\ \A k \in 1 .. Len(toAg[i]) : toAg'[i][k] = toAg[i][k]
      <4> HIDE DEF DeliveryInv
      <4> QED
        BY <1>5, <3>1, <3>2, AppendProperties
    <3> QED
      BY <1>5, <2>1, <2>2, <3>3
  <2> QED
    BY <2>3, <2>4
<1>10. ASSUME NEW j \in Streams PROVE StreamOK(j)'
  <2>1. CASE j = i
    <3>1. ls <= produced /\ \A m \in 1 .. ls : m \in HandledSet'
      <4> HIDE DEF DeliveryInv
      <4>1. ls <= produced
        <5>1. n <= produced
          BY <1>6
        <5> QED
          BY <1>2, <1>4, <1>5, <5>1
      <4>2. \A m \in 1 .. ls : m \in 1 .. n
        BY <1>4, <1>5
      <4> QED
        BY <1>6, <4>1, <4>2
    <3> QED
      BY <1>1, <1>2, <1>5, <1>6, <1>7, <1>8, <1>9, <2>1, <3>1 DEF StreamOK
  <2>2. CASE j # i
    <3>1. /\ toGw'[j] = toGw[j] /\ toAg'[j] = toAg[j] /\ lastSeq'[j] = lastSeq[j]
          /\ StreamOK(j)
      BY Zenon, <1>1, <2>2 DEF TypeOK
    <3> QED
      BY <1>8, <3>1 DEF StreamOK, QueueOK
  <2> QED
    BY SMTT(40), <2>1, <2>2
<1>11. SendOK'
  <2>1. CASE pc = "streaming" /\ link[cur] = "up" /\ cur = i
    <3>1. lastSent = q[Len(q)] /\ lastSent > 0 /\ ckpt <= lastSent
      <4>1. /\ q # <<>> => lastSent = q[Len(q)]
            /\ lastSent > 0 => ckpt <= lastSent
        BY <2>1 DEF SendOK
      <4>2. n <= q[Len(q)] /\ n > 0
        BY <1>2, <1>4, <1>6
      <4> HIDE DEF DeliveryInv, q
      <4> QED
        BY <1>1, <1>2, <1>4, <4>1, <4>2
    <3> QED
      BY Zenon, <1>1, <1>2, <1>4, <1>5, <1>6, <1>8, <2>1, <3>1 DEF SendOK
  <2>2. CASE pc = "streaming" /\ link[cur] = "up" /\ cur # i
    <3>1. cur \in Streams
      BY <2>2 DEF SendOK, TypeOK, Streams
    <3>2. toGw'[cur] = toGw[cur] /\ lastSeq'[cur] = lastSeq[cur]
      BY <1>1, <2>2, <3>1 DEF TypeOK
    <3> QED
      BY <1>8, <2>2, <3>2 DEF SendOK
  <2> QED
    BY <1>8, <2>1, <2>2 DEF SendOK
<1> QED
  BY <1>8, <1>10, <1>11

\* A handler publishes a detection.
LEMMA HandleStep == ASSUME DeliveryInv, NEW i \in Streams, Handle(i) PROVE DeliveryInv'
<1> USE DEF DeliveryInv
<1>1. PICK n \in 1 .. MaxSeq :
        /\ Receive(i, n)
        /\ log' = IF n <= lastSeq[i] THEN log ELSE Append(log, n)
        /\ lastSeq' = [lastSeq EXCEPT ![i] = IF n <= @ THEN @ ELSE n]
        /\ WriteAck(i, lastSeq'[i])
        /\ UNCHANGED <<agent, link, rejected, rejects, crashes>>
  BY Zenon DEF Handle
<1>2. toGw[i] \in Seq(Events) /\ toGw[i] # <<>> /\ n = Head(toGw[i])
      /\ toGw' = [toGw EXCEPT ![i] = Tail(@)]
  BY <1>1 DEF Receive, TypeOK
<1>3. n = toGw[i][1] /\ n > lastSeq[i] /\ Tail(toGw[i]) \in Seq(Events)
  <2>1. n = toGw[i][1] /\ Tail(toGw[i]) \in Seq(Events)
    BY <1>2, HeadTailProperties
  <2> QED
    BY <1>2, <2>1 DEF StreamOK, QueueOK
<1>4. n \in Nat /\ lastSeq[i] \in Nat /\ n \in Events
  BY DeliveryAssumption DEF TypeOK, Events
<1>5. /\ log' = Append(log, n) /\ lastSeq' = [lastSeq EXCEPT ![i] = n]
      /\ lastSeq'[i] = n
  <2>1. ~(n <= lastSeq[i]) /\ lastSeq \in [Streams -> 0 .. MaxSeq]
    BY <1>3, <1>4 DEF TypeOK
  <2>2. log' = Append(log, n)
    BY <1>1, <2>1
  <2>3. lastSeq' = [lastSeq EXCEPT ![i] = n]
    BY <1>1, <2>1
  <2> QED
    BY <2>1, <2>2, <2>3
<1>6. toAg' = toAg \/ toAg' = [toAg EXCEPT ![i] = Append(@, n)]
  BY Zenon, <1>1, <1>5 DEF WriteAck
<1>7. /\ log' \in Seq(Events) /\ HandledSet \subseteq HandledSet' /\ n \in HandledSet'
  <2>1. log \in Seq(Events) /\ Len(log) \in Nat
    BY LenProperties DEF TypeOK
  <2>2. /\ log' \in Seq(Events) /\ Len(log') = Len(log) + 1
        /\ \A k \in 1 .. Len(log) : log'[k] = log[k]
        /\ log'[Len(log) + 1] = n
    BY <1>4, <1>5, <2>1, AppendProperties
  <2>3. DOMAIN log = 1 .. Len(log) /\ DOMAIN log' = 1 .. Len(log')
    BY <2>1, <2>2, LenProperties
  <2>4. Stored \subseteq Stored' /\ n \in Stored'
    BY <2>1, <2>2, <2>3 DEF Stored
  <2> QED
    BY <1>1, <2>2, <2>4 DEF HandledSet
<1>8. TypeOK'
  <2>1. toAg' \in [Streams -> Seq(Events)]
    <3>1. Append(toAg[i], n) \in Seq(Events)
      BY <1>4, AppendProperties DEF TypeOK
    <3> QED
      BY Zenon, <1>6, <3>1 DEF TypeOK
  <2>2. toGw' \in [Streams -> Seq(Events)]
    BY <1>2, <1>3 DEF TypeOK
  <2>3. lastSeq' \in [Streams -> 0 .. MaxSeq]
    BY <1>5, DeliveryAssumption DEF TypeOK
  <2> QED
    BY <1>1, <1>7, <2>1, <2>2, <2>3 DEF TypeOK, agent
<1> QED
  BY Zenon, <1>1, <1>5, <1>6, <1>7, <1>8, HandlerStep

\* A handler rejects a detection.
LEMMA RejectStep == ASSUME DeliveryInv, NEW i \in Streams, Reject(i) PROVE DeliveryInv'
<1> USE DEF DeliveryInv
<1>1. PICK n \in 1 .. MaxSeq :
        /\ Receive(i, n) /\ n > lastSeq[i]
        /\ rejected' = rejected \cup {n}
        /\ log' \in {log, Append(log, n)}
  BY DEF Reject
<1>2. rejects' = rejects + 1 /\ UNCHANGED <<agent, link, toAg, lastSeq, crashes>>
  BY DEF Reject
<1>3. toGw[i] \in Seq(Events) /\ toGw[i] # <<>> /\ toGw' = [toGw EXCEPT ![i] = Tail(@)]
  BY <1>1 DEF Receive, TypeOK
<1>4. n \in Events
  BY DEF Events
<1>5. log' \in Seq(Events) /\ HandledSet \subseteq HandledSet' /\ n \in HandledSet'
  <2>1. log \in Seq(Events) /\ Len(log) \in Nat
    BY LenProperties DEF TypeOK
  <2>2. log' \in Seq(Events) /\ Stored \subseteq Stored'
    <3>1. CASE log' = log
      BY <2>1, <3>1 DEF Stored
    <3>2. CASE log' = Append(log, n)
      <4>1. /\ log' \in Seq(Events) /\ Len(log') = Len(log) + 1
            /\ \A k \in 1 .. Len(log) : log'[k] = log[k]
        BY <1>4, <2>1, <3>2, AppendProperties
      <4>2. DOMAIN log = 1 .. Len(log) /\ DOMAIN log' = 1 .. Len(log')
        BY <2>1, <4>1, LenProperties
      <4> QED
        BY <2>1, <4>1, <4>2 DEF Stored
    <3> QED
      BY <1>1, <3>1, <3>2
  <2> QED
    BY <1>1, <2>2 DEF HandledSet
<1>6. TypeOK'
  <2>1. toGw' \in [Streams -> Seq(Events)]
    BY <1>3, HeadTailProperties DEF TypeOK
  <2> QED
    BY <1>1, <1>2, <1>4, <1>5, <2>1 DEF TypeOK, agent
<1>7. lastSeq' = [lastSeq EXCEPT ![i] = lastSeq[i]]
  BY <1>2 DEF TypeOK
<1> QED
  BY Zenon, <1>1, <1>2, <1>5, <1>6, <1>7, HandlerStep

\* The invariant is inductive.
LEMMA DeliveryInvStep == DeliveryInv /\ [Next]_vars => DeliveryInv'
<1> SUFFICES ASSUME DeliveryInv, [Next]_vars PROVE DeliveryInv'
  BY SMTT(40)
<1>1. CASE UNCHANGED vars
  BY Zenon, <1>1 DEF vars, agent, stream, DeliveryInv, TypeOK, StreamOK, SendOK, HandledSet, Stored
<1> QED
  BY <1>1, QuietSteps, ConnectStep, SendStep, ReadAckStep, HandleStep, RejectStep DEF Next

\* Every variable of the delivery model keeps its type; in particular the agent
\* never checkpoints an event it has not emitted.
THEOREM DeliveryTypeCorrect == Spec => []TypeOK
<1>1. DeliveryInv => TypeOK
  BY DEF DeliveryInv
<1> QED
  BY <1>1, DeliveryInvInit, DeliveryInvStep, PTL DEF Spec

\* What the agent has checkpointed was published to Kafka or refused by a handler,
\* whatever streams break, handlers linger and agents crash.
THEOREM AckSoundness == Spec => []AckedIsHandled
<1>1. DeliveryInv => AckedIsHandled
  BY DEF DeliveryInv, AckedIsHandled, HandledSet
<1> QED
  BY <1>1, DeliveryInvInit, DeliveryInvStep, PTL DEF Spec

\* No event that the agent sends is a duplicate to the handler that receives it.
THEOREM ResendsAreNew == Spec => []ResendsLookNew
<1>1. DeliveryInv => ResendsLookNew
  <2> SUFFICES ASSUME DeliveryInv, NEW i \in Streams, NEW k \in DOMAIN toGw[i]
               PROVE  toGw[i][k] > lastSeq[i]
    BY DEF ResendsLookNew
  <2>1. /\ toGw[i] \in Seq(Events) /\ lastSeq[i] \in Nat
        /\ QueueOK(toGw[i], lastSeq[i], HandledSet, produced)
    <3>1. TypeOK /\ StreamOK(i)
      BY DEF DeliveryInv
    <3> QED
      BY <3>1, DeliveryAssumption DEF TypeOK, StreamOK
  <2>2. k \in 1 .. Len(toGw[i]) /\ Len(toGw[i]) \in Nat /\ toGw[i] # <<>>
    <3>1. Len(toGw[i]) \in Nat /\ DOMAIN toGw[i] = 1 .. Len(toGw[i])
      BY <2>1, LenProperties
    <3>2. Len(toGw[i]) # 0
      BY <3>1
    <3> QED
      BY <3>1, <3>2, EmptySeq
  <2>3. toGw[i][1] \in Nat
    <3>1. 1 \in 1 .. Len(toGw[i])
      BY <2>2
    <3>2. toGw[i][1] \in Events
      BY <2>1, <3>1, ElementOfSeq
    <3> QED
      BY <3>2, DeliveryAssumption DEF Events
  <2>4. toGw[i][k] = toGw[i][1] + k - 1 /\ toGw[i][1] > lastSeq[i]
    BY <2>1, <2>2 DEF QueueOK
  <2> QED
    BY <2>1, <2>2, <2>3, <2>4
<1> QED
  BY <1>1, DeliveryInvInit, DeliveryInvStep, PTL DEF Spec

\* "An ack means durably stored" (gateway main.cc:3-7) holds as long as no event is
\* rejected, for any number of events, streams and crashes: with broken streams and
\* handlers that outlive them, every checkpointed event is in Kafka.
THEOREM AckIsStoredWithoutRejects ==
  ASSUME MaxRejects = 0
  PROVE  Spec => []AckMeansStored
<1> DEFINE Unrejected == DeliveryInv /\ rejected = {}
<1>1. Init => Unrejected
  BY DeliveryInvInit DEF Init
<1>2. Unrejected /\ [Next]_vars => Unrejected'
  <2> SUFFICES ASSUME DeliveryInv, rejected = {}, [Next]_vars
               PROVE  DeliveryInv' /\ rejected' = {}
    OBVIOUS
  <2>1. rejects \in Nat
    BY DEF DeliveryInv, TypeOK
  <2>2. ASSUME NEW i \in Streams, Reject(i) PROVE FALSE
    BY SMTT(40), <2>1, <2>2 DEF Reject
  <2>3. rejected' = rejected
    BY <2>2 DEF Next, vars, Emit, TimeUp, Exit, Connect, Send, NoticeBreak, Finish, ReadAck, Rejoin, Stop,
                Crash, Restart, Break, Handle, EndHandler
  <2> QED
    BY <2>3, DeliveryInvStep
<1>3. Unrejected => AckMeansStored
  BY DEF DeliveryInv, HandledSet, AckMeansStored
<1> HIDE DEF Unrejected
<1> QED
  BY <1>1, <1>2, <1>3, PTL DEF Spec

--------------------------------------------------------------------------------
\* Each record of log l comes after all the events before its own.
GapFree(l) ==
  \A k \in 1 .. Len(l) : \A n \in 1 .. l[k] - 1 : \E h \in 1 .. k - 1 : l[h] = n

\* A record is appended when all the events before its own are in the log.
LEMMA GapFreeAppend ==
  ASSUME NEW l \in Seq(Events), NEW e \in Events, GapFree(l),
         \A n \in 1 .. e - 1 : \E h \in 1 .. Len(l) : l[h] = n
  PROVE  GapFree(Append(l, e))
<1> DEFINE a == Append(l, e)
<1>1. /\ Len(a) = Len(l) + 1 /\ a[Len(l) + 1] = e /\ Len(l) \in Nat
      /\ \A k \in 1 .. Len(l) : a[k] = l[k]
  BY AppendProperties, LenProperties
<1> HIDE DEF a
<1> SUFFICES ASSUME NEW k \in 1 .. Len(l) + 1, NEW n \in 1 .. a[k] - 1
             PROVE  \E h \in 1 .. k - 1 : a[h] = n
  BY <1>1 DEF GapFree, a
<1>2. CASE k \in 1 .. Len(l)
  <2>1. PICK h \in 1 .. k - 1 : l[h] = n
    BY <1>1, <1>2 DEF GapFree
  <2>2. h \in 1 .. Len(l)
    BY <1>1, <1>2
  <2> QED BY <1>1, <2>1, <2>2
<1>3. CASE k = Len(l) + 1
  <2>1. PICK h \in 1 .. Len(l) : l[h] = n
    BY <1>1, <1>3
  <2>2. h \in 1 .. k - 1
    BY <1>1, <1>3
  <2> QED BY <1>1, <2>1, <2>2
<1>4. Len(l) \in Nat
  BY <1>1
<1>5. k \in 1 .. Len(l) \/ k = Len(l) + 1
  BY <1>4
<1> QED BY <1>2, <1>3, <1>5

\* What is read from a stream is the first element of its queue.
LEMMA FirstOfQueue ==
  ASSUME NEW q \in Seq(Events), q # <<>>
  PROVE  Head(q) = q[1]
OBVIOUS

LogInv == rejected = {} => GapFree(log)

\* Only a handler writes to the log; while nothing is refused, what it publishes comes
\* after events that are stored.
LEMMA LogStep == DeliveryInv /\ LogInv /\ [Next]_vars => LogInv'
<1> SUFFICES ASSUME DeliveryInv, LogInv, [Next]_vars, rejected' = {} PROVE GapFree(log)'
  BY DEF LogInv
<1>1. CASE UNCHANGED <<log, rejected>>
  BY <1>1 DEF LogInv, GapFree
<1>2. ASSUME NEW i \in Streams, Reject(i) PROVE FALSE
  BY <1>2 DEF Reject
<1>3. ASSUME NEW i \in Streams, Handle(i) PROVE GapFree(log)'
  <2>1. PICK n \in Events :
          /\ toGw[i] # <<>> /\ n = Head(toGw[i]) /\ rejected' = rejected
          /\ log' = IF n <= lastSeq[i] THEN log ELSE Append(log, n)
    BY <1>3 DEF Handle, Receive, Events
  <2>2. /\ toGw[i] \in Seq(Events) /\ log \in Seq(Events) /\ rejected = {}
        /\ QueueOK(toGw[i], lastSeq[i], HandledSet, produced)
    BY SMTT(40), <2>1 DEF DeliveryInv, TypeOK, StreamOK
  <2>3. n = toGw[i][1]
    BY Zenon, <2>1, <2>2, FirstOfQueue
  <2>4. \A m \in 1 .. n - 1 : m \in Stored
    BY Zenon, <2>1, <2>2, <2>3 DEF QueueOK, HandledSet
  <2>5. \A m \in 1 .. n - 1 : \E h \in 1 .. Len(log) : log[h] = m
    BY SMTT(40), <2>2, <2>4 DEF Stored
  <2>6. GapFree(log) /\ GapFree(Append(log, n))
    BY Zenon, <2>2, <2>5, GapFreeAppend DEF LogInv
  <2>7. GapFree(log')
    BY <2>1, <2>6
  <2> QED BY <2>7 DEF GapFree
<1>4. CASE Next
  <2>1. \/ UNCHANGED <<log, rejected>>
        \/ \E i \in Streams : Reject(i) \/ Handle(i)
    BY Zenon, <1>4 DEF Next, Emit, TimeUp, Exit, Connect, Send, NoticeBreak, Finish, ReadAck, Rejoin, Stop,
                Crash, Restart, Break, EndHandler
  <2> QED BY SMTT(40), <1>1, <1>2, <1>3, <2>1
<1> QED BY <1>1, <1>4 DEF vars

\* Per-device order in Kafka: whatever streams overlap, break and are resumed, as long
\* as the gateway has refused nothing an event is behind a later one in the log only as
\* a replay of a record before both.
THEOREM RecordsFirstSeenInOrder == Spec => []FirstSeenInOrder
<1>1. Init => LogInv
  BY DEF Init, LogInv, GapFree
<1>2. DeliveryInv /\ LogInv => FirstSeenInOrder
  <2> SUFFICES ASSUME DeliveryInv, LogInv, rejected = {},
                      NEW j \in DOMAIN log, NEW k \in DOMAIN log, j < k, log[k] < log[j]
               PROVE  \E h \in 1 .. j - 1 : log[h] = log[k]
    BY DEF FirstSeenInOrder
  <2>1. log \in Seq(Events) /\ GapFree(log)
    BY DEF DeliveryInv, TypeOK, LogInv
  <2>2. j \in 1 .. Len(log) /\ log[j] \in Nat /\ log[k] \in Nat /\ log[k] >= 1
    <3>1. j \in 1 .. Len(log) /\ log[j] \in Events /\ log[k] \in Events
      BY <2>1
    <3> QED BY <3>1, DeliveryAssumption DEF Events
  <2>3. log[k] \in 1 .. log[j] - 1
    BY <2>2
  <2> QED BY SMTT(40), <2>1, <2>2, <2>3 DEF GapFree
<1> QED BY <1>1, <1>2, DeliveryInvInit, DeliveryInvStep, LogStep, PTL DEF Spec

--------------------------------------------------------------------------------
(* The refinements. *)

\* One more record.
LEMMA StoredAppend ==
  ASSUME NEW q \in Seq(Events), NEW n \in Events, NEW r, r = Append(q, n)
  PROVE  {r[k] : k \in DOMAIN r} = {q[k] : k \in DOMAIN q} \cup {n}
<1>1. /\ DOMAIN q = 1 .. Len(q) /\ DOMAIN r = 1 .. Len(q) + 1 /\ Len(q) \in Nat
      /\ r[Len(q) + 1] = n /\ \A k \in 1 .. Len(q) : r[k] = q[k]
  BY AppendProperties, LenProperties
<1>2. \A k \in 1 .. Len(q) + 1 : k \in 1 .. Len(q) \/ k = Len(q) + 1
  BY <1>1
<1>3. Len(q) + 1 \in 1 .. Len(q) + 1 /\ \A k \in 1 .. Len(q) : k \in 1 .. Len(q) + 1
  BY <1>1
<1> QED BY <1>1, <1>2, <1>3, Zenon

\* A handler only ever has in its hands what was emitted.
LEMMA ReceivedWasEmitted ==
  ASSUME DeliveryInv, NEW i \in Streams, NEW n \in 1 .. MaxSeq, Receive(i, n)
  PROVE  n \in 1 .. produced /\ n \in Events
<1>1. /\ toGw[i] \in Seq(Events) /\ toGw[i] # <<>> /\ n = Head(toGw[i])
      /\ QueueOK(toGw[i], lastSeq[i], HandledSet, produced) /\ produced \in Nat
  BY DeliveryAssumption DEF DeliveryInv, TypeOK, StreamOK, Receive, Events
<1>2. Head(toGw[i]) = toGw[i][1] /\ 1 \in 1 .. Len(toGw[i])
  BY <1>1, HeadTailProperties, EmptySeq
<1>3. toGw[i][1] <= produced
  BY <1>1, <1>2 DEF QueueOK
<1> QED BY <1>1, <1>2, <1>3, DeliveryAssumption DEF Events

\* A step that changes no variable of AtLeastOnce.
SameDelivery == produced' = produced /\ log' = log /\ rejected' = rejected /\ ckpt' = ckpt

\* Such a step stutters.
LEMMA SameDeliveryStutters == SameDelivery => UNCHANGED EndToEnd!deliveryVars
BY Zenon DEF SameDelivery, EndToEnd!deliveryVars, Stored

\* A handled detection is stored, or was a duplicate.
LEMMA HandleStores ==
  ASSUME DeliveryInv, NEW i \in Streams, Handle(i)
  PROVE  SameDelivery \/ \E n \in 1 .. produced : EndToEnd!Store(n)
<1>1. PICK n \in 1 .. MaxSeq :
        /\ Receive(i, n) /\ log' = IF n <= lastSeq[i] THEN log ELSE Append(log, n)
        /\ produced' = produced /\ ckpt' = ckpt /\ rejected' = rejected
  BY DEF Handle, agent
<1>2. n \in 1 .. produced /\ n \in Events
  BY <1>1, ReceivedWasEmitted
<1>3. CASE log' = log
  BY <1>1, <1>3 DEF SameDelivery
<1>4. CASE log' = Append(log, n)
  <2>1. log \in Seq(Events)
    BY DEF DeliveryInv, TypeOK
  <2>2. Stored' = Stored \cup {n}
    BY <1>2, <1>4, <2>1, StoredAppend DEF Stored
  <2> QED BY <1>1, <1>2, <2>2, Zenon DEF EndToEnd!Store
<1> QED BY <1>1, <1>3, <1>4

\* A refused one is refused, stored or not.
LEMMA RejectRefuses ==
  ASSUME DeliveryInv, NEW i \in Streams, Reject(i)
  PROVE  \E n \in 1 .. produced : EndToEnd!Refuse(n)
<1>1. PICK n \in 1 .. MaxSeq :
        /\ Receive(i, n) /\ rejected' = rejected \cup {n} /\ log' \in {log, Append(log, n)}
        /\ produced' = produced /\ ckpt' = ckpt
  BY DEF Reject, agent
<1>2. n \in 1 .. produced /\ n \in Events
  BY <1>1, ReceivedWasEmitted
<1>3. log \in Seq(Events)
  BY DEF DeliveryInv, TypeOK
<1>4. CASE log' = log
  <2>1. Stored' = Stored
    BY <1>4, Zenon DEF Stored
  <2>2. Stored' \in {Stored, Stored \cup {n}}
    BY <2>1
  <2> QED BY <1>1, <1>2, <2>2, Zenon DEF EndToEnd!Refuse
<1>5. CASE log' = Append(log, n)
  <2>1. Stored' = Stored \cup {n}
    BY <1>2, <1>3, <1>5, StoredAppend DEF Stored
  <2>2. Stored' \in {Stored, Stored \cup {n}}
    BY <2>1
  <2> QED BY <1>1, <1>2, <2>2, Zenon DEF EndToEnd!Refuse
<1> QED BY <1>1, <1>4, <1>5

\* Only a sound acknowledgement makes the agent forget: DeliveryInv holds after it.
LEMMA AckForgets ==
  ASSUME DeliveryInv, DeliveryInv', ReadAck
  PROVE  SameDelivery \/ \E n \in 1 .. produced : EndToEnd!Forget(n)
<1>1. /\ produced' = produced /\ log' = log /\ rejected' = rejected
      /\ ckpt' = IF Head(toAg[cur]) > ckpt THEN Head(toAg[cur]) ELSE ckpt
  BY DEF ReadAck
<1>2. ckpt \in Nat /\ ckpt' \in 0 .. produced
  BY <1>1, DeliveryAssumption DEF DeliveryInv, TypeOK
<1>3. CASE ckpt' = ckpt
  BY <1>1, <1>3 DEF SameDelivery
<1>4. CASE ckpt' # ckpt
  <2>1. ckpt' > ckpt
    BY <1>1, <1>4
  <2>2. ckpt' \in 1 .. produced
    BY <1>2, <2>1
  <2>3. Stored' = Stored
    BY <1>1, Zenon DEF Stored
  <2>4. \A m \in 1 .. ckpt' : m \in Stored \/ m \in rejected
    BY <1>1, <2>3 DEF DeliveryInv, HandledSet
  <2> QED BY <1>1, <2>1, <2>2, <2>3, <2>4, Zenon DEF EndToEnd!Forget
<1> QED BY <1>3, <1>4

\* Through broken streams, crashes, handlers that outlive their stream and refusals,
\* the agent and the gateway deliver at least once what is not refused.
THEOREM DeliveryIsAtLeastOnce == Spec => DeliversAtLeastOnce
<1>1. Init => EndToEnd!Init
  <2> SUFFICES ASSUME Init PROVE EndToEnd!Init
    OBVIOUS
  <2>1. Stored = {}
    BY DEF Init, Stored
  <2> QED BY <2>1 DEF Init, EndToEnd!Init
<1>2. DeliveryInv /\ DeliveryInv' /\ [Next]_vars => [EndToEnd!Next]_(EndToEnd!deliveryVars)
  <2> SUFFICES ASSUME DeliveryInv, DeliveryInv', [Next]_vars PROVE EndToEnd!Next \/ SameDelivery
    BY SameDeliveryStutters
  <2>1. CASE Emit
    <3>1. produced' = produced + 1 /\ log' = log /\ rejected' = rejected /\ ckpt' = ckpt
      BY SMTT(40), <2>1 DEF Emit
    <3> QED BY <3>1, Zenon DEF EndToEnd!Next, EndToEnd!Emit, Stored
  <2>2. CASE \/ TimeUp \/ Connect \/ Send \/ NoticeBreak \/ Finish \/ Rejoin \/ Stop
             \/ Exit \/ Crash \/ Restart \/ UNCHANGED vars
    BY <2>2 DEF TimeUp, Exit, Connect, Send, NoticeBreak, Finish, Rejoin, Stop, Crash, Restart, vars,
                agent, SameDelivery
  <2>3. ASSUME NEW i \in Streams, Break(i) \/ EndHandler(i) PROVE SameDelivery
    BY <2>3 DEF Break, EndHandler, agent, SameDelivery
  <2> QED BY <2>1, <2>2, <2>3, HandleStores, RejectRefuses, AckForgets DEF Next, EndToEnd!Next
<1>3. Spec => []DeliveryInv
  BY DeliveryInvInit, DeliveryInvStep, PTL DEF Spec
<1> QED BY <1>1, <1>2, <1>3, PTL DEF Spec, DeliversAtLeastOnce, EndToEnd!Spec

\* The log and the outbox of this module keep the promise that AgentWal implements.
THEOREM OutboxIsDurable == Spec => OutboxAsPromised
<1>1. Init => Durable!Init
  BY DEF Init, Durable!Init, Outbox
<1>2. TypeOK /\ TypeOK' /\ [Next]_vars => [Durable!Next]_(Durable!outboxVars)
  <2> SUFFICES ASSUME TypeOK, TypeOK', [Next]_vars
               PROVE  Durable!Next \/ UNCHANGED Durable!outboxVars
    OBVIOUS
  <2>0. /\ produced \in Nat /\ ckpt \in Nat /\ ckpt <= produced
        /\ produced' \in Nat /\ ckpt' \in Nat /\ ckpt' <= produced'
    BY DeliveryAssumption DEF TypeOK
  <2>1. CASE Emit
    <3>1. pc # "down" /\ produced' = produced + 1 /\ ckpt' = ckpt /\ pc' = pc
      BY <2>1 DEF Emit
    <3>2. /\ 1 .. produced' = (1 .. produced) \cup {produced'} /\ produced' \in 1 .. produced'
          /\ Outbox' = Outbox \cup {produced'} /\ \A m \in 1 .. produced : produced' > m
          /\ produced' > ckpt /\ produced' > 0
      BY <2>0, <3>1 DEF Outbox
    <3>3. Durable!Promise(produced')
      BY <3>1, <3>2, Zenon DEF Durable!Promise
    <3> QED BY <3>2, <3>3, Zenon DEF Durable!Next
  <2>2. CASE ReadAck
    <3>1. /\ pc # "down" /\ pc' = pc /\ produced' = produced
          /\ ckpt' = IF Head(toAg[cur]) > ckpt THEN Head(toAg[cur]) ELSE ckpt
      BY <2>2 DEF ReadAck
    <3>2. CASE ckpt' = ckpt
      BY <3>1, <3>2, Zenon DEF Durable!outboxVars, Outbox
    <3>3. CASE ckpt' # ckpt
      <4>1. ckpt' > ckpt
        BY <3>1, <3>3
      <4>2. Outbox' = {m \in Outbox : m > ckpt'}
        BY <2>0, <3>1, <4>1 DEF Outbox
      <4>3. Durable!Acknowledge
        BY <2>0, <3>1, <4>1, <4>2, Zenon DEF Durable!Acknowledge
      <4> QED BY <4>3, Zenon DEF Durable!Next
    <3> QED BY <3>2, <3>3
  <2>3. CASE Crash
    <3>1. pc # "down" /\ pc' = "down" /\ produced' = produced /\ ckpt' = ckpt
      BY <2>3 DEF Crash
    <3>2. Durable!Crash
      BY <3>1, Zenon DEF Durable!Crash
    <3> QED BY <3>2, Zenon DEF Durable!Next
  <2>4. CASE Restart
    <3>1. pc = "down" /\ pc' # "down" /\ produced' = produced /\ ckpt' = ckpt
      BY <2>4 DEF Restart
    <3>2. Outbox' = {m \in 1 .. produced : m > ckpt}
      BY <2>0, <3>1 DEF Outbox
    <3>3. Durable!Restart
      BY <3>1, <3>2, Zenon DEF Durable!Restart
    <3> QED BY <3>3, Zenon DEF Durable!Next
  <2>5. ASSUME produced' = produced, ckpt' = ckpt, (pc # "down") <=> (pc' # "down")
        PROVE  UNCHANGED Durable!outboxVars
    <3>1. (pc # "down") = (pc' # "down") /\ Outbox' = Outbox /\ (pc = "down") = (pc' = "down")
      BY SMTT(40), <2>5 DEF Outbox
    <3> QED BY <2>5, <3>1 DEF Durable!outboxVars
  <2>6. CASE \/ TimeUp \/ Connect \/ Send \/ NoticeBreak \/ Finish \/ Rejoin \/ Stop
             \/ Exit \/ UNCHANGED vars
    BY <2>5, <2>6 DEF TimeUp, Exit, Connect, Send, NoticeBreak, Finish, Rejoin, Stop, vars, agent
  <2>7. ASSUME NEW i \in Streams, Break(i) \/ EndHandler(i) \/ Handle(i) \/ Reject(i)
        PROVE  UNCHANGED Durable!outboxVars
    BY <2>5, <2>7 DEF Break, EndHandler, Handle, Reject, agent
  <2> QED BY <2>1, <2>2, <2>3, <2>4, <2>6, <2>7 DEF Next
<1> QED BY <1>1, <1>2, DeliveryTypeCorrect, PTL DEF Spec, OutboxAsPromised, Durable!Spec
================================================================================
