--------------------------- MODULE DetectionPathProofs ---------------------------
(***************************************************************************)
(* What MCServices checks of the detection path on small instances, for    *)
(* every value of the constants: the accounting of a gateway stream with   *)
(* numbers of any size and any number of Hellos, the input tensor for      *)
(* frames and inputs of any size, and the boxes kept of any answer of the  *)
(* model.                                                                  *)
(***************************************************************************)
EXTENDS DetectionPath, FiniteSetTheorems, WellFoundedInduction, TLAPS

(* The gateway stream. *)

\* The numbering of a segment starts at or below last_seq, and last_seq itself is where
\* it started or a published detection (that is what every ack is a copy of); while a
\* resync is awaited last_seq has passed nothing, so that it may move the start.
SessionInv ==
  /\ SessionTypeOK /\ AckIsPublished
  /\ start <= lastSeq
  /\ lastSeq > start => lastSeq \in published
  /\ resync => lastSeq = start

\* Nothing is passed over before last_seq moves from the start.
LEMMA SegmentsAreFinite ==
  ASSUME start \in Nat, lastSeq \in Nat
  PROVE  /\ IsFiniteSet(Gaps) /\ Cardinality(Gaps) \in Nat
         /\ IsFiniteSet(Skipped) /\ Cardinality(Skipped) \in Nat
<1>1. IsFiniteSet(start + 1 .. lastSeq)
  <2>1. start + 1 \in Int /\ lastSeq \in Int
    OBVIOUS
  <2> QED BY <2>1, FS_Interval
<1>2. Gaps \subseteq start + 1 .. lastSeq /\ Skipped \subseteq start + 1 .. lastSeq
  BY DEF Gaps, Skipped
<1>3. IsFiniteSet(Gaps) /\ IsFiniteSet(Skipped)
  BY Zenon, <1>1, <1>2, FS_Subset
<1> QED BY Zenon, <1>3, FS_CardinalityType

\* The invariant holds when Connect is entered and every message preserves it.
LEMMA SessionInvStep ==
  /\ SessionInit => SessionInv
  /\ SessionInv /\ [SessionNext]_sessionVars => SessionInv'
<1>1. ASSUME SessionInit PROVE SessionInv
  <2>1. SessionTypeOK
    BY Zenon, <1>1 DEF SessionInit, SessionTypeOK
  <2>2. AckIsPublished /\ lastSeq = start /\ start = 0
    BY <1>1 DEF SessionInit, AckIsPublished
  <2> QED
    BY <2>1, <2>2 DEF SessionInv
<1>2. ASSUME SessionInv, [SessionNext]_sessionVars
      PROVE  SessionInv'
  <2> USE <1>2 DEF SessionInv, SessionTypeOK, AckIsPublished, counters
  <2>1. ASSUME NEW q \in 0 .. MaxSeq, NEW durable \in BOOLEAN, Hello(q, durable)
        PROVE  SessionInv'
    <3>1. q \in Nat /\ lastSeq' = q /\ start' = q /\ ack' = 0 /\ published' = {} /\ offered' = {}
      BY <2>1, SessionAssumption DEF Hello
    <3>2. pastGaps' \in Nat /\ pastSkipped' \in Nat
      BY <2>1, SegmentsAreFinite DEF Hello
    <3>3. SessionTypeOK'
      BY <2>1, <3>1, <3>2 DEF Hello, Read
    <3> QED
      BY <3>1, <3>3
  <2>2. CASE Refuse
    BY <2>2 DEF Refuse
  <2>3. ASSUME NEW q \in Seqs, Reject(q)
        PROVE  SessionInv'
    BY <2>3, SessionAssumption DEF Reject, Offer, Read, Seqs
  <2>4. ASSUME NEW q \in Seqs, Duplicate(q)
        PROVE  SessionInv'
    BY <2>4, SessionAssumption DEF Duplicate, Read, WriteAck, Seqs
  <2>5. ASSUME NEW q \in Seqs, Accept(q)
        PROVE  SessionInv'
    <3> USE <2>5 DEF Accept
    <3>1. q \in Nat \ {0} /\ q > lastSeq /\ lastSeq' = q
      BY SessionAssumption DEF Seqs, Offer
    <3>2. gapEvents' \in Nat /\ start' \in Nat /\ start <= start' /\ start' < q
      BY <3>1
    <3>3. (ack' = q \/ ack' = ack) /\ status' \in {status, "UNAVAILABLE"}
      BY <3>1 DEF WriteAck
    <3>4. SessionTypeOK'
      <4>1. /\ offered' \subseteq Nat /\ published' \subseteq Nat
            /\ hello' = hello /\ resync' = FALSE
        BY <3>1 DEF Offer
      <4>2. /\ received' \in Nat /\ duplicates' \in Nat /\ messages' \in Nat
            /\ rateLimited' \in Nat /\ kafkaFailed' \in Nat
            /\ pastGaps' \in Nat /\ pastSkipped' \in Nat
        BY DEF Offer, Read
      <4>3. ack' \in Nat /\ lastSeq' \in Nat
        BY <3>1, <3>3
      <4>4. status' \in {"open", "OK", "INVALID_ARGUMENT", "PERMISSION_DENIED",
                         "FAILED_PRECONDITION", "UNAVAILABLE"}
        BY <3>3
      <4> QED
        BY Zenon, <3>2, <4>1, <4>2, <4>3, <4>4
    <3>6. q \in published' /\ published \subseteq published' /\ ~resync'
      BY DEF Offer
    <3>7. AckIsPublished'
      BY <3>1, <3>2, <3>3, <3>6
    <3> QED
      BY <3>1, <3>2, <3>4, <3>6, <3>7
  <2>6. CASE HeartbeatFails
    BY <2>6 DEF HeartbeatFails
  <2>7. CASE StreamEnd
    BY <2>7 DEF StreamEnd
  <2>8. CASE UNCHANGED sessionVars
    BY <2>8 DEF sessionVars
  <2> QED
    BY <2>1, <2>2, <2>3, <2>4, <2>5, <2>6, <2>7, <2>8 DEF SessionNext
<1> QED
  BY <1>1, <1>2

\* No ack names a rejected detection, however often the client says hello and in
\* whatever order it numbers its detections (IngestServiceImpl::Connect).
THEOREM AcksArePublished == SessionSpec => []AckIsPublished
<1>1. SessionInv => AckIsPublished
  BY DEF SessionInv
<1> QED
  BY <1>1, SessionInvStep, PTL DEF SessionSpec

--------------------------------------------------------------------------------
(* Gaps and losses as sets of sequence numbers. *)

Rejected == {m \in offered : m > start /\ m \notin published}

\* What is published was offered and is not above last_seq, so that the numbers between
\* last_seq and the next accepted one are new gaps; a rejected detection was counted as
\* such, and a gap that an earlier Hello closed was skipped or counted as rejected.
GapsInv ==
  /\ SessionInv
  /\ offered \subseteq Seqs /\ published \subseteq offered
  /\ \A m \in published : m <= lastSeq
  /\ gapEvents = pastGaps + Cardinality(Gaps)
  /\ pastGaps + Cardinality(Rejected) <= rateLimited + kafkaFailed + pastSkipped

\* Sets of sequence numbers are finite; a gap was skipped or rejected.
LEMMA NumbersAreFinite ==
  ASSUME GapsInv
  PROVE  /\ IsFiniteSet(offered) /\ IsFiniteSet(Gaps) /\ IsFiniteSet(Rejected)
         /\ Cardinality(Gaps) \in Nat /\ Cardinality(Rejected) \in Nat
         /\ Cardinality(Skipped) \in Nat
         /\ Cardinality(Gaps) <= Cardinality(Skipped) + Cardinality(Rejected)
<1>1. IsFiniteSet(1 .. MaxSeq)
  BY SessionAssumption, FS_Interval
<1>2. IsFiniteSet(offered)
  BY Zenon, <1>1, FS_Subset DEF GapsInv, Seqs
<1>3. /\ IsFiniteSet(Gaps) /\ Cardinality(Gaps) \in Nat
      /\ IsFiniteSet(Skipped) /\ Cardinality(Skipped) \in Nat
  BY SegmentsAreFinite DEF GapsInv, SessionInv, SessionTypeOK
<1>4. Rejected \subseteq offered
  BY DEF Rejected
<1>5. IsFiniteSet(Rejected)
  BY Zenon, <1>2, <1>4, FS_Subset
<1>6. Cardinality(Rejected) \in Nat
  BY Zenon, <1>5, FS_CardinalityType
<1>7. Gaps \subseteq Skipped \cup Rejected
  BY DEF GapsInv, SessionInv, SessionTypeOK, Gaps, Skipped, Rejected
<1>8. /\ IsFiniteSet(Skipped \cup Rejected) /\ IsFiniteSet(Skipped \cap Rejected)
      /\ Cardinality(Skipped \cup Rejected)
           = Cardinality(Skipped) + Cardinality(Rejected) - Cardinality(Skipped \cap Rejected)
  BY <1>3, <1>5, FS_Union, FS_Intersection
<1>9. Cardinality(Gaps) <= Cardinality(Skipped \cup Rejected)
  BY <1>7, <1>8, FS_Subset
<1>10. Cardinality(Skipped \cup Rejected) \in Nat /\ Cardinality(Skipped \cap Rejected) \in Nat
  BY <1>8, FS_CardinalityType
<1>11. Cardinality(Gaps) <= Cardinality(Skipped) + Cardinality(Rejected)
  BY <1>3, <1>6, <1>8, <1>9, <1>10
<1> QED BY <1>2, <1>3, <1>5, <1>6, <1>11

\* Nothing is offered when Connect is entered.
LEMMA GapsInitially == SessionInit => GapsInv
<1> SUFFICES ASSUME SessionInit PROVE GapsInv
  OBVIOUS
<1>1. Gaps = {} /\ Rejected = {}
  BY DEF SessionInit, Gaps, Rejected
<1>2. Cardinality(Gaps) = 0 /\ Cardinality(Rejected) = 0
  BY <1>1, FS_EmptySet
<1>3. SessionInv
  BY SessionInvStep
<1> QED BY <1>2, <1>3 DEF SessionInit, GapsInv

\* A Hello starts a segment: nothing of it is offered, and the sums take over the
\* gaps of the one before.
LEMMA HelloStep ==
  ASSUME GapsInv, SessionInv', NEW q \in 0 .. MaxSeq, NEW durable \in BOOLEAN, Hello(q, durable)
  PROVE  GapsInv'
<1>1. /\ lastSeq' = q /\ start' = q /\ offered' = {} /\ published' = {}
      /\ pastGaps' = pastGaps + Cardinality(Gaps)
      /\ pastSkipped' = pastSkipped + Cardinality(Skipped)
      /\ UNCHANGED <<gapEvents, rateLimited, kafkaFailed>>
  BY DEF Hello, counters
<1>2. q \in Nat
  BY SessionAssumption
<1>3. Gaps' = {} /\ Rejected' = {}
  BY <1>1, <1>2 DEF Gaps, Rejected
<1>4. Cardinality(Gaps') = 0 /\ Cardinality(Rejected') = 0
  BY <1>3, FS_EmptySet
<1>5. /\ Cardinality(Gaps) \in Nat /\ Cardinality(Rejected) \in Nat /\ Cardinality(Skipped) \in Nat
      /\ Cardinality(Gaps) <= Cardinality(Skipped) + Cardinality(Rejected)
  BY NumbersAreFinite
<1>6. /\ pastGaps \in Nat /\ pastSkipped \in Nat /\ gapEvents \in Nat
      /\ rateLimited \in Nat /\ kafkaFailed \in Nat
  BY DEF GapsInv, SessionInv, SessionTypeOK
<1>7. /\ gapEvents' = pastGaps' + Cardinality(Gaps')
      /\ pastGaps' + Cardinality(Rejected') <= rateLimited' + kafkaFailed' + pastSkipped'
  BY <1>1, <1>4, <1>5, <1>6 DEF GapsInv
<1> QED BY <1>1, <1>7 DEF GapsInv

\* One more number among the rejected, one more in the counters.
LEMMA OneMoreRejected ==
  ASSUME NEW g \in Nat, NEW s \in Nat, NEW x \in Nat, NEW y \in Nat, NEW u \in Nat, NEW v \in Nat,
         NEW r \in Nat, NEW w \in Nat, NEW t \in Nat,
         g + r <= x + y + s, u + v = x + y + 1, w <= r + 1, t <= w
  PROVE  g + t <= u + v + s
OBVIOUS

\* Every message keeps the sets and the counters together.
LEMMA GapsStep == GapsInv /\ [SessionNext]_sessionVars => GapsInv'
<1> SUFFICES ASSUME GapsInv, [SessionNext]_sessionVars PROVE GapsInv'
  OBVIOUS
<1>s. SessionInv /\ SessionInv'
  BY SessionInvStep DEF GapsInv
<1>t. /\ lastSeq \in Nat /\ start \in Nat /\ gapEvents \in Nat /\ start <= lastSeq
      /\ rateLimited \in Nat /\ kafkaFailed \in Nat /\ pastGaps \in Nat /\ pastSkipped \in Nat
  BY <1>s DEF SessionInv, SessionTypeOK
<1>f. /\ IsFiniteSet(offered) /\ IsFiniteSet(Gaps) /\ IsFiniteSet(Rejected)
      /\ Cardinality(Gaps) \in Nat /\ Cardinality(Rejected) \in Nat
  BY NumbersAreFinite
<1>n. \A q \in Seqs : q \in Nat /\ q >= 1
  BY SessionAssumption DEF Seqs
<1>1. ASSUME UNCHANGED <<lastSeq, start, offered, published, gapEvents, rateLimited,
                         kafkaFailed, pastGaps, pastSkipped>>
      PROVE  GapsInv'
  <2>1. Gaps' = Gaps /\ Rejected' = Rejected
    BY <1>1 DEF Gaps, Rejected
  <2> QED BY <1>1, <1>s, <2>1 DEF GapsInv
<1>3. ASSUME NEW q \in Seqs, Reject(q) PROVE GapsInv'
  <2>1. /\ offered' = offered \cup {q}
        /\ rateLimited' + kafkaFailed' = rateLimited + kafkaFailed + 1
        /\ UNCHANGED <<lastSeq, start, published, gapEvents, pastGaps, pastSkipped>>
    BY <1>3, <1>t DEF Reject, Offer
  <2>2. Gaps' = Gaps
    BY <2>1 DEF Gaps
  <2>3. Rejected' \subseteq Rejected \cup {q}
    BY <2>1 DEF Rejected
  <2>4. /\ IsFiniteSet(Rejected \cup {q})
        /\ Cardinality(Rejected \cup {q}) <= Cardinality(Rejected) + 1
    <3>2. /\ IsFiniteSet(Rejected \cup {q})
          /\ Cardinality(Rejected \cup {q})
               = IF q \in Rejected THEN Cardinality(Rejected) ELSE Cardinality(Rejected) + 1
      BY <1>f, FS_AddElement
    <3> QED BY <1>f, <3>2
  <2>5. Cardinality(Rejected') <= Cardinality(Rejected \cup {q}) /\ IsFiniteSet(Rejected')
    BY <2>3, <2>4, FS_Subset
  <2>6. Cardinality(Rejected') \in Nat /\ Cardinality(Rejected \cup {q}) \in Nat
    BY <2>4, <2>5, FS_CardinalityType
  <2>7. rateLimited' \in Nat /\ kafkaFailed' \in Nat
    BY <1>s DEF SessionInv, SessionTypeOK
  <2>8. pastGaps' + Cardinality(Rejected') <= rateLimited' + kafkaFailed' + pastSkipped'
    <3>1. pastGaps + Cardinality(Rejected) <= rateLimited + kafkaFailed + pastSkipped
      BY DEF GapsInv
    <3>2. pastGaps' = pastGaps /\ pastSkipped' = pastSkipped
      BY <2>1
    <3>3. pastGaps + Cardinality(Rejected') <= rateLimited' + kafkaFailed' + pastSkipped
      BY Zenon, <1>t, <1>f, <2>1, <2>4, <2>5, <2>6, <2>7, <3>1, OneMoreRejected
    <3> QED BY Zenon, <3>2, <3>3
  <2> QED BY <1>s, <2>1, <2>2, <2>8 DEF GapsInv
<1>4. ASSUME NEW q \in Seqs, Duplicate(q) PROVE GapsInv'
  BY <1>1, <1>4 DEF Duplicate
<1>5. ASSUME NEW q \in Seqs, Accept(q) PROVE GapsInv'
  <2>1. /\ offered' = offered \cup {q} /\ q > lastSeq
        /\ gapEvents' = (IF resync THEN gapEvents ELSE gapEvents + (q - lastSeq - 1))
        /\ start' = (IF resync THEN q - 1 ELSE start)
        /\ lastSeq' = q /\ published' = published \cup {q}
        /\ UNCHANGED <<rateLimited, kafkaFailed, pastGaps, pastSkipped>>
    BY <1>5 DEF Accept, Offer
  <2>2. q \in Nat /\ start <= start' /\ start' \in Nat
    BY <1>n, <1>t, <2>1
  <2>3. \A m \in published' : m <= lastSeq'
    <3>1. \A m \in published : m \in Nat /\ m <= lastSeq
      BY <1>n DEF GapsInv
    <3> QED BY <1>t, <2>1, <2>2, <3>1
  <2>4. Rejected' \subseteq Rejected
    <3>1. \A m \in offered : m \in Nat
      BY <1>n DEF GapsInv
    <3> QED BY <1>t, <2>1, <2>2, <3>1 DEF Rejected
  <2>5. pastGaps' + Cardinality(Rejected') <= rateLimited' + kafkaFailed' + pastSkipped'
    <3>1. /\ Cardinality(Rejected') <= Cardinality(Rejected)
          /\ Cardinality(Rejected') \in Nat /\ Cardinality(Rejected) \in Nat
      BY <1>f, <2>4, FS_Subset, FS_CardinalityType
    <3> QED BY <1>t, <2>1, <3>1 DEF GapsInv
  <2>6. gapEvents' = pastGaps' + Cardinality(Gaps')
    <3>1. CASE resync
      <4>1. start' = q - 1 /\ gapEvents' = gapEvents /\ lastSeq = start
        BY <1>s, <2>1, <3>1 DEF SessionInv
      <4>2. Gaps = {} /\ Gaps' = {}
        BY <1>t, <2>1, <2>2, <4>1 DEF Gaps
      <4> QED BY <2>1, <4>1, <4>2 DEF GapsInv
    <3>2. CASE ~resync
      <4> DEFINE new == lastSeq + 1 .. q - 1
      <4>1. start' = start /\ gapEvents' = gapEvents + (q - lastSeq - 1)
        BY <2>1, <3>2
      <4>2. \A m \in new : m \in Nat /\ m \notin published /\ m # q
        BY <1>n, <1>t, <2>1, <2>2 DEF GapsInv
      <4>3. Gaps' = Gaps \cup new /\ Gaps \cap new = {}
        BY <1>t, <2>1, <2>2, <4>1, <4>2 DEF Gaps
      <4>4. IsFiniteSet(new) /\ Cardinality(new) = q - lastSeq - 1
        <5>1. lastSeq + 1 \in Int /\ q - 1 \in Int
          BY <1>t, <2>2
        <5>2. /\ IsFiniteSet(new)
              /\ Cardinality(new) = IF lastSeq + 1 > q - 1 THEN 0 ELSE q - 1 - (lastSeq + 1) + 1
          BY <5>1, FS_Interval
        <5> HIDE DEF new
        <5> QED BY <1>t, <2>1, <2>2, <5>2
      <4>5. Cardinality(Gaps \cup new) = Cardinality(Gaps) + Cardinality(new)
        <5>1. Cardinality(Gaps \cap new) = 0
          BY <4>3, FS_EmptySet
        <5> HIDE DEF new
        <5>2. /\ Cardinality(Gaps \cup new)
                   = Cardinality(Gaps) + Cardinality(new) - Cardinality(Gaps \cap new)
          BY <1>f, <4>4, FS_Union
        <5>3. Cardinality(Gaps) \in Nat /\ Cardinality(new) \in Nat
          BY <1>f, <4>4, FS_CardinalityType
        <5> QED BY <5>1, <5>2, <5>3
      <4> HIDE DEF new
      <4>6. Cardinality(Gaps') = Cardinality(Gaps) + (q - lastSeq - 1)
        BY Zenon, <4>3, <4>4, <4>5
      <4>7. gapEvents = pastGaps + Cardinality(Gaps) /\ pastGaps' = pastGaps
        BY <2>1 DEF GapsInv
      <4> QED BY <1>f, <1>t, <2>2, <4>1, <4>6, <4>7
    <3> QED BY <3>1, <3>2
  <2> QED BY <1>s, <2>1, <2>3, <2>5, <2>6 DEF GapsInv
<1>6. CASE Refuse \/ HeartbeatFails \/ StreamEnd \/ UNCHANGED sessionVars
  BY <1>1, <1>6 DEF Refuse, HeartbeatFails, StreamEnd, sessionVars, counters
<1> QED BY <1>s, <1>3, <1>4, <1>5, <1>6, HelloStep DEF SessionNext

\* gap_events counts exactly the numbers last_seq passed that were never published,
\* for streams of any length, repeated Hellos, resyncs and rejections included.
THEOREM GapsAreUnpublished == SessionSpec => []GapIsUnpublished
<1>1. GapsInv => GapIsUnpublished
  BY DEF GapsInv, GapIsUnpublished
<1> QED BY <1>1, GapsInitially, GapsStep, PTL DEF SessionSpec

\* "lost=" never exceeds what the client skipped while Kafka takes everything: the
\* gaps are numbers that were skipped or that were rejected, and each rejection was
\* counted.
THEOREM RejectedIsNotLost == SessionSpec => []LostIsNotRejected
<1>1. GapsInv => LostIsNotRejected
  <2> SUFFICES ASSUME GapsInv, kafkaFailed = 0 PROVE Lost <= pastSkipped + Cardinality(Skipped)
    BY DEF LostIsNotRejected
  <2>1. /\ Cardinality(Gaps) \in Nat /\ Cardinality(Rejected) \in Nat /\ Cardinality(Skipped) \in Nat
        /\ Cardinality(Gaps) <= Cardinality(Skipped) + Cardinality(Rejected)
    BY NumbersAreFinite
  <2>2. rateLimited \in Nat /\ gapEvents \in Nat /\ pastGaps \in Nat /\ pastSkipped \in Nat
    BY DEF GapsInv, SessionInv, SessionTypeOK
  <2> QED BY <2>1, <2>2 DEF GapsInv, Lost
<1> QED BY <1>1, GapsInitially, GapsStep, PTL DEF SessionSpec

----------------------------------------------------------------------------------
(* The detector's input tensor. *)

\* What integer division does.
LEMMA QuotientBounds ==
  ASSUME NEW f \in Nat, NEW D \in Nat \ {0}
  PROVE  /\ f \div D \in Nat
         /\ (f \div D) * D <= f /\ f < (f \div D) * D + D
BY Z3

\* Integer division keeps the order.
LEMMA QuotientMonotone ==
  ASSUME NEW f \in Nat, NEW g \in Nat, NEW D \in Nat \ {0}, f <= g
  PROVE  f \div D <= g \div D
<1> DEFINE a == f \div D
           b == g \div D
<1>1. /\ a \in Nat /\ b \in Nat /\ a * D <= f /\ g < b * D + D
  BY QuotientBounds
<1> HIDE DEF a, b
<1>2. ASSUME b + 1 <= a
      PROVE  FALSE
  <2>1. (b + 1) * D <= a * D
    BY <1>1, <1>2
  <2>2. (b + 1) * D = b * D + D
    BY <1>1
  <2> QED
    BY <1>1, <2>1, <2>2
<1>3. a <= b
  BY <1>1, <1>2
<1> QED
  BY <1>3 DEF a, b

\* A sample taken inside an axis of the frame, at neighbouring pixels.
Inside(s, len) ==
  /\ 0 <= s.lo /\ s.lo <= s.hi /\ s.hi <= s.lo + 1 /\ s.hi < len
  /\ 0 <= s.wt[1] /\ s.wt[1] <= s.wt[2]

\* The position of a sample, in 1/(2*new) pixel, and the pixel it falls on.
Position(len, new, d) == Detector!Greater((2 * d + 1) * len - new, 0)
Pixel(len, new, d) == Position(len, new, d) \div (2 * new)

\* A position lies inside the axis, and so does its pixel.
LEMMA PositionInside ==
  ASSUME NEW len \in Nat \ {0}, NEW new \in Nat \ {0}, NEW d \in Nat, d < new
  PROVE  /\ 2 * new \in Nat \ {0}
         /\ Position(len, new, d) \in Nat /\ Pixel(len, new, d) \in Nat
         /\ Pixel(len, new, d) * (2 * new) <= Position(len, new, d)
         /\ Position(len, new, d) < Pixel(len, new, d) * (2 * new) + 2 * new
         /\ Pixel(len, new, d) < len
<1> DEFINE D == 2 * new
           f == Position(len, new, d)
           q == f \div D
<1>1. D \in Nat \ {0} /\ (2 * d + 1) * len \in Nat
  OBVIOUS
<1>2. (2 * d + 1) * len < D * len
  <2>1. 2 * d + 1 + 1 <= D
    OBVIOUS
  <2>2. (2 * d + 1 + 1) * len <= D * len
    BY <2>1
  <2>3. (2 * d + 1 + 1) * len = (2 * d + 1) * len + len
    OBVIOUS
  <2> QED
    BY <2>2, <2>3, <1>1
<1>3. f \in Nat /\ f < len * D
  BY <1>1, <1>2 DEF Detector!Greater, Position
<1> HIDE DEF D, f
<1>4. q \in Nat /\ q * D <= f /\ f < q * D + D
  BY <1>1, <1>3, QuotientBounds
<1> HIDE DEF q
<1>5. q < len
  <2>1. ASSUME len <= q
        PROVE  FALSE
    <3>1. len * D <= q * D
      BY <1>1, <1>4, <2>1
    <3> QED
      BY <1>1, <1>3, <1>4, <3>1
  <2> QED
    BY <1>4, <2>1
<1>6. Pixel(len, new, d) = q
  BY DEF Pixel, q, f, D
<1> QED
  BY Zenon, <1>1, <1>3, <1>4, <1>5, <1>6 DEF D, f

\* A table entry samples inside the frame: the clamp of BuildAxisTable's lower index is
\* never needed.  A position that is rounded below a whole pixel keeps its place, with
\* the whole weight on the upper neighbour.
LEMMA SampleInside ==
  ASSUME NEW len \in Nat \ {0}, NEW new \in Nat \ {0}, NEW d \in Nat, d < new,
         NEW below \in BOOLEAN
  PROVE  /\ Inside(Detector!Sample(len, new, d, below), len)
         /\ Detector!Sample(len, new, d, below).lo \in Nat
         /\ \/ Detector!Sample(len, new, d, below).lo = Pixel(len, new, d)
            \/ /\ Detector!Sample(len, new, d, below).lo = Pixel(len, new, d) - 1
               /\ Position(len, new, d) = Pixel(len, new, d) * (2 * new)
<1> DEFINE D == 2 * new
           f == Position(len, new, d)
           q == Pixel(len, new, d)
           lo == IF below /\ q > 0 /\ f = q * D THEN q - 1 ELSE q
<1>1. /\ D \in Nat \ {0} /\ f \in Nat /\ q \in Nat /\ q * D <= f /\ f < q * D + D /\ q < len
  BY PositionInside
<1>2. Detector!Sample(len, new, d, below) =
        [lo |-> Detector!Lesser(lo, len - 1),
         hi |-> Detector!Lesser(Detector!Lesser(lo, len - 1) + 1, len - 1),
         wt |-> <<f - Detector!Lesser(lo, len - 1) * D, D>>]
  BY DEF Detector!Sample, Position, Pixel
<1> HIDE DEF D, f, q
<1>3. lo \in Nat /\ lo < len /\ (lo = q \/ (lo = q - 1 /\ f = q * D))
  BY <1>1
<1>4. f - lo * D >= 0 /\ f - lo * D <= D
  <2>1. CASE lo = q
    BY <1>1, <2>1
  <2>2. CASE lo = q - 1 /\ f = q * D
    <3>1. (q - 1) * D = q * D - D
      BY <1>1
    <3> QED BY <1>1, <2>2, <3>1
  <2> QED BY <1>3, <2>1, <2>2
<1> HIDE DEF lo
<1>5. Detector!Lesser(lo, len - 1) = lo
  BY <1>3 DEF Detector!Lesser
<1>6. /\ Detector!Lesser(lo + 1, len - 1) \in Nat /\ lo <= Detector!Lesser(lo + 1, len - 1)
      /\ Detector!Lesser(lo + 1, len - 1) <= lo + 1 /\ Detector!Lesser(lo + 1, len - 1) < len
  BY <1>3 DEF Detector!Lesser
<1> DEFINE s == Detector!Sample(len, new, d, below)
<1>7. s = [lo |-> lo, hi |-> Detector!Lesser(lo + 1, len - 1), wt |-> <<f - lo * D, D>>]
  BY Zenon, <1>2, <1>5
<1> HIDE DEF s
<1>8. /\ s.lo = lo /\ s.hi = Detector!Lesser(lo + 1, len - 1)
      /\ s.wt[1] = f - lo * D /\ s.wt[2] = D
  BY SMTT(40), <1>7
<1>9. Inside(s, len)
  BY <1>1, <1>3, <1>4, <1>6, <1>8 DEF Inside
<1> QED
  BY Zenon, <1>3, <1>8, <1>9 DEF s, D, f, q

\* Positions ascend, strictly unless both are cut off at the border.
LEMMA PositionsAdvance ==
  ASSUME NEW len \in Nat \ {0}, NEW new \in Nat \ {0}, NEW d \in Nat, NEW e \in Nat, d < e
  PROVE  /\ Position(len, new, d) <= Position(len, new, e)
         /\ Position(len, new, e) = 0 \/ Position(len, new, d) < Position(len, new, e)
<1>1. (2 * d + 1) * len + len <= (2 * e + 1) * len
  <2>1. 2 * d + 1 + 1 <= 2 * e + 1
    OBVIOUS
  <2>2. (2 * d + 1 + 1) * len <= (2 * e + 1) * len
    BY <2>1
  <2>3. (2 * d + 1 + 1) * len = (2 * d + 1) * len + len
    OBVIOUS
  <2> QED
    BY <2>2, <2>3
<1>2. (2 * d + 1) * len \in Nat /\ (2 * e + 1) * len \in Nat
  OBVIOUS
<1> QED
  BY <1>1, <1>2 DEF Position, Detector!Greater

\* A pixel below another's position is at most the one before it.
LEMMA PixelBelow ==
  ASSUME NEW D \in Nat \ {0}, NEW a \in Nat, NEW b \in Nat, a * D < b * D
  PROVE  a <= b - 1
<1>1. ASSUME b <= a PROVE FALSE
  <2>1. b * D <= a * D
    BY <1>1
  <2>2. b * D \in Nat /\ a * D \in Nat
    OBVIOUS
  <2> QED BY <2>1, <2>2
<1> QED BY <1>1

\* The entries of an axis table ascend, however each is rounded.
LEMMA SamplesAdvance ==
  ASSUME NEW len \in Nat \ {0}, NEW new \in Nat \ {0},
         NEW d \in Nat, NEW e \in Nat, d < e, e < new,
         NEW u \in BOOLEAN, NEW v \in BOOLEAN
  PROVE  Detector!Sample(len, new, d, u).lo <= Detector!Sample(len, new, e, v).lo
<1> DEFINE D == 2 * new
           f == Position(len, new, d)
           g == Position(len, new, e)
           p == Pixel(len, new, d)
           q == Pixel(len, new, e)
           a == Detector!Sample(len, new, d, u).lo
           b == Detector!Sample(len, new, e, v).lo
<1>0. d < new
  OBVIOUS
<1>1. D \in Nat \ {0} /\ f \in Nat /\ p \in Nat /\ p * D <= f
  BY <1>0, PositionInside
<1>2. g \in Nat /\ q \in Nat /\ q * D <= g
  BY PositionInside
<1>3. a \in Nat /\ a <= p
  <2>1. a \in Nat /\ (a = p \/ a = p - 1)
    BY ZenonT(40), <1>0, SampleInside
  <2> HIDE DEF a, p
  <2> QED BY <1>1, <2>1
<1>4. b \in Nat /\ (b = q \/ (b = q - 1 /\ g = q * D))
  <2>1. /\ Detector!Sample(len, new, e, v).lo \in Nat
        /\ \/ Detector!Sample(len, new, e, v).lo = Pixel(len, new, e)
           \/ /\ Detector!Sample(len, new, e, v).lo = Pixel(len, new, e) - 1
              /\ Position(len, new, e) = Pixel(len, new, e) * (2 * new)
    BY SMTT(40), SampleInside
  <2> QED BY Zenon, <2>1
<1>5. f <= g /\ (g = 0 \/ f < g)
  BY PositionsAdvance
<1>6. p <= q
  BY Zenon, <1>1, <1>2, <1>5, QuotientMonotone DEF Pixel
<1> HIDE DEF D, f, g, p, q, a, b
<1>7. CASE b = q - 1 /\ g = q * D
  <2>1. q * D # 0
    <3>1. q # 0
      BY <1>2, <1>4, <1>7
    <3> QED BY <1>1, <1>2, <3>1
  <2>2. p * D < q * D
    <3>1. p * D \in Nat /\ q * D \in Nat
      BY <1>1, <1>2
    <3> QED BY <1>1, <1>5, <1>7, <2>1, <3>1
  <2>3. p <= q - 1
    BY <1>1, <1>2, <2>2, PixelBelow
  <2> QED BY <1>1, <1>2, <1>3, <1>7, <2>3 DEF a, b
<1>8. CASE b = q
  BY <1>1, <1>2, <1>3, <1>6, <1>8 DEF a, b
<1> QED
  BY <1>4, <1>7, <1>8

\* The resized frame has a pixel and fits the input, however the product rounds.
LEMMA ResizedFits ==
  ASSUME NEW f \in Frames, f.w > 0, f.h > 0, NEW len \in Nat, NEW new \in Detector!Resized(len, f)
  PROVE  new \in 1 .. S
<1>1. Detector!Longer(f) \in Nat \ {0}
  BY DetectorAssumption DEF Detector!Longer, Detector!Greater
<1>2. len * S \in Nat
  BY DetectorAssumption
<1>3. (len * S) \div Detector!Longer(f) \in Nat
  BY <1>1, <1>2, QuotientBounds
<1>4. \A v \in Int : Detector!Clamp(v, 1, S) \in 1 .. S
  BY DetectorAssumption DEF Detector!Clamp, Detector!Lesser, Detector!Greater
<1> DEFINE exact == (len * S) \div Detector!Longer(f)
<1>5. new = Detector!Clamp(exact, 1, S) \/ new = Detector!Clamp(exact - 1, 1, S)
  BY DEF Detector!Resized
<1>6. exact \in Int /\ exact - 1 \in Int
  BY <1>3
<1> QED
  BY <1>4, <1>5, <1>6

\* The frames are numbered from 1, so padding is no frame's.
TensorInv == n \in Nat /\ Detector!TensorIsThisFrame

\* Preprocess leaves nothing of an earlier frame: the cells that are not padding are
\* those of the resized frame, and the table entries behind them were all rebuilt.
LEMMA PreprocessOK ==
  ASSUME TensorInv, NEW f \in Frames, Detector!Preprocess(f)
  PROVE  TensorInv'
<1> USE DEF TensorInv
<1>1. PICK nw \in Detector!Resized(f.w, f), nh \in Detector!Resized(f.h, f), below \in SUBSET Detector!Cells,
             under \in SUBSET Detector!Cells :
        /\ cols' = Detector!BuildAxisTable(f.w, nw, below, cols)
        /\ rows' = Detector!BuildAxisTable(f.h, nh, under, rows)
        /\ tensor' = Detector!FilledTensor(nw, nh, n + 1, cols', rows')
  BY DEF Detector!Preprocess
<1>2. f.w \in Nat \ {0} /\ f.h \in Nat \ {0} /\ n' = n + 1 /\ frame' = f /\ n' \in Nat \ {0}
  BY DetectorAssumption DEF Detector!Preprocess
<1>3. nw \in 1 .. S /\ nh \in 1 .. S
  BY <1>2, ResizedFits
<1>4. S \in Nat
  BY DetectorAssumption
<1>5. \A c \in Detector!Cells \X Detector!Cells :
        tensor'[c] = IF c[1] < nw /\ c[2] < nh
                     THEN [n |-> n', x |-> Detector!Sample(f.w, nw, c[1], c[1] \in below), y |-> Detector!Sample(f.h, nh, c[2], c[2] \in under)]
                     ELSE Detector!Padding
  <2> TAKE c \in Detector!Cells \X Detector!Cells
  <2>1. c[1] \in Detector!Cells /\ c[2] \in Detector!Cells
    OBVIOUS
  <2>2. c[1] < nw => cols'[c[1]] = Detector!Sample(f.w, nw, c[1], c[1] \in below)
    BY SMTT(40), <1>1, <2>1 DEF Detector!BuildAxisTable
  <2>3. c[2] < nh => rows'[c[2]] = Detector!Sample(f.h, nh, c[2], c[2] \in under)
    BY SMTT(40), <1>1, <2>1 DEF Detector!BuildAxisTable
  <2> QED
    BY SMTT(40), <1>1, <1>2, <2>2, <2>3 DEF Detector!FilledTensor
<1> DEFINE image == {c \in Detector!Cells \X Detector!Cells : tensor'[c] # Detector!Padding}
<1>6. ASSUME NEW c \in image
      PROVE  /\ c \in Detector!Cells \X Detector!Cells /\ c[1] \in Nat /\ c[2] \in Nat /\ c[1] < nw /\ c[2] < nh
             /\ tensor'[c].n = n'
             /\ tensor'[c].x = Detector!Sample(f.w, nw, c[1], c[1] \in below) /\ tensor'[c].y = Detector!Sample(f.h, nh, c[2], c[2] \in under)
  <2>1. c \in Detector!Cells \X Detector!Cells /\ tensor'[c] # Detector!Padding
    OBVIOUS
  <2>2. c[1] < nw /\ c[2] < nh
    BY Zenon, <1>5, <2>1
  <2>3. c[1] \in Nat /\ c[2] \in Nat
    BY SMTT(40), <2>1, <1>4 DEF Detector!Cells
  <2>4. tensor'[c] = [n |-> n', x |-> Detector!Sample(f.w, nw, c[1], c[1] \in below), y |-> Detector!Sample(f.h, nh, c[2], c[2] \in under)]
    BY <1>5, <2>1, <2>2, Zenon
  <2> QED
    BY SMTT(40), <2>1, <2>2, <2>3, <2>4
<1>7. <<0, 0>> \in image
  <2>1. <<0, 0>> \in Detector!Cells \X Detector!Cells /\ 0 < nw /\ 0 < nh
    BY <1>3, <1>4 DEF Detector!Cells
  <2>2. <<0, 0>>[1] = 0 /\ <<0, 0>>[2] = 0
    OBVIOUS
  <2> DEFINE corner == <<0, 0>>
  <2> HIDE DEF corner
  <2>4. corner \in Detector!Cells \X Detector!Cells /\ corner[1] < nw /\ corner[2] < nh
    BY <2>1, <2>2 DEF corner
  <2>5. tensor'[corner] = [n |-> n', x |-> Detector!Sample(f.w, nw, corner[1], corner[1] \in below), y |-> Detector!Sample(f.h, nh, corner[2], corner[2] \in under)]
    BY <1>5, <2>4, Zenon
  <2>6. tensor'[corner].n = n'
    BY SMTT(40), <2>5
  <2>3. Detector!Padding.n = 0
    BY DEF Detector!Padding
  <2> QED
    BY <1>2, <2>3, <2>4, <2>6 DEF corner
<1>8. nw \in Nat \ {0} /\ nh \in Nat \ {0}
  BY <1>3, <1>4
<1> HIDE DEF image
<1>9. ASSUME NEW c \in image
      PROVE  tensor'[c].n = n' /\ Inside(tensor'[c].x, f.w) /\ Inside(tensor'[c].y, f.h)
  <2>1. /\ c[1] \in Nat /\ c[2] \in Nat /\ c[1] < nw /\ c[2] < nh
        /\ tensor'[c].n = n'
        /\ tensor'[c].x = Detector!Sample(f.w, nw, c[1], c[1] \in below) /\ tensor'[c].y = Detector!Sample(f.h, nh, c[2], c[2] \in under)
    BY <1>6, Zenon
  <2>2. Inside(Detector!Sample(f.w, nw, c[1], c[1] \in below), f.w) /\ Inside(Detector!Sample(f.h, nh, c[2], c[2] \in under), f.h)
    <3>1. (c[1] \in below) \in BOOLEAN /\ (c[2] \in under) \in BOOLEAN
      OBVIOUS
    <3> QED BY Zenon, <1>2, <1>8, <2>1, <3>1, SampleInside
  <2> QED
    BY <2>1, <2>2, Zenon
<1>10. ASSUME NEW c \in image, NEW e \in image
       PROVE  /\ c[1] <= e[1] => tensor'[c].x.lo <= tensor'[e].x.lo
              /\ c[2] <= e[2] => tensor'[c].y.lo <= tensor'[e].y.lo
  <2> DEFINE x(k) == Detector!Sample(f.w, nw, k, k \in below)
             y(k) == Detector!Sample(f.h, nh, k, k \in under)
  <2>1. /\ c[1] \in Nat /\ c[2] \in Nat /\ c[1] < nw /\ c[2] < nh
        /\ tensor'[c].x = x(c[1]) /\ tensor'[c].y = y(c[2])
    BY Zenon, <1>6
  <2>2. /\ e[1] \in Nat /\ e[2] \in Nat /\ e[1] < nw /\ e[2] < nh
        /\ tensor'[e].x = x(e[1]) /\ tensor'[e].y = y(e[2])
    BY Zenon, <1>6
  <2>3. (c[1] \in below) \in BOOLEAN /\ (e[1] \in below) \in BOOLEAN
        /\ (c[2] \in under) \in BOOLEAN /\ (e[2] \in under) \in BOOLEAN
    OBVIOUS
  <2>4. c[1] < e[1] => x(c[1]).lo <= x(e[1]).lo
    BY Zenon, <1>2, <1>8, <2>1, <2>2, <2>3, SamplesAdvance
  <2>5. c[2] < e[2] => y(c[2]).lo <= y(e[2]).lo
    BY Zenon, <1>2, <1>8, <2>1, <2>2, <2>3, SamplesAdvance
  <2>6. x(c[1]).lo \in Nat /\ y(c[2]).lo \in Nat
    BY Zenon, <1>2, <1>8, <2>1, <2>3, SampleInside
  <2>7. /\ c[1] = e[1] => x(c[1]).lo = x(e[1]).lo
        /\ c[2] = e[2] => y(c[2]).lo = y(e[2]).lo
    OBVIOUS
  <2> HIDE DEF x, y
  <2>8. c[1] <= e[1] => x(c[1]).lo <= x(e[1]).lo
    BY <2>1, <2>2, <2>4, <2>6, <2>7
  <2>9. c[2] <= e[2] => y(c[2]).lo <= y(e[2]).lo
    BY <2>1, <2>2, <2>5, <2>6, <2>7
  <2> QED
    BY Zenon, <2>1, <2>2, <2>8, <2>9
<1>11. Detector!TensorIsThisFrame'
  BY <1>2, <1>7, <1>9, <1>10, Zenon DEF Detector!TensorIsThisFrame, image, Inside
<1> QED
  BY <1>2, <1>11

\* Before DetectAll has prepared a tensor, and once it has read it, nothing is said of it.
LEMMA NotPrepared ==
  /\ phase # "prepared" => Detector!TensorIsThisFrame
  /\ phase' # "prepared" => Detector!TensorIsThisFrame'
BY Zenon DEF Detector!TensorIsThisFrame

\* TensorIsThisFrame of a tensor t and the k-th frame f.
Shows(k, f, t) ==
  LET image == {c \in Detector!Cells \X Detector!Cells : t[c] # Detector!Padding}
      InBounds(s, len) ==
        /\ 0 <= s.lo /\ s.lo <= s.hi /\ s.hi <= s.lo + 1 /\ s.hi < len
        /\ 0 <= s.wt[1] /\ s.wt[1] <= s.wt[2]
  IN /\ <<0, 0>> \in image
     /\ \A c \in image :
          /\ t[c].n = k
          /\ InBounds(t[c].x, f.w) /\ InBounds(t[c].y, f.h)
          /\ \A e \in image : /\ c[1] <= e[1] => t[c].x.lo <= t[e].x.lo
                              /\ c[2] <= e[2] => t[c].y.lo <= t[e].y.lo

\* A step that leaves the frame and the tensor of a Detect call alone.
LEMMA SameTensor ==
  ASSUME UNCHANGED <<phase, n, frame, tensor>>, Detector!TensorIsThisFrame
  PROVE  Detector!TensorIsThisFrame'
<1>1. phase = phase' /\ n = n' /\ frame = frame' /\ tensor = tensor'
  OBVIOUS
<1>2. (phase = "prepared" => Shows(n, frame, tensor)) <=> Detector!TensorIsThisFrame
  BY Zenon DEF Detector!TensorIsThisFrame, Shows
<1>3. (phase' = "prepared" => Shows(n', frame', tensor')) <=> Detector!TensorIsThisFrame'
  BY Zenon DEF Detector!TensorIsThisFrame, Shows
<1> QED
  BY <1>1, <1>2, <1>3, Zenon

\* Whatever frames came before, of any sizes, and for any input size: the tensor that
\* Preprocess leaves holds this frame, sampled inside its bounds in order, and padding.
THEOREM TensorHoldsThisFrame == PathSpec => []TensorIsThisFrame
<1>1. PathInit => TensorInv
  <2> SUFFICES ASSUME PathInit PROVE TensorInv
    OBVIOUS
  <2>1. phase # "prepared" /\ n \in Nat
    BY DEF PathInit, Detector!Init
  <2> QED
    BY <2>1, NotPrepared DEF TensorInv
<1>2. TensorInv /\ [Detector!Next]_(Detector!vars) => TensorInv'
  <2> SUFFICES ASSUME TensorInv, [Detector!Next]_(Detector!vars) PROVE TensorInv'
    OBVIOUS
  <2>0. n \in Nat /\ Detector!TensorIsThisFrame
    BY DEF TensorInv
  <2>1. ASSUME NEW f \in Frames, Detector!RefuseFrame(f) PROVE TensorInv'
    <3>1. phase' # "prepared" /\ n' = n + 1
      BY <2>1 DEF Detector!RefuseFrame
    <3>2. n' \in Nat
      BY <2>0, <3>1
    <3> QED
      BY <3>1, <3>2, NotPrepared DEF TensorInv
  <2>2. ASSUME NEW out, Detector!Detect(out) PROVE TensorInv'
    <3>1. phase' # "prepared" /\ n' = n
      BY <2>2 DEF Detector!Detect
    <3> QED
      BY <2>0, <3>1, NotPrepared DEF TensorInv
  <2>3. CASE Detector!RefuseOutput
    <3>1. phase' # "prepared" /\ n' = n
      BY <2>3 DEF Detector!RefuseOutput
    <3> QED
      BY <2>0, <3>1, NotPrepared DEF TensorInv
  <2>4. CASE UNCHANGED Detector!vars
    <3>1. UNCHANGED <<phase, n, frame, tensor>>
      BY <2>4 DEF Detector!vars
    <3> QED
      BY <2>0, <3>1, SameTensor DEF TensorInv
  <2> QED
    BY <2>1, <2>2, <2>3, <2>4, PreprocessOK DEF Detector!Next
<1>3. [PathNext]_pathVars => [Detector!Next]_(Detector!vars)
  BY DEF PathNext, pathVars, detectorVars, Detector!vars
<1>4. TensorInv => TensorIsThisFrame
  BY DEF TensorInv, TensorIsThisFrame
<1> QED
  BY <1>1, <1>2, <1>3, <1>4, PTL DEF PathSpec

----------------------------------------------------------------------------------
(* What the detector makes of the model's answer. *)

\* The positions of a sequence.
LEMMA Positions == \A m \in Nat : IsFiniteSet(1 .. m) /\ Cardinality(1 .. m) = m
<1> SUFFICES ASSUME NEW m \in Nat PROVE IsFiniteSet(1 .. m) /\ Cardinality(1 .. m) = m
  OBVIOUS
<1>1. 1 \in Int /\ m \in Int /\ (IF 1 > m THEN 0 ELSE m - 1 + 1) = m
  OBVIOUS
<1> QED BY <1>1, FS_Interval

\* A set of natural numbers that is not empty has a least element.
LEMMA LeastOf == ASSUME NEW T \in SUBSET Nat, T # {} PROVE \E x \in T : \A y \in T : x <= y
<1> DEFINE R == OpToRel(<, Nat)
<1>1. IsWellFoundedOn(R, Nat)
  BY NatLessThanWellFounded, Zenon
<1>2. \A x, y \in Nat : <<x, y>> \in R <=> x < y
  BY Zenon DEF OpToRel
<1> HIDE DEF R
<1>3. PICK x \in T : \A y \in T : ~(<<y, x>> \in R)
  BY Zenon, <1>1, WFMin
<1>4. \A y \in T : ~(y < x)
  BY <1>2, <1>3, Zenon
<1>5. x \in Nat /\ \A y \in T : y \in Nat
  OBVIOUS
<1>6. \A y \in T : x <= y
  BY <1>4, <1>5
<1> QED BY <1>6

\* The greedy scan has an outcome, whatever overlaps (R) there are.
LEMMA GreedyScan ==
  ASSUME NEW R, NEW N \in Nat
  PROVE  \E K \in SUBSET (1 .. N) :
           \A i \in 1 .. N : i \in K <=> ~\E j \in K : j < i /\ <<i, j>> \in R
<1> DEFINE Scan(K, m) == /\ K \in SUBSET (1 .. m)
                         /\ \A i \in 1 .. m : i \in K <=> ~\E j \in K : j < i /\ <<i, j>> \in R
           T == {m \in Nat : ~\E K : Scan(K, m)}
<1>1. ASSUME T # {} PROVE FALSE
  <2>1. PICK m \in T : \A y \in T : m <= y
    BY Zenon, <1>1, LeastOf
  <2>2. m \in Nat /\ ~\E K : Scan(K, m)
    BY Zenon
  <2>3. CASE m = 0
    <3>1. Scan({}, 0)
      OBVIOUS
    <3> QED BY Zenon, <2>2, <2>3, <3>1
  <2>4. CASE m # 0
    <3>1. m - 1 \in Nat /\ ~(m <= m - 1)
      BY <2>2, <2>4
    <3>2. m - 1 \notin T
      BY Zenon, <2>1, <3>1
    <3>3. PICK K : Scan(K, m - 1)
      BY Zenon, <3>1, <3>2
    <3> DEFINE L == IF \E j \in K : <<m, j>> \in R THEN K ELSE K \cup {m}
    <3> HIDE DEF T
    <3>4. \A j \in K : j \in 1 .. m - 1
      BY <3>3
    <3>5. L \in SUBSET (1 .. m)
      <4>1. m \in 1 .. m /\ \A j \in 1 .. m - 1 : j \in 1 .. m
        BY <3>1, <2>2
      <4> QED BY <3>4, <4>1
    <3>6. ASSUME NEW i \in 1 .. m - 1
          PROVE  i \in L <=> ~\E j \in L : j < i /\ <<i, j>> \in R
      <4>1. (i \in L <=> i \in K) /\ \A j : j < i => (j \in L <=> j \in K)
        BY <3>1, <2>2
      <4> QED BY <3>3, <4>1
    <3>7. m \in L <=> ~\E j \in L : j < m /\ <<m, j>> \in R
      <4>1. m \notin K /\ \A j \in K : j < m
        BY <3>4, <2>2
      <4>2. ~(m < m)
        BY <2>2
      <4> QED BY <4>1, <4>2
    <3>8. \A i \in 1 .. m : i \in 1 .. m - 1 \/ i = m
      BY <2>2
    <3>9. Scan(L, m)
      BY Zenon, <3>5, <3>6, <3>7, <3>8
    <3> QED BY Zenon, <2>2, <3>9
  <2> QED BY <2>3, <2>4
<1>2. \E K : Scan(K, N)
  BY Zenon, <1>1
<1> QED BY <1>2

\* The grid's members.
Point == [x : Int, y : Int, stride : Nat]

\* There is one such set only: the CHOOSE of Nms leaves no choice.
LEMMA GreedyScanUnique ==
  ASSUME NEW R, NEW N \in Nat, NEW K \in SUBSET (1 .. N), NEW L \in SUBSET (1 .. N),
         \A i \in 1 .. N : i \in K <=> ~\E j \in K : j < i /\ <<i, j>> \in R,
         \A i \in 1 .. N : i \in L <=> ~\E j \in L : j < i /\ <<i, j>> \in R
  PROVE  K = L
<1> DEFINE T == {m \in 1 .. N : ~(m \in K <=> m \in L)}
<1>1. SUFFICES ASSUME T # {} PROVE FALSE
  BY Zenon
<1>2. T \in SUBSET Nat
  OBVIOUS
<1>3. PICK m \in T : \A y \in T : m <= y
  <2> HIDE DEF T
  <2> QED BY <1>1, <1>2, LeastOf
<1>4. \A j \in 1 .. N : j < m => (j \in K <=> j \in L)
  <2> SUFFICES ASSUME NEW j \in 1 .. N, j < m, j \in T PROVE FALSE
    OBVIOUS
  <2>1. m <= j /\ m \in Nat /\ j \in Nat
    BY SMTT(40), <1>2, <1>3
  <2> QED BY <2>1
<1> QED BY <1>3, <1>4

\* The constructor's outer loop: the levels of k strides are those of k - 1 and one more.
LEMMA LevelsByStride ==
  Detector!Levels = [k \in 0 .. Len(Strides) |->
                       IF k = 0 THEN <<>> ELSE Detector!Levels[k - 1] \o Detector!Level(Strides[k])]
<1> DEFINE Defines(g, m) == g = [k \in 0 .. m |->
                                   IF k = 0 THEN <<>> ELSE g[k - 1] \o Detector!Level(Strides[k])]
           T == {m \in Nat : ~\E g : Defines(g, m)}
<1>1. ASSUME T # {} PROVE FALSE
  <2>1. PICK m \in T : \A y \in T : m <= y
    BY Zenon, <1>1, LeastOf
  <2>2. m \in Nat /\ ~\E g : Defines(g, m)
    BY Zenon
  <2>3. CASE m = 0
    <3>1. Defines([k \in 0 .. 0 |-> <<>>], 0)
      OBVIOUS
    <3> QED BY Zenon, <2>2, <2>3, <3>1
  <2>4. CASE m # 0
    <3>1. m - 1 \in Nat /\ ~(m <= m - 1)
      BY <2>2, <2>4
    <3>2. m - 1 \notin T
      BY Zenon, <2>1, <3>1
    <3>3. PICK g : Defines(g, m - 1)
      BY Zenon, <3>1, <3>2
    <3> HIDE DEF T
    <3> DEFINE last == g[m - 1] \o Detector!Level(Strides[m])
               h == [k \in 0 .. m |-> IF k = m THEN last ELSE g[k]]
    <3>4. ASSUME NEW k \in 0 .. m
          PROVE  h[k] = IF k = 0 THEN <<>> ELSE h[k - 1] \o Detector!Level(Strides[k])
      <4>1. CASE k = m
        <5>1. h[k - 1] = g[m - 1] /\ k # 0
          BY SMTT(40), <2>2, <2>4, <3>1, <4>1
        <5> QED BY <4>1, <5>1
      <4>2. CASE k # m
        <5>1. k \in 0 .. m - 1 /\ (k # 0 => k - 1 \in 0 .. m - 1 /\ k - 1 # m /\ k - 1 \in 0 .. m)
          BY <2>2, <3>1, <4>2
        <5> HIDE DEF last
        <5>2. h[k] = g[k] /\ (k # 0 => h[k - 1] = g[k - 1])
          BY <4>2, <5>1
        <5> QED BY Zenon, <3>3, <5>1, <5>2
      <4> QED BY <4>1, <4>2
    <3>5. Defines(h, m)
      BY Zenon, <3>4
    <3> QED BY Zenon, <2>2, <3>5
  <2> QED BY <2>3, <2>4
<1>2. Len(Strides) \in Nat
  BY DetectorAssumption
<1>3. \E g : Defines(g, Len(Strides))
  BY Zenon, <1>1, <1>2
<1> QED BY Zenon, <1>3 DEF Detector!Levels

\* One level of the grid.
LEMMA LevelTyped == ASSUME NEW stride \in Nat \ {0} PROVE Detector!Level(stride) \in Seq(Point)
<1> DEFINE cells == S \div stride
<1>1. cells \in Nat
  BY DetectorAssumption
<1> HIDE DEF cells
<1>2. cells * cells \in Nat
  BY <1>1
<1>3. ASSUME NEW j \in 1 .. cells * cells
      PROVE  [x |-> (j - 1) % cells, y |-> (j - 1) \div cells, stride |-> stride] \in Point
  <2>1. cells > 0
    BY <1>1
  <2>2. (j - 1) % cells \in Int /\ (j - 1) \div cells \in Int
    BY <1>1, <2>1
  <2> QED BY <2>2 DEF Point
<1>4. Detector!Level(stride) = [j \in 1 .. cells * cells |->
                                  [x |-> (j - 1) % cells, y |-> (j - 1) \div cells, stride |-> stride]]
  BY DEF Detector!Level, cells
<1> QED BY <1>2, <1>3, <1>4

\* Every row that the model may answer has its cell and stride.
LEMMA GridTyped == Detector!Grid \in Seq(Point)
<1> DEFINE T == {k \in Nat : k \in 0 .. Len(Strides) /\ Detector!Levels[k] \notin Seq(Point)}
<1>0. Len(Strides) \in Nat /\ \A k \in 1 .. Len(Strides) : Strides[k] \in Nat \ {0}
  BY DetectorAssumption
<1>1. ASSUME T # {} PROVE FALSE
  <2>1. PICK m \in T : \A y \in T : m <= y
    BY Zenon, <1>1, LeastOf
  <2>2. m \in 0 .. Len(Strides) /\ Detector!Levels[m] \notin Seq(Point)
    OBVIOUS
  <2>3. CASE m = 0
    BY <1>0, <2>2, <2>3, LevelsByStride
  <2>4. CASE m # 0
    <3>1. m - 1 \in 0 .. Len(Strides) /\ ~(m <= m - 1) /\ m \in 1 .. Len(Strides) /\ m - 1 \in Nat
      BY <1>0, <2>2, <2>4
    <3>2. Detector!Levels[m - 1] \in Seq(Point)
      BY <2>1, <3>1
    <3>3. Detector!Level(Strides[m]) \in Seq(Point)
      BY SMTT(40), <1>0, <3>1, LevelTyped
    <3>4. Detector!Levels[m] = Detector!Levels[m - 1] \o Detector!Level(Strides[m])
      BY <2>2, <2>4, LevelsByStride
    <3> QED BY <2>2, <3>2, <3>3, <3>4
  <2> QED BY <2>3, <2>4
<1>2. Len(Strides) \in 0 .. Len(Strides)
  BY <1>0
<1> QED BY <1>0, <1>1, <1>2 DEF Detector!Grid

\* The argmax over the class scores finds one.
LEMMA BestClassFound ==
  ASSUME NEW r, ModelRow(r)
  PROVE  Detector!BestClass(r) \in DOMAIN r.cls /\ r.cls[Detector!BestClass(r)] \in 0 .. 10
<1>1. /\ Len(r.cls) \in Nat /\ Len(r.cls) > 0 /\ DOMAIN r.cls = 1 .. Len(r.cls)
      /\ \A c \in DOMAIN r.cls : r.cls[c] \in 0 .. 10
  BY SMTT(40) DEF ModelRow
<1> DEFINE V == {v \in Nat : \E c \in DOMAIN r.cls : v = 10 - r.cls[c]}
<1>2. 10 - r.cls[1] \in V
  BY <1>1
<1>3. PICK v \in V : \A y \in V : v <= y
  BY Zenon, <1>2, LeastOf
<1>4. PICK d \in DOMAIN r.cls : v = 10 - r.cls[d]
  BY <1>3
<1>5. \A e \in DOMAIN r.cls : r.cls[e] <= r.cls[d]
  <2> SUFFICES ASSUME NEW e \in DOMAIN r.cls PROVE r.cls[e] <= r.cls[d]
    OBVIOUS
  <2>1. r.cls[e] \in 0 .. 10 /\ r.cls[d] \in 0 .. 10
    BY <1>1, Zenon
  <2>2. 10 - r.cls[e] \in Nat
    BY <2>1
  <2>3. 10 - r.cls[e] \in V
    BY <2>2, Zenon
  <2>4. v <= 10 - r.cls[e]
    BY <1>3, <2>3, Zenon
  <2>5. 10 - r.cls[d] <= 10 - r.cls[e]
    BY <1>4, <2>4, Zenon
  <2> HIDE DEF V
  <2> QED BY <2>1, <2>5
<1> HIDE DEF V
<1> DEFINE C == {c \in Nat : c \in DOMAIN r.cls /\ r.cls[c] = r.cls[d]}
<1>6. d \in C
  BY <1>1
<1>7. PICK c \in C : \A y \in C : c <= y
  BY Zenon, <1>6, LeastOf
<1>8. /\ c \in DOMAIN r.cls
      /\ \A e \in DOMAIN r.cls : r.cls[e] <= r.cls[c]
  BY <1>5
<1>9. \A e \in 1 .. c - 1 : r.cls[e] < r.cls[c]
  <2> SUFFICES ASSUME NEW e \in 1 .. c - 1 PROVE r.cls[e] < r.cls[c]
    OBVIOUS
  <2>1. e \in DOMAIN r.cls /\ e \in Nat /\ ~(c <= e)
    BY <1>1, <1>8
  <2>2. e \notin C
    BY SMTT(40), <1>7, <2>1
  <2>3. r.cls[e] # r.cls[c] /\ r.cls[e] <= r.cls[c]
    BY <1>8, <2>1, <2>2
  <2>4. r.cls[e] \in 0 .. 10 /\ r.cls[c] \in 0 .. 10
    BY <1>1, <1>8, <2>1, Zenon
  <2> QED BY <2>3, <2>4
<1>10. Detector!BestClass(r) \in DOMAIN r.cls
  BY <1>8, <1>9, Zenon DEF Detector!BestClass
<1> QED BY <1>1, <1>10

\* What the clamps of DetectAll make of a box: it is inside the frame, corners in order;
\* and a score is at most its objectness, which is why the early exit drops nothing.
BoxIn(b, f) ==
  /\ b.x1 \in Int /\ b.x2 \in Int /\ b.y1 \in Int /\ b.y2 \in Int /\ b.score \in Int
  /\ b.x1 <= b.x2 /\ b.x2 <= 2 * S * f.w /\ b.y1 <= b.y2 /\ b.y2 <= 2 * S * f.h

LEMMA ClampOrder ==
  ASSUME NEW a \in Int, NEW b \in Int, NEW hi \in Nat, a <= b
  PROVE  /\ Detector!Clamp(a, 0, hi) \in Int /\ Detector!Clamp(b, 0, hi) \in Int
         /\ Detector!Clamp(a, 0, hi) <= Detector!Clamp(b, 0, hi)
         /\ Detector!Clamp(b, 0, hi) <= hi
BY DEF Detector!Clamp, Detector!Lesser, Detector!Greater

LEMMA ScaleOrder ==
  ASSUME NEW a \in Int, NEW b \in Int, a <= b, NEW m \in Nat
  PROVE  a * m \in Int /\ b * m \in Int /\ a * m <= b * m
OBVIOUS

LEMMA DecodeInside ==
  ASSUME NEW r, ModelRow(r), NEW i \in DOMAIN Detector!Grid, NEW f, f.w \in Nat, f.h \in Nat
  PROVE  /\ BoxIn(Detector!Decode(r, i, f), f)
         /\ Detector!Decode(r, i, f).score <= 10 * r.obj
<1> DEFINE g == Detector!Grid[i]
           L == Detector!Longer(f)
           c == r.cls[Detector!BestClass(r)]
           at(v, cell, half, len) == Detector!Clamp((2 * (v + cell) + half) * g.stride * L, 0, 2 * S * len)
           D == Detector!Decode(r, i, f)
<1>1. g.x \in Int /\ g.y \in Int /\ g.stride \in Nat
  <2>1. g \in Point
    BY GridTyped
  <2> QED BY <2>1 DEF Point
<1>2. L \in Nat /\ S \in Nat /\ 2 * S * f.w \in Nat /\ 2 * S * f.h \in Nat
  <2>1. L \in Nat
    BY DEF Detector!Longer, Detector!Greater
  <2>2. S \in Nat
    BY DetectorAssumption
  <2>3. ASSUME NEW m \in Nat, NEW k \in Nat PROVE 2 * m * k \in Nat
    OBVIOUS
  <2> QED BY <2>1, <2>2, <2>3
<1>3. /\ r.px \in Int /\ r.py \in Int /\ r.bw \in Nat /\ r.bh \in Nat /\ r.obj \in 0 .. 10
      /\ c \in 0 .. 10
  BY SMTT(40), BestClassFound DEF ModelRow
<1>4. /\ D.score = r.obj * c
      /\ D.x1 = at(r.px, g.x, -r.bw, f.w) /\ D.y1 = at(r.py, g.y, -r.bh, f.h)
      /\ D.x2 = at(r.px, g.x, r.bw, f.w) /\ D.y2 = at(r.py, g.y, r.bh, f.h)
  BY Zenon DEF Detector!Decode
<1> HIDE DEF g, L, c, D
<1>5. r.obj * c \in Int /\ r.obj * c <= 10 * r.obj
  BY <1>3
<1>6. ASSUME NEW v \in Int, NEW cell \in Int, NEW half \in Nat, NEW len, 2 * S * len \in Nat
      PROVE  /\ at(v, cell, -half, len) \in Int /\ at(v, cell, half, len) \in Int
             /\ at(v, cell, -half, len) <= at(v, cell, half, len)
             /\ at(v, cell, half, len) <= 2 * S * len
  <2> DEFINE lo == 2 * (v + cell) + (-half)
             up == 2 * (v + cell) + half
  <2>1. lo \in Int /\ up \in Int /\ lo <= up
    OBVIOUS
  <2> HIDE DEF lo, up
  <2>2. lo * g.stride \in Int /\ up * g.stride \in Int /\ lo * g.stride <= up * g.stride
    BY SMTT(40), <1>1, <2>1, ScaleOrder
  <2> DEFINE a == lo * g.stride
             b == up * g.stride
  <2> HIDE DEF a, b
  <2>3. a * L \in Int /\ b * L \in Int /\ a * L <= b * L
    BY <1>2, <2>2, ScaleOrder DEF a, b
  <2>4. lo * g.stride * L = a * L /\ up * g.stride * L = b * L
    BY DEF a, b
  <2>5. /\ Detector!Clamp(a * L, 0, 2 * S * len) \in Int /\ Detector!Clamp(b * L, 0, 2 * S * len) \in Int
        /\ Detector!Clamp(a * L, 0, 2 * S * len) <= Detector!Clamp(b * L, 0, 2 * S * len)
        /\ Detector!Clamp(b * L, 0, 2 * S * len) <= 2 * S * len
    BY <1>6, <2>3, ClampOrder
  <2> QED BY <2>4, <2>5, Zenon DEF lo, up
<1> HIDE DEF at
<1>7. /\ D.x1 \in Int /\ D.x2 \in Int /\ D.x1 <= D.x2 /\ D.x2 <= 2 * S * f.w
  <2>1. /\ at(r.px, g.x, -r.bw, f.w) \in Int /\ at(r.px, g.x, r.bw, f.w) \in Int
        /\ at(r.px, g.x, -r.bw, f.w) <= at(r.px, g.x, r.bw, f.w)
        /\ at(r.px, g.x, r.bw, f.w) <= 2 * S * f.w
    BY <1>1, <1>2, <1>3, <1>6, Zenon
  <2> QED BY <1>4, <2>1, Zenon
<1>8. /\ D.y1 \in Int /\ D.y2 \in Int /\ D.y1 <= D.y2 /\ D.y2 <= 2 * S * f.h
  <2>1. /\ at(r.py, g.y, -r.bh, f.h) \in Int /\ at(r.py, g.y, r.bh, f.h) \in Int
        /\ at(r.py, g.y, -r.bh, f.h) <= at(r.py, g.y, r.bh, f.h)
        /\ at(r.py, g.y, r.bh, f.h) <= 2 * S * f.h
    BY <1>1, <1>2, <1>3, <1>6, ZenonT(40)
  <2> QED BY <1>4, <2>1, Zenon
<1>9. D.score \in Int /\ D.score <= 10 * r.obj
  BY <1>4, <1>5
<1> QED BY <1>7, <1>8, <1>9, Zenon DEF BoxIn, D

\* The corners of an intersection do not depend on which box comes first.
LEMMA CornerBothWays ==
  ASSUME NEW x \in Int, NEW y \in Int
  PROVE  /\ Detector!Greater(x, y) \in Int /\ Detector!Greater(x, y) = Detector!Greater(y, x)
         /\ Detector!Lesser(x, y) \in Int /\ Detector!Lesser(x, y) = Detector!Lesser(y, x)
BY DEF Detector!Greater, Detector!Lesser

LEMMA AreaIsInt ==
  ASSUME NEW b, b.x1 \in Int, b.y1 \in Int, b.x2 \in Int, b.y2 \in Int
  PROVE  Detector!Area(b) \in Int
<1>1. Detector!Greater(0, b.x2 - b.x1) \in Int /\ Detector!Greater(0, b.y2 - b.y1) \in Int
  BY DEF Detector!Greater
<1> QED BY <1>1 DEF Detector!Area

\* IoU does not care which box comes first.
LEMMA OverlapsBothWays ==
  ASSUME NEW a, NEW b, NEW f, BoxIn(a, f), BoxIn(b, f), Detector!Overlaps(a, b)
  PROVE  Detector!Overlaps(b, a)
<1> DEFINE I(p, q) == [x1 |-> Detector!Greater(p.x1, q.x1), y1 |-> Detector!Greater(p.y1, q.y1),
                       x2 |-> Detector!Lesser(p.x2, q.x2), y2 |-> Detector!Lesser(p.y2, q.y2)]
<1>0. /\ a.x1 \in Int /\ a.x2 \in Int /\ a.y1 \in Int /\ a.y2 \in Int
      /\ b.x1 \in Int /\ b.x2 \in Int /\ b.y1 \in Int /\ b.y2 \in Int
  BY Zenon DEF BoxIn
<1>1. I(a, b) = I(b, a)
  <2>1. /\ Detector!Greater(a.x1, b.x1) = Detector!Greater(b.x1, a.x1)
        /\ Detector!Greater(a.y1, b.y1) = Detector!Greater(b.y1, a.y1)
        /\ Detector!Lesser(a.x2, b.x2) = Detector!Lesser(b.x2, a.x2)
        /\ Detector!Lesser(a.y2, b.y2) = Detector!Lesser(b.y2, a.y2)
    BY <1>0, CornerBothWays, Zenon
  <2> QED BY <2>1, Zenon
<1>3. Detector!Area(I(a, b)) \in Int
  <2>1. /\ I(a, b).x1 = Detector!Greater(a.x1, b.x1) /\ I(a, b).y1 = Detector!Greater(a.y1, b.y1)
        /\ I(a, b).x2 = Detector!Lesser(a.x2, b.x2) /\ I(a, b).y2 = Detector!Lesser(a.y2, b.y2)
    OBVIOUS
  <2> HIDE DEF I
  <2>2. /\ Detector!Greater(a.x1, b.x1) \in Int /\ Detector!Greater(a.y1, b.y1) \in Int
        /\ Detector!Lesser(a.x2, b.x2) \in Int /\ Detector!Lesser(a.y2, b.y2) \in Int
    BY <1>0, CornerBothWays, ZenonT(40)
  <2>3. /\ I(a, b).x1 \in Int /\ I(a, b).y1 \in Int /\ I(a, b).x2 \in Int /\ I(a, b).y2 \in Int
    BY <2>1, <2>2
  <2> QED BY <2>3, AreaIsInt, ZenonT(40)
<1> HIDE DEF I
<1> DEFINE A == Detector!Area(a)
           B == Detector!Area(b)
           C == Detector!Area(I(a, b))
           Over(uni) == uni > 0 /\ 10 * C > IouLimit * uni
<1>2. A \in Int /\ B \in Int /\ C \in Int
  BY <1>0, <1>3, AreaIsInt, Zenon
<1>4. Detector!Area(I(b, a)) = C
  BY <1>1, Zenon
<1>5. Detector!Overlaps(a, b) <=> Over(A + B - C)
  BY Zenon DEF Detector!Overlaps, I
<1>6. Detector!Overlaps(b, a) <=> Over(B + A - C)
  <2> DEFINE E == Detector!Area(I(b, a))
  <2>1. Detector!Overlaps(b, a) <=> B + A - E > 0 /\ 10 * E > IouLimit * (B + A - E)
    BY Zenon DEF Detector!Overlaps, I
  <2> HIDE DEF A, B, C
  <2> QED BY <1>4, <2>1, Zenon
<1> HIDE DEF A, B, C, Over
<1>7. A + B - C = B + A - C
  BY <1>2
<1> QED BY <1>5, <1>6, <1>7, Zenon

\* What std::sort leaves: every row whose score passes, none other, the best first.
Listed(out, f, cand, N) ==
  /\ DOMAIN cand = 1 .. N
  /\ \A k \in 1 .. N : /\ BoxIn(cand[k], f) /\ cand[k].score > 10 * ScoreLimit
                       /\ \E i \in DOMAIN out : cand[k] = Detector!Decode(out[i], i, f)
  /\ \A i \in DOMAIN out :
       Detector!Decode(out[i], i, f).score > 10 * ScoreLimit =>
         \E k \in 1 .. N : cand[k] = Detector!Decode(out[i], i, f)
  /\ \A i, j \in 1 .. N : i < j => cand[i].score >= cand[j].score

LEMMA ScoreNeedsObjectness ==
  ASSUME NEW x \in Int, NEW y \in Int, x <= 10 * y, x > 10 * ScoreLimit
  PROVE  y > ScoreLimit
BY DetectorAssumption

LEMMA SortedIsListed ==
  ASSUME NEW out, DOMAIN out = DOMAIN Detector!Grid, \A i \in DOMAIN out : ModelRow(out[i]),
         NEW f, f.w \in Nat, f.h \in Nat, NEW cand \in Detector!Sorted(out, f)
  PROVE  \E N \in Nat : Listed(out, f, cand, N)
<1> DEFINE found == Detector!Passing(out, f)
           at(i) == Detector!Decode(out[i], i, f)
           N == Cardinality(found)
<1>1. PICK q \in Injection(1 .. N, found) :
        /\ \A i, j \in DOMAIN q : i < j => at(q[i]).score >= at(q[j]).score
        /\ cand = [k \in DOMAIN q |-> at(q[k])]
  <2>1. Detector!Cardinality(found) = N
    BY SMTT(40) DEF Detector!Cardinality, Cardinality
  <2>2. Detector!Injection(1 .. N, found) = Injection(1 .. N, found)
    BY Zenon DEF Detector!Injection, Detector!IsInjective, Injection, IsInjective
  <2>3. PICK q \in Detector!Injection(1 .. Detector!Cardinality(found), found) :
        /\ \A i, j \in DOMAIN q : i < j => at(q[i]).score >= at(q[j]).score
        /\ cand = [k \in DOMAIN q |-> at(q[k])]
    BY Zenon DEF Detector!Sorted
  <2> QED BY <2>1, <2>2, <2>3, Zenon
<1>2. found \subseteq DOMAIN out
  BY Zenon DEF Detector!Passing
<1>3. IsFiniteSet(found) /\ N \in Nat
  <2>1. PICK m \in Nat : DOMAIN Detector!Grid = 1 .. m
    BY GridTyped
  <2>2. IsFiniteSet(1 .. m)
    BY <2>1, Positions, Zenon
  <2>3. IsFiniteSet(found)
    BY SMTT(40), <1>2, <2>1, <2>2, FS_Subset
  <2> QED BY Zenon, <2>3, FS_CardinalityType
<1>4. q \in Surjection(1 .. N, found)
  <2> DEFINE Q == 1 .. N
  <2>1. IsFiniteSet(Q) /\ Cardinality(Q) = N
    BY <1>3, Positions, ZenonT(40)
  <2>2. q \in Injection(Q, found)
    BY <1>1
  <2> HIDE DEF Q, found
  <2>3. q \in Surjection(Q, found)
    BY SMTT(40), <1>3, <2>1, <2>2, FS_Injection
  <2> QED BY SMTT(40), <2>3 DEF Q
<1>5. q \in [1 .. N -> found] /\ DOMAIN q = 1 .. N /\ DOMAIN cand = 1 .. N
  BY Zenon, <1>1, <1>4 DEF Surjection
<1>6. \A i \in DOMAIN out : BoxIn(at(i), f) /\ at(i).score <= 10 * out[i].obj
  BY DecodeInside, Zenon
<1>7. \A i \in DOMAIN out : at(i).score > 10 * ScoreLimit => i \in found
  <2> SUFFICES ASSUME NEW i \in DOMAIN out, at(i).score > 10 * ScoreLimit PROVE i \in found
    OBVIOUS
  <2>1. at(i).score \in Int /\ at(i).score <= 10 * out[i].obj
    BY <1>6, Zenon DEF BoxIn
  <2>2. out[i].obj \in Int
    <3>1. out[i].obj \in 0 .. 10
      BY Zenon DEF ModelRow
    <3> QED BY <3>1
  <2>3. out[i].obj > ScoreLimit
    BY <2>1, <2>2, ScoreNeedsObjectness
  <2> QED BY <2>3, Zenon DEF Detector!Passing
<1>8. \A i \in found : at(i).score > 10 * ScoreLimit
  BY Zenon DEF Detector!Passing
<1>9. \A k \in 1 .. N : q[k] \in found /\ cand[k] = at(q[k])
  BY <1>1, <1>5, Zenon
<1> HIDE DEF found, N
<1>10. ASSUME NEW k \in 1 .. N
       PROVE  /\ BoxIn(cand[k], f) /\ cand[k].score > 10 * ScoreLimit
              /\ \E i \in DOMAIN out : cand[k] = at(i)
  <2>1. q[k] \in found /\ q[k] \in DOMAIN out /\ cand[k] = at(q[k])
    BY <1>2, <1>9, Zenon
  <2> QED BY <1>6, <1>8, <2>1, Zenon
<1>11. ASSUME NEW i \in DOMAIN out, at(i).score > 10 * ScoreLimit
       PROVE  \E k \in 1 .. N : cand[k] = at(i)
  <2>1. i \in found
    BY <1>7, <1>11, Zenon
  <2>2. PICK k \in 1 .. N : q[k] = i
    BY <1>4, <2>1, Zenon DEF Surjection
  <2> QED BY <1>9, <2>2, Zenon
<1>12. ASSUME NEW i \in 1 .. N, NEW j \in 1 .. N, i < j PROVE cand[i].score >= cand[j].score
  <2>1. at(q[i]).score >= at(q[j]).score
    BY <1>1, <1>5, <1>12, Zenon
  <2> QED BY <1>9, <2>1, Zenon
<1> QED BY <1>3, <1>5, <1>10, <1>11, <1>12, Zenon DEF Listed

\* The scan of Nms keeps exactly the candidates that overlap no kept one before them.
LEMMA NmsScan ==
  ASSUME NEW cand, NEW N \in Nat, DOMAIN cand = 1 .. N
  PROVE  /\ Detector!Nms(cand) \in SUBSET (1 .. N)
         /\ \A i \in 1 .. N :
              i \in Detector!Nms(cand) <=>
                ~\E j \in Detector!Nms(cand) : j < i /\ Detector!Overlaps(cand[i], cand[j])
<1> DEFINE R == {w \in (1 .. N) \X (1 .. N) : Detector!Overlaps(cand[w[1]], cand[w[2]])}
<1>1. PICK K \in SUBSET (1 .. N) :
        \A i \in 1 .. N : i \in K <=> ~\E j \in K : j < i /\ <<i, j>> \in R
  BY Zenon, GreedyScan
<1>2. \A i, j \in 1 .. N : <<i, j>> \in R <=> Detector!Overlaps(cand[i], cand[j])
  OBVIOUS
<1> HIDE DEF R
<1>3. \A i \in DOMAIN cand :
        i \in K <=> ~\E j \in K : j < i /\ Detector!Overlaps(cand[i], cand[j])
  BY Zenon, <1>1, <1>2
<1>4. K \in SUBSET DOMAIN cand
  BY <1>1
<1>5. /\ Detector!Nms(cand) \in SUBSET DOMAIN cand
      /\ \A i \in DOMAIN cand :
              i \in Detector!Nms(cand) <=>
                ~\E j \in Detector!Nms(cand) : j < i /\ Detector!Overlaps(cand[i], cand[j])
  BY <1>3, <1>4, Zenon DEF Detector!Nms
<1> QED BY <1>5

\* SuppressionIsSound of an answer res with the kept positions stay, as a formula of its own.
SoundAnswer(out, f, cand, stay, res) ==
  LET boxes == {Detector!Decode(out[i], i, f) : i \in DOMAIN out}
      passing == {b \in boxes : b.score > 10 * ScoreLimit}
      chosen == {cand[k] : k \in stay}
      wanted == {b \in chosen : Targets = {} \/ b.class_id \in Targets}
  IN /\ chosen \subseteq passing
     /\ \A i, j \in stay : i # j => ~Detector!Overlaps(cand[i], cand[j])
     /\ \A b \in passing \ chosen : \E k \in chosen : Detector!Overlaps(b, k) /\ k.score >= b.score
     /\ res.positive = (wanted # {})
     /\ \A b \in wanted : b.score <= res.confidence
     /\ res.positive =>
          \E b \in wanted : /\ b.score = res.confidence
                            /\ res.box = <<b.x1, b.y1, b.x2, b.y2>>
                            /\ b.x1 <= b.x2 /\ b.x2 <= 2 * S * f.w
                            /\ b.y1 <= b.y2 /\ b.y2 <= 2 * S * f.h

LEMMA ReportedFields ==
  ASSUME NEW c, NEW b, NEW res, res = [positive |-> TRUE, confidence |-> c, box |-> b]
  PROVE  res.positive = TRUE /\ res.confidence = c /\ res.box = b
OBVIOUS

LEMMA ScanIsSound ==
  ASSUME NEW out, NEW f, NEW cand, NEW N \in Nat, Listed(out, f, cand, N),
         NEW stay, stay = Detector!Nms(cand), NEW res, res = Detector!Best(cand, stay)
  PROVE  SoundAnswer(out, f, cand, stay, res)
<1> DEFINE at(i) == Detector!Decode(out[i], i, f)
           boxes == {at(i) : i \in DOMAIN out}
           passing == {b \in boxes : b.score > 10 * ScoreLimit}
           chosen == {cand[k] : k \in stay}
           wanted == {b \in chosen : Targets = {} \/ b.class_id \in Targets}
           W == {i \in stay : Targets = {} \/ cand[i].class_id \in Targets}
<1>1. /\ DOMAIN cand = 1 .. N
      /\ \A k \in 1 .. N : /\ BoxIn(cand[k], f) /\ cand[k].score > 10 * ScoreLimit
                           /\ \E i \in DOMAIN out : cand[k] = at(i)
      /\ \A i \in DOMAIN out :
           at(i).score > 10 * ScoreLimit => \E k \in 1 .. N : cand[k] = at(i)
      /\ \A i, j \in 1 .. N : i < j => cand[i].score >= cand[j].score
  BY Zenon DEF Listed
<1>2. /\ stay \in SUBSET (1 .. N)
      /\ \A i \in 1 .. N :
           i \in stay <=> ~\E j \in stay : j < i /\ Detector!Overlaps(cand[i], cand[j])
  BY <1>1, NmsScan, Zenon
<1>3. chosen \subseteq passing
  <2>1. ASSUME NEW k \in stay PROVE cand[k] \in passing
    <3>1. k \in 1 .. N
      BY <1>2, <2>1, Zenon
    <3>2. cand[k] \in boxes /\ cand[k].score > 10 * ScoreLimit
      BY <1>1, <3>1, Zenon
    <3> QED BY <3>2, Zenon
  <2> QED BY <2>1, Zenon
<1>4. ASSUME NEW i \in stay, NEW j \in stay, i # j PROVE ~Detector!Overlaps(cand[i], cand[j])
  <2>1. i \in 1 .. N /\ j \in 1 .. N /\ BoxIn(cand[i], f) /\ BoxIn(cand[j], f)
    BY <1>1, <1>2, Zenon
  <2>2. CASE j < i
    BY <1>2, <2>1, <2>2, Zenon
  <2>3. CASE i < j
    <3>1. ~Detector!Overlaps(cand[j], cand[i])
      BY <1>2, <2>1, <2>3, Zenon
    <3> QED BY <2>1, <3>1, OverlapsBothWays, Zenon
  <2>4. i < j \/ j < i
    BY <1>4, <2>1
  <2> QED BY <2>2, <2>3, <2>4, Zenon
<1>5. ASSUME NEW b \in passing, b \notin chosen
      PROVE  \E k \in chosen : Detector!Overlaps(b, k) /\ k.score >= b.score
  <2>1. PICK i \in 1 .. N : cand[i] = b
    BY <1>1, <1>5, ZenonT(40)
  <2>2. i \notin stay
    BY <1>5, <2>1, Zenon
  <2>3. PICK j \in stay : j < i /\ Detector!Overlaps(cand[i], cand[j])
    BY <1>2, <2>2, Zenon
  <2>4. j \in 1 .. N /\ cand[j].score >= cand[i].score
    BY <1>1, <1>2, <2>3, Zenon
  <2> QED BY <2>1, <2>3, <2>4, Zenon
<1>6. wanted = {cand[i] : i \in W}
  BY Zenon
<1>7. /\ res.positive = (wanted # {})
      /\ \A b \in wanted : b.score <= res.confidence
      /\ res.positive =>
          \E b \in wanted : /\ b.score = res.confidence
                            /\ res.box = <<b.x1, b.y1, b.x2, b.y2>>
                            /\ b.x1 <= b.x2 /\ b.x2 <= 2 * S * f.w
                            /\ b.y1 <= b.y2 /\ b.y2 <= 2 * S * f.h
  <2>1. CASE W = {}
    <3>1. wanted = {}
      BY <1>6, <2>1, Zenon
    <3>2. res = Detector!Negative
      BY <2>1, Zenon DEF Detector!Best
    <3>3. res.positive = FALSE
      BY <3>2 DEF Detector!Negative
    <3> QED BY <3>1, <3>3, Zenon
  <2>2. CASE W # {}
    <3> DEFINE m == CHOOSE i \in W : \A j \in W : i <= j
    <3>1. W \subseteq Nat
      BY <1>2
    <3>2. \E i \in W : \A j \in W : i <= j
      BY Zenon, <2>2, <3>1, LeastOf
    <3>3. m \in W /\ \A j \in W : m <= j
      BY <3>2, Zenon
    <3>4. res = [positive |-> TRUE, confidence |-> cand[m].score,
                 box |-> <<cand[m].x1, cand[m].y1, cand[m].x2, cand[m].y2>>]
      BY <2>2, Zenon DEF Detector!Best
    <3> HIDE DEF m
    <3> DEFINE conf == cand[m].score
               corners == <<cand[m].x1, cand[m].y1, cand[m].x2, cand[m].y2>>
    <3>5. res.positive = TRUE /\ res.confidence = conf /\ res.box = corners
      <4>1. res = [positive |-> TRUE, confidence |-> conf, box |-> corners]
        BY <3>4, Zenon
      <4> HIDE DEF conf, corners
      <4> QED BY <4>1, ReportedFields
    <3>6. m \in 1 .. N /\ BoxIn(cand[m], f) /\ cand[m] \in wanted
      BY <1>1, <1>2, <1>6, <3>3, ZenonT(40)
    <3>7. ASSUME NEW b \in wanted PROVE b.score <= cand[m].score
      <4>1. PICK j \in W : b = cand[j]
        BY <1>6, <3>7, Zenon
      <4>2. j \in 1 .. N /\ m <= j
        BY <1>2, <3>3, <4>1, Zenon
      <4>3. BoxIn(cand[j], f)
        BY <1>1, <4>2, Zenon
      <4>4. cand[j].score \in Int /\ cand[m].score \in Int
        BY <3>6, <4>3, Zenon DEF BoxIn
      <4>5. m = j \/ m < j
        BY <3>6, <4>2
      <4>6. m = j \/ cand[m].score >= cand[j].score
        BY <1>1, <3>6, <4>2, <4>5, Zenon
      <4> QED BY <4>1, <4>4, <4>6
    <3>8. /\ cand[m].x1 <= cand[m].x2 /\ cand[m].x2 <= 2 * S * f.w
          /\ cand[m].y1 <= cand[m].y2 /\ cand[m].y2 <= 2 * S * f.h
      BY <3>6, Zenon DEF BoxIn
    <3> QED BY <3>5, <3>6, <3>7, <3>8, Zenon
  <2> QED BY Zenon, <2>1, <2>2
<1> QED BY <1>3, <1>4, <1>5, <1>7, Zenon DEF SoundAnswer

\* The inductive invariant: a frame that got past Preprocess has a size, its number is
\* one the model answers, and the answer given is sound.
AnswerInv ==
  /\ phase = "prepared" => n \in DOMAIN Outputs /\ frame.w \in Nat /\ frame.h \in Nat
  /\ Detector!SuppressionIsSound

LEMMA NotDone ==
  /\ phase # "done" => Detector!SuppressionIsSound
  /\ phase' # "done" => Detector!SuppressionIsSound'
BY Zenon DEF Detector!SuppressionIsSound

LEMMA DetectIsSound ==
  ASSUME AnswerInv, NEW out \in Outputs[n], Detector!Detect(out)
  PROVE  AnswerInv'
<1>1. /\ phase = "prepared" /\ phase' = "done" /\ output' = out /\ frame' = frame
      /\ candidates' \in Detector!Sorted(out, frame)
      /\ kept' = Detector!Nms(candidates') /\ result' = Detector!Best(candidates', kept')
  BY DEF Detector!Detect
<1>2. n \in DOMAIN Outputs /\ frame.w \in Nat /\ frame.h \in Nat
  BY <1>1, Zenon DEF AnswerInv
<1>3. DOMAIN out = DOMAIN Detector!Grid /\ \A i \in DOMAIN out : ModelRow(out[i])
  BY <1>2, OutputAssumption, Zenon
<1>4. PICK N \in Nat : Listed(out, frame, candidates', N)
  BY <1>1, <1>2, <1>3, SortedIsListed, Zenon
<1>5. SoundAnswer(out, frame, candidates', kept', result')
  BY <1>1, <1>4, ScanIsSound, Zenon
<1>6. Detector!SuppressionIsSound'
  <2>1. SoundAnswer(output', frame', candidates', kept', result')
    BY <1>1, <1>5, Zenon
  <2> QED BY <2>1, Zenon DEF Detector!SuppressionIsSound, SoundAnswer
<1> QED BY <1>1, <1>6, Zenon DEF AnswerInv

\* DetectAll and Detect, for every grid, every answer of the model, every size of frame
\* and however std::sort breaks ties.
THEOREM KeptBoxesAreSound == PathSpec => []SuppressionIsSound
<1>1. PathInit => AnswerInv
  <2> SUFFICES ASSUME PathInit PROVE AnswerInv
    OBVIOUS
  <2>1. phase = "idle"
    BY DEF PathInit, Detector!Init
  <2> QED BY <2>1, NotDone DEF AnswerInv
<1>2. AnswerInv /\ [Detector!Next]_(Detector!vars) => AnswerInv'
  <2> SUFFICES ASSUME AnswerInv, [Detector!Next]_(Detector!vars) PROVE AnswerInv'
    OBVIOUS
  <2>1. ASSUME NEW f \in Frames, Detector!Preprocess(f) PROVE AnswerInv'
    <3>1. phase' = "prepared" /\ n' \in DOMAIN Outputs /\ frame' = f
      BY <2>1 DEF Detector!Preprocess
    <3>2. f.w \in Nat /\ f.h \in Nat
      BY DetectorAssumption
    <3> QED BY <3>1, <3>2, NotDone DEF AnswerInv
  <2>2. ASSUME NEW f \in Frames, Detector!RefuseFrame(f) PROVE AnswerInv'
    <3>1. phase' = "idle"
      BY <2>2 DEF Detector!RefuseFrame
    <3> QED BY <3>1, NotDone DEF AnswerInv
  <2>3. ASSUME Detector!RefuseOutput PROVE AnswerInv'
    <3>1. phase' = "idle"
      BY <2>3 DEF Detector!RefuseOutput
    <3> QED BY <3>1, NotDone DEF AnswerInv
  <2>4. CASE UNCHANGED Detector!vars
    <3>1. UNCHANGED <<phase, n, frame, output, candidates, kept, result>>
      BY <2>4 DEF Detector!vars
    <3>2. CASE phase # "done"
      BY <3>1, <3>2, NotDone DEF AnswerInv
    <3>3. CASE phase = "done"
      <4>1. SoundAnswer(output, frame, candidates, kept, result)
        BY <3>3, Zenon DEF AnswerInv, Detector!SuppressionIsSound, SoundAnswer
      <4>2. SoundAnswer(output', frame', candidates', kept', result')
        BY <3>1, <4>1, Zenon
      <4>3. Detector!SuppressionIsSound'
        BY <4>2, Zenon DEF Detector!SuppressionIsSound, SoundAnswer
      <4> QED BY <3>1, <3>3, <4>3 DEF AnswerInv
    <3> QED BY <3>2, <3>3
  <2> QED BY <2>1, <2>2, <2>3, <2>4, DetectIsSound DEF Detector!Next
<1>3. [PathNext]_pathVars => [Detector!Next]_(Detector!vars)
  BY DEF PathNext, pathVars, detectorVars, Detector!vars
<1>4. AnswerInv => SuppressionIsSound
  BY DEF AnswerInv, SuppressionIsSound
<1> QED BY <1>1, <1>2, <1>3, <1>4, PTL DEF PathSpec
==================================================================================
