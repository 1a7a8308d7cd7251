--------------------------- MODULE EdgePipelineProofs ---------------------------
(***************************************************************************)
(* The edge pipeline for rings, windows, videos and configurations of any  *)
(* size.  Three invariants: the frames in the ring and the processed ones  *)
(* are one increasing sequence; the window and its count are the last n    *)
(* verdicts of the history; the events are the rises of the history.       *)
(***************************************************************************)
EXTENDS EdgePipeline, FiniteSetTheorems, SequenceTheorems, TLAPS

---------------------------------------------------------------------------------
(* Sequences of frames. *)

\* Appending to the second of two queues appends to both.
LEMMA ConcatAppend ==
  ASSUME NEW s \in Seq(Nat), NEW t \in Seq(Nat), NEW x \in Nat
  PROVE  s \o Append(t, x) = Append(s \o t, x)
<1>1. <<x>> \in Seq(Nat) /\ s \o t \in Seq(Nat)
  OBVIOUS
<1>2. Append(t, x) = t \o <<x>> /\ Append(s \o t, x) = (s \o t) \o <<x>>
  BY <1>1, AppendIsConcat
<1>3. (s \o t) \o <<x>> = s \o (t \o <<x>>)
  BY <1>1, ConcatAssociative
<1> QED BY <1>2, <1>3

\* Moving the head of the second queue to the end of the first changes nothing.
LEMMA ConcatMove ==
  ASSUME NEW s \in Seq(Nat), NEW t \in Seq(Nat), t # << >>
  PROVE  Append(s, Head(t)) \o Tail(t) = s \o t
<1>1. Head(t) \in Nat /\ Tail(t) \in Seq(Nat) /\ <<Head(t)>> \in Seq(Nat)
  BY HeadTailProperties
<1>2. t = <<Head(t)>> \o Tail(t)
  OBVIOUS
<1>3. Append(s, Head(t)) = s \o <<Head(t)>>
  BY <1>1, AppendIsConcat
<1>4. (s \o <<Head(t)>>) \o Tail(t) = s \o (<<Head(t)>> \o Tail(t))
  BY SMTT(20), <1>1, ConcatAssociative
<1> QED BY <1>2, <1>3, <1>4

\* A queue that increases still does when something larger is appended.
LEMMA IncreasingAppend ==
  ASSUME NEW s \in Seq(Nat), NEW x \in Nat, Increasing(s), \A i \in DOMAIN s : s[i] < x
  PROVE  /\ Increasing(Append(s, x)) /\ Append(s, x) \in Seq(Nat)
         /\ Len(Append(s, x)) = Len(s) + 1
         /\ \A i \in DOMAIN Append(s, x) : Append(s, x)[i] <= x
<1> DEFINE a == Append(s, x)
<1>1. /\ a \in Seq(Nat) /\ Len(a) = Len(s) + 1 /\ a[Len(s) + 1] = x
      /\ DOMAIN s = 1 .. Len(s) /\ DOMAIN a = 1 .. Len(s) + 1 /\ Len(s) \in Nat
      /\ \A i \in 1 .. Len(s) : a[i] = s[i] /\ s[i] \in Nat
  OBVIOUS
<1> HIDE DEF a
<1>2. Increasing(a)
  <2> SUFFICES ASSUME NEW i \in 1 .. Len(s) + 1, NEW j \in 1 .. Len(s) + 1, i < j
               PROVE  a[i] < a[j]
    BY <1>1 DEF Increasing
  <2>1. i \in 1 .. Len(s)
    BY <1>1
  <2>2. CASE j \in 1 .. Len(s)
    BY <1>1, <2>1, <2>2 DEF Increasing
  <2>3. CASE j = Len(s) + 1
    BY <1>1, <2>1, <2>3
  <2>4. Len(s) \in Nat
    BY <1>1
  <2>5. j \in 1 .. Len(s) \/ j = Len(s) + 1
    BY <2>4
  <2> QED BY <2>2, <2>3, <2>5
<1>3. \A i \in DOMAIN a : a[i] <= x
  BY <1>1
<1> QED BY <1>1, <1>2, <1>3 DEF a

---------------------------------------------------------------------------------
(* The flow of frames. *)

Verdicts == [frame : Nat, positive : BOOLEAN]

\* The frames processed, and those that wait for it.
Done == [i \in DOMAIN seen |-> seen[i].frame]
Waiting == IF infPc = "release" THEN Tail(ring) ELSE ring

FlowTypes ==
  /\ setting \in Settings
  /\ next \in Nat /\ dropped \in Nat
  /\ ring \in Seq(Nat) /\ seen \in Seq(Verdicts)
  /\ infPc \in {"process", "release"} => ring # << >>
  /\ capPc = "full" => realtime

\* What went into the ring, p, is increasing, no larger than the last frame delivered,
\* and with the dropped frames all that was delivered.
FlowOK(p) ==
  /\ p \in Seq(Nat) /\ Increasing(p) /\ \A i \in DOMAIN p : p[i] <= next
  /\ Len(p) + dropped = next
  /\ captured = Len(p) - Bit(capPc = "count")
  /\ ~realtime => dropped = 0

FlowInv == FlowTypes /\ FlowOK(Published)

\* The frames of a history of verdicts.
LEMMA FramesOf ==
  ASSUME NEW s \in Seq(Verdicts), NEW d, d = [i \in DOMAIN s |-> s[i].frame]
  PROVE  /\ d \in Seq(Nat) /\ Len(d) = Len(s)
         /\ \A i \in 1 .. Len(s) : d[i] = s[i].frame /\ d[i] \in Nat
<1>1. /\ DOMAIN s = 1 .. Len(s) /\ Len(s) \in Nat
      /\ \A i \in 1 .. Len(s) : s[i] \in Verdicts
  OBVIOUS
<1>2. \A i \in 1 .. Len(s) : s[i].frame \in Nat
  BY <1>1 DEF Verdicts
<1>3. d \in [1 .. Len(s) -> Nat]
  BY <1>1, <1>2
<1>4. d \in Seq(Nat) /\ Len(d) = Len(s)
  BY <1>1, <1>3
<1> QED BY <1>1, <1>2, <1>3, <1>4

\* What went into the ring is what was processed and what waits.
LEMMA PublishedIs ==
  ASSUME FlowTypes
  PROVE  /\ Published = Done \o Waiting
         /\ Done \in Seq(Nat) /\ Len(Done) = Len(seen) /\ Waiting \in Seq(Nat)
         /\ \A i \in 1 .. Len(seen) : Done[i] = seen[i].frame /\ Done[i] \in Nat
<1>1. seen \in Seq(Verdicts) /\ Waiting \in Seq(Nat)
  BY DEF FlowTypes, Waiting
<1>2. /\ Done \in Seq(Nat) /\ Len(Done) = Len(seen)
      /\ \A i \in 1 .. Len(seen) : Done[i] = seen[i].frame /\ Done[i] \in Nat
  BY <1>1, FramesOf DEF Done
<1> QED BY <1>1, <1>2 DEF Published, Done, Waiting

\* A new pipeline has published nothing.
LEMMA NoFrames ==
  ASSUME NEW s, s = << >>
  PROVE  [i \in DOMAIN s |-> s[i].frame] \o << >> = << >>
<1> DEFINE d == [i \in DOMAIN s |-> s[i].frame]
<1>1. s \in Seq(Verdicts) /\ Len(s) = 0
  OBVIOUS
<1>2. d \in Seq(Nat) /\ Len(d) = 0
  BY <1>1, FramesOf
<1> HIDE DEF d
<1>3. d = << >> /\ << >> \in Seq(Nat)
  BY <1>2
<1>4. d \o << >> = << >>
  BY <1>3, ConcatEmptySeq
<1> QED BY <1>4 DEF d

\* The constructor leaves the frames accounted for.
LEMMA FlowInitially == Init => FlowInv
<1> SUFFICES ASSUME Init PROVE FlowInv
  OBVIOUS
<1>1. Published = << >>
  BY NoFrames DEF Init, Published
<1>2. << >> \in Seq(Nat) /\ Len(<< >>) = 0 /\ DOMAIN << >> = {}
  OBVIOUS
<1> QED BY <1>1, <1>2 DEF Init, FlowInv, FlowTypes, FlowOK, Increasing, Bit

\* A step that leaves the frames where they are keeps the invariant.
LEMMA FlowKept ==
  ASSUME FlowInv, FlowTypes', Published' = Published,
         UNCHANGED <<next, dropped, captured, realtime>>,
         capPc' = capPc \/ "count" \notin {capPc, capPc'}
  PROVE  FlowInv'
BY DEF FlowInv, FlowOK, Bit

\* Every step of the three threads keeps the frames accounted for.
LEMMA FlowStep == FlowInv /\ [Next]_vars => FlowInv'
<1> SUFFICES ASSUME FlowInv, [Next]_vars PROVE FlowInv'
  OBVIOUS
<1>t. FlowTypes /\ FlowOK(Published)
  BY DEF FlowInv
<1>p. /\ Published = Done \o Waiting /\ Done \in Seq(Nat) /\ Waiting \in Seq(Nat)
      /\ Len(Done) = Len(seen)
  BY <1>t, PublishedIs
<1>s. ASSUME UNCHANGED <<seen, ring, infPc>> PROVE Published' = Published
  BY <1>s DEF Published
<1>1. CASE CaptureTest \/ CaptureFull \/ CaptureEnd \/ CaptureDone
  <2>1. /\ UNCHANGED <<setting, realtime, next, captured, dropped, ring, infPc, seen>>
        /\ "count" \notin {capPc, capPc'} /\ (capPc' = "full" => realtime)
    BY <1>1 DEF CaptureTest, CaptureFull, CaptureEnd, CaptureDone, config, inference
  <2>2. FlowTypes'
    BY <1>t, <2>1 DEF FlowTypes
  <2> QED BY <1>s, <2>1, <2>2, FlowKept
<1>2. CASE CapturePush
  <2>1. /\ capPc = "push" /\ capPc' = "count" /\ next' = next + 1
        /\ ring' = Append(ring, next + 1)
        /\ UNCHANGED <<setting, realtime, captured, dropped, infPc, seen>>
    BY <1>2 DEF CapturePush, SourceNext, config, inference
  <2>2. FlowTypes'
    BY <1>t, <2>1 DEF FlowTypes
  <2>3. Waiting' = Append(Waiting, next + 1)
    <3>1. CASE infPc = "release"
      BY <1>t, <2>1, <3>1, HeadTailAppend DEF FlowTypes, Waiting
    <3>2. CASE infPc # "release"
      BY <2>1, <3>2 DEF Waiting
    <3> QED BY <3>1, <3>2
  <2>4. Published' = Append(Published, next + 1)
    <3>1. Published' = Done \o Waiting'
      BY <2>1 DEF Published, Done, Waiting
    <3>2. next + 1 \in Nat
      BY <1>t DEF FlowTypes
    <3> QED BY <1>p, <2>3, <3>1, <3>2, ConcatAppend
  <2>5. /\ Published \in Seq(Nat) /\ Increasing(Published) /\ next \in Nat
        /\ \A i \in DOMAIN Published : Published[i] <= next /\ Published[i] \in Nat
    BY <1>t DEF FlowOK, FlowTypes
  <2>6. next + 1 \in Nat /\ \A i \in DOMAIN Published : Published[i] < next + 1
    BY <2>5
  <2>7. /\ Increasing(Published') /\ Published' \in Seq(Nat)
        /\ Len(Published') = Len(Published) + 1
        /\ \A i \in DOMAIN Published' : Published'[i] <= next'
    BY <2>1, <2>4, <2>5, <2>6, IncreasingAppend
  <2>8. /\ Len(Published) \in Nat /\ dropped \in Nat /\ Len(Published) + dropped = next
        /\ captured = Len(Published) - 0 /\ (~realtime => dropped = 0)
    BY <1>t, <2>1, <2>5 DEF FlowOK, FlowTypes, Bit
  <2>9. FlowOK(Published)'
    BY <2>1, <2>7, <2>8 DEF FlowOK, Bit
  <2> QED BY <2>2, <2>9 DEF FlowInv
<1>3. CASE CaptureCount
  <2>1. /\ capPc = "count" /\ capPc' = "loop" /\ captured' = captured + 1
        /\ UNCHANGED <<setting, realtime, next, dropped, ring, infPc, seen>>
    BY <1>3 DEF CaptureCount, config, inference
  <2>2. FlowTypes'
    BY <1>t, <2>1 DEF FlowTypes
  <2>3. Published' = Published /\ Len(Published) \in Nat
    BY <1>s, <1>t, <2>1 DEF FlowOK
  <2>4. captured' = Len(Published) - 0
    BY <1>t, <2>1, <2>3 DEF FlowOK, Bit
  <2> QED BY <1>t, <2>1, <2>2, <2>3, <2>4 DEF FlowInv, FlowOK, Bit
<1>4. CASE CaptureDrop
  <2>1. /\ capPc = "full" /\ capPc' = "loop" /\ next' = next + 1 /\ dropped' = dropped + 1
        /\ UNCHANGED <<setting, realtime, captured, ring, infPc, seen>>
    BY <1>4 DEF CaptureDrop, SourceNext, config, inference
  <2>2. FlowTypes' /\ realtime
    BY <1>t, <2>1 DEF FlowTypes
  <2>3. Published' = Published /\ Len(Published) \in Nat
    BY <1>s, <1>t, <2>1 DEF FlowOK
  <2>4. \A i \in DOMAIN Published : Published[i] \in Nat
    BY <1>t DEF FlowOK
  <2>5. \A i \in DOMAIN Published : Published[i] <= next'
    BY <1>t, <2>1, <2>4 DEF FlowOK, FlowTypes
  <2>6. Len(Published) + dropped' = next'
    <3>1. dropped \in Nat /\ Len(Published) + dropped = next
      BY <1>t DEF FlowOK, FlowTypes
    <3> QED BY <2>1, <2>3, <3>1
  <2> QED BY <1>t, <2>1, <2>2, <2>3, <2>5, <2>6 DEF FlowInv, FlowOK, Bit
<1>5. CASE InferTest \/ InferStopTest \/ InferPop \/ InferExit
  <2>1. /\ UNCHANGED <<setting, realtime, next, captured, dropped, capPc, ring, seen>>
        /\ infPc # "release" /\ infPc' # "release" /\ (infPc' = "process" => ring # << >>)
    BY <1>5 DEF InferTest, InferStopTest, InferPop, InferExit, config, capture
  <2>2. FlowTypes'
    BY <1>t, <2>1 DEF FlowTypes
  <2>3. Published' = Published
    BY <2>1 DEF Published
  <2> QED BY <2>1, <2>2, <2>3, FlowKept
<1>6. CASE Process
  <2>1. PICK b \in BOOLEAN :
          /\ infPc = "process" /\ infPc' = "release"
          /\ seen' = Append(seen, [frame |-> Head(ring), positive |-> b])
          /\ UNCHANGED <<setting, realtime, next, captured, dropped, capPc, ring>>
    BY <1>6 DEF Process, Detect, config, capture
  <2>2. ring \in Seq(Nat) /\ ring # << >> /\ Head(ring) \in Nat
    BY <1>t, <2>1 DEF FlowTypes
  <2> DEFINE v == [frame |-> Head(ring), positive |-> b]
  <2>3. v \in Verdicts /\ v.frame = Head(ring)
    BY <2>2, Zenon DEF Verdicts
  <2> HIDE DEF v
  <2>4. /\ seen' \in Seq(Verdicts) /\ Len(seen') = Len(seen) + 1 /\ Len(seen) \in Nat
        /\ \A i \in 1 .. Len(seen) : seen'[i] = seen[i]
        /\ seen'[Len(seen) + 1] = v
    BY <1>t, <2>1, <2>3 DEF FlowTypes, v
  <2>5. FlowTypes'
    BY <1>t, <2>1, <2>2, <2>4 DEF FlowTypes
  <2>6. Done' = Append(Done, Head(ring))
    <3>1. /\ Done' \in Seq(Nat) /\ Len(Done') = Len(seen) + 1
          /\ \A i \in 1 .. Len(seen) + 1 : Done'[i] = seen'[i].frame
      <4>1. Done' = [i \in DOMAIN seen' |-> seen'[i].frame] /\ seen' \in Seq(Verdicts)
        BY <2>4 DEF Done
      <4>2. /\ Done' \in Seq(Nat) /\ Len(Done') = Len(seen')
            /\ \A i \in 1 .. Len(seen') : Done'[i] = seen'[i].frame
        BY <4>1, FramesOf
      <4> QED BY <2>4, <4>2
    <3>2. /\ Append(Done, Head(ring)) \in Seq(Nat)
          /\ Len(Append(Done, Head(ring))) = Len(seen) + 1
          /\ \A i \in 1 .. Len(seen) : Append(Done, Head(ring))[i] = Done[i]
          /\ Append(Done, Head(ring))[Len(seen) + 1] = Head(ring)
      BY <1>p, <2>2, AppendProperties
    <3>3. \A i \in 1 .. Len(seen) : Done[i] = seen[i].frame
      BY <1>t, PublishedIs
    <3>4. ASSUME NEW i \in 1 .. Len(seen) + 1 PROVE Done'[i] = Append(Done, Head(ring))[i]
      <4>1. CASE i \in 1 .. Len(seen)
        BY <2>4, <3>1, <3>2, <3>3, <4>1
      <4>2. CASE i = Len(seen) + 1
        BY <2>3, <2>4, <3>1, <3>2, <4>2
      <4>3. Len(seen) \in Nat
        BY <2>4
      <4>4. i \in 1 .. Len(seen) \/ i = Len(seen) + 1
        BY <4>3
      <4> QED BY <4>1, <4>2, <4>4
    <3> QED BY <3>1, <3>2, <3>4, SeqEqual
  <2>7. Published' = Published
    <3>1. Published' = Done' \o Tail(ring)
      BY <2>1 DEF Published, Done
    <3>2. Published = Done \o ring
      BY <2>1 DEF Published, Done
    <3> QED BY <1>p, <2>2, <2>6, <3>1, <3>2, ConcatMove
  <2> QED BY <2>1, <2>5, <2>7, FlowKept
<1>7. CASE Release
  <2>1. /\ infPc = "release" /\ infPc' = "test" /\ ring' = Tail(ring)
        /\ UNCHANGED <<setting, realtime, next, captured, dropped, capPc, seen>>
    BY <1>7 DEF Release, config, capture
  <2>2. FlowTypes'
    BY <1>t, <2>1 DEF FlowTypes
  <2>3. Published' = Published
    BY <2>1 DEF Published
  <2> QED BY <2>1, <2>2, <2>3, FlowKept
<1>8. CASE AgentTest \/ AgentHalt \/ AgentPop \/ AgentConfig \/ AgentStop \/ AgentDone
             \/ UNCHANGED vars
  <2>1. UNCHANGED <<setting, realtime, next, captured, dropped, capPc, ring, infPc, seen>>
    BY <1>8 DEF AgentTest, AgentHalt, AgentPop, AgentConfig, AgentStop, AgentDone, vars,
                config, capture, inference
  <2>2. FlowTypes'
    BY <1>t, <2>1 DEF FlowTypes
  <2> QED BY <1>s, <2>1, <2>2, FlowKept
<1>9. CASE Rebuild
  <2>1. /\ next' = 0 /\ capPc' = "loop" /\ captured' = 0 /\ dropped' = 0 /\ ring' = << >>
        /\ seen' = << >> /\ infPc' = "test" /\ setting' \in Settings
    BY <1>9 DEF Rebuild
  <2>2. Published' = << >>
    BY <2>1, NoFrames DEF Published
  <2>3. << >> \in Seq(Nat) /\ Len(<< >>) = 0 /\ DOMAIN << >> = {}
    OBVIOUS
  <2> QED BY <2>1, <2>2, <2>3 DEF FlowInv, FlowTypes, FlowOK, Increasing, Bit
<1> QED BY <1>1, <1>2, <1>3, <1>4, <1>5, <1>6, <1>7, <1>8, <1>9
        DEF Next, CaptureStep, InferenceStep, AgentStep

\* Every frame is in the ring, processed or counted as dropped, once and in order, and
\* offline none is dropped: for rings of any size and videos of any length.
THEOREM NoFrameIsLost == Spec => []FramesAccounted
<1>1. FlowInv => FramesAccounted
  BY DEF FlowInv, FlowOK, FramesAccounted
<1> QED BY <1>1, FlowInitially, FlowStep, PTL DEF Spec

---------------------------------------------------------------------------------
(* The window of verdicts. *)

\* The positive ones among the last n verdicts of the first i of history s.
Recent(s, n, i) == {j \in 1 .. i : j + n > i /\ s[j].positive}

\* Window w, with count c, is the last n verdicts of history s.
WindowOK(w, c, s, n) ==
  /\ w \in Seq(BOOLEAN) /\ s \in Seq(Verdicts)
  /\ Len(w) = IF Len(s) < n THEN Len(s) ELSE n
  /\ \A i \in 1 .. Len(w) : w[i] <=> s[Len(s) - Len(w) + i].positive
  /\ c = Cardinality(Recent(s, n, Len(s)))

\* The history after one more verdict.
LEMMA HistoryGrows ==
  ASSUME NEW s \in Seq(Verdicts), NEW v \in Verdicts, NEW n \in Nat
  PROVE  /\ Append(s, v) \in Seq(Verdicts) /\ Len(Append(s, v)) = Len(s) + 1
         /\ Append(s, v)[Len(s) + 1] = v
         /\ \A i \in 1 .. Len(s) : Append(s, v)[i] = s[i]
         /\ \A i \in 0 .. Len(s) : Recent(Append(s, v), n, i) = Recent(s, n, i)
<1>1. /\ Append(s, v) \in Seq(Verdicts) /\ Len(Append(s, v)) = Len(s) + 1
      /\ Append(s, v)[Len(s) + 1] = v /\ Len(s) \in Nat
      /\ \A i \in 1 .. Len(s) : Append(s, v)[i] = s[i]
  BY AppendProperties, LenProperties
<1>2. ASSUME NEW i \in 0 .. Len(s), NEW j \in 1 .. i PROVE j \in 1 .. Len(s)
  BY <1>1
<1>3. ASSUME NEW i \in 0 .. Len(s), NEW j \in 1 .. i
      PROVE  Append(s, v)[j].positive <=> s[j].positive
  BY <1>1, <1>2
<1> QED BY <1>1, <1>3 DEF Recent

\* Positive verdicts are counted one by one.
LEMMA RecentFinite ==
  ASSUME NEW s, NEW n \in Nat, NEW i \in Nat
  PROVE  IsFiniteSet(Recent(s, n, i)) /\ Cardinality(Recent(s, n, i)) \in Nat
<1>1. IsFiniteSet(1 .. i)
  BY FS_Interval
<1>2. Recent(s, n, i) \subseteq 1 .. i
  BY DEF Recent
<1>3. IsFiniteSet(Recent(s, n, i))
  BY <1>1, <1>2, FS_Subset
<1> QED BY <1>3, FS_CardinalityType

\* The count of the last n verdicts gains the new one and loses the one that is n old.
LEMMA RecentStep ==
  ASSUME NEW s \in Seq(Verdicts), NEW v \in Verdicts, NEW n \in Nat \ {0}
  PROVE  LET l == Len(s) IN
         Cardinality(Recent(Append(s, v), n, l + 1))
           = Cardinality(Recent(s, n, l)) + Bit(v.positive)
               - Bit(l >= n /\ s[l - n + 1].positive)
<1> DEFINE l == Len(s)
           R == Recent(s, n, l)
           e == l - n + 1
           Q == R \ {e}
           R2 == Recent(Append(s, v), n, l + 1)
<1>1. l \in Nat /\ n \in Nat /\ n >= 1
  OBVIOUS
<1>2. IsFiniteSet(R) /\ Cardinality(R) \in Nat
  BY <1>1, RecentFinite
<1>3. e \in R <=> l >= n /\ s[e].positive
  BY <1>1 DEF Recent
<1>4. IsFiniteSet(Q) /\ Cardinality(Q) = Cardinality(R) - Bit(l >= n /\ s[e].positive)
  <2>1. CASE e \in R
    <3>1. IsFiniteSet(Q) /\ Cardinality(Q) = Cardinality(R) - 1
      BY <1>2, <2>1, FS_RemoveElement
    <3> QED BY <1>3, <2>1, <3>1 DEF Bit
  <2>2. CASE e \notin R
    <3>1. Q = R
      BY <2>2
    <3>2. Cardinality(R) = Cardinality(R) - 0
      BY <1>2
    <3> QED BY <1>2, <1>3, <2>2, <3>1, <3>2 DEF Bit
  <2> QED BY <2>1, <2>2
<1>5. /\ Append(s, v)[l + 1] = v /\ \A i \in 1 .. l : Append(s, v)[i] = s[i]
  BY <1>1, HistoryGrows
<1>6. \A j \in 1 .. l : j \in R2 <=> j \in Q
  <2> TAKE j \in 1 .. l
  <2>1. j \in R2 <=> j + n > l + 1 /\ s[j].positive
    BY <1>1, <1>5 DEF Recent
  <2>2. j \in Q <=> j + n > l /\ s[j].positive /\ j # l - n + 1
    BY <1>1 DEF Recent
  <2>3. j + n > l + 1 <=> j + n > l /\ j # l - n + 1
    BY <1>1
  <2> QED BY <2>1, <2>2, <2>3
<1>7. l + 1 \in R2 <=> v.positive
  BY <1>1, <1>5 DEF Recent
<1>8. R2 \subseteq 1 .. l + 1 /\ Q \subseteq 1 .. l
  BY DEF Recent
<1>9. 1 .. l + 1 = (1 .. l) \cup {l + 1} /\ l + 1 \notin 1 .. l
  BY <1>1
<1> HIDE DEF R, R2, Q, l, e
<1>10. Cardinality(Q) \in Nat
  BY <1>4, FS_CardinalityType
<1>11. Cardinality(R2) = Cardinality(Q) + Bit(v.positive)
  <2>1. CASE v.positive
    <3>1. R2 = Q \cup {l + 1} /\ l + 1 \notin Q
      BY <1>6, <1>7, <1>8, <1>9, <2>1
    <3>2. Cardinality(R2) = Cardinality(Q) + 1
      BY <1>4, <3>1, FS_AddElement
    <3> QED BY <2>1, <3>2 DEF Bit
  <2>2. CASE ~v.positive
    <3>1. R2 = Q
      BY <1>6, <1>7, <1>8, <1>9, <2>2
    <3> QED BY <1>10, <2>2, <3>1 DEF Bit
  <2> QED BY <2>1, <2>2
<1> DEFINE x == Bit(v.positive)
           y == Bit(l >= n /\ s[e].positive)
<1>12. x \in Int /\ y \in Int
  BY DEF Bit
<1> HIDE DEF x, y
<1>13. Cardinality(R2) = Cardinality(R) + x - y
  BY <1>2, <1>4, <1>11, <1>12 DEF x, y
<1> QED BY <1>13 DEF R, R2, l, x, y, e

\* KOfNConfirmer::Update keeps the window the last n verdicts, and their count.
LEMMA WindowUpdate ==
  ASSUME NEW w, NEW c, NEW s, NEW n \in Nat \ {0}, WindowOK(w, c, s, n),
         NEW b \in BOOLEAN, NEW v \in Verdicts, v.positive = b
  PROVE  LET pushed == Append(w, b)
             full   == Len(pushed) > n
         IN  WindowOK(IF full THEN Tail(pushed) ELSE pushed,
                      c + Bit(b) - Bit(full /\ Head(pushed)), Append(s, v), n)
<1> DEFINE pushed == Append(w, b)
           full == Len(pushed) > n
           l == Len(s)
           t == Append(s, v)
<1>1. /\ w \in Seq(BOOLEAN) /\ s \in Seq(Verdicts) /\ l \in Nat /\ Len(w) \in Nat
      /\ Len(w) = IF l < n THEN l ELSE n
      /\ \A i \in 1 .. Len(w) : w[i] <=> s[l - Len(w) + i].positive
  <2>1. w \in Seq(BOOLEAN) /\ s \in Seq(Verdicts)
    BY DEF WindowOK
  <2>2. l \in Nat /\ Len(w) \in Nat
    BY <2>1, LenProperties
  <2> QED BY <2>1, <2>2, Zenon DEF WindowOK
<1>n. l \in Nat /\ Len(w) \in Nat
  BY <1>1
<1>2. /\ pushed \in Seq(BOOLEAN) /\ pushed # << >> /\ Len(pushed) = Len(w) + 1
      /\ \A i \in 1 .. Len(w) : pushed[i] = w[i]
      /\ pushed[Len(w) + 1] = b
  BY <1>1, AppendProperties
<1>3. /\ t \in Seq(Verdicts) /\ Len(t) = l + 1 /\ t[l + 1] = v
      /\ \A i \in 1 .. l : t[i] = s[i]
  BY <1>1, HistoryGrows
<1>4. full <=> l >= n
  BY <1>1, <1>2
<1>5. full => (Head(pushed) <=> s[l - n + 1].positive)
  <2> SUFFICES ASSUME full PROVE Head(pushed) <=> s[l - n + 1].positive
    OBVIOUS
  <2>1. Len(w) = n /\ 1 \in 1 .. Len(w)
    BY <1>1, <1>4
  <2>2. Head(pushed) = w[1]
    BY <1>2, <2>1
  <2> QED BY <1>1, <2>1, <2>2
<1> HIDE DEF t, pushed
<1>6. ASSUME NEW i \in 1 .. Len(pushed)
      PROVE  pushed[i] <=> t[l - Len(w) + i].positive
  <2>1. CASE i \in 1 .. Len(w)
    <3>1. l - Len(w) + i \in 1 .. l
      BY <1>1, <2>1
    <3> QED BY <1>1, <1>2, <1>3, <2>1, <3>1
  <2>2. CASE i = Len(w) + 1
    <3>1. l - Len(w) + i = l + 1
      BY <1>n, <2>2
    <3> QED BY <1>2, <1>3, <2>2, <3>1
  <2>3. Len(w) \in Nat /\ Len(pushed) = Len(w) + 1
    BY <1>1, <1>2
  <2>4. i \in 1 .. Len(w) \/ i = Len(w) + 1
    BY <2>3
  <2> QED BY <2>1, <2>2, <2>4
<1>7. c + Bit(b) - Bit(full /\ Head(pushed)) = Cardinality(Recent(t, n, l + 1))
  <2>1. Bit(full /\ Head(pushed)) = Bit(l >= n /\ s[l - n + 1].positive)
    BY <1>4, <1>5 DEF Bit
  <2>2. Bit(b) = Bit(v.positive)
    OBVIOUS
  <2>3. c = Cardinality(Recent(s, n, l))
    BY DEF WindowOK
  <2>4. Cardinality(Recent(t, n, l + 1))
          = Cardinality(Recent(s, n, l)) + Bit(v.positive)
              - Bit(l >= n /\ s[l - n + 1].positive)
    BY <1>1, RecentStep DEF t
  <2> QED BY <2>1, <2>2, <2>3, <2>4, Zenon
<1>8. CASE full
  <2>1. /\ Tail(pushed) \in Seq(BOOLEAN) /\ Len(Tail(pushed)) = Len(w)
        /\ \A i \in 1 .. Len(w) : Tail(pushed)[i] = pushed[i + 1]
    BY <1>1, <1>2, HeadTailProperties
  <2>2. Len(w) = n /\ ~(l + 1 < n)
    BY <1>1, <1>4, <1>8
  <2>3. ASSUME NEW i \in 1 .. Len(w)
        PROVE  Tail(pushed)[i] <=> t[l + 1 - Len(w) + i].positive
    <3>1. i + 1 \in 1 .. Len(pushed) /\ l - Len(w) + (i + 1) = l + 1 - Len(w) + i
      BY <1>1, <1>2
    <3> QED BY <1>6, <2>1, <3>1
  <2>4. WindowOK(Tail(pushed), c + Bit(b) - Bit(full /\ Head(pushed)), t, n)
    <3>1. Len(w) = IF Len(t) < n THEN Len(t) ELSE n
      BY <1>3, <2>2
    <3>2. \A i \in 1 .. Len(Tail(pushed)) :
            Tail(pushed)[i] <=> t[Len(t) - Len(Tail(pushed)) + i].positive
      <4> TAKE i \in 1 .. Len(Tail(pushed))
      <4>a. Len(Tail(pushed)) = Len(w) /\ Len(t) = l + 1
        BY <1>3, <2>1
      <4>b. i \in 1 .. Len(w)
        BY <4>a, Zenon
      <4>c. Len(t) - Len(Tail(pushed)) + i = l + 1 - Len(w) + i
        <5> DEFINE x == Len(t)
                   y == Len(Tail(pushed))
        <5>1. x = l + 1 /\ y = Len(w) /\ i \in Int
          BY <4>a
        <5> HIDE DEF x, y
        <5>2. x - y + i = l + 1 - Len(w) + i
          BY <1>n, <5>1
        <5> QED BY <5>2 DEF x, y
      <4> QED BY <2>3, <4>b, <4>c, Zenon
    <3>3. c + Bit(b) - Bit(full /\ Head(pushed)) = Cardinality(Recent(t, n, Len(t)))
      BY <1>3, <1>7, Zenon
    <3>4. Len(Tail(pushed)) = IF Len(t) < n THEN Len(t) ELSE n
      BY <2>1, <3>1
    <3> QED BY <1>3, <2>1, <3>2, <3>3, <3>4, Zenon DEF WindowOK
  <2> QED BY <1>8, <2>4 DEF t, pushed
<1>9. CASE ~full
  <2>1. Len(pushed) = l + 1 /\ Len(w) = l /\ (l + 1 < n \/ l + 1 = n)
    BY <1>1, <1>2, <1>4, <1>9
  <2>2. \A i \in 1 .. Len(pushed) : l + 1 - Len(pushed) + i = l - Len(w) + i
    BY <1>n, <2>1
  <2>3. WindowOK(pushed, c + Bit(b) - Bit(full /\ Head(pushed)), t, n)
    <3>1. Len(pushed) = IF Len(t) < n THEN Len(t) ELSE n
      BY <1>3, <2>1
    <3>2. \A i \in 1 .. Len(pushed) :
            pushed[i] <=> t[Len(t) - Len(pushed) + i].positive
      <4> TAKE i \in 1 .. Len(pushed)
      <4>1. Len(t) - Len(pushed) + i = l - Len(w) + i
        BY <1>3, <2>2
      <4> QED BY <1>6, <4>1, Zenon
    <3>3. c + Bit(b) - Bit(full /\ Head(pushed)) = Cardinality(Recent(t, n, Len(t)))
      BY <1>3, <1>7, Zenon
    <3> QED BY <1>2, <1>3, <3>1, <3>2, <3>3, Zenon DEF WindowOK
  <2> QED BY <1>9, <2>3 DEF t, pushed
<1> QED BY <1>8, <1>9

---------------------------------------------------------------------------------
(* The confirmed episodes. *)

\* Of the first i verdicts of history s, at least k of the last n are positive.
Confirms(s, k, n, i) == Cardinality(Recent(s, n, i)) >= k

\* The frames of history s with which it becomes confirmed.
RisesOf(s, k, n) ==
  {s[i].frame : i \in {j \in 1 .. Len(s) :
                         Confirms(s, k, n, j) /\ ~Confirms(s, k, n, j - 1)}}

\* Reports m, and o refused ones, are one for each rise of history s, in order.
EpisodesOK(m, o, s, k, n) ==
  /\ m \in Seq(Nat) /\ Increasing(m) /\ o \in Nat
  /\ IsFiniteSet(RisesOf(s, k, n)) /\ \A i \in DOMAIN m : m[i] \in RisesOf(s, k, n)
  /\ Len(m) + o = Cardinality(RisesOf(s, k, n))

\* An empty history confirms nothing.
LEMMA NothingConfirmed ==
  ASSUME NEW k \in Nat \ {0}, NEW n \in Nat
  PROVE  /\ WindowOK(<< >>, 0, << >>, n)
         /\ ~Confirms(<< >>, k, n, 0)
         /\ EpisodesOK(<< >>, 0, << >>, k, n)
<1>1. /\ Len(<< >>) = 0 /\ DOMAIN << >> = {} /\ 1 .. 0 = {}
      /\ << >> \in Seq(Nat) /\ << >> \in Seq(BOOLEAN) /\ << >> \in Seq(Verdicts)
  OBVIOUS
<1>2. IsFiniteSet({}) /\ Cardinality({}) = 0
  BY FS_EmptySet
<1>3. Recent(<< >>, n, 0) = {}
  BY <1>1 DEF Recent
<1>4. RisesOf(<< >>, k, n) = {}
  BY <1>1 DEF RisesOf
<1>5. 0 = IF 0 < n THEN 0 ELSE n
  OBVIOUS
<1>6. WindowOK(<< >>, 0, << >>, n)
  <2>1. \A i \in 1 .. 0 : FALSE
    BY <1>1
  <2>2. Len(<< >>) = IF Len(<< >>) < n THEN Len(<< >>) ELSE n
    BY <1>1, <1>5
  <2>3. \A i \in 1 .. Len(<< >>) :
          << >>[i] <=> << >>[Len(<< >>) - Len(<< >>) + i].positive
    BY <1>1, <2>1, Zenon
  <2>4. 0 = Cardinality(Recent(<< >>, n, Len(<< >>)))
    BY <1>1, <1>2, <1>3, Zenon
  <2> QED BY <1>1, <2>2, <2>3, <2>4, Zenon DEF WindowOK
<1>7. ~Confirms(<< >>, k, n, 0)
  BY <1>2, <1>3 DEF Confirms
<1>8. EpisodesOK(<< >>, 0, << >>, k, n)
  <2>1. Increasing(<< >>) /\ 0 \in Nat /\ Len(<< >>) + 0 = 0
    BY <1>1 DEF Increasing
  <2> QED BY <1>1, <1>2, <1>4, <2>1, Zenon DEF EpisodesOK
<1> QED BY <1>6, <1>7, <1>8

\* One more verdict adds its frame to the rises exactly when it confirms the history.
LEMMA RisesGrow ==
  ASSUME NEW s \in Seq(Verdicts), NEW v \in Verdicts, NEW k \in Nat, NEW n \in Nat
  PROVE  LET t == Append(s, v)
             rise == Confirms(t, k, n, Len(s) + 1) /\ ~Confirms(s, k, n, Len(s))
         IN  RisesOf(t, k, n) = IF rise THEN RisesOf(s, k, n) \cup {v.frame}
                                        ELSE RisesOf(s, k, n)
<1> DEFINE t == Append(s, v)
           l == Len(s)
           Up(r, j) == Confirms(r, k, n, j) /\ ~Confirms(r, k, n, j - 1)
<1>1. /\ Len(t) = l + 1 /\ t[l + 1] = v /\ l \in Nat
      /\ \A i \in 1 .. l : t[i] = s[i]
      /\ \A i \in 0 .. l : Recent(t, n, i) = Recent(s, n, i)
  BY HistoryGrows, LenProperties
<1> HIDE DEF t, l
<1>2. \A i \in 0 .. l : Confirms(t, k, n, i) <=> Confirms(s, k, n, i)
  BY <1>1 DEF Confirms
<1>3. \A j \in 1 .. l : Up(t, j) <=> Up(s, j)
  <2> TAKE j \in 1 .. l
  <2>1. j \in 0 .. l /\ j - 1 \in 0 .. l
    BY <1>1
  <2> QED BY <1>2, <2>1
<1>4. Up(t, l + 1) <=> Confirms(t, k, n, l + 1) /\ ~Confirms(s, k, n, l)
  <2>1. l \in 0 .. l /\ (l + 1) - 1 = l
    BY <1>1
  <2> QED BY <1>2, <2>1
<1>5. 1 .. l + 1 = (1 .. l) \cup {l + 1}
  BY <1>1
<1>6. RisesOf(s, k, n) = {s[i].frame : i \in {j \in 1 .. l : Up(s, j)}}
  BY DEF RisesOf, l
<1>7. RisesOf(t, k, n) = {t[i].frame : i \in {j \in 1 .. l + 1 : Up(t, j)}}
  BY <1>1 DEF RisesOf
<1> HIDE DEF Up
<1>8. CASE Up(t, l + 1)
  <2>1. RisesOf(t, k, n) = RisesOf(s, k, n) \cup {v.frame}
    BY <1>1, <1>3, <1>5, <1>6, <1>7, <1>8
  <2> QED BY <1>4, <1>8, <2>1 DEF t, l
<1>9. CASE ~Up(t, l + 1)
  <2>1. RisesOf(t, k, n) = RisesOf(s, k, n)
    BY <1>1, <1>3, <1>5, <1>6, <1>7, <1>9
  <2> QED BY <1>4, <1>9, <2>1 DEF t, l
<1> QED BY <1>8, <1>9

\* A frame that is newer than every one before is reported, or refused, as a new rise.
LEMMA EpisodeAdded ==
  ASSUME NEW m, NEW o, NEW s \in Seq(Verdicts), NEW v \in Verdicts,
         NEW k \in Nat, NEW n \in Nat, EpisodesOK(m, o, s, k, n),
         Confirms(Append(s, v), k, n, Len(s) + 1), ~Confirms(s, k, n, Len(s)),
         \A i \in 1 .. Len(s) : s[i].frame < v.frame
  PROVE  /\ EpisodesOK(Append(m, v.frame), o, Append(s, v), k, n)
         /\ EpisodesOK(m, o + 1, Append(s, v), k, n)
<1> DEFINE R == RisesOf(s, k, n)
           R2 == RisesOf(Append(s, v), k, n)
           f == v.frame
<1>1. R2 = R \cup {f}
  BY RisesGrow
<1>2. f \in Nat /\ \A i \in 1 .. Len(s) : s[i].frame \in Nat
  <2>1. \A i \in 1 .. Len(s) : s[i] \in Verdicts
    OBVIOUS
  <2> QED BY <2>1 DEF Verdicts
<1>3. \A x \in R : x < f /\ x \in Nat
  BY <1>2 DEF RisesOf
<1>4. f \notin R
  BY <1>2, <1>3
<1>5. /\ m \in Seq(Nat) /\ Increasing(m) /\ o \in Nat /\ IsFiniteSet(R)
      /\ \A i \in DOMAIN m : m[i] \in R
      /\ Len(m) + o = Cardinality(R) /\ Len(m) \in Nat
  BY DEF EpisodesOK
<1> HIDE DEF R, R2, f
<1>6. IsFiniteSet(R2) /\ Cardinality(R2) = Cardinality(R) + 1
  BY <1>1, <1>4, <1>5, FS_AddElement
<1>7. \A i \in DOMAIN m : m[i] < f
  BY <1>3, <1>5
<1>8. /\ Increasing(Append(m, f)) /\ Append(m, f) \in Seq(Nat)
      /\ Len(Append(m, f)) = Len(m) + 1
  BY <1>2, <1>5, <1>7, IncreasingAppend
<1>9. \A i \in DOMAIN Append(m, f) : Append(m, f)[i] \in R2
  <2>1. DOMAIN Append(m, f) = 1 .. Len(m) + 1 /\ Len(m) \in Nat /\ DOMAIN m = 1 .. Len(m)
    BY <1>5, <1>8
  <2>2. /\ \A i \in 1 .. Len(m) : Append(m, f)[i] = m[i]
        /\ Append(m, f)[Len(m) + 1] = f
    BY <1>2, <1>5, AppendProperties
  <2>3. \A i \in 1 .. Len(m) + 1 : i \in 1 .. Len(m) \/ i = Len(m) + 1
    BY <2>1
  <2> QED BY <1>1, <1>5, <2>1, <2>2, <2>3
<1>10. Len(Append(m, f)) + o = Cardinality(R2) /\ Len(m) + (o + 1) = Cardinality(R2)
  <2>1. Len(m) \in Nat /\ o \in Nat /\ Len(m) + o = Cardinality(R)
    BY <1>5
  <2> QED BY <1>6, <1>8, <2>1
<1>11. o + 1 \in Nat /\ \A i \in DOMAIN m : m[i] \in R2
  BY <1>1, <1>5
<1> QED BY <1>5, <1>6, <1>8, <1>9, <1>10, <1>11 DEF EpisodesOK, R2, f

\* A verdict that is no rise adds no episode.
LEMMA EpisodeKept ==
  ASSUME NEW m, NEW o, NEW s \in Seq(Verdicts), NEW v \in Verdicts,
         NEW k \in Nat, NEW n \in Nat, EpisodesOK(m, o, s, k, n),
         ~(Confirms(Append(s, v), k, n, Len(s) + 1) /\ ~Confirms(s, k, n, Len(s)))
  PROVE  EpisodesOK(m, o, Append(s, v), k, n)
<1>1. RisesOf(Append(s, v), k, n) = RisesOf(s, k, n)
  BY RisesGrow
<1> QED BY <1>1, Zenon DEF EpisodesOK

\* The window is the end of the history, and the reports are the history's rises.
EventsInv ==
  /\ emitted \in Seq(Nat) /\ events \in Seq(Nat)
  /\ WindowOK(window, positives, seen, setting.n)
  /\ wasConfirmed <=> Confirms(seen, setting.k, setting.n, Len(seen))
  /\ EpisodesOK(emitted \o events, overflow, seen, setting.k, setting.n)

\* The rises of this pipeline's history.
LEMMA RisesAre ==
  ASSUME seen \in Seq(Verdicts)
  PROVE  Rises = RisesOf(seen, setting.k, setting.n)
<1>1. DOMAIN seen = 1 .. Len(seen)
  OBVIOUS
<1>2. \A i : ConfirmedAfter(i) <=> Confirms(seen, setting.k, setting.n, i)
  BY Zenon DEF ConfirmedAfter, Confirms, Recent
<1> QED BY <1>1, <1>2 DEF Rises, RisesOf

\* In the order of the ring, the frame being processed is newer than the processed ones.
LEMMA HeadIsNewer ==
  ASSUME FlowInv, infPc = "process"
  PROVE  /\ ring \in Seq(Nat) /\ ring # << >> /\ Head(ring) \in Nat
         /\ seen \in Seq(Verdicts)
         /\ \A i \in 1 .. Len(seen) : seen[i].frame < Head(ring)
<1>1. FlowTypes /\ FlowOK(Published)
  BY DEF FlowInv
<1>2. /\ ring \in Seq(Nat) /\ ring # << >> /\ Head(ring) \in Nat /\ seen \in Seq(Verdicts)
      /\ Head(ring) = ring[1] /\ Len(ring) \in Nat \ {0} /\ Len(seen) \in Nat
  BY <1>1 DEF FlowTypes
<1>3. /\ Published = Done \o ring /\ Done \in Seq(Nat) /\ Len(Done) = Len(seen)
      /\ \A i \in 1 .. Len(seen) : Done[i] = seen[i].frame
  <2>1. Waiting = ring
    BY DEF Waiting
  <2> QED BY <1>1, <2>1, PublishedIs
<1>4. /\ Len(Published) = Len(seen) + Len(ring)
      /\ \A i \in 1 .. Len(seen) : Published[i] = seen[i].frame
      /\ Published[Len(seen) + 1] = Head(ring)
  <2>1. /\ Len(Done \o ring) = Len(Done) + Len(ring)
        /\ \A i \in 1 .. Len(Done) + Len(ring) :
             (Done \o ring)[i] = IF i <= Len(Done) THEN Done[i] ELSE ring[i - Len(Done)]
    BY <1>2, <1>3, ConcatProperties
  <2>2. /\ \A i \in 1 .. Len(seen) : i \in 1 .. Len(seen) + Len(ring) /\ i <= Len(seen)
        /\ Len(seen) + 1 \in 1 .. Len(seen) + Len(ring) /\ ~(Len(seen) + 1 <= Len(seen))
        /\ (Len(seen) + 1) - Len(seen) = 1
    BY <1>2
  <2> QED BY <1>2, <1>3, <2>1, <2>2, Zenon
<1>5. Increasing(Published) /\ DOMAIN Published = 1 .. Len(seen) + Len(ring)
  BY <1>1, <1>4 DEF FlowOK
<1> SUFFICES ASSUME NEW i \in 1 .. Len(seen) PROVE seen[i].frame < Head(ring)
  BY <1>2
<1>6. i \in DOMAIN Published /\ Len(seen) + 1 \in DOMAIN Published /\ i < Len(seen) + 1
  BY <1>2, <1>5
<1> QED BY <1>4, <1>5, <1>6 DEF Increasing

\* A new pipeline, with any setting, has no verdicts and no events.
LEMMA NewPipeline ==
  ASSUME NEW g \in Settings
  PROVE  /\ << >> \o << >> = << >> /\ << >> \in Seq(Nat) /\ Len(<< >>) = 0
         /\ WindowOK(<< >>, 0, << >>, g.n)
         /\ ~Confirms(<< >>, g.k, g.n, 0)
         /\ EpisodesOK(<< >>, 0, << >>, g.k, g.n)
<1>1. g.k \in Nat \ {0} /\ g.n \in Nat
  BY EdgeAssumption
<1> QED BY <1>1, NothingConfirmed

\* The pipeline starts with no events.
LEMMA EventsInitially == Init => EventsInv
<1> SUFFICES ASSUME Init PROVE EventsInv
  OBVIOUS
<1>1. /\ setting \in Settings /\ window = << >> /\ positives = 0 /\ wasConfirmed = FALSE
      /\ seen = << >> /\ events = << >> /\ overflow = 0 /\ emitted = << >>
  BY DEF Init
<1> QED BY <1>1, NewPipeline, Zenon DEF EventsInv

\* A step that leaves the history and its reports alone keeps the invariant.
LEMMA EventsKept ==
  ASSUME EventsInv,
         UNCHANGED <<setting, window, positives, wasConfirmed, seen, events, overflow,
                     emitted>>
  PROVE  EventsInv'
BY Zenon DEF EventsInv

\* One frame processed: the window slides, and an event is pushed on the rise only.
LEMMA EventsProcess ==
  ASSUME FlowInv, EventsInv, Process
  PROVE  EventsInv'
<1>1. PICK b \in BOOLEAN :
        /\ infPc = "process" /\ Update(b)
        /\ seen' = Append(seen, [frame |-> Head(ring), positive |-> b])
        /\ wasConfirmed' = (positives' >= setting.k)
        /\ LET rise == wasConfirmed' /\ ~wasConfirmed
               room == Len(events) < EventSlots
           IN  /\ events' = IF rise /\ room THEN Append(events, Head(ring)) ELSE events
               /\ overflow' = overflow + Bit(rise /\ ~room)
        /\ UNCHANGED <<setting, emitted>>
  BY Zenon DEF Process, Detect, config, agent
<1>2. /\ ring \in Seq(Nat) /\ ring # << >> /\ Head(ring) \in Nat /\ seen \in Seq(Verdicts)
      /\ \A i \in 1 .. Len(seen) : seen[i].frame < Head(ring)
  BY <1>1, HeadIsNewer
<1> DEFINE v == [frame |-> Head(ring), positive |-> b]
<1>3. v \in Verdicts /\ v.frame = Head(ring) /\ v.positive = b
  BY <1>2, Zenon DEF Verdicts
<1> HIDE DEF v
<1>4. seen' = Append(seen, v)
  BY <1>1 DEF v
<1>5. setting.k \in Nat \ {0} /\ setting.n \in Nat \ {0}
  <2>1. setting \in Settings
    BY DEF FlowInv, FlowTypes
  <2> QED BY <2>1, EdgeAssumption
<1>6. /\ emitted \in Seq(Nat) /\ events \in Seq(Nat)
      /\ WindowOK(window, positives, seen, setting.n)
      /\ wasConfirmed <=> Confirms(seen, setting.k, setting.n, Len(seen))
      /\ EpisodesOK(emitted \o events, overflow, seen, setting.k, setting.n)
  BY Zenon DEF EventsInv
<1>7. WindowOK(window', positives', Append(seen, v), setting.n)
  <2>1. LET pushed == Append(window, b)
            full   == Len(pushed) > setting.n
        IN  WindowOK(IF full THEN Tail(pushed) ELSE pushed,
                     positives + Bit(b) - Bit(full /\ Head(pushed)),
                     Append(seen, v), setting.n)
    BY <1>3, <1>5, <1>6, WindowUpdate, Zenon
  <2> QED BY <1>1, <2>1, Zenon DEF Update
<1>8. Append(seen, v) \in Seq(Verdicts) /\ Len(Append(seen, v)) = Len(seen) + 1
  BY <1>2, <1>3, AppendProperties
<1>9. wasConfirmed' <=> Confirms(Append(seen, v), setting.k, setting.n, Len(seen) + 1)
  <2>1. positives' = Cardinality(Recent(Append(seen, v), setting.n, Len(seen) + 1))
    BY <1>7, <1>8, Zenon DEF WindowOK
  <2> QED BY <1>1, <2>1, Zenon DEF Confirms
<1> DEFINE m == emitted \o events
<1>10. Append(m, Head(ring)) = emitted \o Append(events, Head(ring))
  BY <1>2, <1>6, ConcatAppend
<1>11. events' \in Seq(Nat) /\ EpisodesOK(emitted \o events', overflow', Append(seen, v),
                                           setting.k, setting.n)
  <2> DEFINE rise == wasConfirmed' /\ ~wasConfirmed
             room == Len(events) < EventSlots
  <2>o. overflow \in Nat
    BY <1>6, Zenon DEF EpisodesOK
  <2>1. CASE rise
    <3>1. /\ EpisodesOK(Append(m, v.frame), overflow, Append(seen, v), setting.k, setting.n)
          /\ EpisodesOK(m, overflow + 1, Append(seen, v), setting.k, setting.n)
      BY <1>2, <1>3, <1>5, <1>6, <1>9, <2>1, EpisodeAdded
    <3>2. CASE room
      <4>1. events' = Append(events, Head(ring)) /\ overflow' = overflow + 0
        BY <1>1, <2>1, <3>2, Zenon DEF Bit
      <4>2. overflow' = overflow /\ events' \in Seq(Nat)
        BY <1>2, <1>6, <2>o, <4>1
      <4> QED BY <1>3, <1>10, <3>1, <4>1, <4>2, Zenon
    <3>3. CASE ~room
      <4>1. events' = events /\ overflow' = overflow + 1
        BY <1>1, <2>1, <3>3, Zenon DEF Bit
      <4> QED BY <1>6, <3>1, <4>1, Zenon
    <3> QED BY <3>2, <3>3
  <2>2. CASE ~rise
    <3>1. events' = events /\ overflow' = overflow + 0
      BY <1>1, <2>2, Zenon DEF Bit
    <3>2. overflow' = overflow
      BY <2>o, <3>1
    <3>3. EpisodesOK(m, overflow, Append(seen, v), setting.k, setting.n)
      BY <1>2, <1>3, <1>5, <1>6, <1>9, <2>2, EpisodeKept
    <3> QED BY <1>6, <3>1, <3>2, <3>3, Zenon
  <2> QED BY <2>1, <2>2
<1> QED BY <1>1, <1>4, <1>6, <1>7, <1>8, <1>9, <1>11, Zenon DEF EventsInv

\* Every step keeps the window and the reports true to the history.
LEMMA EventsStep == FlowInv /\ EventsInv /\ [Next]_vars => EventsInv'
<1> SUFFICES ASSUME FlowInv, EventsInv, [Next]_vars PROVE EventsInv'
  OBVIOUS
<1>1. CASE CaptureStep
  BY <1>1, EventsKept DEF CaptureStep, CaptureTest, CapturePush, CaptureCount, CaptureFull,
       CaptureDrop, CaptureEnd, CaptureDone, config, inference, agent
<1>2. CASE InferTest \/ InferStopTest \/ InferPop \/ Release \/ InferExit
  BY <1>2, EventsKept DEF InferTest, InferStopTest, InferPop, Release, InferExit, config, agent
<1>3. CASE AgentTest \/ AgentHalt \/ AgentConfig \/ AgentStop \/ AgentDone \/ UNCHANGED vars
  BY <1>3, EventsKept DEF AgentTest, AgentHalt, AgentConfig, AgentStop, AgentDone, vars,
       config, inference, agent
<1>4. CASE AgentPop
  <2>1. CASE events = << >>
    BY <1>4, <2>1, EventsKept DEF AgentPop, config, inference
  <2>2. CASE events # << >>
    <3>1. /\ emitted' = Append(emitted, Head(events)) /\ events' = Tail(events)
          /\ UNCHANGED <<setting, window, positives, wasConfirmed, seen, overflow>>
      BY <1>4, <2>2 DEF AgentPop, config, inference
    <3>2. emitted \in Seq(Nat) /\ events \in Seq(Nat)
      BY Zenon DEF EventsInv
    <3>3. emitted' \in Seq(Nat) /\ events' \in Seq(Nat)
      BY <2>2, <3>1, <3>2
    <3>4. emitted' \o events' = emitted \o events
      BY <2>2, <3>1, <3>2, ConcatMove
    <3> QED BY <3>1, <3>3, <3>4, Zenon DEF EventsInv
  <2> QED BY <2>1, <2>2
<1>5. CASE Rebuild
  <2>1. /\ setting' \in Settings /\ window' = << >> /\ positives' = 0
        /\ wasConfirmed' = FALSE /\ seen' = << >> /\ events' = << >> /\ overflow' = 0
        /\ emitted' = << >>
    BY <1>5 DEF Rebuild
  <2> QED BY <2>1, NewPipeline, Zenon DEF EventsInv
<1> QED BY <1>1, <1>2, <1>3, <1>4, <1>5, EventsProcess DEF Next, InferenceStep, AgentStep

\* One event for each confirmed episode, in order, or a counted refusal of the output
\* ring: for any K of N, rings of any size and videos of any length.
THEOREM EpisodesAreReportedOnce == Spec => []OneEventPerEpisode
<1>1. FlowInv /\ EventsInv => OneEventPerEpisode
  <2> SUFFICES ASSUME FlowInv, EventsInv PROVE OneEventPerEpisode
    OBVIOUS
  <2>1. Rises = RisesOf(seen, setting.k, setting.n)
    BY RisesAre DEF FlowInv, FlowTypes
  <2> QED BY <2>1, Zenon DEF EventsInv, EpisodesOK, OneEventPerEpisode
<1> QED BY <1>1, FlowInitially, FlowStep, EventsInitially, EventsStep, PTL DEF Spec

---------------------------------------------------------------------------------
(* The end of a pipeline. *)

\* Before stop_requested_ is set, the inference thread leaves its loop only after the
\* capture thread's last push, with the ring empty; what "finished" says then stays true.
FinishInv ==
  /\ captureDone => capPc = "exited"
  /\ finished => infPc = "exited"
  /\ infPc \in {"exit", "exited"} => stop \/ (capPc = "exited" /\ ring = << >>)
  /\ stop => agentPc \in {"join", "done"}
  /\ agentPc \in {"test", "pop", "config"} => reason = "none"
  /\ reason = "finished" => /\ capPc = "exited" /\ infPc = "exited"
                            /\ ring = << >> /\ events = << >>

\* Every step of the three threads keeps it.
LEMMA FinishStep == FinishInv /\ [Next]_vars => FinishInv'
<1> SUFFICES ASSUME FinishInv, [Next]_vars PROVE FinishInv'
  OBVIOUS
<1> USE DEF FinishInv, config, capture, inference, agent
<1>1. CASE CaptureStep
  <2>1. capPc # "exited" /\ UNCHANGED <<infPc, finished, events, stop, agentPc, reason>>
    BY <1>1 DEF CaptureStep, CaptureTest, CapturePush, CaptureCount, CaptureFull,
                CaptureDrop, CaptureEnd, CaptureDone
  <2>2. captureDone' => capPc' = "exited"
    BY <1>1, <2>1 DEF CaptureStep, CaptureTest, CapturePush, CaptureCount, CaptureFull,
                      CaptureDrop, CaptureEnd, CaptureDone
  <2> QED BY <2>1, <2>2
<1>2. CASE InferTest
  BY <1>2 DEF InferTest
<1>3. CASE InferStopTest
  BY <1>3 DEF InferStopTest
<1>4. CASE InferPop \/ Process \/ Release
  <2>1. /\ infPc \notin {"exit", "exited"} /\ infPc' \notin {"exit", "exited"}
        /\ UNCHANGED <<capture, finished, agent>>
    BY <1>4 DEF InferPop, Process, Release
  <2> QED BY <2>1
<1>5. CASE InferExit
  BY <1>5 DEF InferExit
<1>6. CASE AgentTest \/ AgentHalt \/ AgentConfig
  BY <1>6 DEF AgentTest, AgentHalt, AgentConfig
<1>7. CASE AgentPop
  BY <1>7 DEF AgentPop
<1>8. CASE AgentStop \/ AgentDone
  BY <1>8 DEF AgentStop, AgentDone
<1>9. CASE Rebuild
  BY <1>9 DEF Rebuild
<1>10. CASE UNCHANGED vars
  BY <1>10 DEF vars
<1> QED BY <1>1, <1>2, <1>3, <1>4, <1>5, <1>6, <1>7, <1>8, <1>9, <1>10
        DEF Next, InferenceStep, AgentStep

\* A pipeline the producer thread takes for finished has processed every captured frame
\* and delivered every event, whatever the order in which the three threads ran.
THEOREM FinishedLeavesNothing == Spec => []FinishedIsComplete
<1>1. Init => FinishInv
  BY DEF Init, FinishInv
<1>2. FlowInv /\ EventsInv /\ FinishInv => FinishedIsComplete
  <2> SUFFICES ASSUME FlowInv, EventsInv, FinishInv, reason = "finished"
               PROVE  /\ capPc = "exited" /\ ring = << >> /\ events = << >>
                      /\ Len(seen) = captured /\ captured + dropped = next
                      /\ Len(emitted) + overflow = Cardinality(Rises)
    BY DEF FinishedIsComplete
  <2>1. capPc = "exited" /\ infPc = "exited" /\ ring = << >> /\ events = << >>
    BY DEF FinishInv
  <2>2. Len(seen) = captured /\ captured + dropped = next
    <3>1. FlowTypes /\ FlowOK(Published)
      BY DEF FlowInv
    <3>2. Published = Done \o << >> /\ Done \in Seq(Nat) /\ Len(Done) = Len(seen)
      <4>1. Waiting = << >>
        BY <2>1 DEF Waiting
      <4> QED BY <3>1, <4>1, PublishedIs
    <3>3. Published = Done /\ Len(Done) \in Nat
      BY <3>2
    <3> QED BY <2>1, <3>1, <3>2, <3>3 DEF FlowOK, Bit
  <2>3. Len(emitted) + overflow = Cardinality(Rises)
    <3>1. Rises = RisesOf(seen, setting.k, setting.n)
      BY RisesAre DEF FlowInv, FlowTypes
    <3>2. emitted \in Seq(Nat)
      BY Zenon DEF EventsInv
    <3>3. emitted \o events = emitted
      BY <2>1, <3>2
    <3> QED BY <3>1, <3>3, Zenon DEF EventsInv, EpisodesOK
  <2> QED BY <2>1, <2>2, <2>3
<1> QED BY <1>1, <1>2, FlowInitially, FlowStep, EventsInitially, EventsStep, FinishStep,
           PTL DEF Spec
=================================================================================
