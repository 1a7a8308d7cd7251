----------------------------- MODULE OnnxDetector -----------------------------
(***************************************************************************)
(* The YOLOX detector (inference/src/onnx_cpu_detector.cc): letterboxing a *)
(* frame into the input tensor, decoding the rows the model answers with,  *)
(* greedy suppression, and the choice of the box to report.  The tensor,   *)
(* the sample tables and the candidate list are members that one frame     *)
(* leaves to the next.                                                     *)
(*                                                                         *)
(* The model's inference is external: any rows of Outputs, or an output of *)
(* the wrong shape.  Objectness and class scores are tenths, so a score is *)
(* in hundredths.  Box coordinates are in 1/(2*S) pixel, which makes the   *)
(* division by r exact.                                                    *)
(***************************************************************************)
EXTENDS Integers, Sequences, FiniteSets, Functions

CONSTANTS S,          \* input_size
          Strides,    \* the strides of the grid
          Frames,     \* the frames: [w, h], 0 for one that is empty
          Outputs,    \* Outputs[n]: the rows the model may answer to the n-th frame with
          ScoreLimit, \* score_threshold, in tenths
          IouLimit,   \* nms_iou_threshold, in tenths
          Targets     \* target_class_ids

VARIABLES
  phase,  \* "idle", "prepared" (Preprocess returned), "done" (Detect returned)
  n,      \* frames taken
  frame,  \* the n-th of them
  cols,   \* col_x0_, col_x1_ and col_wx_
  rows,   \* row_y0_, row_y1_ and row_wy_
  tensor, \* input_tensor_: what each cell was computed from
  output, \* the model's output
  candidates,
  kept,   \* what DetectAll returned: positions in candidates, in their order
  result  \* what Detect returned

vars == <<phase, n, frame, cols, rows, tensor, output, candidates, kept, result>>

Cells == 0 .. S - 1
Unset == [lo |-> 0, hi |-> 0, wt |-> <<0, 1>>]
Padding == [n |-> 0]
Negative == [positive |-> FALSE, confidence |-> 0, box |-> <<0, 0, 0, 0>>]

\* The constructor.
Init ==
  /\ phase = "idle" /\ n = 0 /\ frame = [w |-> 0, h |-> 0]
  /\ cols = [d \in Cells |-> Unset] /\ rows = cols
  /\ tensor = [c \in Cells \X Cells |-> Padding]
  /\ output = <<>> /\ candidates = <<>> /\ kept = {} /\ result = Negative

\* grid_x_, grid_y_ and grid_stride_ of one stride: y outer, x inner.
Level(stride) ==
  LET cells == S \div stride
  IN [j \in 1 .. cells * cells |->
        [x |-> (j - 1) % cells, y |-> (j - 1) \div cells, stride |-> stride]]

\* The levels of the first k strides, one after the other.
Levels[k \in 0 .. Len(Strides)] ==
  IF k = 0 THEN <<>> ELSE Levels[k - 1] \o Level(Strides[k])

Grid == Levels[Len(Strides)]

Lesser(a, b) == IF a < b THEN a ELSE b
Greater(a, b) == IF a > b THEN a ELSE b
Clamp(v, lo, hi) == Lesser(Greater(v, lo), hi)

-------------------------------------------------------------------------------
\* Preprocess.

\* Pixel centres: f = (d + 1/2) * srcLen/dstLen - 1/2, here over 2*dstLen.  The double
\* computed for a whole f may be just below it ("below"): then the floor is one less and
\* the weight, cast to float, is 1.  Other positions are too far from a whole number.
Sample(srcLen, dstLen, d, below) ==
  LET f == Greater((2 * d + 1) * srcLen - dstLen, 0)
      q == f \div (2 * dstLen)
      floor == IF below /\ q > 0 /\ f = q * (2 * dstLen) THEN q - 1 ELSE q
      lo == Lesser(floor, srcLen - 1)
  IN [lo |-> lo, hi |-> Lesser(lo + 1, srcLen - 1), wt |-> <<f - lo * (2 * dstLen), 2 * dstLen>>]

\* The entries beyond dstLen keep what an earlier frame left in them; those of below
\* are rounded down.
BuildAxisTable(srcLen, dstLen, below, table) ==
  [d \in Cells |-> IF d < dstLen THEN Sample(srcLen, dstLen, d, d \in below) ELSE table[d]]

Longer(f) == Greater(f.w, f.h)

\* int(len * r) for r = S / Longer: float rounding may take a whole number below itself.
Resized(len, f) ==
  LET exact == (len * S) \div Longer(f)
  IN {Clamp(exact, 1, S)} \cup
     (IF exact * Longer(f) = len * S THEN {Clamp(exact - 1, 1, S)} ELSE {})

\* Mutant: the padding of the frame before stays where it was.
UnfilledTensor(nw, nh, k, cs, rs) ==
  [c \in Cells \X Cells |->
     IF c[1] < nw /\ c[2] < nh THEN [n |-> k, x |-> cs[c[1]], y |-> rs[c[2]]] ELSE tensor[c]]

\* Padding everywhere, the k-th frame resized into the top left.
FilledTensor(nw, nh, k, cs, rs) ==
  [c \in Cells \X Cells |->
     IF c[1] < nw /\ c[2] < nh THEN [n |-> k, x |-> cs[c[1]], y |-> rs[c[2]]] ELSE Padding]

\* Detect is called; its first step is Preprocess.
Preprocess(f) ==
  /\ phase # "prepared" /\ n + 1 \in DOMAIN Outputs
  /\ f.w > 0 /\ f.h > 0
  /\ phase' = "prepared" /\ n' = n + 1 /\ frame' = f
  /\ \E nw \in Resized(f.w, f), nh \in Resized(f.h, f), below, under \in SUBSET Cells :
       /\ cols' = BuildAxisTable(f.w, nw, below, cols)
       /\ rows' = BuildAxisTable(f.h, nh, under, rows)
       /\ tensor' = FilledTensor(nw, nh, n + 1, cols', rows')
  /\ output' = <<>> /\ kept' = {} /\ result' = Negative
  /\ UNCHANGED candidates

\* It throws on an empty frame, or one that is not BGR24: the members are as they were.
RefuseFrame(f) ==
  /\ phase # "prepared" /\ n + 1 \in DOMAIN Outputs
  /\ f.w = 0 \/ f.h = 0
  /\ phase' = "idle" /\ n' = n + 1 /\ frame' = f
  /\ output' = <<>> /\ kept' = {} /\ result' = Negative
  /\ UNCHANGED <<cols, rows, tensor, candidates>>

-------------------------------------------------------------------------------
\* DetectAll.

\* The first class with the highest score.
BestClass(p) ==
  CHOOSE c \in DOMAIN p.cls :
    /\ \A e \in DOMAIN p.cls : p.cls[e] <= p.cls[c]
    /\ \A e \in 1 .. c - 1 : p.cls[e] < p.cls[c]

\* Row i of the output as a detection of frame f; bw and bh are exp(p[2]), exp(p[3]).
Decode(p, i, f) ==
  LET g == Grid[i]
      at(v, cell, half, len) == Clamp((2 * (v + cell) + half) * g.stride * Longer(f), 0, 2 * S * len)
  IN [class_id |-> BestClass(p), score |-> p.obj * p.cls[BestClass(p)],
      x1 |-> at(p.px, g.x, -p.bw, f.w), y1 |-> at(p.py, g.y, -p.bh, f.h),
      x2 |-> at(p.px, g.x, p.bw, f.w), y2 |-> at(p.py, g.y, p.bh, f.h)]

\* The rows that pass both thresholds, objectness first.
Passing(out, f) ==
  {i \in DOMAIN out : out[i].obj > ScoreLimit /\ Decode(out[i], i, f).score > 10 * ScoreLimit}

\* Their detections as std::sort may leave them: the best first, ties in any order.
Sorted(out, f) ==
  LET found == Passing(out, f)
      at(i) == Decode(out[i], i, f)
  IN {[k \in DOMAIN p |-> at(p[k])] :
        p \in {q \in Injection(1 .. Cardinality(found), found) :
                 \A i, j \in DOMAIN q : i < j => at(q[i]).score >= at(q[j]).score}}

Area(b) == Greater(0, b.x2 - b.x1) * Greater(0, b.y2 - b.y1)

\* IoU(a, b) > nms_iou_threshold
Overlaps(a, b) ==
  LET inter == Area([x1 |-> Greater(a.x1, b.x1), y1 |-> Greater(a.y1, b.y1),
                     x2 |-> Lesser(a.x2, b.x2), y2 |-> Lesser(a.y2, b.y2)])
      uni == Area(a) + Area(b) - inter
  IN uni > 0 /\ 10 * inter > IouLimit * uni

\* Mutant: a candidate is held against the one before it only.
NeighbourNms(sorted) ==
  {i \in DOMAIN sorted : i = 1 \/ ~Overlaps(sorted[i], sorted[i - 1])}

\* Greedy, over all classes: a candidate stays unless it overlaps one before it that
\* stayed.  There is one such set (GreedyScan in DetectionPathProofs).
Nms(sorted) ==
  CHOOSE stay \in SUBSET DOMAIN sorted :
    \A i \in DOMAIN sorted :
      i \in stay <=> ~\E j \in stay : j < i /\ Overlaps(sorted[i], sorted[j])

\* Detect: the first wanted one.
Best(sorted, stay) ==
  LET wanted == {i \in stay : Targets = {} \/ sorted[i].class_id \in Targets}
  IN IF wanted = {} THEN Negative
     ELSE LET b == sorted[CHOOSE i \in wanted : \A j \in wanted : i <= j]
          IN [positive |-> TRUE, confidence |-> b.score, box |-> <<b.x1, b.y1, b.x2, b.y2>>]

\* The model answers, and Detect runs to its end.
Detect(out) ==
  /\ phase = "prepared" /\ phase' = "done"
  /\ output' = out
  /\ candidates' \in Sorted(out, frame)
  /\ kept' = Nms(candidates')
  /\ result' = Best(candidates', kept')
  /\ UNCHANGED <<n, frame, cols, rows, tensor>>

\* An output of another shape: throws.
RefuseOutput ==
  /\ phase = "prepared" /\ phase' = "idle"
  /\ UNCHANGED <<n, frame, cols, rows, tensor, output, candidates, kept, result>>

Next ==
  \/ \E f \in Frames : Preprocess(f) \/ RefuseFrame(f)
  \/ phase = "prepared" /\ \E out \in Outputs[n] : Detect(out)
  \/ RefuseOutput

Spec == Init /\ [][Next]_vars

-------------------------------------------------------------------------------
\* Whatever frames came before, and however the sizes and positions round: the model
\* sees nothing but this frame, sampled inside its bounds at neighbouring pixels
\* with weights in [0, 1], from left to right and from top to bottom, on padding.
TensorIsThisFrame ==
  phase = "prepared" =>
    LET image == {c \in Cells \X Cells : tensor[c] # Padding}
        InBounds(s, len) ==
          /\ 0 <= s.lo /\ s.lo <= s.hi /\ s.hi <= s.lo + 1 /\ s.hi < len
          /\ 0 <= s.wt[1] /\ s.wt[1] <= s.wt[2]
    IN /\ <<0, 0>> \in image
       /\ \A c \in image :
            /\ tensor[c].n = n
            /\ InBounds(tensor[c].x, frame.w) /\ InBounds(tensor[c].y, frame.h)
            /\ \A e \in image : /\ c[1] <= e[1] => tensor[c].x.lo <= tensor[e].x.lo
                                /\ c[2] <= e[2] => tensor[c].y.lo <= tensor[e].y.lo

\* What DetectAll keeps is what its header asks of suppression, of this output and no
\* other: among overlapping boxes only the best (no two kept ones overlap, every row
\* that scores above the threshold is kept or overlaps a kept one at least as good),
\* the early exit on objectness dropping nothing; and Detect reports the best of the
\* wanted ones, inside the frame.
SuppressionIsSound ==
  phase = "done" =>
    LET boxes == {Decode(output[i], i, frame) : i \in DOMAIN output}
        passing == {b \in boxes : b.score > 10 * ScoreLimit}
        stay == {candidates[k] : k \in kept}
        wanted == {b \in stay : Targets = {} \/ b.class_id \in Targets}
    IN /\ stay \subseteq passing
       /\ \A i, j \in kept : i # j => ~Overlaps(candidates[i], candidates[j])
       /\ \A b \in passing \ stay : \E k \in stay : Overlaps(b, k) /\ k.score >= b.score
       /\ result.positive = (wanted # {})
       /\ \A b \in wanted : b.score <= result.confidence
       /\ result.positive =>
            \E b \in wanted : /\ b.score = result.confidence
                              /\ result.box = <<b.x1, b.y1, b.x2, b.y2>>
                              /\ b.x1 <= b.x2 /\ b.x2 <= 2 * S * frame.w
                              /\ b.y1 <= b.y2 /\ b.y2 <= 2 * S * frame.h
===============================================================================
