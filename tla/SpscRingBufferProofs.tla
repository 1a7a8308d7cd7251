-------------------------- MODULE SpscRingBufferProofs --------------------------
(***************************************************************************)
(* Proofs about SpscRingBuffer for every Capacity >= 2 and every set of    *)
(* items.                                                                  *)
(***************************************************************************)
EXTENDS SpscRingBuffer, SequenceTheorems, TLAPS

\* The masked successor of ring_buffer.h, without the modulus.
LEMMA NextIndexDef ==
  ASSUME NEW i \in Index
  PROVE  NextIndex(i) = IF i = Capacity - 1 THEN 0 ELSE i + 1
<1>1. CASE i = Capacity - 1
  BY <1>1, CapacityAssumption DEF Index, NextIndex
<1>2. CASE i # Capacity - 1
  BY <1>2, CapacityAssumption DEF Index, NextIndex
<1> QED BY <1>1, <1>2

\* The masked difference of ring_buffer.h, without the modulus.
LEMMA DistDef ==
  ASSUME NEW a \in Index, NEW b \in Index
  PROVE  Dist(a, b) = IF a <= b THEN b - a ELSE b - a + Capacity
<1>1. CASE a <= b
  BY <1>1, CapacityAssumption DEF Index, Dist
<1>2. CASE ~(a <= b)
  BY <1>2, CapacityAssumption DEF Index, Dist
<1> QED BY <1>1, <1>2

\* The consumer's release store of head_ moves it one slot nearer to tail_, and
\* a store of tail_ moves it one slot further from every index behind it.
LEMMA DistStep ==
  ASSUME NEW a \in Index, NEW b \in Index
  PROVE  /\ NextIndex(a) \in Index
         /\ Dist(a, b) \in Index
         /\ a # b => Dist(NextIndex(a), b) = Dist(a, b) - 1
         /\ NextIndex(b) # a => Dist(a, NextIndex(b)) = Dist(a, b) + 1
<1>1. NextIndex(a) = IF a = Capacity - 1 THEN 0 ELSE a + 1
  BY NextIndexDef
<1>2. NextIndex(b) = IF b = Capacity - 1 THEN 0 ELSE b + 1
  BY NextIndexDef
<1>3. NextIndex(a) \in Index /\ NextIndex(b) \in Index
  BY <1>1, <1>2, CapacityAssumption DEF Index
<1>4. Dist(a, b) = IF a <= b THEN b - a ELSE b - a + Capacity
  BY DistDef
<1>5. Dist(a, b) \in Index
  BY <1>4, CapacityAssumption DEF Index
<1>6. ASSUME a # b PROVE Dist(NextIndex(a), b) = Dist(a, b) - 1
  <2>1. Dist(NextIndex(a), b) = IF NextIndex(a) <= b THEN b - NextIndex(a)
                                ELSE b - NextIndex(a) + Capacity
    BY <1>3, DistDef
  <2> QED BY <1>1, <1>4, <1>6, <2>1, CapacityAssumption DEF Index
<1>7. ASSUME NextIndex(b) # a PROVE Dist(a, NextIndex(b)) = Dist(a, b) + 1
  <2>1. Dist(a, NextIndex(b)) = IF a <= NextIndex(b) THEN NextIndex(b) - a
                                ELSE NextIndex(b) - a + Capacity
    BY <1>3, DistDef
  <2> QED BY <1>2, <1>4, <1>7, <2>1, CapacityAssumption DEF Index
<1> QED BY <1>3, <1>5, <1>6, <1>7

\* The slot just behind an index is the farthest one ahead of it.
LEMMA DistWrap ==
  ASSUME NEW a \in Index, NEW b \in Index
  PROVE  NextIndex(b) = a <=> Dist(a, b) = Capacity - 1
<1>1. NextIndex(b) = IF b = Capacity - 1 THEN 0 ELSE b + 1
  BY NextIndexDef
<1>2. Dist(a, b) = IF a <= b THEN b - a ELSE b - a + Capacity
  BY DistDef
<1> QED BY <1>1, <1>2, CapacityAssumption DEF Index

\* Two indices at the same distance are the same slot.
LEMMA DistInjective ==
  ASSUME NEW p \in Index, NEW x \in Index, NEW y \in Index
  PROVE  Dist(p, x) = Dist(p, y) => x = y
<1>1. Dist(p, x) = IF p <= x THEN x - p ELSE x - p + Capacity
  BY DistDef
<1>2. Dist(p, y) = IF p <= y THEN y - p ELSE y - p + Capacity
  BY DistDef
<1>3. /\ p \in Int /\ x \in Int /\ y \in Int /\ Capacity \in Int
      /\ 0 <= x /\ x < Capacity /\ 0 <= y /\ y < Capacity
  BY CapacityAssumption DEF Index
<1>4. ASSUME x < y PROVE Dist(p, x) # Dist(p, y)
  BY <1>1, <1>2, <1>3, <1>4
<1>5. ASSUME y < x PROVE Dist(p, x) # Dist(p, y)
  BY <1>1, <1>2, <1>3, <1>5
<1> QED BY <1>3, <1>4, <1>5

\* Of two indices ahead of p, how far the farther is ahead of the nearer.
LEMMA Rebase ==
  ASSUME NEW p \in Index, NEW x \in Index, NEW y \in Index,
         Dist(p, x) <= Dist(p, y)
  PROVE  Dist(x, y) = Dist(p, y) - Dist(p, x)
<1>1. Dist(p, x) = IF p <= x THEN x - p ELSE x - p + Capacity
  BY DistDef
<1>2. Dist(p, y) = IF p <= y THEN y - p ELSE y - p + Capacity
  BY DistDef
<1>3. Dist(x, y) = IF x <= y THEN y - x ELSE y - x + Capacity
  BY DistDef
<1> QED BY <1>1, <1>2, <1>3, CapacityAssumption DEF Index

\* An index between c and y, where y is not beyond a full turn from p.
LEMMA Between ==
  ASSUME NEW p \in Index, NEW c \in Index, NEW x \in Index, NEW y \in Index,
         Dist(p, c) <= Dist(p, y), Dist(c, x) <= Dist(c, y)
  PROVE  Dist(p, x) = Dist(p, c) + Dist(c, x)
<1>1. Dist(p, c) = IF p <= c THEN c - p ELSE c - p + Capacity
  BY DistDef
<1>2. Dist(p, y) = IF p <= y THEN y - p ELSE y - p + Capacity
  BY DistDef
<1>3. Dist(c, x) = IF c <= x THEN x - c ELSE x - c + Capacity
  BY DistDef
<1>4. Dist(c, y) = IF c <= y THEN y - c ELSE y - c + Capacity
  BY DistDef
<1>5. Dist(p, x) = IF p <= x THEN x - p ELSE x - p + Capacity
  BY DistDef
<1> QED BY <1>1, <1>2, <1>3, <1>4, <1>5, CapacityAssumption DEF Index

--------------------------------------------------------------------------------
\* RingInv holds initially.
LEMMA RingInvInit == Init => RingInv
<1> SUFFICES ASSUME Init PROVE RingInv
  OBVIOUS
<1>1. 0 \in Index
  BY CapacityAssumption DEF Index
<1>2. \A i \in Index : Dist(i, i) = 0
  BY DistDef DEF Index
<1>3. \A i \in Index : ~(Dist(0, i) < 0)
  BY <1>1, DistStep DEF Index
<1>4. TypeOK
  BY <1>1 DEF Init, TypeOK
<1> QED BY <1>1, <1>2, <1>3, <1>4 DEF Init, RingInv

\* A producer that loads head_ sees the indices in the same order as before.
LEMMA ReloadHead ==
  ASSUME RingInv, NEW h \in Loadable(pHead, head)
  PROVE  /\ h \in Index
         /\ Dist(h, head) <= Dist(h, cTail)
         /\ Dist(h, cTail) <= Dist(h, tail)
<1> USE DEF RingInv, TypeOK
<1>1. h \in Index /\ Dist(pHead, h) <= Dist(pHead, head)
  BY DEF Loadable
<1>2. \A y \in Index : Dist(pHead, y) \in Int
  BY DistStep DEF Index
<1>3. Dist(pHead, h) <= Dist(pHead, cTail) /\ Dist(pHead, h) <= Dist(pHead, tail)
  BY <1>1, <1>2
<1>4. /\ Dist(h, head) = Dist(pHead, head) - Dist(pHead, h)
      /\ Dist(h, cTail) = Dist(pHead, cTail) - Dist(pHead, h)
      /\ Dist(h, tail) = Dist(pHead, tail) - Dist(pHead, h)
  BY <1>1, <1>3, Rebase
<1> QED BY <1>1, <1>2, <1>4

\* A consumer that loads tail_ sees the indices in the same order as before.
LEMMA ReloadTail ==
  ASSUME RingInv, NEW t \in Loadable(cTail, tail)
  PROVE  /\ t \in Index
         /\ Dist(pHead, head) <= Dist(pHead, t)
         /\ Dist(pHead, t) <= Dist(pHead, tail)
<1> USE DEF RingInv, TypeOK
<1>1. t \in Index /\ Dist(cTail, t) <= Dist(cTail, tail)
  BY DEF Loadable
<1>2. \A x, y \in Index : Dist(x, y) \in 0 .. Capacity - 1
  BY DistStep DEF Index
<1>3. Dist(pHead, t) = Dist(pHead, cTail) + Dist(cTail, t)
  BY <1>1, Between
<1>4. Dist(cTail, tail) = Dist(pHead, tail) - Dist(pHead, cTail)
  BY Rebase
<1> QED BY <1>1, <1>2, <1>3, <1>4

\* While a pop is in progress the ring is not empty.
LEMMA PoppingNonEmpty ==
  ASSUME RingInv, cPc # "idle"
  PROVE  Dist(pHead, head) < Dist(pHead, cTail) /\ head # tail
<1> USE DEF RingInv, TypeOK
<1>1. Dist(pHead, head) # Dist(pHead, cTail)
  BY DistInjective
<1>2. \A y \in Index : Dist(pHead, y) \in Int
  BY DistStep DEF Index
<1> QED BY <1>1, <1>2

\* Every step of either thread preserves RingInv.
LEMMA RingInvStep == RingInv /\ [Next]_vars => RingInv'
<1> SUFFICES ASSUME RingInv, [Next]_vars PROVE RingInv'
  OBVIOUS
<1> USE DEF RingInv, TypeOK
<1>1. CASE PushStart
  <2>1. PICK h \in Loadable(pHead, head) : NextIndex(tail) # h /\ pHead' = h
    BY <1>1 DEF PushStart
  <2>2. /\ pHead' \in Index
        /\ Dist(pHead', head) <= Dist(pHead', cTail)
        /\ Dist(pHead', cTail) <= Dist(pHead', tail)
    BY <2>1, ReloadHead
  <2>3. ~(Dist(head, tail) < Dist(head, tail))
    BY DistStep DEF Index
  <2>4. cPc = "release" => head # tail
    BY PoppingNonEmpty
  <2> QED BY <1>1, <2>1, <2>2, <2>3, <2>4 DEF PushStart
<1>2. CASE PushFull
  <2>1. PICK h \in Loadable(pHead, head) : NextIndex(tail) = h /\ pHead' = h
    BY <1>2 DEF PushFull
  <2>2. /\ pHead' \in Index
        /\ Dist(pHead', head) <= Dist(pHead', cTail)
        /\ Dist(pHead', cTail) <= Dist(pHead', tail)
    BY <2>1, ReloadHead
  <2> QED BY <1>2, <2>2 DEF PushFull
<1>3. CASE PushFill
  <2>1. cPc = "release" => head # tail
    BY PoppingNonEmpty
  <2> QED BY <1>3, <2>1 DEF PushFill
<1>4. CASE PushDecline
  BY <1>4 DEF PushDecline
<1>5. CASE PushPublish
  <2>1. \A x, y \in Index : Dist(x, y) \in 0 .. Capacity - 1
    BY DistStep DEF Index
  <2>2. /\ tail' \in Index
        /\ tail' # pHead
        /\ Dist(pHead, tail') = Dist(pHead, tail) + 1
    BY <1>5, DistStep DEF PushPublish
  <2>3. Dist(pHead, cTail) <= Dist(pHead, tail')
    BY <2>1, <2>2
  <2>4. tail' # head
    BY <2>1, <2>2
  <2>5. Dist(head, tail') = Dist(head, tail) + 1
    BY <1>5, <2>4, DistStep DEF PushPublish
  <2>6. ASSUME NEW i \in Index, Dist(head, i) < Dist(head, tail')
        PROVE  slots[i] \in Items
    <3>1. CASE Dist(head, i) = Dist(head, tail)
      BY <1>5, <3>1, DistInjective DEF PushPublish
    <3>2. CASE Dist(head, i) < Dist(head, tail)
      BY <3>2
    <3> QED BY <2>1, <2>5, <2>6, <3>1, <3>2
  <2> QED BY <1>5, <2>2, <2>3, <2>6 DEF PushPublish
<1>6. CASE PopStart
  <2>1. PICK t \in Loadable(cTail, tail) : head # t /\ cTail' = t
    BY <1>6 DEF PopStart
  <2>2. /\ cTail' \in Index
        /\ Dist(pHead, head) <= Dist(pHead, cTail')
        /\ Dist(pHead, cTail') <= Dist(pHead, tail)
    BY <2>1, ReloadTail
  <2> QED BY <1>6, <2>1, <2>2 DEF PopStart
<1>7. CASE PopEmpty
  <2>1. PICK t \in Loadable(cTail, tail) : head = t /\ cTail' = t
    BY <1>7 DEF PopEmpty
  <2>2. /\ cTail' \in Index
        /\ Dist(pHead, head) <= Dist(pHead, cTail')
        /\ Dist(pHead, cTail') <= Dist(pHead, tail)
    BY <2>1, ReloadTail
  <2> QED BY <1>7, <2>1, <2>2 DEF PopEmpty
<1>8. CASE PopRead
  BY <1>8 DEF PopRead
<1>9. CASE PopRelease
  <2>1. \A x, y \in Index : Dist(x, y) \in 0 .. Capacity - 1
    BY DistStep DEF Index
  <2>2. Dist(pHead, head) < Dist(pHead, cTail) /\ head # tail
    BY <1>9, PoppingNonEmpty DEF PopRelease
  <2>3. NextIndex(head) # pHead
    BY <2>1, <2>2, DistWrap, CapacityAssumption
  <2>4. head' \in Index /\ Dist(pHead, head') = Dist(pHead, head) + 1
    BY <1>9, <2>3, DistStep DEF PopRelease
  <2>5. Dist(pHead, head') <= Dist(pHead, cTail)
    BY <2>1, <2>2, <2>4
  <2>6. Dist(head', tail) = Dist(head, tail) - 1
    BY <1>9, <2>2, DistStep DEF PopRelease
  <2>7. ASSUME NEW i \in Index, Dist(head', i) < Dist(head', tail)
        PROVE  slots[i] \in Items
    <3>1. i # head
      BY <1>9, <2>1, <2>4, <2>7, DistWrap, CapacityAssumption DEF PopRelease
    <3>2. Dist(head', i) = Dist(head, i) - 1
      BY <1>9, <3>1, DistStep DEF PopRelease
    <3> QED BY <2>1, <2>6, <2>7, <3>2
  <2> QED BY <1>9, <2>4, <2>5, <2>7 DEF PopRelease
<1>10. CASE UNCHANGED vars
  BY <1>10 DEF vars
<1> QED BY <1>1, <1>2, <1>3, <1>4, <1>5, <1>6, <1>7, <1>8, <1>9, <1>10 DEF Next

\* RingInv is an invariant of the ring, whatever its capacity.
THEOREM RingInvariance == Spec => []RingInv
BY RingInvInit, RingInvStep, PTL DEF Spec

\* Both indices stay inside slots_ and every variable keeps its type.
THEOREM TypeCorrect == Spec => []TypeOK
<1>1. RingInv => TypeOK
  BY DEF RingInv
<1> QED BY <1>1, RingInvariance, PTL

\* No slot is ever touched by both threads: SlotOwnership for every capacity.
THEOREM RaceFreedom == Spec => []SlotOwnership
<1>1. RingInv => SlotOwnership
  BY PoppingNonEmpty DEF SlotOwnership
<1> QED BY <1>1, RingInvariance, PTL

--------------------------------------------------------------------------------
\* The k-th slot ahead of h, without the modulus.
LEMMA AheadDef ==
  ASSUME NEW h \in Index, NEW k \in Index
  PROVE  /\ (h + k) % Capacity = IF h + k < Capacity THEN h + k ELSE h + k - Capacity
         /\ (h + k) % Capacity \in Index
         /\ Dist(h, (h + k) % Capacity) = k
<1>1. CASE h + k < Capacity
  <2>1. (h + k) % Capacity = h + k
    BY <1>1, CapacityAssumption DEF Index
  <2>2. h + k \in Index
    BY <1>1, CapacityAssumption DEF Index
  <2>3. Dist(h, h + k) = IF h <= h + k THEN (h + k) - h ELSE (h + k) - h + Capacity
    BY <2>2, DistDef
  <2> QED BY <1>1, <2>1, <2>2, <2>3, CapacityAssumption DEF Index
<1>2. CASE ~(h + k < Capacity)
  <2> DEFINE j == h + k - Capacity
  <2>1. j \in Index /\ j < h
    BY <1>2, CapacityAssumption DEF Index
  <2>2. (h + k) % Capacity = j
    BY <1>2, CapacityAssumption DEF Index
  <2>3. Dist(h, j) = IF h <= j THEN j - h ELSE j - h + Capacity
    BY <2>1, DistDef
  <2>4. Dist(h, j) = k
    BY <2>1, <2>3, CapacityAssumption DEF Index
  <2> QED BY <1>2, <2>1, <2>2, <2>4
<1> QED BY <1>1, <1>2

\* The k-th slot ahead of head_ is the (k-1)-th ahead of its successor.
LEMMA AheadOfNext ==
  ASSUME NEW h \in Index, NEW k \in Index, k >= 1
  PROVE  (NextIndex(h) + (k - 1)) % Capacity = (h + k) % Capacity
<1>1. NextIndex(h) = IF h = Capacity - 1 THEN 0 ELSE h + 1
  BY NextIndexDef
<1>2. NextIndex(h) \in Index /\ k - 1 \in Index
  BY <1>1, CapacityAssumption DEF Index
<1>3. (NextIndex(h) + (k - 1)) % Capacity
        = IF NextIndex(h) + (k - 1) < Capacity THEN NextIndex(h) + (k - 1)
          ELSE NextIndex(h) + (k - 1) - Capacity
  BY <1>2, AheadDef
<1>4. (h + k) % Capacity = IF h + k < Capacity THEN h + k ELSE h + k - Capacity
  BY AheadDef
<1>5. CASE h = Capacity - 1
  BY <1>1, <1>3, <1>4, <1>5, CapacityAssumption DEF Index
<1>6. CASE h # Capacity - 1
  BY <1>1, <1>3, <1>4, <1>6, CapacityAssumption DEF Index
<1> QED BY <1>5, <1>6

\* The published items are a sequence of complete items, none of them in the
\* slot the producer writes next.
PublishedShape ==
  /\ Size \in Index
  /\ Published \in Seq(Items)
  /\ Len(Published) = Size
  /\ \A k \in 1 .. Size : /\ (head + (k - 1)) % Capacity \in Index
                           /\ (head + (k - 1)) % Capacity # tail
                           /\ Published[k] = slots[(head + (k - 1)) % Capacity]

LEMMA PublishedSeq == RingInv => PublishedShape
<1> SUFFICES ASSUME RingInv PROVE PublishedShape
  OBVIOUS
<1> USE DEF RingInv, TypeOK
<1>1. Size \in Index
  BY DistStep DEF Size
<1>2. Size \in Nat /\ \A k \in 1 .. Size : k - 1 \in Index /\ k - 1 < Size
  BY <1>1, CapacityAssumption DEF Index
<1>3. ASSUME NEW k \in 1 .. Size
      PROVE  /\ (head + (k - 1)) % Capacity \in Index
             /\ Dist(head, (head + (k - 1)) % Capacity) = k - 1
  BY <1>2, AheadDef
<1>4. ASSUME NEW k \in 1 .. Size
      PROVE  /\ (head + (k - 1)) % Capacity # tail
             /\ slots[(head + (k - 1)) % Capacity] \in Items
  <2>1. Dist(head, (head + (k - 1)) % Capacity) < Dist(head, tail)
    BY <1>2, <1>3 DEF Size
  <2> QED BY <1>1, <1>3, <2>1 DEF Size, Index
<1>5. Published \in [1 .. Size -> Items]
  BY <1>4 DEF Published
<1>6. Published \in Seq(Items)
  BY <1>2, <1>5, SeqDef
<1>7. Len(Published) = Size
  BY <1>2, <1>5, <1>6, LenProperties
<1> QED BY <1>1, <1>3, <1>4, <1>6, <1>7 DEF Published, PublishedShape

\* A step that moves neither index and keeps the published slots is a stutter.
LEMMA PublishedUnchanged ==
  ASSUME RingInv, head' = head, tail' = tail,
         \A i \in Index : i # tail => slots'[i] = slots[i]
  PROVE  Published' = Published
<1>1. Size' = Size
  BY DEF Size, Dist
<1>2. ASSUME NEW k \in 1 .. Size
      PROVE  slots'[(head + (k - 1)) % Capacity] = slots[(head + (k - 1)) % Capacity]
  BY PublishedSeq DEF PublishedShape
<1> QED BY <1>1, <1>2 DEF Published

\* PushPublish appends the item of the slot it publishes.
LEMMA PublishPushes ==
  ASSUME RingInv, RingInv', PushPublish
  PROVE  Fifo!Push(slots[tail])
<1> USE DEF RingInv, TypeOK
<1>1. /\ Size \in Index /\ Published \in Seq(Items) /\ Len(Published) = Size
      /\ \A k \in 1 .. Size :
            Published[k] = slots[(head + (k - 1)) % Capacity]
  BY PublishedSeq DEF PublishedShape
<1>2. /\ Size' \in Index /\ Published' \in Seq(Items) /\ Len(Published') = Size'
      /\ \A k \in 1 .. Size' :
            Published'[k] = slots'[(head' + (k - 1)) % Capacity]
  <2>1. PublishedShape'
    BY PublishedSeq, PTL
  <2> QED BY <2>1 DEF PublishedShape, Index
<1>3. slots' = slots /\ head' = head /\ tail' = NextIndex(tail) /\ out' = out
      /\ slots[tail] \in Items
  BY DEF PushPublish
<1>4. tail' # head
  <2>1. \A x, y \in Index : Dist(x, y) \in 0 .. Capacity - 1
    BY DistStep DEF Index
  <2>2. Dist(pHead, NextIndex(tail)) = Dist(pHead, tail) + 1
    BY DistStep DEF PushPublish
  <2> QED BY <1>3, <2>1, <2>2
<1>5. Size' = Size + 1
  BY <1>3, <1>4, DistStep DEF Size
<1>6. Size < Capacity - 1
  BY <1>1, <1>2, <1>5, CapacityAssumption DEF Index
<1>7. slots[(head + Size) % Capacity] = slots[tail]
  <2>1. (head + Size) % Capacity \in Index /\ Dist(head, (head + Size) % Capacity) = Size
    BY <1>1, AheadDef
  <2> QED BY <2>1, DistInjective DEF Size
<1>8. Published' = Append(Published, slots[tail])
  <2>1. /\ Append(Published, slots[tail]) \in Seq(Items)
        /\ Len(Append(Published, slots[tail])) = Size + 1
        /\ \A k \in 1 .. Size : Append(Published, slots[tail])[k] = Published[k]
        /\ Append(Published, slots[tail])[Size + 1] = slots[tail]
    BY <1>1, <1>3, AppendProperties
  <2>2. \A k \in 1 .. Size + 1 : Published'[k] = Append(Published, slots[tail])[k]
    <3>1. ASSUME NEW k \in 1 .. Size
          PROVE  Published'[k] = Append(Published, slots[tail])[k]
      <4>1. k \in 1 .. Size'
        BY <1>1, <1>5 DEF Index
      <4> QED BY <1>1, <1>2, <1>3, <2>1, <4>1
    <3>2. Published'[Size + 1] = slots[(head + ((Size + 1) - 1)) % Capacity]
      BY <1>1, <1>2, <1>3, <1>5 DEF Index
    <3>3. (Size + 1) - 1 = Size
      BY <1>1 DEF Index
    <3>4. Published'[Size + 1] = Append(Published, slots[tail])[Size + 1]
      BY <1>7, <2>1, <3>2, <3>3
    <3> HIDE DEF RingInv, TypeOK
    <3> SUFFICES ASSUME NEW k \in 1 .. Size + 1, k \notin 1 .. Size
                 PROVE  k = Size + 1
      BY <3>1, <3>4
    <3> QED BY <1>1 DEF Index
  <2> QED BY <1>2, <1>5, <2>1, <2>2, SeqEqual
<1> QED BY <1>1, <1>3, <1>6, <1>8 DEF Fifo!Push

\* PopRelease returns the oldest published item and removes it.
LEMMA ReleasePops ==
  ASSUME RingInv, RingInv', PopRelease
  PROVE  Fifo!Pop
<1> USE DEF RingInv, TypeOK
<1>1. PublishedShape /\ PublishedShape'
  BY PublishedSeq, PTL
<1>2. slots' = slots /\ tail' = tail /\ head' = NextIndex(head) /\ out' = slots[head]
  BY DEF PopRelease
<1>3. head # tail
  BY PoppingNonEmpty DEF PopRelease
<1>4. Size' = Size - 1 /\ Size \in Nat /\ Size >= 1
  <2>1. Size' = Size - 1
    BY <1>2, <1>3, DistStep DEF Size
  <2> QED BY <1>1, <2>1, CapacityAssumption DEF PublishedShape, Index
<1>5. Published # << >> /\ Head(Published) = Published[1]
  <2> HIDE DEF RingInv, TypeOK
  <2>1. Published \in Seq(Items) /\ Len(Published) >= 1
    BY <1>1, <1>4 DEF PublishedShape
  <2>2. Published # << >>
    BY <2>1, EmptySeq
  <2> QED BY <2>1, <2>2, HeadTailProperties
<1>6. Published[1] = slots[head]
  <2>1. Published[1] = slots[(head + (1 - 1)) % Capacity]
    BY <1>1, <1>4 DEF PublishedShape
  <2>2. (head + (1 - 1)) % Capacity = head
    <3>1. head \in Index
      OBVIOUS
    <3> HIDE DEF RingInv, TypeOK
    <3>2. head + (1 - 1) = head /\ head \in 0 .. Capacity - 1
      BY <3>1, CapacityAssumption DEF Index
    <3>3. head % Capacity = head
      BY <3>2, CapacityAssumption
    <3> QED BY <3>2, <3>3
  <2> QED BY <2>1, <2>2
<1>7. Published' = Tail(Published)
  <2>1. /\ Tail(Published) \in Seq(Items)
        /\ Len(Tail(Published)) = Size - 1
        /\ \A k \in 1 .. Size - 1 : Tail(Published)[k] = Published[k + 1]
    BY <1>1, <1>5, HeadTailProperties DEF PublishedShape
  <2>2. ASSUME NEW k \in 1 .. Size - 1
        PROVE  Published'[k] = Published[k + 1]
    <3>1. Published'[k] = slots[(NextIndex(head) + (k - 1)) % Capacity]
      <4>1. k \in 1 .. Size'
        BY <1>4
      <4> QED BY <1>1, <1>2, <4>1 DEF PublishedShape
    <3>2. Published[k + 1] = slots[(head + k) % Capacity]
      <4>1. k + 1 \in 1 .. Size /\ (k + 1) - 1 = k
        BY <1>4
      <4> QED BY <1>1, <4>1 DEF PublishedShape
    <3>3. k \in Index /\ k >= 1
      BY <1>1, <1>4, CapacityAssumption DEF PublishedShape, Index
    <3> QED BY <3>1, <3>2, <3>3, AheadOfNext
  <2>3. Published' \in Seq(Items) /\ Len(Published') = Size - 1
    BY <1>1, <1>4 DEF PublishedShape
  <2> QED BY <2>1, <2>2, <2>3, SeqEqual
<1> QED BY <1>2, <1>5, <1>6, <1>7 DEF Fifo!Pop

\* TryPush and TryPop implement a FIFO of Capacity - 1 items, for every capacity
\* and every set of items (FifoRefinement).
THEOREM ImplementsFifo == Spec => FifoRefinement
<1>1. Init => Fifo!Init
  <2> SUFFICES ASSUME Init PROVE Published = << >> /\ out = Blank
    BY DEF Fifo!Init
  <2>1. PublishedShape /\ Size = 0
    BY RingInvInit, PublishedSeq, CapacityAssumption DEF Init, Size, Dist
  <2> QED BY <2>1, EmptySeq DEF PublishedShape, Init
<1>2. RingInv /\ RingInv' /\ [Next]_vars => [Fifo!Next]_(Fifo!fifoVars)
  <2> SUFFICES ASSUME RingInv, RingInv', [Next]_vars
               PROVE  Fifo!Next \/ UNCHANGED <<Published, out>>
    BY DEF Fifo!fifoVars
  <2>1. CASE PushPublish
    BY <2>1, PublishPushes DEF Fifo!Next, RingInv, PushPublish
  <2>2. CASE PopRelease
    BY <2>2, ReleasePops DEF Fifo!Next
  <2>3. CASE PushStart \/ PushFill
    <3>1. /\ head' = head /\ tail' = tail /\ out' = out
          /\ \A i \in Index : i # tail => slots'[i] = slots[i]
      BY <2>3 DEF PushStart, PushFill, RingInv, TypeOK
    <3> QED BY <3>1, PublishedUnchanged
  <2>4. CASE PushFull \/ PushDecline \/ PopStart \/ PopEmpty \/ PopRead
             \/ UNCHANGED vars
    <3>1. UNCHANGED <<slots, head, tail, out>>
      BY <2>4 DEF PushFull, PushDecline, PopStart, PopEmpty, PopRead, vars
    <3> QED BY <3>1, PublishedUnchanged
  <2> QED BY <2>1, <2>2, <2>3, <2>4 DEF Next
<1> QED BY <1>1, <1>2, RingInvariance, PTL DEF Spec, FifoRefinement, Fifo!Spec
================================================================================
