----------------------------- MODULE SpscRingBuffer -----------------------------
(***************************************************************************)
(* The lock-free single-producer single-consumer ring of                   *)
(* core/include/ridgeline/ring_buffer.h.  Each call is split at its shared *)
(* accesses: the load of the other side's index, the access to the slot,   *)
(* the store of the own index.  An acquire load may return an old value of *)
(* the other side's index (never one older than it returned before), so    *)
(* each thread keeps its own view of that index, which lags the real one.  *)
(***************************************************************************)
EXTENDS Integers, Sequences

CONSTANTS Capacity,  \* template parameter: number of slots
          Items,     \* values of T a producer pushes
          Blank      \* a slot with no complete value: fresh, or being written

ASSUME CapacityAssumption == Capacity \in Nat /\ Capacity >= 2
ASSUME BlankAssumption == Blank \notin Items

VARIABLES slots,   \* slots_
          head,    \* head_, stored only by the consumer
          tail,    \* tail_, stored only by the producer
          pPc,     \* producer: "idle", "filling" slots_[tail], "publish"ing it
          pHead,   \* the newest value of head_ the producer has loaded
          cPc,     \* consumer: "idle", "reading" slots_[head], "release"
          cTail,   \* the newest value of tail_ the consumer has loaded
          cItem,   \* what the consumer read out of the slot
          out      \* the item the last successful TryPop returned

vars == <<slots, head, tail, pPc, pHead, cPc, cTail, cItem, out>>

Index == 0 .. Capacity - 1

\* (i + 1) & kMask: Capacity is a power of two and kMask = Capacity - 1.
NextIndex(i) == (i + 1) % Capacity

\* (b - a) & kMask: how far b is ahead of a on the ring.
Dist(a, b) == (b - a) % Capacity

\* SizeApprox with no step of the other thread between its two loads.
Size == Dist(head, tail)

\* The values a load may return: from the last one seen up to the stored one.
Loadable(seen, stored) == {i \in Index : Dist(seen, i) <= Dist(seen, stored)}

Init ==
  /\ slots = [i \in Index |-> Blank]
  /\ head = 0 /\ tail = 0
  /\ pPc = "idle" /\ pHead = 0
  /\ cPc = "idle" /\ cTail = 0
  /\ cItem = Blank /\ out = Blank

--------------------------------------------------------------------------------
\* Producer thread: TryPush / TryPushWith.

\* Mutant: the test for a full ring is missing.
OverrunPushStart ==
  /\ pPc = "idle"
  /\ \E h \in Loadable(pHead, head) : pHead' = h
  /\ pPc' = "filling"
  /\ slots' = [slots EXCEPT ![tail] = Blank]
  /\ UNCHANGED <<head, tail, cPc, cTail, cItem, out>>

\* Loads head_, finds a free slot and starts writing it in place.
PushStart ==
  /\ pPc = "idle"
  /\ \E h \in Loadable(pHead, head) :
       /\ NextIndex(tail) # h
       /\ pHead' = h
  /\ pPc' = "filling"
  /\ slots' = [slots EXCEPT ![tail] = Blank]
  /\ UNCHANGED <<head, tail, cPc, cTail, cItem, out>>

\* Loads head_ and sees a full ring: returns false without touching a slot.
PushFull ==
  /\ pPc = "idle"
  /\ \E h \in Loadable(pHead, head) :
       /\ NextIndex(tail) = h
       /\ pHead' = h
  /\ UNCHANGED <<slots, head, tail, pPc, cPc, cTail, cItem, out>>

\* Mutant: tail_ is stored before the slot is written.
EarlyPublishPushFill ==
  /\ pPc = "filling"
  /\ tail' = NextIndex(tail)
  /\ pPc' = "idle"
  /\ UNCHANGED <<slots, head, pHead, cPc, cTail, cItem, out>>

\* The item is completely written into the slot.
PushFill ==
  /\ pPc = "filling"
  /\ \E x \in Items : slots' = [slots EXCEPT ![tail] = x]
  /\ pPc' = "publish"
  /\ UNCHANGED <<head, tail, pHead, cPc, cTail, cItem, out>>

\* TryPushWith: fill() returned false, nothing is published.
PushDecline ==
  /\ pPc = "filling"
  /\ pPc' = "idle"
  /\ UNCHANGED <<slots, head, tail, pHead, cPc, cTail, cItem, out>>

\* The release store of tail_; the call returns true.
PushPublish ==
  /\ pPc = "publish"
  /\ tail' = NextIndex(tail)
  /\ pPc' = "idle"
  /\ UNCHANGED <<slots, head, pHead, cPc, cTail, cItem, out>>

--------------------------------------------------------------------------------
\* Consumer thread: TryPop / TryPopWith.

\* Mutant: the last item in the ring is taken for an empty ring.
OffByOnePopStart ==
  /\ cPc = "idle"
  /\ \E t \in Loadable(cTail, tail) :
       /\ head # t /\ NextIndex(head) # t
       /\ cTail' = t
  /\ cPc' = "reading"
  /\ UNCHANGED <<slots, head, tail, pPc, pHead, cItem, out>>

\* Loads tail_, sees an item and starts reading it in place.
PopStart ==
  /\ cPc = "idle"
  /\ \E t \in Loadable(cTail, tail) :
       /\ head # t
       /\ cTail' = t
  /\ cPc' = "reading"
  /\ UNCHANGED <<slots, head, tail, pPc, pHead, cItem, out>>

\* Loads tail_ and sees an empty ring: returns false.
PopEmpty ==
  /\ cPc = "idle"
  /\ \E t \in Loadable(cTail, tail) :
       /\ head = t
       /\ cTail' = t
  /\ UNCHANGED <<slots, head, tail, pPc, pHead, cPc, cItem, out>>

\* The item has been moved out of the slot (or consume() has returned).
PopRead ==
  /\ cPc = "reading"
  /\ cItem' = slots[head]
  /\ cPc' = "release"
  /\ UNCHANGED <<slots, head, tail, pPc, pHead, cTail, out>>

\* The release store of head_; the call returns true with the item.
PopRelease ==
  /\ cPc = "release"
  /\ head' = NextIndex(head)
  /\ out' = cItem
  /\ cPc' = "idle"
  /\ UNCHANGED <<slots, tail, pPc, pHead, cTail, cItem>>

--------------------------------------------------------------------------------
Next ==
  \/ PushStart \/ PushFull \/ PushFill \/ PushDecline \/ PushPublish
  \/ PopStart \/ PopEmpty \/ PopRead \/ PopRelease

Spec == Init /\ [][Next]_vars

\* The consumer keeps polling and finishes a call it has begun; a stored tail_
\* becomes visible to it in finite time.  Nothing is assumed of the producer.
FairSpec == Spec /\ WF_vars(PopStart) /\ WF_vars(PopRead) /\ WF_vars(PopRelease)

--------------------------------------------------------------------------------
\* Every variable keeps its type; in particular both indices stay inside slots_.
TypeOK ==
  /\ slots \in [Index -> Items \cup {Blank}]
  /\ head \in Index /\ tail \in Index
  /\ pPc \in {"idle", "filling", "publish"} /\ pHead \in Index
  /\ cPc \in {"idle", "reading", "release"} /\ cTail \in Index
  /\ cItem \in Items \cup {Blank} /\ out \in Items \cup {Blank}

\* "Each slot has exactly one owner at any moment" (ring_buffer.h:222): while
\* TryPush writes a slot and TryPop reads one, they are different slots, also
\* when either side acts on an old value of the other side's index.
SlotOwnership ==
  pPc # "idle" /\ cPc # "idle" => tail # head

\* Why SlotOwnership holds: going round the ring from the producer's view of
\* head_ one meets head_, the consumer's view of tail_ and tail_ in this order, a
\* push in progress leaves a slot free, a pop in progress has an item, and the
\* published slots (and the one about to be) hold complete items.
RingInv ==
  /\ TypeOK
  /\ Dist(pHead, head) <= Dist(pHead, cTail)
  /\ Dist(pHead, cTail) <= Dist(pHead, tail)
  /\ pPc # "idle" => NextIndex(tail) # pHead
  /\ pPc = "publish" => slots[tail] \in Items
  /\ \A i \in Index : Dist(head, i) < Dist(head, tail) => slots[i] \in Items
  /\ cPc # "idle" => head # cTail
  /\ cPc = "release" => cItem = slots[head]

\* The published items, oldest first: slots_[head], slots_[head + 1], ...
Published == [k \in 1 .. Size |-> slots[(head + (k - 1)) % Capacity]]

Fifo == INSTANCE BoundedFifo WITH Limit <- Capacity - 1, queue <- Published

\* TryPush and TryPop implement a FIFO queue of Capacity - 1 items: no item is
\* lost, duplicated, reordered, overwritten or returned half written.
FifoRefinement == Fifo!Spec

\* An item at the head of the ring is popped in the end: the consumer never
\* takes a non-empty ring for an empty one for ever.
HeadIsPopped ==
  \A i \in Index : (head = i /\ tail # i) ~> (head # i)
================================================================================
