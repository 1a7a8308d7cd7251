------------------------------ MODULE BoundedFifo ------------------------------
(***************************************************************************)
(* What a caller of SpscRingBuffer is promised: a first-in first-out queue *)
(* of at most Limit items.  A TryPush or TryPop that returns false is a    *)
(* stuttering step.                                                        *)
(***************************************************************************)
EXTENDS Naturals, Sequences

CONSTANTS Items,  \* what is queued: frames, confirmed events
          Limit,  \* capacity(): the number of items that fit
          Blank   \* "nothing popped yet"

VARIABLES queue,  \* published and not yet popped, oldest first
          out     \* the item the last successful TryPop returned

fifoVars == <<queue, out>>

Init == queue = << >> /\ out = Blank

Push(x) ==
  /\ Len(queue) < Limit
  /\ queue' = Append(queue, x)
  /\ UNCHANGED out

Pop ==
  /\ queue # << >>
  /\ out' = Head(queue)
  /\ queue' = Tail(queue)

Next == (\E x \in Items : Push(x)) \/ Pop

Spec == Init /\ [][Next]_fifoVars
================================================================================
