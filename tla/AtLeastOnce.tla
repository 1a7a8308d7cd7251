------------------------------ MODULE AtLeastOnce ------------------------------
(***************************************************************************)
(* What a device is promised of its events, end to end (ADR-0006, ADR-0007 *)
(* and agent/src/main.cc): an event is forgotten by the agent only when it *)
(* and all before it were stored or refused, nothing is stored that was    *)
(* not emitted, and neither records nor acknowledgements are taken back.   *)
(* Streams, resends, crashes and late handlers are not visible here.       *)
(***************************************************************************)
EXTENDS Naturals

VARIABLES emitted,   \* events 1 .. emitted exist
          stored,    \* those in Kafka
          refused,   \* those that a handler has refused
          forgotten  \* the agent never sends events 1 .. forgotten again

deliveryVars == <<emitted, stored, refused, forgotten>>

Init == emitted = 0 /\ stored = {} /\ refused = {} /\ forgotten = 0

Emit ==
  /\ emitted' = emitted + 1
  /\ UNCHANGED <<stored, refused, forgotten>>

Store(n) ==
  /\ stored' = stored \cup {n}
  /\ UNCHANGED <<emitted, refused, forgotten>>

\* A refused event may have been stored all the same.
Refuse(n) ==
  /\ refused' = refused \cup {n}
  /\ stored' \in {stored, stored \cup {n}}
  /\ UNCHANGED <<emitted, forgotten>>

Forget(n) ==
  /\ n > forgotten /\ forgotten' = n
  /\ \A m \in 1 .. n : m \in stored \/ m \in refused
  /\ UNCHANGED <<emitted, stored, refused>>

Next ==
  \/ Emit
  \/ \E n \in 1 .. emitted : Store(n) \/ Refuse(n) \/ Forget(n)

Spec == Init /\ [][Next]_deliveryVars
================================================================================
