------------------------------- MODULE MCDelivery -------------------------------
(* Two events on three streams, with two crashes and two refusals: an event lost  *)
(* or refused before another, a handler still at work on a broken stream beside   *)
(* its successor, and its successor's successor.                                  *)
EXTENDS Delivery
================================================================================
