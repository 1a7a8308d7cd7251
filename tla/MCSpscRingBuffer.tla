---------------------------- MODULE MCSpscRingBuffer ----------------------------
(* Four slots (three usable): indices wrap, the ring gets full and empty.   *)
EXTENDS SpscRingBuffer
================================================================================
