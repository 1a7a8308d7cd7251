--------------------------- MODULE MCEdgePipeline ---------------------------
(* Five frames through a ring of two, an output ring of one, so that both  *)
(* overflow; thresholds whose windows fill, evict and confirm twice; one   *)
(* rebuild that changes the threshold.                                     *)
EXTENDS EdgePipeline

MCSettings == {[k |-> 1, n |-> 1], [k |-> 2, n |-> 3]}
=============================================================================
