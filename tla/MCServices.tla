------------------------------- MODULE MCServices -------------------------------
(***************************************************************************)
(* The services and the two stations of a detection on small instances,    *)
(* checked in one run: they share no state, so a behaviour moves one half  *)
(* and leaves the other in its first state.                                *)
(*                                                                         *)
(* Shadow: two writers, three attempts, four upserts, so that conflicts,   *)
(* exhausted retries and late requests meet.  Policies: two streams of one *)
(* tenant, a bucket of two, confidences and readings on both sides of and  *)
(* on the thresholds.  Manifests: four commands with a crash, a short      *)
(* write or an edit, and a text that holds the separator of two fields.    *)
(* Producer: rates that differ by a factor of four, sleeps and emits that  *)
(* overrun.  Session: six messages with numbers up to four, so that a      *)
(* resync, a skipped number, a rejection between two accepted detections,  *)
(* its resend and a second Hello fit on one stream.  Detector: two frames, *)
(* wider, taller and smaller than the input, with whole and fractional     *)
(* sample positions, and a second output with every mix of three of four   *)
(* rows that tie, overlap and miss the threshold.                          *)
(***************************************************************************)
EXTENDS Services, DetectionPath

VARIABLE half

MCKeyOf == [h \in Handlers |-> CHOOSE k \in Keys : TRUE]
MCThresholds == [low |-> 30, medium |-> 60, high |-> 85, highWind |-> 40, lowHumidity |-> 25,
                 extremeWind |-> 65]
MCReadings == {[wind |-> 40, humidity |-> 25], [wind |-> 40, humidity |-> 26],
               [wind |-> 65, humidity |-> 80]}
MCTexts == {<<"x">>, <<"x", "|url=", "x">>}

MCStrides == <<2>>
MCFrames == {[w |-> 1, h |-> 1], [w |-> 5, h |-> 3], [w |-> 3, h |-> 9], [w |-> 0, h |-> 1]}
Row(obj, cls, bw) == [px |-> 0, py |-> 0, bw |-> bw, bh |-> 1, obj |-> obj, cls |-> cls]
Background == Row(3, <<10, 10>>, 2)
Other == Row(10, <<9, 2>>, 2)
MCOutputs ==
  << {[i \in 1 .. 4 |-> IF i = 1 THEN r ELSE Background] : r \in {Background, Other}},
     {g \o <<Background>> :
        g \in [1 .. 3 -> {Other, Row(8, <<4, 10>>, 1), Row(9, <<3, 3>>, 1), Row(9, <<1, 10>>, 3)}]} >>

\* What does not run starts in one state only.
MCInit ==
  /\ ServicesInit /\ PathInit
  /\ \/ half = "services" /\ station = "session"
     \/ half = "path" /\ active = "shadow"
  /\ (half = "services" /\ active = "producer") \/ \A t \in Periods : period <= t

MCNext ==
  \/ half = "services" /\ ServicesNext /\ UNCHANGED <<half, pathVars>>
  \/ half = "path" /\ PathNext /\ UNCHANGED <<half, servicesVars>>

MCSpec == MCInit /\ [][MCNext]_<<half, servicesVars, pathVars>>
=================================================================================
