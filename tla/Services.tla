-------------------------------- MODULE Services --------------------------------
(***************************************************************************)
(* Four components that share no state, side by side: a behaviour runs one *)
(* of them and leaves the others as they are.  They are the device shadow, *)
(* the policies applied to detections, the update manifests and the        *)
(* agent's producer loop.                                                  *)
(***************************************************************************)
EXTENDS DeviceShadow, Integers

CONSTANTS Handlers, Keys, KeyOf, Capacity, Rate, Confidences, Thresholds, Readings,
          MaxClock, MaxGrants,
          MaxProcs, Versions, Texts, MaxMishaps,
          Slice, Periods, MaxEmit, MaxOver, Duration

ASSUME PolicyAssumption ==
  /\ KeyOf \in [Handlers -> Keys] /\ Capacity \in Int /\ Rate \in Nat
  /\ MaxClock \in Nat /\ Confidences \subseteq Int
  /\ Readings \subseteq [wind : Int, humidity : Int]
  /\ Thresholds \in [low : Int, medium : Int, high : Int, highWind : Int, lowHumidity : Int,
                     extremeWind : Int]

ASSUME ManifestAssumption == Versions \subseteq Int /\ Texts \subseteq Seq(STRING)

ASSUME ProducerAssumption ==
  /\ Periods \subseteq Nat \ {0}
  /\ Slice \in Nat /\ MaxEmit \in Nat /\ MaxOver \in Nat

VARIABLES active,
          clock, buckets, grants, handlerPc, event, weather, alert,
          disk, proc, stamp, mishaps, signed,
          producerPc, now, wake, latest, period, next_due, target, arrived, base, count, behind

policyVars == <<clock, buckets, grants, handlerPc, event, weather, alert>>
otaVars == <<disk, proc, stamp, mishaps, signed>>
producerVars == <<producerPc, now, wake, latest, period, next_due, target, arrived, base,
                  count, behind>>

Policies == INSTANCE DetectionPolicies WITH pc <- handlerPc
Ota == INSTANCE OtaTool
Producer == INSTANCE FakeProducer WITH pc <- producerPc

---------------------------------------------------------------------------------
ServicesInit ==
  /\ active \in {"shadow", "policies", "ota", "producer"}
  /\ Init /\ Policies!Init /\ Ota!Init /\ Producer!Init

ServicesNext ==
  \/ /\ active = "shadow" /\ Next
     /\ UNCHANGED <<active, policyVars, otaVars, producerVars>>
  \/ /\ active = "policies" /\ Policies!Next
     /\ UNCHANGED <<active, vars, otaVars, producerVars>>
  \/ /\ active = "ota" /\ Ota!Next
     /\ UNCHANGED <<active, vars, policyVars, producerVars>>
  \/ /\ active = "producer" /\ Producer!Next
     /\ UNCHANGED <<active, vars, policyVars, otaVars>>

servicesVars == <<active, vars, policyVars, otaVars, producerVars>>

ServicesSpec == ServicesInit /\ [][ServicesNext]_servicesVars

---------------------------------------------------------------------------------
\* Token buckets: a tenant gets through what the limit allows, no more and no less.
LimitIsExact == active = "policies" => Policies!LimitIsExact

\* Alert engine: weather never suppresses an alert.
AlertsReported == active = "policies" => Policies!AlertsReported

\* verify: the bytes of what it calls OK were signed with the key of the check.
VerifiedIsSigned == active = "ota" => Ota!VerifiedIsSigned

\* Producer loop: never faster than the rate, and no drift.
RateIsKept == active = "producer" => Producer!RateIsKept

\* Producer loop: a config takes effect within a slice, unless emits are behind.
ConfigIsPrompt == active = "producer" => Producer!ConfigIsPrompt
=================================================================================
