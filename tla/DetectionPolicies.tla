-------------------------- MODULE DetectionPolicies --------------------------
(***************************************************************************)
(* What the gateway's stream handlers apply to each new detection out of   *)
(* state they share: the tenant's token bucket (token_bucket.h under       *)
(* CheckRateLimit) and the alert severity computed with the weather cache  *)
(* (gateway/src/main.cc, weather/src), which a thread refreshes.           *)
(*                                                                         *)
(* Time is the wall clock, which may be set back.  Tokens refill at a      *)
(* whole number per tick.  A lock held over a whole operation makes the    *)
(* operation one step.                                                     *)
(***************************************************************************)
EXTENDS Integers, Sequences

CONSTANTS Handlers, Keys,
          KeyOf,        \* KeyOf[h]: rate_key of handler h's stream
          Capacity,     \* rate_limit_capacity, 0 when there is no limit
          Rate,         \* rate_limit_tokens_per_second
          Confidences,  \* confidences of detections, in percent
          Thresholds,   \* FireWeatherThresholds
          Readings,     \* weather readings [wind, humidity]
          MaxClock,     \* bound: the clock stays in 0 .. MaxClock
          MaxGrants     \* bound: detections let through per key

NoReading == [wind |-> -1, humidity |-> -1]

VARIABLES
    clock,    \* NowUnixNs()
    buckets,  \* rate_limiters_: [tokens, last] of the keys seen so far
    grants,   \* history: grants[k], last_refill_ns_ at each consumed token
    pc,       \* pc[h]: "idle" or "granted"
    event,    \* event[h]: confidence of the detection in hand, 0 without one
    weather,  \* current_
    alert     \* the last decision [confidence, weather, severity]

limiter == <<buckets, grants>>
vars == <<clock, limiter, pc, event, weather, alert>>

NoAlert == [confidence |-> 0, weather |-> NoReading, severity |-> 0]

Init ==
    /\ clock = 0
    /\ buckets = << >> /\ grants = [k \in Keys |-> << >>]
    /\ pc = [h \in Handlers |-> "idle"]
    /\ event = [h \in Handlers |-> 0]
    /\ weather = NoReading /\ alert = NoAlert

\* The wall clock advances, or is set back.
Tick ==
    /\ clock' \in {clock + 1, clock - 1} /\ clock' \in 0 .. MaxClock
    /\ UNCHANGED <<limiter, pc, event, weather, alert>>

-----------------------------------------------------------------------------
(* Rate limiting.                                                          *)

Lesser(a, b) == IF a <= b THEN a ELSE b

\* A bucket that takes a clock set back for its new base.
RebasingRefill(b) ==
    [tokens |-> IF clock <= b.last THEN b.tokens
                ELSE Lesser(Capacity, b.tokens + (clock - b.last) * Rate),
     last   |-> clock]

\* TokenBucket::Refill
Refill(b) ==
    IF clock <= b.last THEN b
    ELSE [tokens |-> Lesser(Capacity, b.tokens + (clock - b.last) * Rate),
          last   |-> clock]

\* rate_limiters_ with the bucket of key k replaced or added.
Updated(k, b) == [j \in DOMAIN buckets \cup {k} |-> IF j = k THEN b ELSE buckets[j]]

\* A detection reaches CheckRateLimit: find or create the bucket, TryConsume.
CheckRateLimit(h) ==
    LET k == KeyOf[h]
        found == IF k \in DOMAIN buckets THEN buckets[k]
                 ELSE [tokens |-> Capacity, last |-> clock]
        full == Refill(found)
    IN  /\ pc[h] = "idle" /\ Len(grants[k]) < MaxGrants
        /\ IF Capacity <= 0
             THEN pc' = [pc EXCEPT ![h] = "granted"] /\ UNCHANGED limiter
             ELSE IF full.tokens < 1
               THEN buckets' = Updated(k, full) /\ UNCHANGED <<pc, grants>>
               ELSE /\ buckets' = Updated(k, [full EXCEPT !.tokens = @ - 1])
                    /\ grants' = [grants EXCEPT ![k] = Append(@, full.last)]
                    /\ pc' = [pc EXCEPT ![h] = "granted"]
        /\ \E c \in Confidences :
             event' = IF pc' = pc THEN event ELSE [event EXCEPT ![h] = c]
        /\ UNCHANGED <<clock, weather, alert>>

-----------------------------------------------------------------------------
(* Weather and alerts.  Severities are 0 (kNone) to 4 (kCritical).         *)

\* WeatherClient::FetchCurrent: a whole reading, or none on any error.
FetchCurrent == Readings \cup {NoReading}

\* The refresh thread stores a reading; a failed fetch keeps the last one.
Refresh ==
    /\ \E r \in FetchCurrent : weather' = IF r = NoReading THEN weather ELSE r
    /\ UNCHANGED <<clock, limiter, pc, event, alert>>

\* An engine that lets the weather decide before it looks at the confidence.
WeatherFirstSeverity(c, w) ==
    LET tier == CASE c >= Thresholds.high -> 3
                  [] c >= Thresholds.medium /\ c < Thresholds.high -> 2
                  [] c >= Thresholds.low /\ c < Thresholds.medium -> 1
                  [] OTHER -> 0
    IN  IF w # NoReading /\ w.wind >= Thresholds.extremeWind THEN 4 ELSE tier

Escalate(severity) == Lesser(severity + 1, 4)

Severity(c, w) ==
    LET tier == IF c >= Thresholds.high THEN 3
                ELSE IF c >= Thresholds.medium THEN 2 ELSE 1
        dangerous == w.wind >= Thresholds.highWind /\ w.humidity <= Thresholds.lowHumidity
    IN  IF c < Thresholds.low THEN 0
        ELSE IF w = NoReading THEN tier
        ELSE IF w.wind >= Thresholds.extremeWind THEN 4
        ELSE IF dangerous THEN Escalate(tier) ELSE tier

\* The handler reads the cache and decides on the accepted detection.
Alert(h) ==
    /\ pc[h] = "granted"
    /\ alert' = [confidence |-> event[h], weather |-> weather,
                 severity |-> Severity(event[h], weather)]
    /\ pc' = [pc EXCEPT ![h] = "idle"]
    /\ event' = [event EXCEPT ![h] = 0]
    /\ UNCHANGED <<clock, limiter, weather>>

\* PublishSync fails, or the gateway has no weather cache: nothing is decided.
NoDecision(h) ==
    /\ pc[h] = "granted"
    /\ pc' = [pc EXCEPT ![h] = "idle"]
    /\ event' = [event EXCEPT ![h] = 0]
    /\ UNCHANGED <<clock, limiter, weather, alert>>

Next ==
    \/ Tick \/ Refresh
    \/ \E h \in Handlers : CheckRateLimit(h) \/ Alert(h) \/ NoDecision(h)

Spec == Init /\ [][Next]_vars

-----------------------------------------------------------------------------
\* What the limit leaves a tenant at its bucket's time: the smallest of what
\* each of the stretches that end there leaves.
Allowance(k) ==
    LET n == Len(grants[k])
        left(i) == Capacity + Rate * (buckets[k].last - grants[k][i]) - (n - i + 1)
    IN  {Capacity} \cup {left(i) : i \in 1 .. n}

(* The rate limit as documented (token_bucket.h: "a burst up to capacity", *)
(* "bounding the long-run average rate"): the detections a tenant gets     *)
(* through in any stretch of time are at most the capacity and what is     *)
(* refilled in that time, with its streams racing for the bucket and the   *)
(* clock set back at will.  And no tenant is refused early: a bucket holds *)
(* exactly what the limit leaves, whatever other tenants and refused       *)
(* detections did in between.                                              *)
LimitIsExact ==
    /\ \A k \in Keys : \A i, j \in DOMAIN grants[k] :
         i <= j => j - i + 1 <= Capacity + Rate * (grants[k][j] - grants[k][i])
    /\ \A k \in DOMAIN buckets :
         /\ buckets[k].tokens \in Allowance(k)
         /\ \A a \in Allowance(k) : buckets[k].tokens <= a

(* Weather never suppresses an alert (alert_engine.h: a detection "must    *)
(* never go UNREPORTED"): an accepted detection is reported exactly from   *)
(* the low cutoff on, is never below what its confidence alone gives, and  *)
(* only extreme wind lifts it by more than one level.                      *)
AlertsReported ==
    LET alone == Severity(alert.confidence, NoReading) IN
    alert # NoAlert =>
        /\ (alert.severity > 0) = (alert.confidence >= Thresholds.low)
        /\ alert.severity >= alone
        /\ alert.severity > alone + 1 =>
             alert.severity = 4 /\ alert.weather.wind >= Thresholds.extremeWind
=============================================================================
