----------------------------- MODULE FakeProducer -----------------------------
(***************************************************************************)
(* The synthetic event producer of the agent (agent/src/main.cc): a thread *)
(* that emits at a rate, waits in slices, and takes a new rate from a      *)
(* pending config between two slices.  Time is discrete and passes while   *)
(* the thread sleeps or emits; a sleep may last longer than asked for.     *)
(***************************************************************************)
EXTENDS Integers

CONSTANTS Slice,     \* the 50 ms
          Periods,   \* 1 / rate
          MaxEmit,   \* bound: time an emit takes (the WAL's fsync)
          MaxOver,   \* bound: time a sleep takes too long
          Duration   \* --duration-s

VARIABLES
  pc,      \* "loop", "sleeping", "emitting", "done" (producer_done)
  now,
  wake,    \* when the sleep, or the emit, may end
  latest,  \* when it has ended
  period, next_due,
  target, \* target period of the pending config, 0 if it has none, -1 without config
  arrived, \* history: when the pending config was set
  base,    \* history: next_due as last set
  count,   \* history: events emitted since
  behind   \* history: since the config arrived, an emit ended after the next was due

vars == <<pc, now, wake, latest, period, next_due, target, arrived, base, count, behind>>

Init ==
  /\ pc = "loop" /\ now = 0 /\ wake = 0 /\ latest = 0
  /\ period \in Periods /\ next_due = 0
  /\ target = -1 /\ arrived = 0
  /\ base = 0 /\ count = 0 /\ behind = FALSE

Tick ==
  /\ pc \in {"sleeping", "emitting"} /\ now < latest
  /\ now' = now + 1
  /\ UNCHANGED <<pc, wake, latest, period, next_due, target, arrived, base, count, behind>>

\* The ack reader stores a config; a later one replaces it.
Deliver(t) ==
  /\ pc # "done"
  /\ target' = t
  /\ IF target = -1 THEN arrived' = now /\ behind' = FALSE ELSE UNCHANGED <<arrived, behind>>
  /\ UNCHANGED <<pc, now, wake, latest, period, next_due, base, count>>

\* Mutant: the config is looked at when the period has passed, not in every slice.
LateTake ==
  /\ target' = IF now < next_due THEN target ELSE -1
  /\ IF target > 0 /\ now >= next_due
     THEN period' = target /\ next_due' = now /\ base' = now /\ count' = 0
     ELSE UNCHANGED <<period, next_due, base, count>>

\* The pending config is applied; a new rate starts over from now.
TakeConfig ==
  /\ target' = -1
  /\ IF target > 0
     THEN period' = target /\ next_due' = now /\ base' = now /\ count' = 0
     ELSE UNCHANGED <<period, next_due, base, count>>

\* time_up, or a signal; the conditions of the two loops lead to the other three.
Finish ==
  /\ pc = "loop"
  /\ pc' = "done"
  /\ UNCHANGED <<now, wake, latest, period, next_due, target, arrived, base, count, behind>>

Sleep ==
  /\ pc = "loop" /\ now < Duration /\ now < next_due
  /\ pc' = "sleeping"
  /\ wake' = IF next_due < now + Slice THEN next_due ELSE now + Slice
  /\ latest' = wake' + MaxOver
  /\ UNCHANGED <<now, period, next_due, target, arrived, base, count, behind>>

Wake ==
  /\ pc = "sleeping" /\ now >= wake
  /\ pc' = "loop"
  /\ TakeConfig
  /\ UNCHANGED <<now, wake, latest, arrived, behind>>

\* Mutant: the loop as its comment remembers it, an emit after every slice.
EagerEmit ==
  /\ pc = "loop" /\ now < Duration /\ (now >= next_due \/ now = wake)
  /\ pc' = "emitting"
  /\ count' = count + 1
  /\ wake' = now /\ latest' = now + MaxEmit
  /\ UNCHANGED <<now, period, next_due, target, arrived, base, behind>>

Emit ==
  /\ pc = "loop" /\ now < Duration /\ now >= next_due
  /\ pc' = "emitting"
  /\ count' = count + 1
  /\ wake' = now /\ latest' = now + MaxEmit
  /\ UNCHANGED <<now, period, next_due, target, arrived, base, behind>>

Emitted ==
  /\ pc = "emitting" /\ pc' = "loop"
  /\ next_due' = next_due + period
  /\ behind' = (behind \/ now >= next_due')
  /\ UNCHANGED <<now, wake, latest, period, target, arrived, base, count>>

Next ==
  \/ Tick \/ Finish \/ Sleep \/ Wake \/ Emit \/ Emitted
  \/ \E t \in Periods \cup {0} : Deliver(t)

Spec == Init /\ [][Next]_vars

-------------------------------------------------------------------------------
\* The configured rate is kept, whatever sleeps and emits take and whenever the rate
\* changes: never an event before its period has passed, and no drift in when the
\* next one is due (the bug the loop's comment tells of: 40 events for 10).
RateIsKept ==
  /\ count <= (now - base) \div period + 1
  /\ pc # "emitting" => next_due = base + count * period

\* "A new target_fps takes effect within ~50ms of arriving": within a slice, an emit
\* that was under way and what the sleep took too long, so long as the producer keeps
\* to its schedule.  Behind it, the slices where configs are looked at are skipped.
ConfigIsPrompt ==
  target # -1 /\ pc # "done" /\ ~behind => now - arrived <= Slice + MaxOver + MaxEmit
===============================================================================
