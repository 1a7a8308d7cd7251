------------------------------- MODULE DemoFeed -------------------------------
(***************************************************************************)
(* The live demo (demo/lambda): concurrent invocations of the Lambda       *)
(* handler that compute and record an event, or list the recorded ones,    *)
(* over one DynamoDB table.                                                *)
(*                                                                         *)
(* An event is the invocation that made it, its time and whether weather   *)
(* was at hand; the severity computed from these is DetectionPolicies'.    *)
(* DynamoDB is external: PutItem replaces the item of the same key, a      *)
(* request that fails may have been applied, and Scan, which is asked for  *)
(* no consistent read, reads each item from the table or from a copy that  *)
(* may lag behind it, and returns at most Limit of them, whichever it      *)
(* meets first.                                                            *)
(***************************************************************************)
EXTENDS Integers, FiniteSets, Functions

CONSTANTS MaxCalls, \* bound: invocations
          Limit,    \* the 20 of ListRecent(20)
          Quantum,  \* spacing of the doubles a timestamp is parsed into
          MaxClock  \* bound: instants

VARIABLES clock,
          table,   \* the items: event_id -> event
          replica, \* a copy of the table that lags behind
          call     \* call[c]: an invocation, what it has read and what it answered

vars == <<clock, table, replica, call>>

Calls == 1 .. MaxCalls

Idle == [pc |-> "idle", now |-> 0, weather |-> FALSE,
         recorded |-> FALSE, list |-> <<>>, saw |-> {}, before |-> {}, fits |-> TRUE]

Init ==
  /\ clock = 1
  /\ table = <<>> /\ replica = <<>>
  /\ call = [c \in Calls |-> Idle]

Tick ==
  /\ clock < MaxClock
  /\ clock' = clock + 1
  /\ UNCHANGED <<table, replica, call>>

\* The next invocation; they are numbered as they start.
Starts(c) == call[c].pc = "idle" /\ \A d \in 1 .. c - 1 : call[d].pc # "idle"

Step(c, r) == call' = [call EXCEPT ![c] = r]

\* A payload, or the body of a POST, that does not parse, or a confidence in it that is
\* no number, whose type_error the handler does not catch: the invocation fails.
Unparsable(c) ==
  /\ Starts(c)
  /\ Step(c, [Idle EXCEPT !.pc = "failed"])
  /\ UNCHANGED <<clock, table, replica>>

\* A POST, or a scheduled event: the time is read before the weather is asked for.
Trigger(c) ==
  /\ Starts(c)
  /\ Step(c, [Idle EXCEPT !.pc = "fetching", !.now = clock])
  /\ UNCHANGED <<clock, table, replica>>

\* FetchCurrent, and the severity.
Fetch(c) ==
  /\ call[c].pc = "fetching"
  /\ \E w \in BOOLEAN : Step(c, [call[c] EXCEPT !.pc = "putting", !.weather = w])
  /\ UNCHANGED <<clock, table, replica>>

\* Mutant: the id has the time's seconds only.
CoarseId(now) == now \div 2

EventId(now) == now

Event(c) == [by |-> c, ts |-> call[c].now, weather |-> call[c].weather]

\* PutItem without a condition.
Stored(c) == [id \in DOMAIN table \cup {EventId(call[c].now)} |->
                IF id = EventId(call[c].now) THEN Event(c) ELSE table[id]]

\* PutEvent; the visitor is answered whether or not it succeeded.
PutEvent(c) ==
  /\ call[c].pc = "putting"
  /\ \/ table' = Stored(c) /\ Step(c, [call[c] EXCEPT !.pc = "answered", !.recorded = TRUE])
     \/ table' \in {table, Stored(c)} /\ Step(c, [call[c] EXCEPT !.pc = "answered"])
  /\ UNCHANGED <<clock, replica>>

\* ParseN: a decimal through a double, to the nearest, ties to even.
ParseN(ts) ==
  LET low == ts \div Quantum
      up == 2 * (ts % Quantum) > Quantum \/ (2 * (ts % Quantum) = Quantum /\ low % 2 = 1)
  IN Quantum * (IF up THEN low + 1 ELSE low)

\* An event as ListRecent returns it.
Listed(e) == [e EXCEPT !.ts = ParseN(@)]

\* What std::sort may make of the listed events: newest first, ties in any order.
Newest(items) ==
  {q \in Injection(1 .. Cardinality(items), items) :
     \A i, j \in DOMAIN q : i < j => q[i].ts >= q[j].ts}

\* The copy takes over an item of the table.
CatchUp(id) ==
  /\ id \in DOMAIN table
  /\ replica' = [x \in DOMAIN replica \cup {id} |-> IF x = id THEN table[id] ELSE replica[x]]
  /\ UNCHANGED <<clock, table, call>>

CaughtUp == {id \in DOMAIN table \cap DOMAIN replica : replica[id] = table[id]}

\* The items as a Scan finds them, those of "fresh" in the table and others in the copy.
Found(fresh) ==
  [id \in fresh \cup DOMAIN replica |-> IF id \in fresh THEN table[id] ELSE replica[id]]

\* What a Scan that finds these items may return.
Scans(found) == {items \in SUBSET {found[id] : id \in DOMAIN found} :
                   Cardinality(items) = (IF Cardinality(DOMAIN found) <= Limit
                                         THEN Cardinality(DOMAIN found) ELSE Limit)}

\* ListRecent; "saw" and "before" keep what was there, and had reached the copy, and
\* "fits" whether the table was within the limit, for the properties.
ListRecent(c) ==
  /\ Starts(c)
  /\ \E fresh \in SUBSET DOMAIN table : \E items \in Scans(Found(fresh)) :
       \E list \in Newest({Listed(e) : e \in items}) :
         Step(c, [Idle EXCEPT !.pc = "listed", !.list = list,
                    !.saw = {table[id] : id \in CaughtUp},
                    !.before = {d \in Calls : call[d].recorded /\ EventId(call[d].now) \in CaughtUp},
                    !.fits = Cardinality(DOMAIN table) <= Limit])
  /\ UNCHANGED <<clock, table, replica>>

\* The scan fails: an empty feed.
ListFails(c) ==
  /\ Starts(c)
  /\ Step(c, [Idle EXCEPT !.pc = "answered"])
  /\ UNCHANGED <<clock, table, replica>>

Next ==
  \/ Tick
  \/ \E c \in Calls :
       \/ Unparsable(c) \/ Trigger(c) \/ Fetch(c) \/ PutEvent(c)
       \/ ListRecent(c) \/ ListFails(c)
  \/ \E id \in DOMAIN table : CatchUp(id)

Spec == Init /\ [][Next]_vars

-------------------------------------------------------------------------------
\* As long as the table fits the limit, the feed is complete and in order: an event
\* whose request was answered "recorded" and which has reached every copy of the table
\* is listed, once and as that invocation wrote it but for the rounded time, unless
\* another took the same instant for its id; and nothing stands before an event that
\* was made later by more than the rounding of ParseN.
FeedIsComplete ==
  \A c \in Calls :
    call[c].pc = "listed" /\ call[c].fits =>
      LET list == call[c].list IN
        /\ \A d \in call[c].before :
             \/ \E e \in Calls \ {d} : call[e].now = call[d].now
             \/ Cardinality({i \in DOMAIN list : list[i] = Listed(Event(d))}) = 1
        /\ \A i, j \in DOMAIN list :
             i < j => call[list[i].by].now >= call[list[j].by].now - Quantum

\* dynamo_demo_writer.h:78, "Returns the most recent events": no event that had reached
\* every copy of the table and is left out was made later, by more than the rounding,
\* than one that is listed.
ListsMostRecent ==
  \A c \in Calls :
    call[c].pc = "listed" =>
      LET makers == {call[c].list[i].by : i \in DOMAIN call[c].list}
      IN \A e \in call[c].saw :
           e.by \notin makers => \A m \in makers : e.ts <= call[m].now + Quantum
===============================================================================
