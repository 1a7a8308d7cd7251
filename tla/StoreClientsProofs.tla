--------------------------- MODULE StoreClientsProofs ---------------------------
(***************************************************************************)
(* The gateway's client of Kafka and the demo's of DynamoDB, for any       *)
(* number of threads, calls and invocations.                               *)
(***************************************************************************)
EXTENDS StoreClients, FiniteSetTheorems, TLAPS

--------------------------------------------------------------------------------
\* KafkaProducer.

KafkaTypes ==
  /\ step \in [Callers -> {"idle", "testing", "polling"}]
  /\ call \in [Callers -> 0 .. MaxCalls]
  /\ calls \in 0 .. MaxCalls
  /\ msg \in [Messages -> {"none", "queued", "sent", "expired", "reported", "refused"}]
  /\ returned \in [Messages -> {"none", "true", "false"}]

\* The inductive invariant: a caller that waits has a message of its own, numbers not
\* handed out are untouched, and what the callback calls a success, or is about to,
\* the broker has.
KafkaInv ==
  /\ KafkaTypes
  /\ \A c \in Callers : step[c] # "idle" => call[c] \in Messages
  /\ \A m \in Messages : m > calls => msg[m] = "none"
  /\ \A m \in Messages : msg[m] = "sent" => m \in stored
  /\ success \subseteq stored
  /\ TrueMeansStored
  /\ WrapperIsLive

\* No message has been handed over.
LEMMA KafkaInitially == KafkaInit => KafkaInv
  BY KafkaAssumption DEF KafkaInit, KafkaInv, KafkaTypes, Messages, TrueMeansStored, WrapperIsLive

\* PublishSync in any thread, the callbacks, and the broker.
LEMMA KafkaStep == KafkaInv /\ [KafkaNext]_kafkaVars => KafkaInv'
<1> SUFFICES ASSUME KafkaInv, [KafkaNext]_kafkaVars PROVE KafkaInv'
  OBVIOUS
<1> USE KafkaAssumption DEF KafkaInv, KafkaTypes, Messages, TrueMeansStored, WrapperIsLive
<1>1. ASSUME NEW c \in Callers, Produce(c) PROVE KafkaInv'
  BY <1>1 DEF Produce
<1>2. ASSUME NEW c \in Callers, ProduceRefused(c) PROVE KafkaInv'
  BY <1>2 DEF ProduceRefused
<1>r. ASSUME NEW c \in Callers, NEW v \in {"true", "false"}, Return(c, v), step[c] # "idle",
             v = "true" => call[c] \in stored, UNCHANGED <<calls, msg, wrapped, success, stored>>
      PROVE  KafkaInv'
  <2>1. KafkaTypes' /\ \A e \in Callers : step'[e] # "idle" => call'[e] \in Messages
    BY <1>r DEF Return
  <2>2. TrueMeansStored'
    BY <1>r DEF Return
  <2> QED BY <1>r, <2>1, <2>2
<1>w. ASSUME NEW c \in Callers, NEW p \in {"testing", "polling"}, step[c] # "idle",
             step' = [step EXCEPT ![c] = p],
             UNCHANGED <<call, calls, msg, returned, wrapped, success, stored>>
      PROVE  KafkaInv'
  BY <1>w
<1>3. ASSUME NEW c \in Callers, TestDone(c) PROVE KafkaInv'
  <2>1. step[c] # "idle" /\ UNCHANGED <<calls, msg, wrapped, success, stored>>
    BY <1>3 DEF TestDone
  <2>2. CASE call[c] \in done
    <3>1. PICK v \in {"true", "false"} : Return(c, v) /\ (v = "true" => call[c] \in success)
      BY <1>3, <2>2 DEF TestDone
    <3> QED BY Zenon, <1>r, <2>1, <3>1
  <2>3. CASE call[c] \notin done
    BY <1>3, <1>w, <2>1, <2>3 DEF TestDone
  <2> QED BY <2>2, <2>3
<1>4. ASSUME NEW c \in Callers, PollEnd(c) PROVE KafkaInv'
  <2>1. step[c] # "idle" /\ UNCHANGED <<calls, msg, wrapped, success, stored>>
    BY <1>4 DEF PollEnd
  <2>2. CASE Return(c, "false")
    BY Zenon, <1>r, <2>1, <2>2
  <2>3. CASE ~(call[c] \notin done /\ c \in overdue)
    BY <1>4, <1>w, <2>1, <2>3 DEF PollEnd
  <2> QED BY <1>4, <2>2, <2>3 DEF PollEnd
<1>5. ASSUME NEW c \in Callers, Deadline(c) PROVE KafkaInv'
  BY <1>5 DEF Deadline
<1>6. ASSUME NEW m \in Messages, DrCb(m) PROVE KafkaInv'
  BY <1>6 DEF DrCb
<1>7. ASSUME NEW m \in Messages, Confirm(m) PROVE KafkaInv'
  BY <1>7 DEF Confirm
<1>8. ASSUME NEW m \in Messages, Expire(m) PROVE KafkaInv'
  BY <1>8 DEF Expire
<1>9. CASE Flush \/ Closed
  BY <1>9 DEF Flush, Closed
<1>10. CASE UNCHANGED kafkaVars
  BY <1>10 DEF kafkaVars
<1> QED BY <1>1, <1>2, <1>3, <1>4, <1>5, <1>6, <1>7, <1>8, <1>9, <1>10 DEF KafkaNext

\* PublishSync returns true only for a message the broker has stored, whichever
\* thread ran the callback and however late it was.
THEOREM TrueIsStored == KafkaSpec => []TrueMeansStored
<1>1. KafkaInv => TrueMeansStored
  BY DEF KafkaInv
<1> QED BY <1>1, KafkaInitially, KafkaStep, PTL DEF KafkaSpec

\* librdkafka holds the wrapper of a message exactly until its report has run: no use
\* after free and no double free, and no leak but of what Flush gave up on.
THEOREM WrappersAreLive == KafkaSpec => []WrapperIsLive
<1>1. KafkaInv => WrapperIsLive
  BY DEF KafkaInv
<1> QED BY <1>1, KafkaInitially, KafkaStep, PTL DEF KafkaSpec

----------------------------------------------------------------------------------
(* The demo's feed. *)

\* Both modules take Cardinality from the same place.
LEMMA SameCardinality == \A X : Demo!Cardinality(X) = Cardinality(X)
BY DEF Demo!Cardinality, Cardinality

\* ParseN is at most half a quantum off.
LEMMA ParsedIsNear ==
  ASSUME NEW ts \in Nat
  PROVE  /\ Demo!ParseN(ts) \in Int
         /\ 2 * (Demo!ParseN(ts) - ts) <= Quantum /\ 2 * (ts - Demo!ParseN(ts)) <= Quantum
<1> DEFINE low == ts \div Quantum
           rest == ts % Quantum
           floor == Quantum * low
<1>1. Quantum \in Nat \ {0}
  BY DemoAssumption
<1>2. low \in Nat /\ rest \in Nat /\ rest < Quantum /\ ts = floor + rest
  BY <1>1
<1>3. floor \in Nat /\ Quantum * (low + 1) = floor + Quantum
  BY <1>1, <1>2
<1>4. /\ 2 * rest > Quantum \/ (2 * rest = Quantum /\ low % 2 = 1) => Demo!ParseN(ts) = Quantum * (low + 1)
      /\ ~(2 * rest > Quantum \/ (2 * rest = Quantum /\ low % 2 = 1)) => Demo!ParseN(ts) = floor
  BY DEF Demo!ParseN
<1> HIDE DEF low, rest, floor
<1>5. \/ 2 * rest >= Quantum /\ Demo!ParseN(ts) = floor + Quantum
      \/ 2 * rest <= Quantum /\ Demo!ParseN(ts) = floor
  BY <1>1, <1>2, <1>3, <1>4
<1> QED
  BY <1>1, <1>2, <1>3, <1>5

\* A scan that finds no more items than the limit returns all of them.
LEMMA ScanIsWhole ==
  ASSUME NEW found, found = [id \in DOMAIN found |-> found[id]], IsFiniteSet(DOMAIN found),
         NEW items \in Demo!Scans(found), Cardinality(DOMAIN found) <= Limit
  PROVE  /\ items = {found[id] : id \in DOMAIN found}
         /\ IsFiniteSet(items)
<1> DEFINE held == {found[id] : id \in DOMAIN found}
<1>1. items \subseteq held /\ Cardinality(items) = Cardinality(DOMAIN found)
  BY SameCardinality DEF Demo!Scans
<1>2. found \in Surjection(DOMAIN found, held)
  BY DEF Surjection
<1>3. IsFiniteSet(held) /\ Cardinality(held) <= Cardinality(DOMAIN found)
  BY <1>2, FS_Surjection
<1> HIDE DEF held
<1>4. IsFiniteSet(items) /\ Cardinality(items) <= Cardinality(held)
  BY <1>1, <1>3, FS_Subset
<1>5. Cardinality(items) \in Nat /\ Cardinality(held) \in Nat
  BY <1>3, <1>4, FS_CardinalityType
<1>6. Cardinality(items) = Cardinality(held)
  BY <1>1, <1>3, <1>4, <1>5
<1>7. items = held
  BY <1>1, <1>3, <1>6, FS_Subset
<1> QED
  BY <1>4, <1>7 DEF held

\* What is sorted without being dropped or doubled is listed once.
LEMMA ListedOnce ==
  ASSUME NEW items, IsFiniteSet(items), NEW list \in Injection(1 .. Cardinality(items), items)
  PROVE  /\ \A i \in DOMAIN list : list[i] \in items
         /\ \A e \in items : Cardinality({i \in DOMAIN list : list[i] = e}) = 1
<1> DEFINE D == 1 .. Cardinality(items)
<1>1. Cardinality(items) \in Nat
  BY FS_CardinalityType
<1>2. list \in [D -> items] /\ \A i, j \in D : list[i] = list[j] => i = j
  BY DEF Injection, IsInjective
<1>4. list \in Injection(D, items)
  OBVIOUS
<1>3. IsFiniteSet(D) /\ Cardinality(D) = Cardinality(items)
  BY <1>1, FS_Interval
<1> HIDE DEF D
<1>5. list \in Surjection(D, items)
  BY <1>3, <1>4, FS_Injection
<1>6. ASSUME NEW e \in items
      PROVE  Cardinality({i \in DOMAIN list : list[i] = e}) = 1
  <2>1. PICK k \in D : list[k] = e
    BY <1>5 DEF Surjection
  <2>2. {i \in DOMAIN list : list[i] = e} = {k}
    BY <1>2, <2>1
  <2> QED
    BY Zenon, <2>2, FS_Singleton
<1> QED
  BY <1>2, <1>6

\* Another invocation took the same instant.
Shared(d) == \E e \in Demo!Calls \ {d} : invocation[e].now = invocation[d].now

\* FeedIsComplete of one invocation.
FeedOK(c) ==
  invocation[c].pc = "listed" /\ invocation[c].fits =>
    LET list == invocation[c].list IN
      /\ \A d \in invocation[c].before :
           \/ Shared(d)
           \/ Cardinality({i \in DOMAIN list : list[i] = Demo!Listed(Demo!Event(d))}) = 1
      /\ \A i, j \in DOMAIN list :
           i < j => invocation[list[i].by].now >= invocation[list[j].by].now - Quantum

\* An invocation: its time is set when it starts, and only a put that returned records.
IsCall(r) ==
  /\ r = [f \in DOMAIN Demo!Idle |-> r[f]]
  /\ r.now \in Nat /\ r.recorded \in BOOLEAN
  /\ r.pc = "idle" => r.now = 0
  /\ r.pc \in {"fetching", "putting"} => r.now # 0
  /\ r.recorded => r.pc = "answered" /\ r.now # 0

CallsOK ==
  /\ instant \in Nat \ {0} /\ DOMAIN invocation = Demo!Calls
  /\ invocation = [c \in Demo!Calls |-> invocation[c]]
  /\ \A c \in Demo!Calls : IsCall(invocation[c])

\* The table holds what invocations wrote, under their instants; a recorded event is
\* there unless another invocation of that instant replaced it.
TableOK ==
  /\ table = [id \in DOMAIN table |-> table[id]] /\ IsFiniteSet(DOMAIN table)
  /\ \A id \in DOMAIN table :
       id # 0 /\ \E c \in Demo!Calls : invocation[c].pc = "answered" /\ invocation[c].now = id /\ table[id] = Demo!Event(c)
  /\ \A d \in Demo!Calls :
       invocation[d].recorded =>
         invocation[d].now \in DOMAIN table /\ (Shared(d) \/ table[invocation[d].now] = Demo!Event(d))

\* The copy holds older or the same items.
ReplicaOK ==
  /\ DOMAIN replica \subseteq DOMAIN table
  /\ \A id \in DOMAIN replica :
       \E c \in Demo!Calls : invocation[c].pc = "answered" /\ invocation[c].now = id /\ replica[id] = Demo!Event(c)

\* A list keeps being right, since the invocations it was computed from have ended.
ListOK(c) ==
  /\ \A d \in invocation[c].before : d \in Demo!Calls /\ invocation[d].recorded
  /\ \A i \in DOMAIN invocation[c].list :
       LET m == invocation[c].list[i].by IN m \in Demo!Calls /\ invocation[m].now # 0
  /\ FeedOK(c)

ListsOK == \A c \in Demo!Calls : invocation[c].pc = "listed" => ListOK(c)

\* The inductive invariant of the feed.
DemoInv == CallsOK /\ TableOK /\ ReplicaOK /\ ListsOK

\* How a step treats the invocations: one changes, and one that has ended does not.
Ended(c) == invocation[c].pc \in {"answered", "listed"}

Moves ==
  /\ CallsOK'
  /\ \A c \in Demo!Calls :
       /\ Ended(c) => invocation'[c] = invocation[c]
       /\ invocation[c].now # 0 => invocation'[c].now = invocation[c].now

\* One invocation steps and the others are as they were.
LEMMA StepMoves ==
  ASSUME CallsOK, NEW c \in Demo!Calls, NEW r, Demo!Step(c, r), UNCHANGED instant,
         IsCall(r), ~Ended(c), invocation[c].now # 0 => r.now = invocation[c].now
  PROVE  Moves /\ invocation'[c] = r /\ \A d \in Demo!Calls \ {c} : invocation'[d] = invocation[d]
<1>1. invocation' = [d \in Demo!Calls |-> IF d = c THEN r ELSE invocation[d]]
  BY DEF Demo!Step, CallsOK
<1>2. invocation'[c] = r /\ \A d \in Demo!Calls \ {c} : invocation'[d] = invocation[d]
  BY <1>1
<1>3. CallsOK'
  <2>1. DOMAIN invocation' = Demo!Calls /\ invocation' = [d \in Demo!Calls |-> invocation'[d]]
    BY <1>1
  <2>2. ASSUME NEW d \in Demo!Calls PROVE IsCall(invocation'[d])
    <3>1. invocation'[d] = r \/ invocation'[d] = invocation[d]
      BY SMTT(40), <1>1
    <3> QED
      BY <3>1 DEF CallsOK
  <2> QED
    BY SMTT(40), <2>1, <2>2 DEF CallsOK, Demo!Calls
<1>4. ASSUME NEW d \in Demo!Calls
      PROVE  /\ Ended(d) => invocation'[d] = invocation[d]
             /\ invocation[d].now # 0 => invocation'[d].now = invocation[d].now
  BY <1>2
<1> QED
  BY <1>2, <1>3, <1>4 DEF Moves

\* A list that was right stays right, whoever moves.
LEMMA ListsKept ==
  ASSUME CallsOK, Moves, NEW c \in Demo!Calls, invocation[c].pc = "listed", ListOK(c)
  PROVE  ListOK(c)'
<1>1. invocation'[c] = invocation[c]
  BY SMTT(40) DEF Moves, Ended
<1>2. ASSUME NEW d \in invocation[c].before
      PROVE  /\ d \in Demo!Calls /\ invocation'[d] = invocation[d]
             /\ Shared(d) => Shared(d)'
             /\ Demo!Event(d)' = Demo!Event(d)
  <2>1. d \in Demo!Calls /\ invocation[d].pc = "answered" /\ invocation[d].now # 0
    BY DEF CallsOK, IsCall, ListOK
  <2>2. invocation'[d] = invocation[d]
    BY <2>1 DEF Moves, Ended
  <2>3. \A e \in Demo!Calls : invocation[e].now = invocation[d].now => invocation'[e].now = invocation'[d].now
    BY SMTT(40), <2>1, <2>2 DEF Moves
  <2> QED
    BY <2>1, <2>2, <2>3 DEF Shared, Demo!Event, Demo!Calls
<1>3. \A d \in invocation'[c].before : d \in Demo!Calls /\ invocation'[d].recorded
  BY <1>1, <1>2 DEF ListOK
<1>5. ASSUME NEW i \in DOMAIN invocation[c].list
      PROVE  LET m == invocation[c].list[i].by IN m \in Demo!Calls /\ invocation'[m].now = invocation[m].now /\ invocation[m].now # 0
  <2>1. LET m == invocation[c].list[i].by IN m \in Demo!Calls /\ invocation[m].now # 0
    BY Zenon, <1>5 DEF ListOK
  <2> QED BY Zenon, <2>1 DEF Moves
<1>4. FeedOK(c)'
  <2>1. SUFFICES ASSUME invocation'[c].fits
        PROVE  LET list == invocation'[c].list IN
                 /\ \A d \in invocation'[c].before :
                      \/ Shared(d)'
                      \/ Cardinality({i \in DOMAIN list : list[i] = Demo!Listed(Demo!Event(d)')}) = 1
                 /\ \A i, j \in DOMAIN list :
                      i < j => invocation'[list[i].by].now >= invocation'[list[j].by].now - Quantum
    BY Zenon DEF FeedOK, Demo!Listed, Demo!ParseN
  <2>5. invocation[c].fits
    BY Zenon, <1>1, <2>1
  <2>4. FeedOK(c)
    BY DEF ListOK
  <2>2. ASSUME NEW d \in invocation[c].before
        PROVE  Shared(d)' \/ Cardinality({i \in DOMAIN invocation[c].list : invocation[c].list[i] = Demo!Listed(Demo!Event(d)')}) = 1
    <3>1. Shared(d) \/ Cardinality({i \in DOMAIN invocation[c].list : invocation[c].list[i] = Demo!Listed(Demo!Event(d))}) = 1
      BY <2>4, <2>5, Zenon DEF FeedOK
    <3> QED
      BY <1>2, <3>1, Zenon
  <2>3. ASSUME NEW i \in DOMAIN invocation[c].list, NEW j \in DOMAIN invocation[c].list, i < j
        PROVE  invocation'[invocation[c].list[i].by].now >= invocation'[invocation[c].list[j].by].now - Quantum
    <3>1. invocation[invocation[c].list[i].by].now >= invocation[invocation[c].list[j].by].now - Quantum
      BY <2>3, <2>4, <2>5, Zenon DEF FeedOK
    <3> QED BY Zenon, <1>5, <3>1
  <2> QED
    BY <1>1, <2>2, <2>3, Zenon
<1>6. \A i \in DOMAIN invocation'[c].list :
        LET m == invocation'[c].list[i].by IN m \in Demo!Calls /\ invocation'[m].now # 0
  BY Zenon, <1>1, <1>5
<1> QED
  BY Zenon, <1>3, <1>4, <1>6 DEF ListOK, Demo!Calls

\* A step that leaves the copy alone.
LEMMA ReplicaKept ==
  ASSUME CallsOK, ReplicaOK, Moves, replica' = replica, DOMAIN table \subseteq DOMAIN table'
  PROVE  ReplicaOK'
<1>1. ASSUME NEW id \in DOMAIN replica
      PROVE  \E c \in Demo!Calls : invocation'[c].pc = "answered" /\ invocation'[c].now = id /\ replica[id] = Demo!Event(c)'
  <2>1. PICK c \in Demo!Calls : invocation[c].pc = "answered" /\ invocation[c].now = id /\ replica[id] = Demo!Event(c)
    BY DEF ReplicaOK
  <2>2. invocation'[c] = invocation[c]
    BY SMTT(40), <2>1 DEF Moves, Ended
  <2> QED
    BY <2>1, <2>2 DEF Demo!Event
<1> QED
  BY Zenon, <1>1 DEF ReplicaOK, Demo!Calls

\* A step that leaves the table alone and records nothing.
LEMMA TableKept ==
  ASSUME CallsOK, TableOK, Moves, table' = table,
         \A d \in Demo!Calls : invocation'[d].recorded => invocation[d].recorded
  PROVE  TableOK'
<1>1. ASSUME NEW id \in DOMAIN table
      PROVE  id # 0 /\ \E c \in Demo!Calls : invocation'[c].pc = "answered" /\ invocation'[c].now = id /\ table[id] = Demo!Event(c)'
  <2>1. PICK c \in Demo!Calls : invocation[c].pc = "answered" /\ invocation[c].now = id /\ table[id] = Demo!Event(c)
    BY DEF TableOK
  <2>2. invocation'[c] = invocation[c]
    BY SMTT(40), <2>1 DEF Moves, Ended
  <2> QED
    BY <2>1, <2>2 DEF Demo!Event, TableOK
<1>2. ASSUME NEW d \in Demo!Calls, invocation'[d].recorded
      PROVE  invocation'[d].now \in DOMAIN table /\ (Shared(d)' \/ table[invocation'[d].now] = Demo!Event(d)')
  <2>1. /\ invocation[d].pc = "answered" /\ invocation[d].now # 0 /\ invocation[d].now \in DOMAIN table
        /\ Shared(d) \/ table[invocation[d].now] = Demo!Event(d)
    BY SMTT(40), <1>2 DEF TableOK, CallsOK, IsCall
  <2>2. invocation'[d] = invocation[d] /\ Demo!Event(d)' = Demo!Event(d)
    BY SMTT(40), <2>1 DEF Moves, Ended, Demo!Event
  <2>3. \A e \in Demo!Calls : invocation[e].now = invocation[d].now => invocation'[e].now = invocation'[d].now
    BY <2>1, <2>2 DEF Moves
  <2>4. Shared(d) => Shared(d)'
    BY SMTT(40), <2>3 DEF Shared, Demo!Calls
  <2> QED
    BY <2>1, <2>2, <2>4
<1> QED
  BY SMTT(40), <1>1, <1>2 DEF TableOK, Demo!Calls

\* A put that was applied, answered or not, keeps the table right.
LEMMA TableStored ==
  ASSUME CallsOK, TableOK, Moves, NEW c \in Demo!Calls, invocation[c].pc = "putting",
         table' = Demo!Stored(c),
         invocation'[c].pc = "answered", invocation'[c].now = invocation[c].now, invocation'[c].weather = invocation[c].weather,
         \A d \in Demo!Calls \ {c} : invocation'[d] = invocation[d]
  PROVE  TableOK'
<1> DEFINE k == invocation[c].now
<1>1. /\ table' = [id \in DOMAIN table \cup {k} |-> IF id = k THEN Demo!Event(c) ELSE table[id]]
      /\ Demo!Event(c)' = Demo!Event(c)
  BY SMTT(40) DEF Demo!Stored, Demo!EventId, Demo!Event
<1>2. /\ DOMAIN table' = DOMAIN table \cup {k}
      /\ table'[k] = Demo!Event(c)
      /\ \A id \in DOMAIN table \ {k} : table'[id] = table[id]
  BY Zenon, <1>1
<1>3. IsFiniteSet(DOMAIN table')
  BY SMTT(40), <1>2, FS_AddElement DEF TableOK
<1>4. ASSUME NEW id \in DOMAIN table'
      PROVE  id # 0 /\ \E x \in Demo!Calls : invocation'[x].pc = "answered" /\ invocation'[x].now = id /\ table'[id] = Demo!Event(x)'
  <2>1. CASE id = k
    <3>1. k # 0
      BY DEF CallsOK, IsCall
    <3> QED BY SMTT(40), <1>1, <1>2, <2>1, <3>1
  <2>2. CASE id # k
    <3>1. PICK x \in Demo!Calls : invocation[x].pc = "answered" /\ invocation[x].now = id /\ table[id] = Demo!Event(x)
      BY SMTT(40), <1>2, <2>2 DEF TableOK
    <3>2. invocation'[x] = invocation[x]
      BY SMTT(40), <3>1 DEF Moves, Ended
    <3> QED
      BY SMTT(40), <1>2, <2>2, <3>1, <3>2 DEF Demo!Event, TableOK
  <2> QED
    BY SMTT(40), <2>1, <2>2
<1>5. ASSUME NEW d \in Demo!Calls, invocation'[d].recorded
      PROVE  invocation'[d].now \in DOMAIN table' /\ (Shared(d)' \/ table'[invocation'[d].now] = Demo!Event(d)')
  <2>1. CASE d = c
    BY SMTT(40), <1>1, <1>2, <2>1
  <2>2. CASE d # c
    <3>1. invocation'[d] = invocation[d] /\ Demo!Event(d)' = Demo!Event(d)
      BY SMTT(40), <2>2 DEF Demo!Event
    <3>2. /\ invocation[d].now # 0 /\ invocation[d].now \in DOMAIN table
          /\ Shared(d) \/ table[invocation[d].now] = Demo!Event(d)
      BY SMTT(40), <1>5, <3>1 DEF TableOK, CallsOK, IsCall
    <3>3. \A e \in Demo!Calls : invocation[e].now = invocation[d].now => invocation'[e].now = invocation'[d].now
      BY Zenon, <3>1, <3>2 DEF Moves
    <3>4. Shared(d) => Shared(d)'
      BY <3>3 DEF Shared, Demo!Calls
    <3>5. invocation[d].now = k => Shared(d)'
      BY <2>2, <3>3 DEF Shared, Demo!Calls
    <3> QED
      BY SMTT(40), <1>2, <3>1, <3>2, <3>4, <3>5
  <2> QED
    BY SMTT(40), <2>1, <2>2
<1>6. table' = [id \in DOMAIN table' |-> table'[id]]
  BY SMTT(40), <1>1
<1> QED
  BY SMTT(40), <1>3, <1>4, <1>5, <1>6 DEF TableOK, Demo!Calls

\* What a scan finds, at most Limit of it or not, is events of invocations that have ended.
LEMMA FoundIsMade ==
  ASSUME TableOK, ReplicaOK, NEW fresh \in SUBSET DOMAIN table
  PROVE  /\ Demo!Found(fresh) = [id \in DOMAIN Demo!Found(fresh) |-> Demo!Found(fresh)[id]]
         /\ DOMAIN Demo!Found(fresh) \subseteq DOMAIN table
         /\ \A id \in DOMAIN Demo!Found(fresh) :
              \E x \in Demo!Calls : invocation[x].now = id /\ Demo!Found(fresh)[id] = Demo!Event(x)
         /\ \A id \in Demo!CaughtUp : id \in DOMAIN Demo!Found(fresh) /\ Demo!Found(fresh)[id] = table[id]
<1> DEFINE found == Demo!Found(fresh)
<1>1. /\ found = [id \in fresh \cup DOMAIN replica |-> IF id \in fresh THEN table[id] ELSE replica[id]]
      /\ DOMAIN found = fresh \cup DOMAIN replica
  BY DEF Demo!Found
<1>2. /\ \A id \in fresh : found[id] = table[id]
      /\ \A id \in DOMAIN replica \ fresh : found[id] = replica[id]
  BY <1>1
<1> HIDE DEF found
<1>3. ASSUME NEW id \in DOMAIN found
      PROVE  \E x \in Demo!Calls : invocation[x].now = id /\ found[id] = Demo!Event(x)
  <2>1. CASE id \in fresh
    <3>1. id \in DOMAIN table
      BY <2>1
    <3>2. PICK x \in Demo!Calls : invocation[x].now = id /\ table[id] = Demo!Event(x)
      BY Zenon, <3>1 DEF TableOK
    <3>3. found[id] = table[id]
      BY Zenon, <1>2, <2>1
    <3> QED BY Zenon, <3>2, <3>3
  <2>2. CASE id \in DOMAIN replica \ fresh
    <3>2. PICK x \in Demo!Calls : invocation[x].now = id /\ replica[id] = Demo!Event(x)
      BY Zenon, <2>2 DEF ReplicaOK
    <3>3. found[id] = replica[id]
      BY Zenon, <1>2, <2>2
    <3> QED BY Zenon, <3>2, <3>3
  <2> QED BY Zenon, <1>1, <2>1, <2>2
<1>4. ASSUME NEW id \in Demo!CaughtUp PROVE id \in DOMAIN found /\ found[id] = table[id]
  BY Zenon, <1>1, <1>2, <1>4 DEF Demo!CaughtUp
<1>5. DOMAIN found \subseteq DOMAIN table
  BY Zenon, <1>1 DEF ReplicaOK
<1>6. found = [id \in DOMAIN found |-> found[id]]
  BY <1>1
<1> QED
  BY Zenon, <1>3, <1>4, <1>5, <1>6 DEF found

\* An event as it is listed.
LEMMA ListedFields ==
  ASSUME NEW x \in Demo!Calls
  PROVE  /\ Demo!Listed(Demo!Event(x)).by = x
         /\ Demo!Listed(Demo!Event(x)).ts = Demo!ParseN(invocation[x].now)
<1> DEFINE p == Demo!ParseN(invocation[x].now)
<1>1. Demo!Listed(Demo!Event(x)) = [Demo!Event(x) EXCEPT !.ts = p]
  BY DEF Demo!Listed, Demo!Event
<1> HIDE DEF p
<1>2. [Demo!Event(x) EXCEPT !.ts = p].by = x /\ [Demo!Event(x) EXCEPT !.ts = p].ts = p
  BY DEF Demo!Event
<1> QED
  BY <1>1, <1>2 DEF p

\* A list is right when ListRecent makes it.
LEMMA NewList ==
  ASSUME CallsOK, TableOK, ReplicaOK, Moves, NEW c \in Demo!Calls, invocation[c].pc = "idle",
         NEW fresh \in SUBSET DOMAIN table, NEW items \in Demo!Scans(Demo!Found(fresh)),
         NEW list \in Demo!Newest({Demo!Listed(e) : e \in items}),
         invocation'[c].list = list,
         invocation'[c].fits => Cardinality(DOMAIN table) <= Limit,
         invocation'[c].before = {d \in Demo!Calls : invocation[d].recorded /\ Demo!EventId(invocation[d].now) \in Demo!CaughtUp},
         \A d \in Demo!Calls \ {c} : invocation'[d] = invocation[d]
  PROVE  ListOK(c)'
<1> DEFINE found == Demo!Found(fresh)
           shown == {Demo!Listed(e) : e \in items}
<1>f. /\ found = [id \in DOMAIN found |-> found[id]]
      /\ DOMAIN found \subseteq DOMAIN table
      /\ \A id \in DOMAIN found : \E x \in Demo!Calls : invocation[x].now = id /\ found[id] = Demo!Event(x)
      /\ \A id \in Demo!CaughtUp : id \in DOMAIN found /\ found[id] = table[id]
  BY Zenon, FoundIsMade
<1>i. items \in Demo!Scans(found) /\ items \subseteq {found[id] : id \in DOMAIN found}
  BY Zenon DEF Demo!Scans
<1> HIDE DEF found
<1>1. ASSUME NEW d \in invocation'[c].before
      PROVE  /\ d \in Demo!Calls /\ invocation[d].recorded /\ invocation'[d] = invocation[d] /\ invocation[d].now # 0
             /\ invocation[d].now \in Demo!CaughtUp
             /\ Demo!Event(d)' = Demo!Event(d) /\ (Shared(d) => Shared(d)')
  <2>1. d \in Demo!Calls /\ invocation[d].recorded /\ invocation[d].pc = "answered" /\ invocation[d].now # 0
    BY DEF CallsOK, IsCall
  <2>2. invocation'[d] = invocation[d]
    BY SMTT(40), <2>1 DEF Moves, Ended
  <2>3. \A e \in Demo!Calls : invocation[e].now = invocation[d].now => invocation'[e].now = invocation'[d].now
    BY SMTT(40), <2>1, <2>2 DEF Moves
  <2>4. invocation[d].now \in Demo!CaughtUp
    BY Zenon DEF Demo!EventId
  <2> QED
    BY Zenon, <2>1, <2>2, <2>3, <2>4 DEF Shared, Demo!Event, Demo!Calls
<1>2. /\ list \in Injection(1 .. Cardinality(shown), shown)
      /\ \A i, j \in DOMAIN list : i < j => list[i].ts >= list[j].ts
      /\ \A i \in DOMAIN list : list[i] \in shown
  BY SMTT(40), SameCardinality DEF Demo!Newest, Demo!Injection, Demo!IsInjective, Injection, IsInjective
<1>3. ASSUME NEW i \in DOMAIN list
      PROVE  \E x \in Demo!Calls : /\ list[i].by = x /\ list[i].ts = Demo!ParseN(invocation[x].now)
                                   /\ invocation[x].now \in Nat \ {0} /\ invocation'[x].now = invocation[x].now
  <2>1. PICK e \in items : list[i] = Demo!Listed(e)
    BY Zenon, <1>2, <1>3
  <2>2. PICK x \in Demo!Calls : invocation[x].now \in DOMAIN found /\ e = Demo!Event(x)
    <3>1. PICK id \in DOMAIN found : e = found[id]
      BY Zenon, <1>i
    <3>2. PICK x \in Demo!Calls : invocation[x].now = id /\ found[id] = Demo!Event(x)
      BY Zenon, <1>f
    <3> QED BY Zenon, <3>1, <3>2
  <2>3. invocation[x].now \in DOMAIN table
    BY Zenon, <1>f, <2>2
  <2>5. invocation[x].now \in Nat /\ invocation[x].now # 0
    BY Zenon, <2>3 DEF TableOK, CallsOK, IsCall
  <2>6. invocation'[x].now = invocation[x].now
    BY Zenon, <2>5 DEF Moves
  <2>7. list[i].by = x /\ list[i].ts = Demo!ParseN(invocation[x].now)
    BY Zenon, <2>1, <2>2, ListedFields
  <2> QED
    BY <2>5, <2>6, <2>7
<1>4. \A i \in DOMAIN list : LET m == list[i].by IN m \in Demo!Calls /\ invocation'[m].now # 0
  BY <1>3
<1>5. ASSUME invocation'[c].fits, NEW d \in invocation'[c].before
      PROVE  Shared(d)' \/ Cardinality({i \in DOMAIN list : list[i] = Demo!Listed(Demo!Event(d)')}) = 1
  <2>1. IsFiniteSet(DOMAIN table) /\ Cardinality(DOMAIN table) \in Nat
    BY FS_CardinalityType DEF TableOK
  <2>2. IsFiniteSet(DOMAIN found) /\ Cardinality(DOMAIN found) \in Nat /\ Cardinality(DOMAIN found) <= Cardinality(DOMAIN table)
    BY <1>f, <2>1, FS_Subset, FS_CardinalityType
  <2>3. Cardinality(DOMAIN found) <= Limit
    BY <1>5, <2>1, <2>2, DemoAssumption
  <2>4. items = {found[id] : id \in DOMAIN found} /\ IsFiniteSet(items)
    BY Zenon, <1>f, <1>i, <2>2, <2>3, ScanIsWhole
  <2>5. IsFiniteSet(shown)
    <3>1. [e \in items |-> Demo!Listed(e)] \in Surjection(items, shown)
      BY DEF Surjection
    <3> QED BY <2>4, <3>1, FS_Surjection
  <2>6. \A e \in shown : Cardinality({i \in DOMAIN list : list[i] = e}) = 1
    <3>1. list \in Injection(1 .. Cardinality(shown), shown)
      BY Zenon, <1>2
    <3> HIDE DEF shown
    <3> QED BY SMTT(40), <2>5, <3>1, ListedOnce
  <2>7. CASE Shared(d)
    BY Zenon, <1>1, <1>5, <2>7
  <2>8. CASE ~Shared(d)
    <3>1. table[invocation[d].now] = Demo!Event(d)
      BY Zenon, <1>1, <1>5, <2>8 DEF TableOK
    <3>2. Demo!Event(d) \in items
      <4>1. invocation[d].now \in DOMAIN found /\ found[invocation[d].now] = table[invocation[d].now]
        BY Zenon, <1>f, <1>1, <1>5
      <4>2. \A id \in DOMAIN found : found[id] \in items
        BY SMTT(40), <2>4
      <4>3. found[invocation[d].now] \in items
        BY Zenon, <4>1, <4>2
      <4> QED BY Zenon, <3>1, <4>1, <4>3
    <3>3. Demo!Listed(Demo!Event(d)) \in shown
      BY Zenon, <3>2
    <3>4. Cardinality({i \in DOMAIN list : list[i] = Demo!Listed(Demo!Event(d))}) = 1
      BY Zenon, <2>6, <3>3
    <3> QED BY Zenon, <1>1, <1>5, <3>4
  <2> QED BY Zenon, <2>7, <2>8
<1>6. ASSUME NEW i \in DOMAIN list, NEW j \in DOMAIN list, i < j
      PROVE  invocation'[list[i].by].now >= invocation'[list[j].by].now - Quantum
  <2>1. PICK x \in Demo!Calls : /\ list[i].by = x /\ list[i].ts = Demo!ParseN(invocation[x].now)
                                /\ invocation[x].now \in Nat /\ invocation'[x].now = invocation[x].now
    BY <1>3, <1>6
  <2>2. PICK y \in Demo!Calls : /\ list[j].by = y /\ list[j].ts = Demo!ParseN(invocation[y].now)
                                /\ invocation[y].now \in Nat /\ invocation'[y].now = invocation[y].now
    BY <1>3, <1>6
  <2> DEFINE a == invocation[x].now
             b == invocation[y].now
  <2>3. a \in Nat /\ b \in Nat /\ Demo!ParseN(a) >= Demo!ParseN(b)
    BY Zenon, <1>2, <1>6, <2>1, <2>2
  <2>7. a = invocation'[list[i].by].now /\ b = invocation'[list[j].by].now
    BY Zenon, <2>1, <2>2
  <2> HIDE DEF a, b
  <2>4. /\ Demo!ParseN(a) \in Int /\ 2 * (Demo!ParseN(a) - a) <= Quantum
        /\ Demo!ParseN(b) \in Int /\ 2 * (b - Demo!ParseN(b)) <= Quantum
    BY SMTT(40), <2>3, ParsedIsNear
  <2>5. a >= b - Quantum
    BY SMTT(40), <2>3, <2>4, DemoAssumption
  <2> QED
    BY Zenon, <2>5, <2>7
<1>7. \A d \in invocation'[c].before : d \in Demo!Calls /\ invocation'[d].recorded
  BY Zenon, <1>1
<1>8. FeedOK(c)'
  <2>1. SUFFICES ASSUME invocation'[c].fits
        PROVE  /\ \A d \in invocation'[c].before :
                    Shared(d)' \/ Cardinality({i \in DOMAIN list : list[i] = Demo!Listed(Demo!Event(d)')}) = 1
               /\ \A i, j \in DOMAIN list :
                    i < j => invocation'[list[i].by].now >= invocation'[list[j].by].now - Quantum
    BY Zenon DEF FeedOK, Demo!Listed, Demo!ParseN
  <2> QED
    BY Zenon, <1>5, <1>6, <2>1
<1> QED
  BY Zenon, <1>4, <1>7, <1>8 DEF ListOK, Demo!Calls

\* Every step of every invocation keeps the invariant.
LEMMA DemoStep ==
  ASSUME DemoInv, [Demo!Next]_(Demo!vars)
  PROVE  DemoInv'
<1> USE DEF DemoInv
\* Enough for a step: the invocations move, the table is right, a new list is right.
<1>1. ASSUME Moves, TableOK', replica' = replica, DOMAIN table \subseteq DOMAIN table',
             NEW c \in Demo!Calls, ~Ended(c), \A d \in Demo!Calls \ {c} : invocation'[d] = invocation[d],
             invocation'[c].pc = "listed" => ListOK(c)'
      PROVE  DemoInv'
  <2>1. ASSUME NEW x \in Demo!Calls, invocation'[x].pc = "listed"
        PROVE  ListOK(x)'
    <3>1. CASE x = c
      BY SMTT(40), <1>1, <2>1, <3>1
    <3>2. CASE x # c
      <4>1. invocation[x].pc = "listed"
        BY SMTT(40), <1>1, <2>1, <3>2
      <4>2. ListOK(x)
        BY <4>1 DEF ListsOK
      <4> QED
        BY SMTT(40), <1>1, <4>1, <4>2, ListsKept
    <3> QED
      BY <3>1, <3>2
  <2>2. ListsOK'
    BY <2>1, Zenon DEF ListsOK, Demo!Calls
  <2>3. ReplicaOK'
    BY Zenon, <1>1, ReplicaKept
  <2> QED
    BY SMTT(40), <1>1, <2>2, <2>3 DEF Moves
<1>2. ASSUME NEW c \in Demo!Calls, NEW r, Demo!Starts(c), Demo!Step(c, r), UNCHANGED <<instant, table, replica>>,
             IsCall(r), r.recorded = FALSE, r.pc # "listed"
      PROVE  DemoInv'
  <2>1. invocation[c].pc = "idle" /\ invocation[c].now = 0 /\ ~Ended(c)
    BY SMTT(40), <1>2 DEF Demo!Starts, Ended, CallsOK, IsCall
  <2>2. Moves /\ invocation'[c] = r /\ \A d \in Demo!Calls \ {c} : invocation'[d] = invocation[d]
    BY Zenon, <1>2, <2>1, StepMoves
  <2>3. \A d \in Demo!Calls : invocation'[d].recorded => invocation[d].recorded
    BY SMTT(40), <1>2, <2>2
  <2>4. TableOK'
    BY SMTT(40), <1>2, <2>2, <2>3, TableKept
  <2> QED
    BY SMTT(40), <1>1, <1>2, <2>1, <2>2, <2>4
<1>3. ASSUME table' = table, invocation' = invocation, instant' \in Nat \ {0}, ReplicaOK' PROVE DemoInv'
  <2>2. Moves
    BY <1>3 DEF Moves, CallsOK
  <2>3. TableOK'
    BY SMTT(40), <1>3, <2>2, TableKept
  <2>4. ASSUME NEW x \in Demo!Calls, invocation'[x].pc = "listed"
        PROVE  ListOK(x)'
    <3>1. invocation[x].pc = "listed"
      BY SMTT(40), <1>3, <2>4
    <3>2. ListOK(x)
      BY <3>1 DEF ListsOK
    <3> QED
      BY SMTT(40), <2>2, <3>1, <3>2, ListsKept
  <2>5. ListsOK'
    BY <2>4, Zenon DEF ListsOK, Demo!Calls
  <2> QED
    BY <1>3, <2>2, <2>3, <2>5 DEF Moves
<1>10. CASE Demo!Tick \/ UNCHANGED Demo!vars
  <2>1. table' = table /\ replica' = replica /\ invocation' = invocation /\ instant' \in Nat \ {0}
    BY <1>10 DEF Demo!Tick, Demo!vars, CallsOK
  <2>2. ReplicaOK'
    BY <2>1 DEF ReplicaOK, Demo!Event, Demo!Calls
  <2> QED
    BY Zenon, <1>3, <2>1, <2>2
<1>11. ASSUME NEW id \in DOMAIN table, Demo!CatchUp(id) PROVE DemoInv'
  <2>1. /\ table' = table /\ invocation' = invocation /\ instant' \in Nat \ {0}
        /\ replica' = [x \in DOMAIN replica \cup {id} |-> IF x = id THEN table[id] ELSE replica[x]]
    BY <1>11 DEF Demo!CatchUp, CallsOK
  <2>2. /\ DOMAIN replica' = DOMAIN replica \cup {id}
        /\ \A x \in DOMAIN replica' : replica'[x] = IF x = id THEN table[id] ELSE replica[x]
    BY Zenon, <2>1
  <2>3. \A x \in DOMAIN replica' :
          \E c \in Demo!Calls : invocation[c].pc = "answered" /\ invocation[c].now = x /\ replica'[x] = Demo!Event(c)
    BY <2>2 DEF ReplicaOK, TableOK
  <2>4. \A c : Demo!Event(c)' = Demo!Event(c)
    BY <2>1 DEF Demo!Event
  <2>5. ReplicaOK'
    BY Zenon, <2>1, <2>2, <2>3, <2>4 DEF ReplicaOK, Demo!Calls
  <2> QED
    BY Zenon, <1>3, <2>1, <2>5
<1>4. ASSUME NEW c \in Demo!Calls, Demo!Unparsable(c) PROVE DemoInv'
  <2>1. IsCall([Demo!Idle EXCEPT !.pc = "failed"])
    BY DEF IsCall, Demo!Idle
  <2> QED
    BY Zenon, <1>2, <1>4, <2>1 DEF Demo!Unparsable, Demo!Idle
<1>5. ASSUME NEW c \in Demo!Calls, Demo!Trigger(c) PROVE DemoInv'
  <2>1. IsCall([Demo!Idle EXCEPT !.pc = "fetching", !.now = instant])
    BY Zenon DEF IsCall, Demo!Idle, CallsOK
  <2> QED
    BY Zenon, <1>2, <1>5, <2>1 DEF Demo!Trigger, Demo!Idle
<1>6. ASSUME NEW c \in Demo!Calls, Demo!ListFails(c) PROVE DemoInv'
  <2>1. IsCall([Demo!Idle EXCEPT !.pc = "answered"])
    BY SMTT(40) DEF IsCall, Demo!Idle
  <2> QED
    BY Zenon, <1>2, <1>6, <2>1 DEF Demo!ListFails, Demo!Idle
<1>7. ASSUME NEW c \in Demo!Calls, Demo!Fetch(c) PROVE DemoInv'
  <2>1. PICK w \in BOOLEAN : Demo!Step(c, [invocation[c] EXCEPT !.pc = "putting", !.weather = w])
    BY Zenon, <1>7 DEF Demo!Fetch
  <2> DEFINE r == [invocation[c] EXCEPT !.pc = "putting", !.weather = w]
  <2>2. invocation[c].pc = "fetching" /\ IsCall(invocation[c]) /\ ~Ended(c) /\ UNCHANGED <<instant, table, replica>>
    BY <1>7 DEF Demo!Fetch, Ended, CallsOK
  <2>3. IsCall(r) /\ r.pc = "putting" /\ r.now = invocation[c].now /\ r.recorded = FALSE
    BY Zenon, <2>2 DEF IsCall, Demo!Idle
  <2> HIDE DEF r
  <2>4. Moves /\ invocation'[c] = r /\ \A d \in Demo!Calls \ {c} : invocation'[d] = invocation[d]
    BY Zenon, <2>1, <2>2, <2>3, StepMoves DEF r
  <2>5. TableOK'
    BY <2>2, <2>3, <2>4, TableKept
  <2> QED
    BY SMTT(40), <1>1, <2>2, <2>3, <2>4, <2>5
<1>8. ASSUME NEW c \in Demo!Calls, Demo!PutEvent(c) PROVE DemoInv'
  <2>1. PICK told \in BOOLEAN :
          /\ told => table' = Demo!Stored(c)
          /\ table' \in {table, Demo!Stored(c)}
          /\ Demo!Step(c, [invocation[c] EXCEPT !.pc = "answered", !.recorded = told])
    <3>1. invocation[c].recorded = FALSE /\ IsCall(invocation[c])
      BY <1>8 DEF Demo!PutEvent, CallsOK, IsCall
    <3>2. [invocation[c] EXCEPT !.pc = "answered"] = [invocation[c] EXCEPT !.pc = "answered", !.recorded = FALSE]
      BY Zenon, <3>1 DEF IsCall
    <3> QED
      BY Zenon, <1>8, <3>2 DEF Demo!PutEvent
  <2> DEFINE r == [invocation[c] EXCEPT !.pc = "answered", !.recorded = told]
  <2>2. invocation[c].pc = "putting" /\ IsCall(invocation[c]) /\ ~Ended(c) /\ UNCHANGED <<instant, replica>>
    BY <1>8 DEF Demo!PutEvent, Ended, CallsOK
  <2>3. /\ IsCall(r) /\ r.pc = "answered" /\ r.now = invocation[c].now
        /\ r.weather = invocation[c].weather /\ r.recorded = told
    BY Zenon, <2>2 DEF IsCall, Demo!Idle
  <2> HIDE DEF r
  <2>4. Moves /\ invocation'[c] = r /\ \A d \in Demo!Calls \ {c} : invocation'[d] = invocation[d]
    BY Zenon, <2>1, <2>2, <2>3, StepMoves DEF r
  <2>5. CASE table' = Demo!Stored(c)
    <3>1. TableOK'
      BY SMTT(40), <2>2, <2>3, <2>4, <2>5, TableStored
    <3>2. DOMAIN table \subseteq DOMAIN table'
      BY Zenon, <2>5 DEF Demo!Stored
    <3> QED
      BY Zenon, <1>1, <2>2, <2>3, <2>4, <3>1, <3>2
  <2>6. CASE table' = table /\ ~told
    <3>1. \A d \in Demo!Calls : invocation'[d].recorded => invocation[d].recorded
      BY SMTT(40), <2>3, <2>4, <2>6
    <3>2. TableOK'
      BY SMTT(40), <2>4, <2>6, <3>1, TableKept
    <3> QED
      BY Zenon, <1>1, <2>2, <2>3, <2>4, <2>6, <3>2
  <2> QED
    BY SMTT(40), <2>1, <2>5, <2>6
<1>9. ASSUME NEW c \in Demo!Calls, Demo!ListRecent(c) PROVE DemoInv'
  <2> DEFINE R(list) == [Demo!Idle EXCEPT !.pc = "listed", !.list = list,
                    !.saw = {table[id] : id \in Demo!CaughtUp},
                    !.before = {d \in Demo!Calls : invocation[d].recorded /\ Demo!EventId(invocation[d].now) \in Demo!CaughtUp},
                    !.fits = Demo!Cardinality(DOMAIN table) <= Limit]
  <2>11. PICK fresh \in SUBSET DOMAIN table :
           \E items \in Demo!Scans(Demo!Found(fresh)) :
             \E list \in Demo!Newest({Demo!Listed(e) : e \in items}) : Demo!Step(c, R(list))
    BY Zenon, <1>9 DEF Demo!ListRecent
  <2>12. PICK items \in Demo!Scans(Demo!Found(fresh)) :
           \E list \in Demo!Newest({Demo!Listed(e) : e \in items}) : Demo!Step(c, R(list))
    BY Zenon, <2>11
  <2>8. PICK list \in Demo!Newest({Demo!Listed(e) : e \in items}) : Demo!Step(c, R(list))
    BY Zenon, <2>12
  <2> DEFINE r == R(list)
  <2>2. invocation[c].pc = "idle" /\ invocation[c].now = 0 /\ ~Ended(c) /\ UNCHANGED <<instant, table, replica>>
    BY <1>9 DEF Demo!ListRecent, Demo!Starts, Ended, CallsOK, IsCall
  <2>3. /\ IsCall(r) /\ r.recorded = FALSE /\ r.list = list /\ r.pc = "listed"
        /\ r.before = {d \in Demo!Calls : invocation[d].recorded /\ Demo!EventId(invocation[d].now) \in Demo!CaughtUp}
        /\ r.fits = (Demo!Cardinality(DOMAIN table) <= Limit)
    BY Zenon DEF IsCall, Demo!Idle
  <2> HIDE DEF r, R
  <2>9. Demo!Step(c, r)
    BY <2>8 DEF r
  <2>4. Moves /\ invocation'[c] = r /\ \A d \in Demo!Calls \ {c} : invocation'[d] = invocation[d]
    BY Zenon, <2>2, <2>3, <2>9, StepMoves
  <2>5. \A d \in Demo!Calls : invocation'[d].recorded => invocation[d].recorded
    BY <2>3, <2>4
  <2>6. TableOK'
    BY SMTT(40), <2>2, <2>4, <2>5, TableKept
  <2>10. /\ invocation'[c].list = list
         /\ invocation'[c].fits => Cardinality(DOMAIN table) <= Limit
         /\ invocation'[c].before = {d \in Demo!Calls : invocation[d].recorded /\ Demo!EventId(invocation[d].now) \in Demo!CaughtUp}
    BY Zenon, <2>3, <2>4, SameCardinality
  <2>7. ListOK(c)'
    BY Zenon, <2>2, <2>4, <2>10, NewList
  <2> QED
    BY Zenon, <1>1, <2>2, <2>4, <2>6, <2>7
<1> QED
  BY Zenon, <1>4, <1>5, <1>6, <1>7, <1>8, <1>9, <1>10, <1>11 DEF Demo!Next

\* For any number of invocations, any limit and any rounding: while the table fits the
\* limit the feed lists every event recorded before the scan that has reached every copy
\* of the table, once, and in order up to the rounding, unless another invocation took
\* the same instant for its id.
THEOREM RecordedEventsAreListed == ClientsSpec => []FeedIsComplete
<1>1. Demo!Init => DemoInv
  <2> SUFFICES ASSUME Demo!Init PROVE DemoInv
    OBVIOUS
  <2>1. \A c \in Demo!Calls : invocation[c] = Demo!Idle
    BY SMTT(40) DEF Demo!Init
  <2>2. IsCall(Demo!Idle) /\ Demo!Idle.pc = "idle" /\ Demo!Idle.recorded = FALSE
    BY DEF IsCall, Demo!Idle
  <2>3. CallsOK
    BY <2>1, <2>2 DEF Demo!Init, CallsOK
  <2>4. DOMAIN table = {} /\ table = [id \in DOMAIN table |-> table[id]]
    BY DEF Demo!Init
  <2>5. TableOK
    BY SMTT(40), <2>1, <2>2, <2>4, FS_EmptySet DEF TableOK
  <2>6. ListsOK
    BY <2>1, <2>2 DEF ListsOK
  <2>7. ReplicaOK
    BY DEF Demo!Init, ReplicaOK
  <2> QED
    BY <2>3, <2>5, <2>6, <2>7 DEF DemoInv
<1>2. DemoInv => Demo!FeedIsComplete
  <2> SUFFICES ASSUME DemoInv PROVE \A c \in Demo!Calls : FeedOK(c)
    BY SameCardinality, Zenon DEF Demo!FeedIsComplete, FeedOK, Shared
  <2> QED
    BY Zenon DEF DemoInv, ListsOK, ListOK, FeedOK
<1>3. [ClientsNext]_clientVars => [Demo!Next]_(Demo!vars)
  BY DEF ClientsNext, clientVars, demoVars, Demo!vars
<1>4. ClientsInit => DemoInv
  BY <1>1 DEF ClientsInit
<1>5. DemoInv => FeedIsComplete
  BY <1>2 DEF FeedIsComplete
<1> QED
  BY <1>3, <1>4, <1>5, DemoStep, PTL DEF ClientsSpec
==================================================================================
