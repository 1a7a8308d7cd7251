---------------------------- MODULE DeviceShadow ----------------------------
(***************************************************************************)
(* The shadow of one device in DynamoDB: DeviceShadowStore                 *)
(* (dynamodb/src/device_shadow_store.cc) under the gateway's               *)
(* UpsertReportedWithRetry (gateway/src/main.cc), called by the handlers   *)
(* that hold a stream of that device: a reconnected device has two for a   *)
(* while, and so have two gateways.                                        *)
(*                                                                         *)
(* DynamoDB is external: it evaluates the condition of a PutItem and       *)
(* stores the item in one step.  A request or its response may be lost,    *)
(* and a request given up after the timeout may still be carried out       *)
(* later.  Upsert u is the u-th call; its report was built before the call.*)
(***************************************************************************)
EXTENDS Naturals, Sequences, FiniteSets

CONSTANTS Writers,      \* handlers that upsert the device's shadow
          MaxAttempts,  \* kMaxAttempts
          MaxUpserts    \* bound: heartbeats handled

ASSUME ShadowAssumption == MaxAttempts \in Nat \ {0} /\ MaxUpserts \in Nat

VARIABLES
    version,   \* version of the stored item, 0 when there is none
    report,    \* the upsert whose report is stored, 0 when there is none
    pc,        \* pc[w]: "idle", "get", "put"
    upsert,    \* upsert[w]: the call writer w is in
    attempt,   \* attempt[w]
    expected,  \* expected_version[w]
    upserts,   \* calls so far
    inflight,  \* PutItems whose callers have given up waiting
    returned,  \* returned[u]: "none", "success", "error", "gave up"
    writes     \* history: the PutItems carried out, [upsert, read]

vars == <<version, report, pc, upsert, attempt, expected, upserts, inflight,
          returned, writes>>
store == <<version, report, writes>>

Upserts == 1 .. MaxUpserts

Init ==
    /\ version = 0 /\ report = 0 /\ writes = << >>
    /\ pc = [w \in Writers |-> "idle"] /\ upsert = [w \in Writers |-> 0]
    /\ attempt = [w \in Writers |-> 0] /\ expected = [w \in Writers |-> 0]
    /\ upserts = 0 /\ inflight = {}
    /\ returned = [u \in Upserts |-> "none"]

Begin(w) ==
    /\ pc[w] = "idle" /\ upserts < MaxUpserts
    /\ upserts' = upserts + 1
    /\ upsert' = [upsert EXCEPT ![w] = upserts']
    /\ attempt' = [attempt EXCEPT ![w] = 0]
    /\ pc' = [pc EXCEPT ![w] = "get"]
    /\ UNCHANGED <<store, expected, inflight, returned>>

\* GetReported: the stored version, an older one (the GetItem does not ask for a
\* consistent read), or none on any error.  An absent item and a failed read both
\* become expected_version 0.
Get(w) ==
    /\ pc[w] = "get"
    /\ \E read \in 0 .. version : expected' = [expected EXCEPT ![w] = read]
    /\ pc' = [pc EXCEPT ![w] = "put"]
    /\ UNCHANGED <<store, upsert, attempt, upserts, inflight, returned>>

\* A create that does not insist on there being no item.
LaxCondition(read) == read = 0 \/ version = read

\* The condition of the PutItem: attribute_not_exists for version 0, which no
\* stored item has, and version = :v otherwise.
Condition(read) == version = read

\* DynamoDB carries out a PutItem: the item's version is the read one plus 1.
Store(u, read) ==
    /\ Condition(read)
    /\ version' = read + 1
    /\ report' = u
    /\ writes' = Append(writes, [upsert |-> u, read |-> read])

Finish(w, how) ==
    /\ pc' = [pc EXCEPT ![w] = "idle"]
    /\ returned' = [returned EXCEPT ![upsert[w]] = how]
    /\ UNCHANGED <<upsert, attempt, expected, upserts>>

\* The item is stored and the answer comes back (200), or is lost.
PutStored(w) ==
    /\ pc[w] = "put"
    /\ Store(upsert[w], expected[w])
    /\ \E how \in {"success", "error"} : Finish(w, how)
    /\ UNCHANGED inflight

\* A gateway that takes a conflict for its own write.
ContentPutConflict(w) ==
    /\ pc[w] = "put" /\ ~Condition(expected[w])
    /\ Finish(w, "success")
    /\ UNCHANGED <<store, inflight>>

\* ConditionalCheckFailedException: read again, at most kMaxAttempts times.
PutConflict(w) ==
    /\ pc[w] = "put" /\ ~Condition(expected[w])
    /\ attempt' = [attempt EXCEPT ![w] = @ + 1]
    /\ IF attempt'[w] < MaxAttempts
         THEN pc' = [pc EXCEPT ![w] = "get"] /\ UNCHANGED returned
         ELSE /\ pc' = [pc EXCEPT ![w] = "idle"]
              /\ returned' = [returned EXCEPT ![upsert[w]] = "gave up"]
    /\ UNCHANGED <<store, upsert, expected, upserts, inflight>>

\* A gateway that tries again after an error, not only after a conflict.
RetryingPutError(w) ==
    /\ pc[w] = "put"
    /\ inflight' = inflight \cup
                     {[upsert |-> upsert[w], read |-> expected[w]]}
    /\ attempt' = [attempt EXCEPT ![w] = @ + 1]
    /\ attempt'[w] < MaxAttempts
    /\ pc' = [pc EXCEPT ![w] = "get"]
    /\ UNCHANGED <<store, upsert, expected, upserts, returned>>

\* Any other answer, or none within the timeout, ends the call; the request
\* may still reach DynamoDB, now or later, or never.
PutError(w) ==
    /\ pc[w] = "put"
    /\ inflight' = inflight \cup
                     {[upsert |-> upsert[w], read |-> expected[w]]}
    /\ Finish(w, "error")
    /\ UNCHANGED store

StoreLate ==
    \E r \in inflight :
        /\ inflight' = inflight \ {r}
        /\ Store(r.upsert, r.read)
        /\ UNCHANGED <<pc, upsert, attempt, expected, upserts, returned>>

Next ==
    \/ \E w \in Writers : Begin(w) \/ Get(w) \/ PutStored(w)
                             \/ PutConflict(w) \/ PutError(w)
    \/ StoreLate

Spec == Init /\ [][Next]_vars

-----------------------------------------------------------------------------
(* The variables have their types, and no call makes more than kMaxAttempts *)
(* attempts.                                                               *)
TypeOK ==
    /\ version \in Nat /\ report \in 0 .. MaxUpserts
    /\ pc \in [Writers -> {"idle", "get", "put"}]
    /\ upsert \in [Writers -> 0 .. MaxUpserts]
    /\ attempt \in [Writers -> 0 .. MaxAttempts]
    /\ expected \in [Writers -> Nat]
    /\ upserts \in 0 .. MaxUpserts
    /\ inflight \subseteq [upsert : Upserts, read : Nat]
    /\ returned \in [Upserts -> {"none", "success", "error", "gave up"}]
    /\ writes \in Seq([upsert : Upserts, read : Nat])

(* Two writers racing to update the same shadow cannot clobber each other  *)
(* unknowingly (device_shadow_store.h): the writes form one chain, each    *)
(* made by a caller that had read its predecessor's version, even when a   *)
(* failed read was taken for an absent item or the request arrived late.   *)
WritesFormAChain ==
    /\ version = Len(writes)
    /\ \A i \in DOMAIN writes : writes[i].read = i - 1
    /\ writes # << >> => report = writes[Len(writes)].upsert

(* A report is stored at most once, however its call ended: the call is    *)
(* repeated only after a conflict, which proves that nothing was stored.   *)
StoredAtMostOnce ==
    \A i, j \in DOMAIN writes : writes[i].upsert = writes[j].upsert => i = j

(* What the caller is told is true: success means stored, and giving up    *)
(* after conflicts means not stored and never to be stored.                *)
ReturnIsTrue ==
    \A u \in Upserts :
        LET stored == \E i \in DOMAIN writes : writes[i].upsert = u
        IN  /\ returned[u] = "success" => stored
            /\ returned[u] = "gave up" =>
                 ~stored /\ \A r \in inflight : r.upsert # u
=============================================================================
