----------------------------- MODULE ServicesProofs -----------------------------
(***************************************************************************)
(* The properties of Services for every value of the                       *)
(* constants: the shadow store with any writers, attempts and upserts; the *)
(* token buckets and the alert engine with any capacity, rate, thresholds  *)
(* and readings; the manifest tool with any number of commands and         *)
(* mishaps; the producer with any slice, rates and delays.                 *)
(***************************************************************************)
EXTENDS Services, SequenceTheorems, TLAPS

(* Device shadow. *)

\* Storing keeps the chain: the condition is that the stored version, which is
\* the length of the chain, is the one that was read.
LEMMA StoreExtendsChain ==
  ASSUME NEW u \in Upserts, NEW read \in Nat,
         version \in Nat, writes \in Seq([upsert : Upserts, read : Nat]),
         WritesFormAChain, Store(u, read)
  PROVE  /\ version' \in Nat
         /\ report' \in 0 .. MaxUpserts
         /\ writes' \in Seq([upsert : Upserts, read : Nat])
         /\ WritesFormAChain'
<1> DEFINE w == [upsert |-> u, read |-> read]
<1>1. w \in [upsert : Upserts, read : Nat] /\ w.read = read /\ w.upsert = u
  OBVIOUS
<1>2. version = read /\ version' = read + 1 /\ report' = u
      /\ writes' = Append(writes, w)
  BY DEF Store, Condition
<1>3. version = Len(writes) /\ \A i \in DOMAIN writes : writes[i].read = i - 1
  BY DEF WritesFormAChain
<1> HIDE DEF w
<1>4. /\ writes' \in Seq([upsert : Upserts, read : Nat])
      /\ Len(writes') = Len(writes) + 1
      /\ DOMAIN writes' = 1 .. (Len(writes) + 1)
      /\ DOMAIN writes = 1 .. Len(writes)
      /\ \A i \in 1 .. Len(writes) : writes'[i] = writes[i]
      /\ writes'[Len(writes) + 1] = w
  BY <1>1, <1>2
<1>5. \A i \in DOMAIN writes' : writes'[i].read = i - 1
  <2> TAKE i \in DOMAIN writes'
  <2>1. Len(writes) \in Nat
    BY <1>3
  <2>2. CASE i \in 1 .. Len(writes)
    BY <2>2, <1>3, <1>4
  <2>3. CASE i = Len(writes) + 1
    BY <2>1, <2>3, <1>1, <1>2, <1>3, <1>4
  <2> QED BY <2>1, <2>2, <2>3, <1>4
<1>6. version' = Len(writes') /\ version' \in Nat
  BY <1>2, <1>3, <1>4
<1>7. report' = writes'[Len(writes')].upsert
  BY <1>1, <1>2, <1>4
<1>8. report' \in 0 .. MaxUpserts
  BY <1>2 DEF Upserts
<1> QED BY <1>4, <1>5, <1>6, <1>7, <1>8 DEF WritesFormAChain

\* The inductive invariant: with the types, a writer in a call has a number
\* and an attempt left.
InCall == \A w \in Writers :
            pc[w] # "idle" => upsert[w] \in Upserts /\ attempt[w] < MaxAttempts
ShadowInv == TypeOK /\ InCall /\ WritesFormAChain

\* The empty table is a chain of no writes.
LEMMA ShadowInitially == Init => ShadowInv
<1> SUFFICES ASSUME Init PROVE ShadowInv
  OBVIOUS
<1>1. writes \in Seq([upsert : Upserts, read : Nat]) /\ Len(writes) = 0
      /\ DOMAIN writes = {}
  BY DEF Init
<1>2. TypeOK
  BY <1>1, ShadowAssumption DEF Init, TypeOK
<1>3. WritesFormAChain
  BY <1>1 DEF Init, WritesFormAChain
<1>4. \A w \in Writers : pc[w] = "idle"
  BY DEF Init
<1> QED BY <1>2, <1>3, <1>4 DEF ShadowInv, InCall

\* A call that ends leaves the callers' variables well typed.
LEMMA FinishKeepsTypes ==
  ASSUME NEW w \in Writers, NEW how \in {"success", "error", "gave up"},
         ShadowInv, pc[w] = "put", Finish(w, how)
  PROVE  /\ pc' \in [Writers -> {"idle", "get", "put"}]
         /\ returned' \in [Upserts -> {"none", "success", "error", "gave up"}]
         /\ InCall'
         /\ UNCHANGED <<upsert, attempt, expected, upserts>>
<1>1. upsert[w] \in Upserts
  BY Zenon DEF ShadowInv, InCall
<1>2. /\ pc \in [Writers -> {"idle", "get", "put"}]
      /\ returned \in [Upserts -> {"none", "success", "error", "gave up"}]
      /\ InCall
  BY Zenon DEF ShadowInv, TypeOK
<1>3. /\ pc' = [pc EXCEPT ![w] = "idle"]
      /\ returned' = [returned EXCEPT ![upsert[w]] = how]
      /\ UNCHANGED <<upsert, attempt, expected, upserts>>
  BY Zenon DEF Finish
<1>4. InCall'
  BY Zenon, <1>2, <1>3 DEF InCall
<1> QED BY Zenon, <1>1, <1>2, <1>3, <1>4

\* Each step of a caller, of DynamoDB and of a delayed request keeps the chain.
LEMMA ShadowStep == ShadowInv /\ [Next]_vars => ShadowInv'
<1> SUFFICES ASSUME ShadowInv, [Next]_vars PROVE ShadowInv'
  OBVIOUS
<1>t. TypeOK /\ InCall /\ WritesFormAChain
  BY DEF ShadowInv
<1>a. MaxAttempts \in Nat \ {0} /\ MaxUpserts \in Nat
  BY ShadowAssumption
<1>u. /\ version \in Nat /\ report \in 0 .. MaxUpserts
      /\ upserts \in 0 .. MaxUpserts
      /\ inflight \subseteq [upsert : Upserts, read : Nat]
      /\ writes \in Seq([upsert : Upserts, read : Nat])
  BY Zenon, <1>t DEF TypeOK
<1>f. /\ pc \in [Writers -> {"idle", "get", "put"}]
      /\ upsert \in [Writers -> 0 .. MaxUpserts]
      /\ attempt \in [Writers -> 0 .. MaxAttempts]
      /\ expected \in [Writers -> Nat]
      /\ returned \in [Upserts -> {"none", "success", "error", "gave up"}]
  BY Zenon, <1>t DEF TypeOK
<1>s. ASSUME UNCHANGED store
      PROVE  /\ version' \in Nat /\ report' \in 0 .. MaxUpserts
             /\ writes' \in Seq([upsert : Upserts, read : Nat])
             /\ WritesFormAChain'
  BY <1>s, <1>t, <1>u DEF store, WritesFormAChain
<1>1. ASSUME NEW w \in Writers, Begin(w) PROVE ShadowInv'
  <2>1. /\ upserts < MaxUpserts /\ upserts' = upserts + 1
        /\ upsert' = [upsert EXCEPT ![w] = upserts']
        /\ attempt' = [attempt EXCEPT ![w] = 0]
        /\ pc' = [pc EXCEPT ![w] = "get"]
        /\ UNCHANGED <<store, expected, inflight, returned>>
    BY <1>1 DEF Begin
  <2>2. upserts' \in Upserts /\ upserts' \in 0 .. MaxUpserts
    BY <2>1, <1>a, <1>u DEF Upserts
  <2>3. 0 \in 0 .. MaxAttempts /\ 0 < MaxAttempts
    BY <1>a
  <2>4. /\ upsert' \in [Writers -> 0 .. MaxUpserts]
        /\ attempt' \in [Writers -> 0 .. MaxAttempts]
        /\ pc' \in [Writers -> {"idle", "get", "put"}]
    BY Zenon, <2>1, <2>2, <2>3, <1>f
  <2>5. InCall'
    BY Zenon, <2>1, <2>2, <2>3, <1>t, <1>f DEF InCall
  <2> QED BY Zenon, <2>1, <2>2, <2>4, <2>5, <1>s, <1>u, <1>f DEF TypeOK, ShadowInv
<1>2. ASSUME NEW w \in Writers, Get(w) PROVE ShadowInv'
  <2>1. PICK read \in 0 .. version : expected' = [expected EXCEPT ![w] = read]
    BY Zenon, <1>2 DEF Get
  <2>2. read \in Nat
    BY <1>u
  <2>3. expected' \in [Writers -> Nat]
    BY Zenon, <2>1, <2>2, <1>f
  <2>4. /\ pc[w] = "get" /\ pc' = [pc EXCEPT ![w] = "put"]
        /\ UNCHANGED <<store, upsert, attempt, upserts, inflight, returned>>
    BY <1>2 DEF Get
  <2>5. pc' \in [Writers -> {"idle", "get", "put"}] /\ InCall'
    BY Zenon, <2>4, <1>t, <1>f DEF InCall
  <2> QED BY Zenon, <2>3, <2>4, <2>5, <1>s, <1>u, <1>f DEF TypeOK, ShadowInv
<1>3. ASSUME NEW w \in Writers, PutStored(w) PROVE ShadowInv'
  <2>1. pc[w] = "put" /\ Store(upsert[w], expected[w]) /\ UNCHANGED inflight
    BY <1>3 DEF PutStored
  <2>2. upsert[w] \in Upserts /\ expected[w] \in Nat
    BY Zenon, <2>1, <1>t, <1>f DEF InCall
  <2>3. /\ version' \in Nat /\ report' \in 0 .. MaxUpserts
        /\ writes' \in Seq([upsert : Upserts, read : Nat])
        /\ WritesFormAChain'
    BY Zenon, <1>t, <1>u, <2>1, <2>2, StoreExtendsChain
  <2>4. PICK how \in {"success", "error"} : Finish(w, how)
    BY <1>3 DEF PutStored
  <2>5. /\ pc' \in [Writers -> {"idle", "get", "put"}]
        /\ returned' \in [Upserts -> {"none", "success", "error", "gave up"}]
        /\ InCall' /\ UNCHANGED <<upsert, attempt, expected, upserts>>
    BY Zenon, <2>1, <2>4, FinishKeepsTypes
  <2> QED BY Zenon, <2>1, <2>3, <2>5, <1>u, <1>f DEF TypeOK, ShadowInv
<1>4. ASSUME NEW w \in Writers, PutConflict(w) PROVE ShadowInv'
  <2>1. /\ pc[w] = "put" /\ attempt' = [attempt EXCEPT ![w] = attempt[w] + 1]
        /\ UNCHANGED <<store, upsert, expected, upserts, inflight>>
    BY Zenon, <1>4 DEF PutConflict
  <2>2. upsert[w] \in Upserts /\ attempt[w] < MaxAttempts
    BY <2>1, <1>t DEF InCall
  <2>3. attempt[w] + 1 \in 0 .. MaxAttempts /\ attempt'[w] = attempt[w] + 1
    <3>1. attempt[w] \in 0 .. MaxAttempts /\ attempt'[w] = attempt[w] + 1
      BY Zenon, <2>1, <1>f
    <3> QED BY <3>1, <2>2, <1>a
  <2>4. attempt' \in [Writers -> 0 .. MaxAttempts]
    BY Zenon, <2>1, <2>3, <1>f
  <2>5. CASE attempt'[w] < MaxAttempts
    <3>1. pc' = [pc EXCEPT ![w] = "get"] /\ UNCHANGED returned
      BY <1>4, <2>5 DEF PutConflict
    <3>2. pc' \in [Writers -> {"idle", "get", "put"}] /\ InCall'
      BY Zenon, <3>1, <2>1, <2>2, <2>5, <1>t, <1>f DEF InCall
    <3> QED BY Zenon, <3>1, <3>2, <2>1, <2>4, <1>s, <1>u, <1>f DEF TypeOK, ShadowInv
  <2>6. CASE ~(attempt'[w] < MaxAttempts)
    <3>1. /\ pc' = [pc EXCEPT ![w] = "idle"]
          /\ returned' = [returned EXCEPT ![upsert[w]] = "gave up"]
      BY Zenon, <1>4, <2>6 DEF PutConflict
    <3>2. /\ pc' \in [Writers -> {"idle", "get", "put"}]
          /\ returned' \in [Upserts -> {"none", "success", "error", "gave up"}]
          /\ InCall'
      BY Zenon, <3>1, <2>1, <2>2, <1>t, <1>f DEF InCall
    <3> QED BY Zenon, <3>2, <2>1, <2>4, <1>s, <1>u, <1>f DEF TypeOK, ShadowInv
  <2> QED BY <2>5, <2>6
<1>5. ASSUME NEW w \in Writers, PutError(w) PROVE ShadowInv'
  <2> DEFINE r == [upsert |-> upsert[w], read |-> expected[w]]
  <2>1. /\ pc[w] = "put" /\ inflight' = inflight \cup {r}
        /\ Finish(w, "error") /\ UNCHANGED store
    BY <1>5 DEF PutError
  <2>2. r \in [upsert : Upserts, read : Nat]
    <3>1. upsert[w] \in Upserts /\ expected[w] \in Nat
      BY Zenon, <2>1, <1>t, <1>f DEF InCall
    <3> QED BY <3>1
  <2> HIDE DEF r
  <2>3. inflight' \subseteq [upsert : Upserts, read : Nat]
    BY <1>u, <2>1, <2>2
  <2>4. /\ pc' \in [Writers -> {"idle", "get", "put"}]
        /\ returned' \in [Upserts -> {"none", "success", "error", "gave up"}]
        /\ InCall' /\ UNCHANGED <<upsert, attempt, expected, upserts>>
    BY Zenon, <2>1, FinishKeepsTypes
  <2> QED BY Zenon, <2>1, <2>3, <2>4, <1>s, <1>u, <1>f DEF TypeOK, ShadowInv
<1>6. ASSUME StoreLate PROVE ShadowInv'
  <2>1. PICK r \in inflight :
          /\ inflight' = inflight \ {r}
          /\ Store(r.upsert, r.read)
          /\ UNCHANGED <<pc, upsert, attempt, expected, upserts, returned>>
    BY <1>6 DEF StoreLate
  <2>2. r.upsert \in Upserts /\ r.read \in Nat
    BY <1>u
  <2>3. /\ version' \in Nat /\ report' \in 0 .. MaxUpserts
        /\ writes' \in Seq([upsert : Upserts, read : Nat])
        /\ WritesFormAChain'
    BY Zenon, <1>t, <1>u, <2>1, <2>2, StoreExtendsChain
  <2>4. InCall'
    BY <1>t, <2>1 DEF InCall
  <2> QED BY Zenon, <2>1, <2>3, <2>4, <1>u, <1>f DEF TypeOK, ShadowInv
<1>7. CASE UNCHANGED vars
  <2>1. UNCHANGED store /\ UNCHANGED <<pc, upsert, attempt, expected, upserts,
                                       inflight, returned>>
    BY <1>7 DEF vars, store
  <2>2. InCall'
    BY <2>1, <1>t DEF InCall
  <2> QED BY Zenon, <2>1, <2>2, <1>s, <1>u, <1>f DEF TypeOK, ShadowInv
<1> QED BY <1>1, <1>2, <1>3, <1>4, <1>5, <1>6, <1>7 DEF Next

\* Every variable keeps its type; no call makes more than kMaxAttempts attempts.
THEOREM ShadowTypeCorrect == Spec => []TypeOK
<1>1. ShadowInv => TypeOK
  BY DEF ShadowInv
<1> QED BY <1>1, ShadowInitially, ShadowStep, PTL DEF Spec

\* Two gateways, or two handlers of one, never overwrite a shadow version they
\* have not read: for any number of writers, attempts and upserts, with failed
\* reads, lost answers and requests carried out late.
THEOREM ShadowWritesFormAChain == Spec => []WritesFormAChain
<1>1. ShadowInv => WritesFormAChain
  BY DEF ShadowInv
<1> QED BY <1>1, ShadowInitially, ShadowStep, PTL DEF Spec

\* Upsert u has been carried out; it has left its caller.
IsStored(u) == \E i \in DOMAIN writes : writes[i].upsert = u
IsSent(u) == IsStored(u) \/ \E r \in inflight : r.upsert = u

\* A call in progress is its writer's own, has told nobody anything and has left no
\* request behind: after a conflict nothing was stored, and after anything else it ends.
CallsOK ==
  /\ \A w \in Writers : pc[w] # "idle" =>
       /\ upsert[w] <= upserts /\ returned[upsert[w]] = "none" /\ ~IsSent(upsert[w])
       /\ \A v \in Writers \ {w} : pc[v] # "idle" => upsert[v] # upsert[w]
  /\ \A u \in Upserts : IsSent(u) \/ returned[u] # "none" => u <= upserts

\* A request that was given up is the only one of its call, and not yet carried out.
RequestsOK ==
  \A r \in inflight :
    /\ ~IsStored(r.upsert)
    /\ \A s \in inflight : s.upsert = r.upsert => s = r

\* The inductive invariant for what becomes of each upsert.
OutcomeInv == ShadowInv /\ CallsOK /\ RequestsOK /\ StoredAtMostOnce /\ ReturnIsTrue

\* A PutItem that is carried out stores its upsert and no other.
LEMMA StoreStores ==
  ASSUME NEW u \in Upserts, NEW read \in Nat,
         writes \in Seq([upsert : Upserts, read : Nat]), Store(u, read)
  PROVE  /\ \A v \in Upserts : IsStored(v)' <=> IsStored(v) \/ v = u
         /\ StoredAtMostOnce /\ ~IsStored(u) => StoredAtMostOnce'
<1> DEFINE w == [upsert |-> u, read |-> read]
<1>1. w.upsert = u /\ writes' = Append(writes, w)
  BY DEF Store
<1> HIDE DEF w
<1>2. /\ DOMAIN writes = 1 .. Len(writes) /\ Len(writes) \in Nat
      /\ DOMAIN writes' = 1 .. (Len(writes) + 1)
      /\ \A i \in 1 .. Len(writes) : writes'[i] = writes[i]
      /\ writes'[Len(writes) + 1] = w
  BY <1>1
<1>3. ASSUME NEW i \in DOMAIN writes'
      PROVE  \/ i \in DOMAIN writes /\ writes'[i].upsert = writes[i].upsert
             \/ i = Len(writes) + 1 /\ writes'[i].upsert = u
  BY <1>1, <1>2
<1>4. \A i \in DOMAIN writes : i \in DOMAIN writes' /\ writes'[i].upsert = writes[i].upsert
  BY <1>2
<1>5. Len(writes) + 1 \in DOMAIN writes' /\ writes'[Len(writes) + 1].upsert = u
  BY <1>1, <1>2
<1>6. \A v \in Upserts : IsStored(v)' <=> IsStored(v) \/ v = u
  BY <1>3, <1>4, <1>5 DEF IsStored
<1>7. ASSUME StoredAtMostOnce, ~IsStored(u) PROVE StoredAtMostOnce'
  <2> SUFFICES ASSUME NEW i \in DOMAIN writes', NEW j \in DOMAIN writes',
                      writes'[i].upsert = writes'[j].upsert
               PROVE  i = j
    BY DEF StoredAtMostOnce
  <2> QED BY <1>3, <1>7 DEF StoredAtMostOnce, IsStored
<1> QED BY <1>6, <1>7

\* No call has been made.
LEMMA OutcomeInitially == Init => OutcomeInv
<1> SUFFICES ASSUME Init PROVE OutcomeInv
  OBVIOUS
<1>1. DOMAIN writes = {} /\ inflight = {} /\ (\A w \in Writers : pc[w] = "idle")
        /\ \A u \in Upserts : returned[u] = "none"
  BY DEF Init
<1> QED BY <1>1, ShadowInitially DEF OutcomeInv, CallsOK, RequestsOK, StoredAtMostOnce,
                                     ReturnIsTrue, IsSent, IsStored

\* A call that ends, in whatever way, leaves the other calls as they were.
LEMMA CallEnds ==
  ASSUME TypeOK, InCall, CallsOK, NEW w \in Writers, NEW how, how # "none", pc[w] # "idle",
         pc' = [pc EXCEPT ![w] = "idle"],
         returned' = [returned EXCEPT ![upsert[w]] = how],
         UNCHANGED <<upsert, upserts>>,
         \A v \in Upserts : IsSent(v)' => IsSent(v) \/ v = upsert[w]
  PROVE  CallsOK'
<1>f. /\ pc \in [Writers -> {"idle", "get", "put"}]
      /\ returned \in [Upserts -> {"none", "success", "error", "gave up"}]
      /\ upsert[w] \in Upserts
  BY Zenon DEF TypeOK, InCall
<1>1. ASSUME NEW v \in Writers, pc'[v] # "idle"
      PROVE  /\ v # w /\ pc[v] # "idle" /\ upsert'[v] = upsert[v] /\ upsert[v] # upsert[w]
             /\ upsert[v] \in Upserts
             /\ upsert[v] <= upserts /\ returned[upsert[v]] = "none" /\ ~IsSent(upsert[v])
  <2>1. v # w /\ pc[v] # "idle"
    BY Zenon, <1>f, <1>1
  <2> QED BY <2>1 DEF CallsOK, InCall
<1>2. ASSUME NEW v \in Writers, pc'[v] # "idle"
      PROVE  /\ upsert'[v] <= upserts' /\ returned'[upsert'[v]] = "none"
             /\ ~IsSent(upsert[v])'
             /\ \A x \in Writers \ {v} : pc'[x] # "idle" => upsert'[x] # upsert'[v]
  <2>1. returned'[upsert[v]] = returned[upsert[v]]
    BY Zenon, <1>1, <1>2, <1>f
  <2>2. \A x \in Writers \ {v} : pc'[x] # "idle" => upsert[x] # upsert[v]
    BY <1>1, <1>2 DEF CallsOK
  <2>3. ~IsSent(upsert[v])'
    BY <1>1, <1>2 DEF IsSent, IsStored
  <2> QED BY <1>1, <1>2, <2>1, <2>2, <2>3
<1>3. ASSUME NEW u \in Upserts, IsSent(u)' \/ returned'[u] # "none" PROVE u <= upserts'
  <2>1. CASE u = upsert[w]
    BY <2>1 DEF CallsOK
  <2>2. CASE u # upsert[w]
    <3>1. returned'[u] = returned[u]
      BY Zenon, <1>f, <2>2
    <3> QED BY <1>3, <2>2, <3>1 DEF CallsOK
  <2> QED BY <2>1, <2>2
<1> QED BY <1>2, <1>3 DEF CallsOK

\* Every step of a caller, of DynamoDB and of a delayed request keeps the invariant.
LEMMA OutcomeStep == OutcomeInv /\ [Next]_vars => OutcomeInv'
<1> SUFFICES ASSUME OutcomeInv, [Next]_vars PROVE OutcomeInv'
  OBVIOUS
<1>t. ShadowInv' /\ TypeOK /\ InCall /\ CallsOK /\ RequestsOK /\ StoredAtMostOnce /\ ReturnIsTrue
  BY ShadowStep DEF OutcomeInv, ShadowInv
<1>f. /\ pc \in [Writers -> {"idle", "get", "put"}]
      /\ upsert \in [Writers -> 0 .. MaxUpserts]
      /\ expected \in [Writers -> Nat]
      /\ upserts \in 0 .. MaxUpserts /\ MaxUpserts \in Nat
      /\ inflight \subseteq [upsert : Upserts, read : Nat]
      /\ returned \in [Upserts -> {"none", "success", "error", "gave up"}]
      /\ writes \in Seq([upsert : Upserts, read : Nat])
  BY Zenon, <1>t, ShadowAssumption DEF TypeOK
<1>n. upserts \in Nat /\ upserts <= MaxUpserts /\ MaxUpserts \in Nat
  <2>1. upserts \in 0 .. MaxUpserts
    BY Zenon, <1>f
  <2> QED BY <2>1, ShadowAssumption
<1>r. \A u \in Upserts : /\ returned[u] = "success" => IsStored(u)
                         /\ returned[u] = "gave up" => ~IsSent(u)
  BY Zenon, <1>t DEF ReturnIsTrue, IsSent, IsStored
<1>s. ASSUME UNCHANGED writes
      PROVE  StoredAtMostOnce' /\ \A u : IsStored(u)' <=> IsStored(u)
  BY <1>s, <1>t DEF StoredAtMostOnce, IsStored
<1>1. ASSUME NEW w \in Writers, Begin(w) PROVE OutcomeInv'
  <2>1. /\ pc[w] = "idle" /\ upserts < MaxUpserts /\ upserts' = upserts + 1
        /\ upsert' = [upsert EXCEPT ![w] = upserts'] /\ pc' = [pc EXCEPT ![w] = "get"]
        /\ UNCHANGED <<writes, inflight, returned>>
    BY <1>1 DEF Begin, store
  <2>2. \A u : IsSent(u)' <=> IsSent(u)
    BY <1>s, <2>1 DEF IsSent
  <2>3. upserts' \in Upserts /\ ~(upserts' <= upserts)
    BY <1>n, <2>1 DEF Upserts
  <2>4. returned[upserts'] = "none" /\ ~IsSent(upserts')
    BY Zenon, <1>f, <1>t, <2>3 DEF CallsOK
  <2>5. ASSUME NEW v \in Writers, pc'[v] # "idle", v # w
        PROVE  /\ upsert'[v] = upsert[v] /\ pc[v] # "idle"
               /\ upsert[v] <= upserts /\ returned[upsert[v]] = "none" /\ ~IsSent(upsert[v])
               /\ upsert[v] # upserts' /\ upsert[v] <= upserts'
    <3>1. /\ upsert'[v] = upsert[v] /\ pc[v] # "idle"
          /\ upsert[v] <= upserts /\ returned[upsert[v]] = "none" /\ ~IsSent(upsert[v])
      BY Zenon, <1>f, <1>t, <2>1, <2>5 DEF CallsOK
    <3>2. upsert[v] \in Nat
      <4>1. upsert[v] \in 0 .. MaxUpserts
        BY Zenon, <1>f
      <4> QED BY <4>1, <1>n
    <3> QED BY <1>n, <2>1, <3>1, <3>2
  <2>6. upsert'[w] = upserts' /\ upserts' <= upserts'
    <3>1. upsert'[w] = upserts'
      BY Zenon, <1>f, <2>1
    <3> QED BY <1>n, <2>1, <3>1
  <2>7. \A u \in Upserts : IsSent(u)' \/ returned'[u] # "none" => u <= upserts'
    <3> SUFFICES ASSUME NEW u \in Upserts, IsSent(u) \/ returned[u] # "none" PROVE u <= upserts'
      BY <2>1, <2>2
    <3>1. u <= upserts /\ u \in Nat
      BY SMTT(60), <1>t DEF CallsOK, Upserts
    <3> QED BY <1>n, <2>1, <3>1
  <2>8. CallsOK'
    <3>1. ASSUME NEW v \in Writers, pc'[v] # "idle"
          PROVE  /\ upsert'[v] <= upserts' /\ returned'[upsert'[v]] = "none"
                 /\ ~IsSent(upsert[v])'
                 /\ \A x \in Writers \ {v} : pc'[x] # "idle" => upsert'[x] # upsert'[v]
      <4>1. CASE v = w
        <5>1. ~IsSent(upsert[w])'
          BY <2>1, <2>4, <2>6 DEF IsSent, IsStored
        <5> QED BY <2>1, <2>4, <2>5, <2>6, <4>1, <5>1
      <4>2. CASE v # w
        <5>1. ASSUME NEW x \in Writers \ {v}, pc'[x] # "idle" PROVE upsert'[x] # upsert'[v]
          <6>1. CASE x = w
            BY <2>5, <2>6, <3>1, <4>2, <6>1
          <6>2. CASE x # w
            BY SMTT(40), <1>t, <2>5, <3>1, <4>2, <5>1, <6>2 DEF CallsOK
          <6> QED BY <6>1, <6>2
        <5>2. ~IsSent(upsert[v])'
          BY <2>1, <2>5, <3>1, <4>2 DEF IsSent, IsStored
        <5> QED BY <2>1, <2>5, <3>1, <4>2, <5>1, <5>2
      <4> QED BY <4>1, <4>2
    <3> QED BY <2>7, <3>1 DEF CallsOK
  <2>9. RequestsOK'
    BY <1>s, <1>t, <2>1 DEF RequestsOK
  <2>10. ReturnIsTrue'
    BY Zenon, <1>t, <2>1 DEF ReturnIsTrue
  <2> QED BY <1>s, <1>t, <2>1, <2>8, <2>9, <2>10 DEF OutcomeInv
<1>2. ASSUME NEW w \in Writers, Get(w) PROVE OutcomeInv'
  <2>1. /\ pc[w] = "get" /\ pc' = [pc EXCEPT ![w] = "put"]
        /\ UNCHANGED <<writes, upsert, upserts, inflight, returned>>
    BY <1>2 DEF Get, store
  <2>2. \A v \in Writers : pc'[v] # "idle" => pc[v] # "idle"
    BY Zenon, <1>f, <2>1
  <2>3. CallsOK'
    BY SMTT(40), <1>s, <1>t, <2>1, <2>2 DEF CallsOK, IsSent, IsStored
  <2>4. RequestsOK' /\ ReturnIsTrue'
    BY Zenon, <1>t, <2>1 DEF RequestsOK, ReturnIsTrue, IsStored
  <2> QED BY <1>s, <1>t, <2>1, <2>3, <2>4 DEF OutcomeInv
<1>3. ASSUME NEW w \in Writers, PutStored(w) PROVE OutcomeInv'
  <2> DEFINE u == upsert[w]
  <2>1. PICK how \in {"success", "error"} :
          /\ pc[w] = "put" /\ Store(u, expected[w]) /\ pc' = [pc EXCEPT ![w] = "idle"]
          /\ returned' = [returned EXCEPT ![u] = how]
          /\ UNCHANGED <<upsert, upserts, inflight>>
    BY Zenon, <1>3 DEF PutStored, Finish
  <2>2. u \in Upserts /\ expected[w] \in Nat /\ ~IsSent(u)
    BY Zenon, <1>f, <1>t, <2>1 DEF InCall, CallsOK
  <2> HIDE DEF u
  <2>3. /\ \A v \in Upserts : IsStored(v)' <=> IsStored(v) \/ v = u
        /\ StoredAtMostOnce'
    BY Zenon, <1>f, <1>t, <2>1, <2>2, StoreStores DEF IsSent
  <2>4. \A v \in Upserts : IsSent(v)' => IsSent(v) \/ v = u
    BY <2>1, <2>3 DEF IsSent
  <2>5. CallsOK'
    BY Zenon, <1>t, <2>1, <2>4, CallEnds DEF u
  <2>6. ASSUME NEW r \in inflight
        PROVE  r.upsert # u /\ r.upsert \in Upserts /\ returned'[r.upsert] = returned[r.upsert]
    <3>1. r.upsert # u /\ r.upsert \in Upserts
      BY Zenon, <1>f, <2>2 DEF IsSent
    <3> QED BY Zenon, <1>f, <2>1, <2>2, <3>1
  <2>7. RequestsOK'
    BY <1>t, <2>1, <2>3, <2>6 DEF RequestsOK
  <2>8. ReturnIsTrue'
    <3>1. ASSUME NEW v \in Upserts
          PROVE  /\ returned'[v] = "success" => IsStored(v)'
                 /\ returned'[v] = "gave up" => ~IsSent(v)'
      <4>1. CASE v = u
        BY Zenon, <1>f, <2>1, <2>2, <2>3, <4>1
      <4>2. CASE v # u
        <5>1. returned'[v] = returned[v]
          BY Zenon, <1>f, <2>1, <4>2
        <5> QED BY Zenon, <1>r, <2>3, <2>4, <4>2, <5>1
      <4> QED BY Zenon, <4>1, <4>2
    <3> QED BY Zenon, <3>1 DEF ReturnIsTrue, IsSent, IsStored
  <2> QED BY <1>t, <2>3, <2>5, <2>7, <2>8 DEF OutcomeInv
<1>4. ASSUME NEW w \in Writers, PutConflict(w) PROVE OutcomeInv'
  <2>1. pc[w] = "put" /\ UNCHANGED <<writes, upsert, upserts, inflight>>
    BY Zenon, <1>4 DEF PutConflict, store
  <2>2. \A u : (IsSent(u)' <=> IsSent(u)) /\ (IsStored(u)' <=> IsStored(u))
    BY <1>s, <2>1 DEF IsSent
  <2>3. CASE pc' = [pc EXCEPT ![w] = "get"] /\ UNCHANGED returned
    <3>1. \A v \in Writers : pc'[v] # "idle" => pc[v] # "idle"
      BY Zenon, <1>f, <2>1, <2>3
    <3>2. CallsOK'
      BY SMTT(40), <1>t, <2>1, <2>2, <2>3, <3>1 DEF CallsOK
    <3>3. RequestsOK' /\ ReturnIsTrue'
      BY Zenon, <1>t, <2>1, <2>3 DEF RequestsOK, ReturnIsTrue, IsStored
    <3> QED BY <1>s, <1>t, <2>1, <3>2, <3>3 DEF OutcomeInv
  <2>4. CASE /\ pc' = [pc EXCEPT ![w] = "idle"]
             /\ returned' = [returned EXCEPT ![upsert[w]] = "gave up"]
    <3>1. upsert[w] \in Upserts /\ ~IsSent(upsert[w])
      BY <1>t, <2>1 DEF InCall, CallsOK
    <3>2. CallsOK'
      BY Zenon, <1>t, <2>1, <2>2, <2>4, CallEnds
    <3>3. \A r \in inflight : r.upsert \in Upserts /\ returned'[r.upsert] = returned[r.upsert]
      BY Zenon, <1>f, <2>4, <3>1 DEF IsSent
    <3>4. RequestsOK'
      BY <1>t, <2>1, <2>2, <3>3 DEF RequestsOK
    <3>5. ASSUME NEW v \in Upserts
          PROVE  /\ returned'[v] = "success" => IsStored(v)'
                 /\ returned'[v] = "gave up" => ~IsSent(v)'
      <4>1. CASE v = upsert[w]
        BY Zenon, <1>f, <2>2, <2>4, <3>1, <4>1
      <4>2. CASE v # upsert[w]
        <5>1. returned'[v] = returned[v]
          BY Zenon, <1>f, <2>4, <4>2
        <5> QED BY Zenon, <1>r, <2>2, <5>1
      <4> QED BY Zenon, <4>1, <4>2
    <3>6. ReturnIsTrue'
      BY Zenon, <3>5 DEF ReturnIsTrue, IsSent, IsStored
    <3> QED BY <1>s, <1>t, <2>1, <3>2, <3>4, <3>6 DEF OutcomeInv
  <2> QED BY Zenon, <1>4, <2>3, <2>4 DEF PutConflict
<1>5. ASSUME NEW w \in Writers, PutError(w) PROVE OutcomeInv'
  <2> DEFINE u == upsert[w]
             q == [upsert |-> u, read |-> expected[w]]
  <2>1. /\ pc[w] = "put" /\ inflight' = inflight \cup {q}
        /\ pc' = [pc EXCEPT ![w] = "idle"]
        /\ returned' = [returned EXCEPT ![u] = "error"]
        /\ UNCHANGED <<writes, upsert, upserts>>
    BY <1>5 DEF PutError, Finish, store
  <2>2. u \in Upserts /\ ~IsSent(u)
    BY Zenon, <1>f, <1>t, <2>1 DEF InCall, CallsOK
  <2>3. q.upsert = u
    OBVIOUS
  <2> HIDE DEF u, q
  <2>4. \A v : IsStored(v)' <=> IsStored(v)
    BY <1>s, <2>1
  <2>5. \A v \in Upserts : IsSent(v)' => IsSent(v) \/ v = u
    BY <2>1, <2>3, <2>4 DEF IsSent
  <2>6. CallsOK'
    BY Zenon, <1>t, <2>1, <2>5, CallEnds DEF u
  <2>7. \A r \in inflight : /\ r.upsert # u /\ r.upsert \in Upserts
                            /\ returned'[r.upsert] = returned[r.upsert]
    <3>1. \A r \in inflight : r.upsert # u /\ r.upsert \in Upserts
      BY Zenon, <1>f, <2>2 DEF IsSent
    <3> QED BY Zenon, <1>f, <2>1, <2>2, <3>1
  <2>8. returned'[u] = "error"
    BY Zenon, <1>f, <2>1, <2>2
  <2>9. RequestsOK'
    <3>1. ASSUME NEW r \in inflight'
          PROVE  /\ ~IsStored(r.upsert)'
                 /\ \A s \in inflight' : s.upsert = r.upsert => s = r
      <4>1. CASE r \in inflight
        BY <1>t, <2>1, <2>3, <2>4, <2>7, <4>1 DEF RequestsOK
      <4>2. CASE r = q
        BY <2>1, <2>2, <2>3, <2>4, <2>7, <2>8, <4>2 DEF IsSent
      <4> QED BY <2>1, <4>1, <4>2
    <3> QED BY <3>1 DEF RequestsOK
  <2>10. ASSUME NEW v \in Upserts
         PROVE  /\ returned'[v] = "success" => IsStored(v)'
                /\ returned'[v] = "gave up" => ~IsSent(v)'
    <3>1. CASE v = u
      BY Zenon, <2>8, <3>1
    <3>2. CASE v # u
      <4>1. returned'[v] = returned[v]
        BY Zenon, <1>f, <2>1, <3>2
      <4> QED BY Zenon, <1>r, <2>4, <2>5, <3>2, <4>1
    <3> QED BY Zenon, <3>1, <3>2
  <2>11. ReturnIsTrue'
    BY Zenon, <2>10 DEF ReturnIsTrue, IsSent, IsStored
  <2> QED BY <1>s, <1>t, <2>1, <2>6, <2>9, <2>11 DEF OutcomeInv
<1>6. CASE StoreLate
  <2>1. PICK r \in inflight : /\ inflight' = inflight \ {r} /\ Store(r.upsert, r.read)
                              /\ UNCHANGED <<pc, upsert, upserts, returned>>
    BY <1>6 DEF StoreLate
  <2> DEFINE u == r.upsert
  <2>2. u \in Upserts /\ r.read \in Nat /\ ~IsStored(u) /\ IsSent(u)
    BY Zenon, <1>f, <1>t DEF RequestsOK, IsSent
  <2> HIDE DEF u
  <2>3. /\ \A v \in Upserts : IsStored(v)' <=> IsStored(v) \/ v = u
        /\ StoredAtMostOnce'
    BY Zenon, <1>f, <1>t, <2>1, <2>2, StoreStores DEF u
  <2>4. \A v \in Upserts : IsSent(v)' => IsSent(v)
    BY <2>1, <2>2, <2>3 DEF IsSent
  <2>5. CallsOK'
    <3>1. \A w \in Writers : pc[w] # "idle" => upsert[w] \in Upserts
      BY <1>t DEF InCall
    <3> QED BY <1>t, <2>1, <2>4, <3>1 DEF CallsOK
  <2>6. RequestsOK'
    <3>1. ASSUME NEW s \in inflight' PROVE s \in inflight /\ s.upsert # u /\ s.upsert \in Upserts
      BY Zenon, <1>f, <1>t, <2>1 DEF RequestsOK, u
    <3> QED BY <1>t, <2>1, <2>3, <3>1 DEF RequestsOK
  <2>7. \A v \in Upserts : /\ returned'[v] = "success" => IsStored(v)'
                           /\ returned'[v] = "gave up" => ~IsSent(v)'
    BY Zenon, <1>r, <2>1, <2>2, <2>3, <2>4
  <2>8. ReturnIsTrue'
    BY Zenon, <2>7 DEF ReturnIsTrue, IsSent, IsStored
  <2> QED BY <1>t, <2>3, <2>5, <2>6, <2>8 DEF OutcomeInv
<1>7. CASE UNCHANGED vars
  <2>1. UNCHANGED <<writes, pc, upsert, upserts, inflight, returned>>
    BY <1>7 DEF vars
  <2>2. CallsOK'
    BY <1>t, <2>1 DEF CallsOK, IsSent, IsStored
  <2>3. RequestsOK' /\ ReturnIsTrue'
    BY Zenon, <1>t, <2>1 DEF RequestsOK, ReturnIsTrue, IsStored
  <2> QED BY <1>s, <1>t, <2>1, <2>2, <2>3 DEF OutcomeInv
<1> QED BY <1>1, <1>2, <1>3, <1>4, <1>5, <1>6, <1>7 DEF Next

\* No report is stored twice: only a conflict, which stored nothing, makes
\* UpsertReportedWithRetry call again, and a request that timed out is never repeated,
\* though it may be carried out later.
THEOREM ReportsStoredOnce == Spec => []StoredAtMostOnce
<1>1. OutcomeInv => StoredAtMostOnce
  BY DEF OutcomeInv
<1> QED BY <1>1, OutcomeInitially, OutcomeStep, PTL DEF Spec

\* Success means the report is stored; giving up after kMaxAttempts conflicts means that
\* it is not and that no request of the call is left to store it.
THEOREM CallersAreToldTheTruth == Spec => []ReturnIsTrue
<1>1. OutcomeInv => ReturnIsTrue
  BY DEF OutcomeInv
<1> QED BY <1>1, OutcomeInitially, OutcomeStep, PTL DEF Spec

---------------------------------------------------------------------------------
(* Rate limits and alerts. *)

\* The times of the tokens taken from bucket b, and what each stretch that ends at the
\* bucket's time leaves of the limit.
Left(b, g, i) == Capacity + Rate * (b.last - g[i]) - (Len(g) - i + 1)
BucketOK(b, g) ==
  /\ b \in [tokens : Int, last : Int]
  /\ b.tokens <= Capacity
  /\ \A i \in 1 .. Len(g) : b.tokens <= Left(b, g, i)
  /\ b.tokens = Capacity \/ \E i \in 1 .. Len(g) : b.tokens = Left(b, g, i)
GrantsOK(g) ==
  /\ g \in Seq(Int)
  /\ \A i, j \in 1 .. Len(g) : i <= j => j - i + 1 <= Capacity + Rate * (g[j] - g[i])

\* A key that was granted nothing has a full bucket.
LEMMA NewBucket ==
  ASSUME Capacity \in Int, NEW t \in Int, NEW g, Len(g) = 0
  PROVE  BucketOK([tokens |-> Capacity, last |-> t], g)
BY DEF BucketOK

\* The inductive invariant of the limiter.
LimiterInv ==
  /\ clock \in Int
  /\ grants \in [Keys -> Seq(Int)] /\ \A k \in Keys : GrantsOK(grants[k])
  /\ buckets = [k \in DOMAIN buckets |-> buckets[k]] /\ DOMAIN buckets \subseteq Keys
  /\ \A k \in DOMAIN buckets : Capacity > 0 /\ BucketOK(buckets[k], grants[k])
  /\ \A k \in Keys \ DOMAIN buckets : grants[k] = <<>>

\* The refill of two stretches is the refill of both.
LEMMA Spread == \A r, a, d, g \in Int : r * (a + d - g) = r * (a - g) + d * r
OBVIOUS

\* A refill is not negative.
LEMMA Grows == \A r, d \in Nat : d * r \in Nat
OBVIOUS

\* Refilling, up to the capacity, gives what the limit leaves at the new time; a clock
\* that was set back refills nothing.
LEMMA RefillOK ==
  ASSUME clock \in Int, NEW b, NEW g \in Seq(Int), BucketOK(b, g)
  PROVE  BucketOK(Policies!Refill(b), g)
<1>a. Capacity \in Int /\ Rate \in Nat /\ b.tokens \in Int /\ b.last \in Int /\ Len(g) \in Nat
      /\ \A i \in 1 .. Len(g) : g[i] \in Int
  BY PolicyAssumption DEF BucketOK
<1>1. CASE clock <= b.last
  BY <1>1 DEF Policies!Refill
<1>2. CASE ~(clock <= b.last)
  <2> DEFINE d == clock - b.last
             x == d * Rate
             c == Policies!Refill(b)
  <2>1. d \in Nat /\ x \in Nat /\ clock = b.last + d
    BY <1>a, <1>2, Grows
  <2>2. c = [tokens |-> Policies!Lesser(Capacity, b.tokens + x), last |-> clock]
    BY <1>2 DEF Policies!Refill
  <2>3. /\ c \in [tokens : Int, last : Int] /\ c.last = clock
        /\ c.tokens = Policies!Lesser(Capacity, b.tokens + x)
    BY SMTT(60), <1>a, <2>1, <2>2 DEF Policies!Lesser
  <2>4. \A i \in 1 .. Len(g) : /\ Left(c, g, i) = Left(b, g, i) + x
                              /\ Left(b, g, i) \in Int
    <3> TAKE i \in 1 .. Len(g)
    <3>1. g[i] \in Int /\ i \in Int /\ Len(g) \in Int
      BY <1>a
    <3> DEFINE y == Rate * (b.last - g[i])
    <3>2. y \in Int /\ Rate * (clock - g[i]) = y + x
      <4> HIDE DEF d
      <4>1. Rate * (b.last + d - g[i]) = Rate * (b.last - g[i]) + d * Rate
        <5>1. Rate \in Int /\ b.last \in Int /\ d \in Int /\ g[i] \in Int
          BY <1>a, <2>1, <3>1
        <5> QED BY <5>1, Spread
      <4>2. Rate * (clock - g[i]) = y + x
        <5>1. clock - g[i] = b.last + d - g[i]
          BY SMTT(60), <1>a, <2>1, <3>1
        <5> QED BY <4>1, <5>1
      <4> QED BY <1>a, <3>1, <4>2
    <3>3. Left(c, g, i) = Capacity + (y + x) - (Len(g) - i + 1)
      BY <2>3, <3>2 DEF Left
    <3>4. Left(b, g, i) = Capacity + y - (Len(g) - i + 1)
      BY DEF Left
    <3> HIDE DEF x, y
    <3> QED BY <1>a, <2>1, <3>1, <3>2, <3>3, <3>4
  <2> HIDE DEF x, c, d
  <2>5. c.tokens <= Capacity /\ c.tokens <= b.tokens + x
        /\ (c.tokens = Capacity \/ c.tokens = b.tokens + x)
    BY <1>a, <2>1, <2>3 DEF Policies!Lesser
  <2>6. \A i \in 1 .. Len(g) : c.tokens <= Left(c, g, i)
    <3> TAKE i \in 1 .. Len(g)
    <3>1. b.tokens <= Left(b, g, i)
      BY DEF BucketOK
    <3> QED BY SMTT(60), <1>a, <2>1, <2>3, <2>4, <2>5, <3>1
  <2>7. c.tokens = Capacity \/ \E i \in 1 .. Len(g) : c.tokens = Left(c, g, i)
    <3>1. CASE b.tokens = Capacity
      BY <1>a, <2>1, <2>3, <2>5, <3>1
    <3>2. CASE \E i \in 1 .. Len(g) : b.tokens = Left(b, g, i)
      BY <2>4, <2>5, <3>2
    <3> QED BY <3>1, <3>2 DEF BucketOK
  <2>8. BucketOK(c, g)
    BY <2>3, <2>5, <2>6, <2>7 DEF BucketOK
  <2> QED BY <2>8 DEF c
<1> QED BY <1>1, <1>2

\* A token is taken: what the stretches leave is one less.
LEMMA ConsumeOK ==
  ASSUME NEW b, NEW g \in Seq(Int), BucketOK(b, g), GrantsOK(g), b.tokens >= 1
  PROVE  /\ BucketOK([b EXCEPT !.tokens = @ - 1], Append(g, b.last))
         /\ GrantsOK(Append(g, b.last))
<1> DEFINE c == [b EXCEPT !.tokens = @ - 1]
           h == Append(g, b.last)
           n == Len(g)
<1>a. /\ Capacity \in Int /\ Rate \in Nat /\ b.tokens \in Int /\ b.last \in Int /\ n \in Nat
      /\ \A i \in 1 .. n : g[i] \in Int
  BY PolicyAssumption DEF BucketOK
<1>1. c \in [tokens : Int, last : Int] /\ c.tokens = b.tokens - 1 /\ c.last = b.last
  BY <1>a DEF BucketOK
<1>2. /\ h \in Seq(Int) /\ Len(h) = n + 1 /\ h[n + 1] = b.last
      /\ \A i \in 1 .. n : h[i] = g[i]
  BY <1>a
<1>3. 1 .. Len(h) = (1 .. n) \cup {n + 1}
  BY <1>a, <1>2
<1> HIDE DEF c, h, n
<1>4. \A i \in 1 .. n : Left(c, h, i) = Left(b, g, i) - 1 /\ Left(b, g, i) \in Int
  <2> TAKE i \in 1 .. n
  <2> DEFINE y == Rate * (b.last - g[i])
  <2>1. y \in Int
    BY <1>a
  <2>2. Left(c, h, i) = Capacity + y - (n + 1 - i + 1)
    <3>1. c.last = b.last /\ h[i] = g[i] /\ Len(h) = n + 1
      BY <1>1, <1>2
    <3>2. Left(c, h, i) = Capacity + Rate * (c.last - h[i]) - (Len(h) - i + 1)
      BY DEF Left
    <3>3. c.last - h[i] = b.last - g[i]
      BY <3>1
    <3>4. Rate * (c.last - h[i]) = y
      BY <3>3
    <3> HIDE DEF y
    <3> QED BY SMTT(60), <1>a, <2>1, <3>1, <3>2, <3>4
  <2>3. Left(b, g, i) = Capacity + y - (n - i + 1)
    BY DEF Left, n
  <2> HIDE DEF y
  <2> QED BY <1>a, <2>1, <2>2, <2>3
<1>5. Left(c, h, n + 1) = Capacity - 1
  <2>1. Rate * (b.last - b.last) = 0
    BY <1>a
  <2>2. Left(c, h, n + 1) = Capacity + 0 - (n + 1 - (n + 1) + 1)
    <3>1. c.last = b.last /\ h[n + 1] = b.last /\ Len(h) = n + 1
      BY <1>1, <1>2
    <3>2. Left(c, h, n + 1) = Capacity + Rate * (c.last - h[n + 1]) - (Len(h) - (n + 1) + 1)
      BY DEF Left
    <3>3. c.last - h[n + 1] = b.last - b.last
      BY <3>1
    <3>4. Rate * (c.last - h[n + 1]) = 0
      BY <2>1, <3>3
    <3> QED BY <1>a, <3>1, <3>2, <3>4
  <2> QED BY <1>a, <2>2
<1>6. b.tokens <= Capacity /\ \A i \in 1 .. n : b.tokens <= Left(b, g, i)
  BY DEF BucketOK, n
<1>7. \A i \in 1 .. Len(h) : c.tokens <= Left(c, h, i)
  <2> TAKE i \in 1 .. Len(h)
  <2>1. CASE i = n + 1
    BY <1>a, <1>1, <1>5, <1>6, <2>1
  <2>2. CASE i \in 1 .. n
    BY <1>a, <1>1, <1>4, <1>6, <2>2
  <2> QED BY <1>3, <2>1, <2>2
<1>8. \E i \in 1 .. Len(h) : c.tokens = Left(c, h, i)
  <2>1. CASE b.tokens = Capacity
    BY <1>1, <1>3, <1>5, <2>1
  <2>2. CASE \E i \in 1 .. n : b.tokens = Left(b, g, i)
    BY <1>1, <1>3, <1>4, <2>2
  <2> QED BY <2>1, <2>2 DEF BucketOK, n
<1>9. c.tokens <= Capacity
  BY <1>a, <1>1, <1>6
<1>10. BucketOK(c, h)
  BY <1>1, <1>7, <1>8, <1>9 DEF BucketOK
<1>11. ASSUME NEW i \in 1 .. Len(h), NEW j \in 1 .. Len(h), i <= j
       PROVE  j - i + 1 <= Capacity + Rate * (h[j] - h[i])
  <2>1. CASE j \in 1 .. n
    <3>1. i \in 1 .. n
      BY <1>3, <1>11, <1>a, <2>1
    <3> QED BY <1>2, <1>11, <2>1, <3>1 DEF GrantsOK, n
  <2>2. CASE j = n + 1 /\ i \in 1 .. n
    <3> DEFINE y == Rate * (b.last - g[i])
    <3>1. y \in Int /\ h[j] = b.last /\ h[i] = g[i]
      BY <1>a, <1>2, <2>2
    <3>2. Left(b, g, i) = Capacity + y - (n - i + 1)
      BY DEF Left, n
    <3>3. 1 <= Left(b, g, i)
      BY <1>a, <1>4, <1>6, <2>2
    <3> HIDE DEF y
    <3>4. j - i + 1 <= Capacity + y
      BY <1>a, <2>2, <3>1, <3>2, <3>3
    <3> QED BY <3>1, <3>4 DEF y
  <2>3. CASE j = n + 1 /\ i = n + 1
    <3>1. Rate * (h[j] - h[i]) = 0
      BY <1>a, <1>2, <2>3
    <3> QED BY <1>a, <1>6, <2>3, <3>1
  <2> QED BY <1>3, <2>1, <2>2, <2>3
<1>12. GrantsOK(h)
  BY <1>2, <1>11 DEF GrantsOK
<1> QED BY <1>10, <1>12 DEF c, h

\* There are no buckets.
LEMMA LimiterInitially == Policies!Init => LimiterInv
<1> SUFFICES ASSUME Policies!Init PROVE LimiterInv
  OBVIOUS
<1>1. DOMAIN buckets = {} /\ buckets = [k \in {} |-> buckets[k]]
  BY DEF Policies!Init
<1>2. grants \in [Keys -> Seq(Int)] /\ \A k \in Keys : grants[k] = <<>> /\ Len(grants[k]) = 0
  BY DEF Policies!Init
<1> QED BY <1>1, <1>2 DEF Policies!Init, LimiterInv, GrantsOK

\* The handlers and the clock keep the limiter's invariant.
LEMMA LimiterStep == LimiterInv /\ [Policies!Next]_(Policies!vars) => LimiterInv'
<1> SUFFICES ASSUME LimiterInv, [Policies!Next]_(Policies!vars) PROVE LimiterInv'
  OBVIOUS
<1>1. ASSUME UNCHANGED Policies!limiter, clock' \in Int PROVE LimiterInv'
  BY <1>1 DEF LimiterInv, Policies!limiter
<1>2. CASE Policies!Tick
  BY SMTT(60), <1>1, <1>2, PolicyAssumption DEF Policies!Tick, LimiterInv
<1>3. CASE Policies!Refresh
  BY <1>1, <1>3 DEF Policies!Refresh, LimiterInv
<1>4. ASSUME NEW h \in Handlers, Policies!Alert(h) \/ Policies!NoDecision(h) PROVE LimiterInv'
  BY <1>1, <1>4 DEF Policies!Alert, Policies!NoDecision, LimiterInv
<1>5. ASSUME NEW h \in Handlers, Policies!CheckRateLimit(h) PROVE LimiterInv'
  <2> DEFINE k == KeyOf[h]
             found == IF k \in DOMAIN buckets THEN buckets[k]
                      ELSE [tokens |-> Capacity, last |-> clock]
             full == Policies!Refill(found)
  <2>1. k \in Keys /\ Capacity \in Int /\ clock \in Int /\ clock' = clock
    BY <1>5, PolicyAssumption DEF LimiterInv, Policies!CheckRateLimit
  <2>2. CASE Capacity <= 0
    BY <1>1, <1>5, <2>1, <2>2 DEF Policies!CheckRateLimit
  <2>3. CASE ~(Capacity <= 0)
    <3>1. grants[k] \in Seq(Int) /\ GrantsOK(grants[k])
      BY <2>1 DEF LimiterInv
    <3>2. BucketOK(found, grants[k])
      <4>1. CASE k \in DOMAIN buckets
        BY <4>1 DEF LimiterInv
      <4>2. CASE k \notin DOMAIN buckets
        <5>1. Len(grants[k]) = 0
          BY <2>1, <4>2 DEF LimiterInv
        <5>2. found = [tokens |-> Capacity, last |-> clock]
          BY Zenon, <4>2
        <5> QED BY Zenon, <2>1, <5>1, <5>2, NewBucket
      <4> QED BY <4>1, <4>2
    <3>3. BucketOK(full, grants[k])
      BY <2>1, <3>1, <3>2, RefillOK
    <3> HIDE DEF found, full, k
    <3>4. ASSUME NEW b, NEW g \in Seq(Int), BucketOK(b, g), GrantsOK(g),
                 buckets' = Policies!Updated(k, b), grants' = [grants EXCEPT ![k] = g]
          PROVE  LimiterInv'
      <4>1. /\ DOMAIN buckets' = DOMAIN buckets \cup {k} /\ buckets'[k] = b
            /\ buckets' = [j \in DOMAIN buckets' |-> buckets'[j]]
            /\ \A j \in DOMAIN buckets : j # k => buckets'[j] = buckets[j]
        BY <3>4 DEF Policies!Updated
      <4>2. /\ grants' \in [Keys -> Seq(Int)] /\ grants'[k] = g
            /\ \A j \in Keys : j # k => grants'[j] = grants[j]
        BY <2>1, <3>4 DEF LimiterInv
      <4>3. \A j \in DOMAIN buckets' : Capacity > 0 /\ BucketOK(buckets'[j], grants'[j])
        BY <2>1, <2>3, <3>4, <4>1, <4>2 DEF LimiterInv
      <4>4. \A j \in Keys : GrantsOK(grants'[j])
        BY <3>4, <4>2 DEF LimiterInv
      <4>5. \A j \in Keys \ DOMAIN buckets' : grants'[j] = <<>>
        BY <4>1, <4>2 DEF LimiterInv
      <4>6. DOMAIN buckets' \subseteq Keys /\ clock' \in Int
        BY <2>1, <4>1 DEF LimiterInv
      <4> QED BY <4>1, <4>2, <4>3, <4>4, <4>5, <4>6 DEF LimiterInv
    <3>5. CASE full.tokens < 1
      <4>1. buckets' = Policies!Updated(k, full) /\ grants' = grants
        BY <1>5, <2>3, <3>5 DEF Policies!CheckRateLimit, k, full, found
      <4>2. grants = [grants EXCEPT ![k] = grants[k]]
        BY DEF LimiterInv
      <4> QED BY <3>1, <3>3, <3>4, <4>1, <4>2
    <3>6. CASE ~(full.tokens < 1)
      <4>1. buckets' = Policies!Updated(k, [full EXCEPT !.tokens = @ - 1])
            /\ grants' = [grants EXCEPT ![k] = Append(grants[k], full.last)]
        BY <1>5, <2>3, <3>6 DEF Policies!CheckRateLimit, k, full, found
      <4>2. full.tokens >= 1 /\ full.last \in Int
        BY <3>3, <3>6 DEF BucketOK
      <4>3. Append(grants[k], full.last) \in Seq(Int)
        BY <3>1, <4>2
      <4>4. /\ BucketOK([full EXCEPT !.tokens = @ - 1], Append(grants[k], full.last))
            /\ GrantsOK(Append(grants[k], full.last))
        BY <3>1, <3>3, <4>2, ConsumeOK
      <4> QED BY Zenon, <3>4, <4>1, <4>3, <4>4
    <3> QED BY <3>5, <3>6
  <2> QED BY <2>2, <2>3
<1>6. CASE UNCHANGED Policies!vars
  BY <1>1, <1>6 DEF Policies!vars, Policies!limiter, LimiterInv
<1> QED BY <1>2, <1>3, <1>4, <1>5, <1>6 DEF Policies!Next

\* For any capacity and rate, any number of tenants and of streams per tenant, and a clock
\* set forward and back at will: no stretch of time lets a tenant through more than the
\* capacity and what is refilled in it, and none is refused while the limit leaves a token.
THEOREM RateLimitIsExact == ServicesSpec => []LimitIsExact
<1>1. LimiterInv => LimitIsExact
  <2> SUFFICES ASSUME LimiterInv PROVE Policies!LimitIsExact
    BY DEF LimitIsExact
  <2>1. ASSUME NEW k \in Keys, NEW i \in DOMAIN grants[k], NEW j \in DOMAIN grants[k], i <= j
        PROVE  j - i + 1 <= Capacity + Rate * (grants[k][j] - grants[k][i])
    <3>1. grants[k] \in Seq(Int) /\ GrantsOK(grants[k])
      BY DEF LimiterInv
    <3>2. DOMAIN grants[k] = 1 .. Len(grants[k])
      BY <3>1
    <3> QED BY SMTT(40), <2>1, <3>1, <3>2 DEF GrantsOK
  <2>2. ASSUME NEW k \in DOMAIN buckets
        PROVE  /\ buckets[k].tokens \in Policies!Allowance(k)
               /\ \A a \in Policies!Allowance(k) : buckets[k].tokens <= a
    <3>1. Policies!Allowance(k) =
            {Capacity} \cup {Left(buckets[k], grants[k], i) : i \in 1 .. Len(grants[k])}
      BY DEF Policies!Allowance, Left
    <3>2. BucketOK(buckets[k], grants[k])
      BY DEF LimiterInv
    <3> QED BY <3>1, <3>2 DEF BucketOK
  <2> QED BY <2>1, <2>2 DEF Policies!LimitIsExact
<1>2. ServicesInit => LimiterInv
  BY LimiterInitially DEF ServicesInit
<1>3. LimiterInv /\ [ServicesNext]_servicesVars
        => LimiterInv'
  BY LimiterStep DEF ServicesNext, servicesVars, policyVars, Policies!vars, Policies!limiter
<1> QED BY <1>1, <1>2, <1>3, PTL DEF ServicesSpec

\* The inductive invariant of the alert engine.
AlertInv ==
  /\ event \in [Handlers -> Int]
  /\ weather = Policies!NoReading \/ weather \in Readings
  /\ Policies!AlertsReported

\* Weather lifts the severity of a reported detection, by one unless the wind is
\* extreme, and of no other.
LEMMA SeverityReports ==
  ASSUME NEW c \in Int, NEW w, w = Policies!NoReading \/ w \in Readings
  PROVE  LET s == Policies!Severity(c, w)
             alone == Policies!Severity(c, Policies!NoReading)
         IN  /\ s > 0 <=> c >= Thresholds.low
             /\ s >= alone
             /\ s > alone + 1 => s = 4 /\ w.wind >= Thresholds.extremeWind
<1>1. /\ Thresholds.low \in Int /\ Thresholds.medium \in Int /\ Thresholds.high \in Int
  BY PolicyAssumption
<1>2. CASE c < Thresholds.low
  <2>1. Policies!Severity(c, w) = 0 /\ Policies!Severity(c, Policies!NoReading) = 0
    BY <1>2 DEF Policies!Severity
  <2> QED BY <1>1, <1>2, <2>1
<1>3. CASE ~(c < Thresholds.low)
  <2> DEFINE tier == IF c >= Thresholds.high THEN 3 ELSE IF c >= Thresholds.medium THEN 2 ELSE 1
  <2>1. tier \in 1 .. 3 /\ Policies!Severity(c, Policies!NoReading) = tier
    BY <1>3 DEF Policies!Severity
  <2>2. \/ Policies!Severity(c, w) = tier
        \/ Policies!Severity(c, w) = 4 /\ w.wind >= Thresholds.extremeWind
        \/ Policies!Severity(c, w) = Policies!Escalate(tier)
    BY <1>3 DEF Policies!Severity
  <2> HIDE DEF tier
  <2>3. Policies!Escalate(tier) = tier + 1
    BY SMTT(40), <2>1 DEF Policies!Escalate, Policies!Lesser
  <2> QED BY <1>1, <1>3, <2>1, <2>2, <2>3
<1> QED BY <1>2, <1>3

\* The handlers and the refresh thread keep the engine's invariant.
LEMMA AlertStep == AlertInv /\ [Policies!Next]_(Policies!vars) => AlertInv'
<1> SUFFICES ASSUME AlertInv, [Policies!Next]_(Policies!vars) PROVE AlertInv'
  OBVIOUS
<1>1. ASSUME UNCHANGED alert PROVE Policies!AlertsReported'
  BY <1>1 DEF AlertInv, Policies!AlertsReported
<1>2. CASE Policies!Tick
  BY <1>1, <1>2 DEF Policies!Tick, AlertInv
<1>3. CASE Policies!Refresh
  BY <1>1, <1>3 DEF Policies!Refresh, Policies!FetchCurrent, AlertInv
<1>4. ASSUME NEW h \in Handlers, Policies!Alert(h) PROVE AlertInv'
  <2> DEFINE c == event[h]
             s == Policies!Severity(c, weather)
             alone == Policies!Severity(c, Policies!NoReading)
  <2>1. /\ alert' = [confidence |-> c, weather |-> weather, severity |-> s]
        /\ event' = [event EXCEPT ![h] = 0] /\ weather' = weather
    BY <1>4 DEF Policies!Alert
  <2>2. /\ s > 0 <=> c >= Thresholds.low
        /\ s >= alone
        /\ s > alone + 1 => s = 4 /\ weather.wind >= Thresholds.extremeWind
    BY SeverityReports DEF AlertInv
  <2> HIDE DEF s, c
  <2>3. alert'.confidence = c /\ alert'.weather = weather /\ alert'.severity = s
    BY SMTT(40), <2>1
  <2>4. (alert'.severity > 0) = (alert'.confidence >= Thresholds.low)
    BY SMTT(60), <2>2, <2>3
  <2>5. Policies!AlertsReported'
    BY <2>2, <2>3, <2>4 DEF Policies!AlertsReported
  <2> QED BY <2>1, <2>5 DEF AlertInv
<1>5. ASSUME NEW h \in Handlers, Policies!CheckRateLimit(h) PROVE AlertInv'
  <2>1. UNCHANGED <<weather, alert>> /\ \E c \in Confidences :
             event' = IF handlerPc' = handlerPc THEN event ELSE [event EXCEPT ![h] = c]
    BY <1>5 DEF Policies!CheckRateLimit
  <2>2. event' \in [Handlers -> Int]
    BY <2>1, PolicyAssumption DEF AlertInv
  <2> QED BY <1>1, <2>1, <2>2 DEF AlertInv
<1>6. CASE UNCHANGED Policies!vars
  BY <1>1, <1>6 DEF Policies!vars, AlertInv
<1>7. ASSUME NEW h \in Handlers, Policies!NoDecision(h) PROVE AlertInv'
  BY <1>1, <1>7 DEF Policies!NoDecision, AlertInv
<1> QED BY <1>2, <1>3, <1>4, <1>5, <1>6, <1>7 DEF Policies!Next

\* For any thresholds and readings: a detection is reported exactly from the low cutoff
\* on, weather never lowers its severity, and only extreme wind lifts it by two levels.
THEOREM WeatherNeverSuppresses == ServicesSpec => []AlertsReported
<1>1. ServicesInit => AlertInv
  BY SMTT(60) DEF ServicesInit, Policies!Init, AlertInv, Policies!AlertsReported
<1>2. AlertInv => AlertsReported
  BY DEF AlertInv, AlertsReported
<1>3. AlertInv /\ [ServicesNext]_servicesVars => AlertInv'
  BY AlertStep DEF ServicesNext, servicesVars, policyVars, Policies!vars, Policies!limiter
<1> QED BY <1>1, <1>2, <1>3, PTL DEF ServicesSpec

---------------------------------------------------------------------------------
(* Update manifests. *)

\* The fields of a manifest; a sign command, among those in s, signed the bytes b with
\* key k.
Pieces == STRING \cup {"|url="}
Manifests == [version : Int, sha : Seq(Pieces), url : Seq(Pieces), issued : Nat]
Signings == [m : Manifests, key : Nat]
WasSigned(s, b, k) ==
  \E i \in DOMAIN s : Ota!CanonicalBytes(s[i].m) = b /\ s[i].key = k

\* The fields a command is given, and an edited file has, are those of a manifest.
LEMMA FieldsOfManifest ==
  ASSUME NEW v \in Versions \cup {0}, NEW sha \in Texts, NEW url \in Texts, NEW i \in Nat
  PROVE  [version |-> v, sha |-> sha, url |-> url, issued |-> i] \in Manifests
<1>1. v \in Int /\ sha \in Seq(STRING) /\ url \in Seq(STRING)
  BY ManifestAssumption
<1>2. sha \in Seq(Pieces) /\ url \in Seq(Pieces)
  BY <1>1 DEF Pieces
<1> QED BY <1>1, <1>2 DEF Manifests

\* What the files hold: a key; a manifest, edited or not, with a signature that a sign
\* command made and that may have been cut short; or nothing that parses.
IsManifest(s, f) ==
  /\ DOMAIN f = {"is", "m", "sig"} /\ DOMAIN f.sig = {"bytes", "key", "whole"}
  /\ f.is = "manifest" /\ f.m \in Manifests /\ WasSigned(s, f.sig.bytes, f.sig.key)
KeyFile(f) == f \in {Ota!Missing, Ota!Cut} \/ \E k \in Nat : f = Ota!Pem(k)
ManifestFile(s, f) == f \in {Ota!Missing, Ota!Cut} \/ IsManifest(s, f)
FilesOK(s, d) ==
  /\ d = [f \in {"private", "public", "manifest"} |-> d[f]]
  /\ KeyFile(d["private"]) /\ KeyFile(d["public"]) /\ ManifestFile(s, d["manifest"])

\* What a command still has to write is a pair of keys, the second of them, or a
\* manifest it has signed; what it has parsed was on disk.
TodoOK(s, t) ==
  \/ \E k \in Nat : t = <<<<"private", Ota!Pem(k)>>, <<"public", Ota!Pem(k)>>>>
  \/ \E k \in Nat : t = <<<<"public", Ota!Pem(k)>>>>
  \/ \E f : IsManifest(s, f) /\ t = <<<<"manifest", f>>>>
ProcOK(s, r) ==
  /\ DOMAIN r = {"pc", "todo", "verdict", "key", "m"} /\ r.m \in Manifests
  /\ r.pc \in {"open", "write"} => TodoOK(s, r.todo)
  /\ r.pc = "check" => \E f : r.todo = <<f>> /\ IsManifest(s, f) /\ r.m = f.m
  /\ r.verdict = "OK" => WasSigned(s, Ota!CanonicalBytes(r.m), r.key)

\* The inductive invariant of the tool.
OtaInv ==
  /\ stamp \in Nat /\ signed \in Seq(Signings)
  /\ FilesOK(signed, disk)
  /\ DOMAIN proc = Ota!Procs /\ \A p \in Ota!Procs : ProcOK(signed, proc[p])

\* What has been signed stays signed.
LEMMA SigningKept ==
  ASSUME NEW s \in Seq(Signings), NEW e \in Signings
  PROVE  /\ Append(s, e) \in Seq(Signings)
         /\ \A b, k : WasSigned(s, b, k) => WasSigned(Append(s, e), b, k)
         /\ WasSigned(Append(s, e), Ota!CanonicalBytes(e.m), e.key)
<1>1. /\ Append(s, e) \in Seq(Signings) /\ Len(Append(s, e)) = Len(s) + 1
      /\ Append(s, e)[Len(s) + 1] = e /\ \A i \in 1 .. Len(s) : Append(s, e)[i] = s[i]
      /\ DOMAIN s = 1 .. Len(s) /\ DOMAIN Append(s, e) = 1 .. Len(s) + 1 /\ Len(s) \in Nat
  OBVIOUS
<1>3. \A i \in DOMAIN s : i \in DOMAIN Append(s, e) /\ Append(s, e)[i] = s[i]
  BY SMTT(40), <1>1
<1>4. Len(s) + 1 \in DOMAIN Append(s, e)
  BY SMTT(40), <1>1
<1> QED BY Zenon, <1>1, <1>3, <1>4 DEF WasSigned

\* What the files and the commands hold stays in order when more is signed.
LEMMA MoreSigned ==
  ASSUME NEW s, NEW t, \A b, k : WasSigned(s, b, k) => WasSigned(t, b, k)
  PROVE  /\ \A f : IsManifest(s, f) => IsManifest(t, f)
         /\ \A d : FilesOK(s, d) => FilesOK(t, d)
         /\ \A r : ProcOK(s, r) => ProcOK(t, r)
<1>1. \A f : IsManifest(s, f) => IsManifest(t, f)
  BY DEF IsManifest
<1>2. \A d : FilesOK(s, d) => FilesOK(t, d)
  BY <1>1 DEF FilesOK, ManifestFile
<1>3. \A x : TodoOK(s, x) => TodoOK(t, x)
  BY <1>1 DEF TodoOK
<1> QED BY Zenon, <1>1, <1>2, <1>3 DEF ProcOK

\* A command before it has read or written anything.
LEMMA NewProc ==
  /\ DOMAIN Ota!New = {"pc", "todo", "verdict", "key", "m"}
  /\ Ota!New.pc = "new" /\ Ota!New.verdict = "none" /\ Ota!New.m \in Manifests
  /\ \A s : ProcOK(s, Ota!New)
<1>1. <<>> \in Seq(Pieces)
  OBVIOUS
<1>2. /\ DOMAIN Ota!New = {"pc", "todo", "verdict", "key", "m"}
      /\ Ota!New.pc = "new" /\ Ota!New.verdict = "none" /\ Ota!New.m \in Manifests
  BY <1>1 DEF Ota!New, Manifests
<1> QED BY <1>2 DEF ProcOK

\* There is no file, and no command has run.
LEMMA OtaInitially == Ota!Init => OtaInv
<1> SUFFICES ASSUME Ota!Init PROVE OtaInv
  OBVIOUS
<1>1. FilesOK(signed, disk)
  BY SMTT(40) DEF Ota!Init, FilesOK, KeyFile, ManifestFile
<1>2. ProcOK(signed, Ota!New)
  BY NewProc
<1>3. DOMAIN proc = Ota!Procs /\ \A p \in Ota!Procs : proc[p] = Ota!New
  BY DEF Ota!Init
<1> QED BY <1>1, <1>2, <1>3 DEF Ota!Init, OtaInv

\* A step of one command leaves the others and what they have.
LEMMA StepOK ==
  ASSUME OtaInv, NEW p \in Ota!Procs, NEW r, Ota!Step(p, r), ProcOK(signed, r),
         UNCHANGED signed, stamp' \in Nat, FilesOK(signed, disk')
  PROVE  OtaInv'
BY DEF OtaInv, Ota!Step

\* A file takes a content of its kind.
LEMMA FileWritten ==
  ASSUME NEW s, NEW d, FilesOK(s, d), NEW f \in {"private", "public", "manifest"}, NEW x,
         f = "manifest" => ManifestFile(s, x), f # "manifest" => KeyFile(x)
  PROVE  FilesOK(s, [d EXCEPT ![f] = x])
BY SMTT(40) DEF FilesOK

\* The first file a command has still to write, and what is left after it.
LEMMA FirstTodo ==
  ASSUME NEW s, NEW t, TodoOK(s, t)
  PROVE  /\ Head(t)[1] \in {"private", "public", "manifest"}
         /\ Head(t)[1] # "manifest" => KeyFile(Head(t)[2])
         /\ Head(t)[1] = "manifest" =>
              IsManifest(s, Head(t)[2])
         /\ Tail(t) = <<>> \/ TodoOK(s, Tail(t))
<1>1. \A x : Head(<<x>>) = x /\ Tail(<<x>>) = <<>>
  OBVIOUS
<1>2. \A x, y : Head(<<x, y>>) = x /\ Tail(<<x, y>>) = <<y>> /\ <<x, y>>[1] = x /\ <<x, y>>[2] = y
  OBVIOUS
<1>3. ASSUME NEW k \in Nat, t = <<<<"private", Ota!Pem(k)>>, <<"public", Ota!Pem(k)>>>>
      PROVE  /\ Head(t)[1] = "private" /\ KeyFile(Head(t)[2]) /\ TodoOK(s, Tail(t))
  <2>1. Head(t) = <<"private", Ota!Pem(k)>> /\ Tail(t) = <<<<"public", Ota!Pem(k)>>>>
    BY <1>2, <1>3
  <2>2. TodoOK(s, Tail(t))
    BY <2>1 DEF TodoOK
  <2> QED BY <1>2, <2>1, <2>2 DEF KeyFile
<1>4. ASSUME NEW k \in Nat, t = <<<<"public", Ota!Pem(k)>>>>
      PROVE  Head(t)[1] = "public" /\ KeyFile(Head(t)[2]) /\ Tail(t) = <<>>
  <2>1. Head(t) = <<"public", Ota!Pem(k)>> /\ Tail(t) = <<>>
    BY <1>1, <1>4
  <2> QED BY <1>2, <2>1 DEF KeyFile
<1>5. ASSUME NEW f, IsManifest(s, f), t = <<<<"manifest", f>>>>
      PROVE  Head(t)[1] = "manifest" /\ Head(t)[2] = f /\ Tail(t) = <<>>
  <2>1. Head(t) = <<"manifest", f>> /\ Tail(t) = <<>>
    BY <1>1, <1>5
  <2> QED BY <1>2, <2>1
<1>6. CASE \E k \in Nat : t = <<<<"private", Ota!Pem(k)>>, <<"public", Ota!Pem(k)>>>>
  BY <1>3, <1>6
<1>7. CASE \E k \in Nat : t = <<<<"public", Ota!Pem(k)>>>>
  BY <1>4, <1>7
<1>8. CASE \E f : IsManifest(s, f) /\ t = <<<<"manifest", f>>>>
  BY <1>5, <1>8
<1> QED BY <1>6, <1>7, <1>8 DEF TodoOK

\* A command that has written its first file.
LEMMA WrittenOK ==
  ASSUME NEW s, NEW r, ProcOK(s, r), r.pc = "write"
  PROVE  ProcOK(s, [r EXCEPT !.todo = Tail(r.todo),
                             !.pc = IF Tail(r.todo) = <<>> THEN "exited" ELSE "open"])
<1> DEFINE c == IF Tail(r.todo) = <<>> THEN "exited" ELSE "open"
           q == [r EXCEPT !.todo = Tail(r.todo), !.pc = c]
<1>1. c # "check" /\ (c \in {"open", "write"} => TodoOK(s, Tail(r.todo)))
  BY FirstTodo DEF ProcOK
<1> HIDE DEF c
<1>2. /\ DOMAIN q = DOMAIN r /\ q.pc = c /\ q.todo = Tail(r.todo) /\ q.verdict = r.verdict
      /\ q.key = r.key /\ q.m = r.m
  BY SMTT(40) DEF ProcOK
<1> HIDE DEF q
<1>3. ProcOK(s, q)
  BY <1>1, <1>2 DEF ProcOK
<1> QED BY SMTT(40), <1>3 DEF q, c

\* Every command, and every crash or short write of one, keeps the invariant.
LEMMA OtaStep == OtaInv /\ [Ota!Next]_(Ota!vars) => OtaInv'
<1> SUFFICES ASSUME OtaInv, [Ota!Next]_(Ota!vars) PROVE OtaInv'
  OBVIOUS
<1>i. /\ stamp \in Nat /\ signed \in Seq(Signings) /\ FilesOK(signed, disk)
      /\ DOMAIN proc = Ota!Procs /\ \A p \in Ota!Procs : ProcOK(signed, proc[p])
  BY DEF OtaInv
<1>1. ASSUME NEW p \in Ota!Procs, Ota!GenKey(p) PROVE OtaInv'
  <2> DEFINE t == <<<<"private", Ota!Pem(stamp + 1)>>, <<"public", Ota!Pem(stamp + 1)>>>>
             r == [Ota!New EXCEPT !.pc = "open", !.todo = t]
  <2>1. Ota!Step(p, r) /\ stamp' = stamp + 1 /\ UNCHANGED <<disk, signed>>
    BY <1>1 DEF Ota!GenKey
  <2>2. TodoOK(signed, t)
    BY <1>i DEF TodoOK
  <2> HIDE DEF t
  <2>3. DOMAIN r = DOMAIN Ota!New /\ r.pc = "open" /\ r.todo = t /\ r.verdict = "none"
        /\ r.m = Ota!New.m
    BY NewProc
  <2>4. ProcOK(signed, r)
    BY Zenon, <2>2, <2>3, NewProc DEF ProcOK
  <2> QED BY <1>i, <2>1, <2>4, StepOK
<1>2. ASSUME NEW p \in Ota!Procs, NEW v \in Versions, NEW sha \in Texts, NEW url \in Texts,
             Ota!Sign(p, v, sha, url)
      PROVE  OtaInv'
  <2> DEFINE m == [version |-> v, sha |-> sha, url |-> url, issued |-> stamp + 1]
             key == disk["private"]
  <2>1. m \in Manifests /\ stamp' = stamp + 1 /\ stamp' \in Nat /\ UNCHANGED disk
    <3>1. stamp' = stamp + 1 /\ stamp' \in Nat /\ UNCHANGED disk
      BY SMTT(40), <1>2, <1>i DEF Ota!Sign
    <3>2. v \in Versions \cup {0}
      OBVIOUS
    <3> QED BY Zenon, <3>1, <3>2, FieldsOfManifest
  <2>2. CASE key.is = "key"
    <3> DEFINE e == [m |-> m, key |-> key.key]
               t == <<<<"manifest", Ota!Signed(m, Ota!SignManifest(m, key.key))>>>>
               r == [Ota!New EXCEPT !.pc = "open", !.todo = t]
    <3>1. Ota!Step(p, r) /\ signed' = Append(signed, e)
      BY <1>2, <2>2 DEF Ota!Sign
    <3>2. key.key \in Nat
      BY SMTT(40), <1>i, <2>2 DEF FilesOK, KeyFile, Ota!Missing, Ota!Cut, Ota!Pem
    <3>3. e \in Signings /\ e.m = m /\ e.key = key.key
      BY SMTT(40), <2>1, <3>2 DEF Signings
    <3> DEFINE f == Ota!Signed(m, Ota!SignManifest(m, key.key))
    <3> HIDE DEF e, m, key
    <3>4. /\ DOMAIN f = {"is", "m", "sig"} /\ DOMAIN f.sig = {"bytes", "key", "whole"}
          /\ f.is = "manifest" /\ f.m = m /\ f.sig.key = key.key
          /\ f.sig.bytes = Ota!CanonicalBytes(m)
      BY DEF Ota!Signed, Ota!SignManifest
    <3> HIDE DEF f
    <3>5. /\ signed' \in Seq(Signings)
          /\ \A b, k : WasSigned(signed, b, k) => WasSigned(signed', b, k)
          /\ WasSigned(signed', Ota!CanonicalBytes(m), key.key)
      BY Zenon, <1>i, <3>1, <3>3, SigningKept
    <3>6. TodoOK(signed', t)
      <4>1. IsManifest(signed', f)
        BY Zenon, <2>1, <3>4, <3>5 DEF IsManifest
      <4> QED BY <4>1 DEF TodoOK, f
    <3> HIDE DEF t
    <3>7. DOMAIN r = DOMAIN Ota!New /\ r.pc = "open" /\ r.todo = t /\ r.verdict = "none"
          /\ r.m = Ota!New.m
      BY NewProc
    <3>8. ProcOK(signed', r)
      BY Zenon, <3>6, <3>7, NewProc DEF ProcOK
    <3> HIDE DEF r
    <3>9. FilesOK(signed', disk') /\ \A q \in Ota!Procs : ProcOK(signed', proc[q])
      BY <1>i, <2>1, <3>5, MoreSigned
    <3>10. DOMAIN proc' = Ota!Procs /\ \A q \in Ota!Procs : proc'[q] = IF q = p THEN r ELSE proc[q]
      BY <1>i, <3>1 DEF Ota!Step
    <3> QED BY Zenon, <2>1, <3>5, <3>8, <3>9, <3>10 DEF OtaInv
  <2>3. CASE key.is # "key"
    <3> DEFINE r == [Ota!New EXCEPT !.pc = "threw"]
    <3>1. Ota!Step(p, r) /\ UNCHANGED signed
      BY <1>2, <2>3 DEF Ota!Sign
    <3>2. DOMAIN r = DOMAIN Ota!New /\ r.pc = "threw" /\ r.verdict = "none" /\ r.m = Ota!New.m
      BY NewProc
    <3>3. ProcOK(signed, r)
      BY <3>2, NewProc DEF ProcOK
    <3> QED BY <1>i, <2>1, <3>1, <3>3, StepOK
  <2> QED BY <2>2, <2>3
<1>3. ASSUME NEW p \in Ota!Procs, Ota!ReadManifest(p) PROVE OtaInv'
  <2> DEFINE f == disk["manifest"]
  <2>1. UNCHANGED <<disk, stamp, signed>>
    BY <1>3 DEF Ota!ReadManifest
  <2>2. CASE f.is = "manifest"
    <3> DEFINE r == [Ota!New EXCEPT !.pc = "check", !.todo = <<f>>, !.m = f.m]
    <3>1. Ota!Step(p, r)
      BY <1>3, <2>2 DEF Ota!ReadManifest, Ota!ParseSignedManifest
    <3>2. IsManifest(signed, f)
      BY <1>i, <2>2 DEF FilesOK, ManifestFile, Ota!Missing, Ota!Cut
    <3> HIDE DEF f
    <3>3. DOMAIN r = DOMAIN Ota!New /\ r.pc = "check" /\ r.todo = <<f>> /\ r.verdict = "none"
          /\ r.m = f.m
      BY NewProc
    <3>4. ProcOK(signed, r)
      BY Zenon, <3>2, <3>3, NewProc DEF ProcOK, IsManifest
    <3> QED BY <1>i, <2>1, <3>1, <3>4, StepOK
  <2>3. CASE f.is # "manifest"
    <3> DEFINE r == [Ota!New EXCEPT !.pc = "exited", !.verdict = "FAIL"]
    <3>1. Ota!Step(p, r)
      BY <1>3, <2>3 DEF Ota!ReadManifest, Ota!ParseSignedManifest
    <3>2. DOMAIN r = DOMAIN Ota!New /\ r.pc = "exited" /\ r.verdict = "FAIL"
          /\ r.m = Ota!New.m
      BY NewProc
    <3>3. ProcOK(signed, r)
      BY <3>2, NewProc DEF ProcOK
    <3> QED BY <1>i, <2>1, <3>1, <3>3, StepOK
  <2> QED BY <2>2, <2>3
<1>4. ASSUME NEW p \in Ota!Procs, Ota!OpenFile(p) PROVE OtaInv'
  <2> DEFINE r == [proc[p] EXCEPT !.pc = "write"]
             f == Head(proc[p].todo)[1]
  <2>1. proc[p].pc = "open" /\ Ota!Step(p, r) /\ UNCHANGED <<stamp, signed>>
        /\ disk' = [disk EXCEPT ![f] = Ota!Cut]
    BY <1>4 DEF Ota!OpenFile
  <2>2. TodoOK(signed, proc[p].todo) /\ ProcOK(signed, proc[p])
    BY <1>i, <2>1 DEF ProcOK
  <2>3. f \in {"private", "public", "manifest"}
    BY Zenon, <2>2, FirstTodo
  <2> HIDE DEF f
  <2>4. FilesOK(signed, disk')
    BY Zenon, <1>i, <2>1, <2>3, FileWritten DEF KeyFile, ManifestFile
  <2>5. /\ DOMAIN r = DOMAIN proc[p] /\ r.pc = "write" /\ r.todo = proc[p].todo
        /\ r.verdict = proc[p].verdict /\ r.key = proc[p].key /\ r.m = proc[p].m
    BY <2>2 DEF ProcOK
  <2>6. ProcOK(signed, r)
    BY <2>2, <2>5 DEF ProcOK
  <2> QED BY Zenon, <1>i, <2>1, <2>4, <2>6, StepOK
<1>5. ASSUME NEW p \in Ota!Procs, Ota!WriteFile(p) \/ Ota!ShortWrite(p) PROVE OtaInv'
  <2> DEFINE r == [proc[p] EXCEPT !.todo = Tail(proc[p].todo),
                     !.pc = IF Tail(proc[p].todo) = <<>> THEN "exited" ELSE "open"]
             f == Head(proc[p].todo)[1]
             x == Head(proc[p].todo)[2]
  <2>1. /\ proc[p].pc = "write" /\ Ota!Step(p, r) /\ UNCHANGED <<stamp, signed>>
        /\ \/ disk' = [disk EXCEPT ![f] = x]
           \/ disk' = [disk EXCEPT ![f] = Ota!Cut]
           \/ f = "manifest" /\ disk' = [disk EXCEPT ![f] = [x EXCEPT !.sig.whole = FALSE]]
    BY Zenon, <1>5 DEF Ota!WriteFile, Ota!ShortWrite, Ota!Written
  <2>2. TodoOK(signed, proc[p].todo) /\ ProcOK(signed, proc[p])
    <3>1. ProcOK(signed, proc[p]) /\ proc[p].pc \in {"open", "write"}
      BY Zenon, <1>i, <2>1
    <3> QED BY Zenon, <3>1 DEF ProcOK
  <2>3. /\ f \in {"private", "public", "manifest"} /\ (f # "manifest" => KeyFile(x))
        /\ f = "manifest" => IsManifest(signed, x)
    BY Zenon, <2>2, FirstTodo
  <2>4. ProcOK(signed, r)
    BY Zenon, <2>1, <2>2, WrittenOK
  <2> HIDE DEF f, x, r
  <2>5. f = "manifest" => IsManifest(signed, [x EXCEPT !.sig.whole = FALSE])
    <3> SUFFICES ASSUME IsManifest(signed, x)
                 PROVE  IsManifest(signed, [x EXCEPT !.sig.whole = FALSE])
      BY <2>3
    <3> DEFINE y == [x EXCEPT !.sig.whole = FALSE]
    <3>1. /\ DOMAIN y = DOMAIN x /\ y.is = x.is /\ y.m = x.m
          /\ y.sig = [x.sig EXCEPT !.whole = FALSE]
      BY DEF IsManifest
    <3>2. DOMAIN y.sig = DOMAIN x.sig /\ y.sig.key = x.sig.key /\ y.sig.bytes = x.sig.bytes
      BY <3>1 DEF IsManifest
    <3> HIDE DEF y
    <3>3. IsManifest(signed, y)
      BY <3>1, <3>2 DEF IsManifest
    <3> QED BY <3>3 DEF y
  <2>6. FilesOK(signed, disk')
    <3>1. CASE disk' = [disk EXCEPT ![f] = x]
      BY Zenon, <1>i, <2>3, <3>1, FileWritten DEF ManifestFile
    <3>2. CASE disk' = [disk EXCEPT ![f] = Ota!Cut]
      BY Zenon, <1>i, <2>3, <3>2, FileWritten DEF KeyFile, ManifestFile
    <3>3. CASE f = "manifest" /\ disk' = [disk EXCEPT ![f] = [x EXCEPT !.sig.whole = FALSE]]
      BY Zenon, <1>i, <2>3, <2>5, <3>3, FileWritten DEF ManifestFile
    <3> QED BY <2>1, <3>1, <3>2, <3>3
  <2> QED BY <1>i, <2>1, <2>4, <2>6, StepOK
<1>6. ASSUME NEW p \in Ota!Procs, Ota!Crash(p) PROVE OtaInv'
  <2> DEFINE r == [proc[p] EXCEPT !.pc = "killed"]
  <2>1. Ota!Step(p, r) /\ UNCHANGED <<disk, stamp, signed>> /\ ProcOK(signed, proc[p])
    BY <1>6, <1>i DEF Ota!Crash
  <2>2. /\ DOMAIN r = DOMAIN proc[p] /\ r.pc = "killed"
        /\ r.verdict = proc[p].verdict /\ r.key = proc[p].key /\ r.m = proc[p].m
    BY <2>1 DEF ProcOK
  <2>3. ProcOK(signed, r)
    BY <2>1, <2>2 DEF ProcOK
  <2> QED BY <1>i, <2>1, <2>3, StepOK
<1>7. ASSUME NEW p \in Ota!Procs, Ota!Verify(p) PROVE OtaInv'
  <2> DEFINE key == disk["public"]
             file == Head(proc[p].todo)
  <2>1. proc[p].pc = "check" /\ UNCHANGED <<disk, stamp, signed>> /\ ProcOK(signed, proc[p])
    BY Zenon, <1>7, <1>i DEF Ota!Verify
  <2>2. IsManifest(signed, file) /\ proc[p].m = file.m
    <3>1. PICK f : proc[p].todo = <<f>> /\ IsManifest(signed, f) /\ proc[p].m = f.m
      BY Zenon, <2>1 DEF ProcOK
    <3>2. Head(<<f>>) = f
      OBVIOUS
    <3> QED BY SMTT(40), <3>1, <3>2
  <2>3. CASE key.is = "key"
    <3>1. PICK ok \in Ota!VerifyManifestSignature(file.m, file.sig, key.key) :
            Ota!Step(p, [proc[p] EXCEPT !.pc = "exited", !.todo = <<>>, !.key = key.key,
                                    !.verdict = IF ok THEN "OK" ELSE "FAIL"])
      BY Zenon, <1>7, <2>3 DEF Ota!Verify
    <3> DEFINE v == IF ok THEN "OK" ELSE "FAIL"
               r == [proc[p] EXCEPT !.pc = "exited", !.todo = <<>>, !.key = key.key,
                                    !.verdict = v]
    <3>2. ok => file.sig = Ota!SignManifest(file.m, key.key)
      <4> SUFFICES ASSUME ok PROVE file.sig = Ota!SignManifest(file.m, key.key)
        OBVIOUS
      <4>1. PICK d \in Ota!DigestVerify(file.m, file.sig, key.key) : ok = (d = 1)
        BY Zenon, <3>1 DEF Ota!VerifyManifestSignature
      <4>2. d = 1
        BY Zenon, <4>1
      <4> QED BY SMTT(40), <4>1, <4>2 DEF Ota!DigestVerify
    <3> HIDE DEF file, key
    <3>5. /\ Ota!SignManifest(file.m, key.key).key = key.key
          /\ Ota!SignManifest(file.m, key.key).bytes = Ota!CanonicalBytes(file.m)
      BY DEF Ota!SignManifest
    <3>6. ok => WasSigned(signed, Ota!CanonicalBytes(proc[p].m), key.key)
      BY Zenon, <2>2, <3>2, <3>5 DEF IsManifest
    <3>7. v = "OK" => ok
      OBVIOUS
    <3> HIDE DEF v
    <3>8. /\ DOMAIN r = DOMAIN proc[p] /\ r.pc = "exited"
          /\ r.verdict = v /\ r.key = key.key /\ r.m = proc[p].m
      BY <2>1 DEF ProcOK
    <3>9. ProcOK(signed, r)
      BY <2>1, <3>6, <3>7, <3>8 DEF ProcOK
    <3>10. Ota!Step(p, r)
      BY <3>1 DEF v
    <3> QED BY SMTT(40), <1>i, <2>1, <3>9, <3>10, StepOK
  <2>4. CASE key.is # "key"
    <3> DEFINE r == [proc[p] EXCEPT !.pc = "threw", !.todo = <<>>]
    <3>1. Ota!Step(p, r)
      BY <1>7, <2>4 DEF Ota!Verify
    <3>2. /\ DOMAIN r = DOMAIN proc[p] /\ r.pc = "threw"
          /\ r.verdict = proc[p].verdict /\ r.key = proc[p].key /\ r.m = proc[p].m
      BY <2>1 DEF ProcOK
    <3>3. ProcOK(signed, r)
      BY <2>1, <3>2 DEF ProcOK
    <3> QED BY <1>i, <2>1, <3>1, <3>3, StepOK
  <2> QED BY <2>3, <2>4
<1>8. CASE UNCHANGED Ota!vars
  BY SMTT(40), <1>8, <1>i DEF Ota!vars, OtaInv
<1>9. CASE Ota!Edit
  <2> DEFINE f == disk["manifest"]
  <2>1. IsManifest(signed, f)
    BY SMTT(40), <1>9, <1>i DEF Ota!Edit, FilesOK, ManifestFile, Ota!Missing, Ota!Cut
  <2>2. PICK v \in Versions \cup {0}, sha \in Texts, url \in Texts, issued \in {0, f.m.issued} :
          disk' = [disk EXCEPT !["manifest"].m = [version |-> v, sha |-> sha, url |-> url,
                                                  issued |-> issued]]
    BY Zenon, <1>9 DEF Ota!Edit
  <2> DEFINE m == [version |-> v, sha |-> sha, url |-> url, issued |-> issued]
             x == [f EXCEPT !.m = m]
  <2>3. m \in Manifests
    <3>1. f.m.issued \in Nat
      BY SMTT(40), <2>1 DEF IsManifest, Manifests
    <3>2. issued \in Nat
      BY <3>1
    <3> QED BY Zenon, <3>2, FieldsOfManifest
  <2> HIDE DEF m
  <2>4. DOMAIN x = DOMAIN f /\ x.is = f.is /\ x.sig = f.sig /\ x.m = m
    BY SMTT(40), <2>1 DEF IsManifest
  <2>5. disk' = [disk EXCEPT !["manifest"] = x]
    BY <2>2 DEF m
  <2> HIDE DEF x
  <2>6. IsManifest(signed, x)
    BY Zenon, <2>1, <2>3, <2>4 DEF IsManifest
  <2>7. FilesOK(signed, disk')
    BY Zenon, <1>i, <2>5, <2>6, FileWritten DEF ManifestFile
  <2>8. UNCHANGED <<proc, stamp, signed>>
    BY Zenon, <1>9 DEF Ota!Edit
  <2> QED BY SMTT(40), <1>i, <2>7, <2>8 DEF OtaInv
<1> QED BY <1>1, <1>2, <1>3, <1>4, <1>5, <1>6, <1>7, <1>8, <1>9 DEF Ota!Next

\* Triples are equal field by field.
LEMMA ThreeFields ==
  \A x, y, z, u, v, w : <<x, y, z>> = <<u, v, w>> => x = u /\ y = v /\ z = w
OBVIOUS

\* What two sequences begin with cancels.
LEMMA CancelLeft ==
  ASSUME NEW s \in Seq(Pieces), NEW t \in Seq(Pieces), NEW v \in Seq(Pieces),
         s \o t = s \o v
  PROVE  t = v
BY ConcatSimplifications

\* What two sequences end with cancels.
LEMMA CancelRight ==
  ASSUME NEW s \in Seq(Pieces), NEW t \in Seq(Pieces), NEW v \in Seq(Pieces),
         s \o v = t \o v
  PROVE  s = t
BY ConcatSimplifications

\* Two manifests of the same bytes do not differ in one field alone: with the others
\* equal, what surrounds it cancels.
LEMMA OneFieldShows ==
  ASSUME NEW a \in Manifests, NEW b \in Manifests,
         Ota!CanonicalBytes(a) = Ota!CanonicalBytes(b)
  PROVE  ~Ota!OneFieldDiffers(a, b)
<1> DEFINE sep == <<"|url=">>
<1>0. /\ a.sha \in Seq(Pieces) /\ a.url \in Seq(Pieces)
      /\ b.sha \in Seq(Pieces) /\ b.url \in Seq(Pieces)
      /\ DOMAIN a = {"version", "sha", "url", "issued"}
  BY DEF Manifests
<1>1. sep \in Seq(Pieces)
  BY DEF Pieces
<1> HIDE DEF sep
<1>2. /\ a.version = b.version /\ a.issued = b.issued
      /\ a.sha \o sep \o a.url = b.sha \o sep \o b.url
  BY Zenon, ThreeFields DEF Ota!CanonicalBytes, sep
<1>3. /\ a.sha \o sep \in Seq(Pieces) /\ b.sha \o sep \in Seq(Pieces)
  BY <1>0, <1>1, ConcatProperties
<1>4. ASSUME a.sha = b.sha PROVE a.url = b.url
  <2>1. (a.sha \o sep) \o a.url = (a.sha \o sep) \o b.url
    BY <1>2, <1>4
  <2> QED BY <1>0, <1>3, <2>1, CancelLeft
<1>5. ASSUME a.url = b.url PROVE a.sha = b.sha
  <2>1. (a.sha \o sep) \o a.url = (b.sha \o sep) \o a.url
    BY <1>2, <1>5
  <2>2. a.sha \o sep = b.sha \o sep
    BY <1>0, <1>3, <2>1, CancelRight
  <2> QED BY <1>0, <1>1, <2>2, CancelRight
<1> SUFFICES ASSUME NEW f \in DOMAIN a, a[f] # b[f],
                    \A g \in DOMAIN a \ {f} : a[g] = b[g]
             PROVE  FALSE
  BY DEF Ota!OneFieldDiffers
<1>6. f # "url" => a.url = b.url
  BY Zenon, <1>0
<1>7. f # "sha" => a.sha = b.sha
  BY Zenon, <1>0
<1>8. f \in {"version", "sha", "url", "issued"}
  BY Zenon, <1>0
<1> QED BY <1>2, <1>4, <1>5, <1>6, <1>7, <1>8

\* The bytes of a manifest that is called OK were signed by a sign command with the
\* private half of the key it is checked against, and no single field of it was altered:
\* for any number of commands at once, crashes, writes cut short and edits.
THEOREM OnlySignedIsVerified == ServicesSpec => []VerifiedIsSigned
<1>1. OtaInv => VerifiedIsSigned
  <2> SUFFICES ASSUME OtaInv, NEW p \in Ota!Procs, proc[p].verdict = "OK"
               PROVE  \E i \in DOMAIN signed :
                        /\ signed[i].key = proc[p].key
                        /\ Ota!CanonicalBytes(signed[i].m) = Ota!CanonicalBytes(proc[p].m)
                        /\ ~Ota!OneFieldDiffers(signed[i].m, proc[p].m)
    BY Zenon DEF VerifiedIsSigned, Ota!VerifiedIsSigned
  <2>1. proc[p].m \in Manifests /\ signed \in Seq(Signings)
        /\ WasSigned(signed, Ota!CanonicalBytes(proc[p].m), proc[p].key)
    BY Zenon DEF OtaInv, ProcOK
  <2>2. PICK i \in DOMAIN signed :
          /\ Ota!CanonicalBytes(signed[i].m) = Ota!CanonicalBytes(proc[p].m)
          /\ signed[i].key = proc[p].key
    BY Zenon, <2>1 DEF WasSigned
  <2>3. signed[i].m \in Manifests
    <3>1. signed[i] \in Signings
      BY <2>1
    <3> QED BY <3>1 DEF Signings
  <2> QED BY Zenon, <2>1, <2>2, <2>3, OneFieldShows
<1>2. ServicesInit => OtaInv
  BY OtaInitially DEF ServicesInit
<1>3. OtaInv /\ [ServicesNext]_servicesVars => OtaInv'
  BY OtaStep DEF ServicesNext, servicesVars, otaVars, Ota!vars
<1> QED BY <1>1, <1>2, <1>3, PTL DEF ServicesSpec

---------------------------------------------------------------------------------
(* Producer loop. *)

\* The producer's variables have their types.
ProducerTypes ==
  /\ producerPc \in {"loop", "sleeping", "emitting", "done"}
  /\ now \in Int /\ wake \in Int /\ latest \in Int /\ next_due \in Int /\ arrived \in Int
  /\ base \in Int /\ count \in Nat
  /\ period \in Periods /\ target \in Periods \cup {0, -1}

\* next_due is a whole number of periods after it was last set, and no event of the
\* count was emitted before its own period had passed.
ScheduleOK ==
  /\ base <= now
  /\ count > 0 => base + (count - 1) * period <= now
  /\ producerPc # "emitting" => next_due = base + count * period
  /\ producerPc = "emitting" => count > 0 /\ next_due = base + (count - 1) * period

\* A sleep or an emit ends in time, and a config that is pending was not there when the
\* producer last looked: it arrived in this slice, or in the emit before it.
Pending == target # -1 /\ ~behind
SlicesOK ==
  /\ producerPc = "sleeping" => now <= latest /\ latest - now <= Slice + MaxOver
  /\ producerPc = "emitting" => now <= latest /\ latest - now <= MaxEmit
  /\ Pending /\ producerPc = "loop" =>
       arrived = now \/ (now < next_due /\ now - arrived <= MaxEmit)
  /\ Pending /\ producerPc = "sleeping" => latest - arrived <= Slice + MaxOver + MaxEmit
  /\ Pending /\ producerPc = "emitting" => latest - arrived <= MaxEmit

\* The inductive invariant of the producer loop.
ProducerInv == ProducerTypes /\ ScheduleOK /\ SlicesOK

\* The first event is due at once.
LEMMA ProducerInitially == Producer!Init => ProducerInv
<1> SUFFICES ASSUME Producer!Init PROVE ProducerInv
  OBVIOUS
<1>1. period \in Int /\ 0 * period = 0
  BY ProducerAssumption DEF Producer!Init
<1>2. ProducerTypes
  BY DEF Producer!Init, ProducerTypes
<1>3. ScheduleOK /\ SlicesOK
  BY <1>1 DEF Producer!Init, ScheduleOK, SlicesOK, Pending
<1> QED BY <1>2, <1>3 DEF ProducerInv

\* One more period.
LEMMA NextPeriod == \A b, p \in Int, n \in Nat : b + (n - 1) * p + p = b + n * p
OBVIOUS

\* What has waited since a, at most e before n, waits until l.
LEMMA DelaysAdd ==
  ASSUME NEW l \in Int, NEW n \in Int, NEW a \in Int,
         NEW s \in Nat, NEW o \in Nat, NEW e \in Nat,
         l - n <= s + o, a = n \/ n - a <= e
  PROVE  l - a <= s + o + e
OBVIOUS

\* Sleeping, emitting, taking a config and the ack reader storing one keep the schedule.
LEMMA ProducerStep == ProducerInv /\ [Producer!Next]_(Producer!vars) => ProducerInv'
<1> SUFFICES ASSUME ProducerInv, [Producer!Next]_(Producer!vars) PROVE ProducerInv'
  OBVIOUS
<1>a. Slice \in Nat /\ MaxEmit \in Nat /\ MaxOver \in Nat /\ Periods \subseteq Nat
  BY ProducerAssumption
<1>t. ProducerTypes /\ ScheduleOK /\ SlicesOK
  BY DEF ProducerInv
<1>p. period \in Int
  BY <1>a, <1>t DEF ProducerTypes
<1>1. CASE Producer!Tick
  <2>1. ProducerTypes'
    BY SMTT(40), <1>1, <1>t DEF Producer!Tick, ProducerTypes
  <2>2. SlicesOK'
    <3>1. /\ producerPc \in {"sleeping", "emitting"} /\ now < latest /\ now' = now + 1
          /\ UNCHANGED <<producerPc, latest, target, arrived, behind>>
      BY <1>1 DEF Producer!Tick
    <3>2. now \in Int /\ latest \in Int
      BY Zenon, <1>t DEF ProducerTypes
    <3>3. now' <= latest /\ latest - now' <= latest - now
      BY <3>1, <3>2
    <3>4. CASE producerPc = "sleeping"
      <4>1. /\ latest - now <= Slice + MaxOver
            /\ Pending => latest - arrived <= Slice + MaxOver + MaxEmit
        BY Zenon, <1>t, <3>4 DEF SlicesOK
      <4>2. latest - now' <= Slice + MaxOver
        BY <1>a, <3>1, <3>2, <4>1
      <4> QED BY <3>1, <3>3, <3>4, <4>1, <4>2 DEF SlicesOK, Pending
    <3>5. CASE producerPc = "emitting"
      <4>1. latest - now <= MaxEmit /\ (Pending => latest - arrived <= MaxEmit)
        BY Zenon, <1>t, <3>5 DEF SlicesOK
      <4>2. latest - now' <= MaxEmit
        BY <1>a, <3>1, <3>2, <4>1
      <4> QED BY <3>1, <3>3, <3>5, <4>1, <4>2 DEF SlicesOK, Pending
    <3> QED BY <3>1, <3>4, <3>5
  <2>3. now' = now + 1 /\ UNCHANGED <<producerPc, base, count, period, next_due>>
    BY <1>1 DEF Producer!Tick
  <2>4. (count - 1) * period \in Int
    BY <1>p, <1>t DEF ProducerTypes
  <2>5. ScheduleOK'
    BY <1>t, <2>3, <2>4 DEF ScheduleOK, ProducerTypes
  <2> QED BY <2>1, <2>2, <2>5 DEF ProducerInv
<1>2. ASSUME NEW t \in Periods \cup {0}, Producer!Deliver(t) PROVE ProducerInv'
  <2>1. ProducerTypes'
    BY <1>2, <1>t DEF Producer!Deliver, ProducerTypes
  <2>2. SlicesOK'
    <3>1. CASE target = -1
      <4>1. arrived' = now /\ UNCHANGED <<producerPc, now, latest>>
        BY <1>2, <3>1 DEF Producer!Deliver
      <4> QED BY SMTT(40), <1>t, <1>a, <4>1 DEF ProducerTypes, SlicesOK
    <3>2. CASE target # -1
      BY <1>2, <1>t, <3>2 DEF Producer!Deliver, SlicesOK, Pending
    <3> QED BY <3>1, <3>2
  <2>3. ScheduleOK'
    BY SMTT(40), <1>2, <1>t DEF Producer!Deliver, ScheduleOK
  <2> QED BY <2>1, <2>2, <2>3 DEF ProducerInv
<1>3. CASE Producer!Finish
  BY <1>3, <1>t DEF Producer!Finish, ProducerInv, ProducerTypes, ScheduleOK, SlicesOK
<1>4. CASE Producer!Sleep
  <2>1. /\ producerPc' = "sleeping" /\ producerPc = "loop" /\ now < next_due
        /\ wake' = IF next_due < now + Slice THEN next_due ELSE now + Slice
        /\ latest' = wake' + MaxOver
        /\ UNCHANGED <<now, period, next_due, target, arrived, base, count, behind>>
    BY <1>4 DEF Producer!Sleep
  <2>2. wake' \in Int /\ latest' \in Int /\ now <= wake' /\ wake' <= now + Slice
    BY <1>t, <1>a, <2>1 DEF ProducerTypes
  <2>3. ProducerTypes'
    BY SMTT(40), <1>t, <2>1, <2>2 DEF ProducerTypes
  <2>4. SlicesOK'
    <3>1. /\ now' = now /\ arrived' = arrived /\ Pending' = Pending
          /\ now \in Int /\ next_due \in Int /\ arrived \in Int
      BY Zenon, <1>t, <2>1 DEF ProducerTypes, Pending
    <3>2. now' <= latest' /\ latest' - now' <= Slice + MaxOver
      BY <1>a, <2>1, <2>2, <3>1
    <3>3. Pending => arrived = now \/ now - arrived <= MaxEmit
      BY Zenon, <1>t, <2>1 DEF SlicesOK
    <3>4. ASSUME Pending' PROVE latest' - arrived' <= Slice + MaxOver + MaxEmit
      <4>1. Pending
        BY Zenon, <3>1, <3>4
      <4>2. arrived = now \/ now - arrived <= MaxEmit
        BY Zenon, <3>3, <4>1
      <4>3. now' = now /\ arrived' = arrived /\ now \in Int /\ arrived \in Int
        BY Zenon, <3>1
      <4>4. latest' - now <= Slice + MaxOver
        BY Zenon, <3>2, <4>3
      <4>5. latest' - arrived <= Slice + MaxOver + MaxEmit
        BY Zenon, <1>a, <2>2, <4>2, <4>3, <4>4, DelaysAdd
      <4> QED BY Zenon, <4>3, <4>5
    <3> QED BY <2>1, <3>2, <3>4 DEF SlicesOK
  <2>5. ScheduleOK'
    BY <1>t, <2>1 DEF ScheduleOK
  <2> QED BY <2>3, <2>4, <2>5 DEF ProducerInv
<1>5. CASE Producer!Wake
  <2>1. producerPc = "sleeping" /\ producerPc' = "loop" /\ target' = -1
        /\ UNCHANGED <<now, wake, latest, arrived, behind>>
    BY <1>5 DEF Producer!Wake, Producer!TakeConfig
  <2>2. SlicesOK'
    BY <2>1 DEF SlicesOK, Pending
  <2>3. CASE target > 0
    <3>1. period' = target /\ next_due' = now /\ base' = now /\ count' = 0
      BY <1>5, <2>3 DEF Producer!Wake, Producer!TakeConfig
    <3>2. target \in Periods
      BY <1>t, <2>3 DEF ProducerTypes
    <3>3. target \in Int /\ now \in Int
      BY <1>a, <1>t, <3>2 DEF ProducerTypes
    <3>4. ProducerTypes'
      BY <1>t, <2>1, <3>1, <3>2 DEF ProducerTypes
    <3>5. ScheduleOK'
      BY <2>1, <3>1, <3>3 DEF ScheduleOK
    <3> QED BY <2>2, <3>4, <3>5 DEF ProducerInv
  <2>4. CASE ~(target > 0)
    <3>1. UNCHANGED <<period, next_due, base, count>>
      BY <1>5, <2>4 DEF Producer!Wake, Producer!TakeConfig
    <3>2. ProducerTypes' /\ ScheduleOK'
      BY <1>t, <2>1, <3>1 DEF ProducerTypes, ScheduleOK
    <3> QED BY <2>2, <3>2 DEF ProducerInv
  <2> QED BY <2>3, <2>4
<1>6. CASE Producer!Emit
  <2>1. /\ producerPc = "loop" /\ now >= next_due /\ producerPc' = "emitting" /\ count' = count + 1
        /\ wake' = now /\ latest' = now + MaxEmit
        /\ UNCHANGED <<now, period, next_due, target, arrived, base, behind>>
    BY <1>6 DEF Producer!Emit
  <2>2. ProducerTypes'
    BY SMTT(40), <1>t, <1>a, <2>1 DEF ProducerTypes
  <2>3. SlicesOK'
    <3>1. /\ now' = now /\ latest' = now + MaxEmit /\ arrived' = arrived /\ Pending' = Pending
          /\ now \in Int /\ next_due \in Int /\ arrived \in Int /\ MaxEmit \in Nat
      BY <1>t, <1>a, <2>1 DEF ProducerTypes, Pending
    <3>2. now' <= latest' /\ latest' - now' <= MaxEmit
      BY <3>1
    <3>3. Pending => arrived = now
      BY <1>t, <2>1, <3>1 DEF SlicesOK
    <3>4. Pending' => latest' - arrived' <= MaxEmit
      BY <3>1, <3>3
    <3> QED BY <2>1, <3>2, <3>4 DEF SlicesOK
  <2>4. count' - 1 = count /\ count' > 0
    BY <1>t, <2>1 DEF ProducerTypes
  <2>5. next_due = base + count * period /\ next_due <= now /\ base <= now
    BY <1>t, <2>1 DEF ScheduleOK, ProducerTypes
  <2>6. ScheduleOK'
    BY <2>1, <2>4, <2>5 DEF ScheduleOK
  <2> QED BY <2>2, <2>3, <2>6 DEF ProducerInv
<1>7. CASE Producer!Emitted
  <2>1. /\ producerPc = "emitting" /\ producerPc' = "loop" /\ next_due' = next_due + period
        /\ behind' = (behind \/ now >= next_due')
        /\ UNCHANGED <<now, wake, latest, period, target, arrived, base, count>>
    BY <1>7 DEF Producer!Emitted
  <2>2. next_due' \in Int
    BY <1>t, <1>p, <2>1 DEF ProducerTypes
  <2>3. ProducerTypes'
    BY <1>t, <2>1, <2>2 DEF ProducerTypes
  <2>4. ~behind' => ~behind /\ now < next_due'
    <3>1. ~behind' => ~behind /\ ~(now >= next_due')
      BY <2>1, Zenon
    <3> QED BY <1>t, <2>2, <3>1 DEF ProducerTypes
  <2>5. SlicesOK'
    <3>1. Pending' => Pending /\ now < next_due'
      BY Zenon, <2>1, <2>4 DEF Pending
    <3>2. Pending => latest - arrived <= MaxEmit
      BY Zenon, <1>t, <2>1 DEF SlicesOK
    <3>3. now <= latest
      BY Zenon, <1>t, <2>1 DEF SlicesOK
    <3>4. now \in Int /\ latest \in Int /\ arrived \in Int
      BY Zenon, <1>t DEF ProducerTypes
    <3>5. Pending => now - arrived <= MaxEmit
      BY <1>a, <3>2, <3>3, <3>4
    <3> QED BY <2>1, <3>1, <3>5 DEF SlicesOK
  <2>6. next_due' = base + count * period
    <3>1. next_due = base + (count - 1) * period
      BY <1>t, <2>1 DEF ScheduleOK
    <3> QED BY <1>t, <1>p, <2>1, <3>1, NextPeriod DEF ProducerTypes
  <2>7. ScheduleOK'
    BY SMTT(40), <1>t, <2>1, <2>6 DEF ScheduleOK
  <2> QED BY <2>3, <2>5, <2>7 DEF ProducerInv
<1>8. CASE UNCHANGED Producer!vars
  BY Zenon, <1>8, <1>t DEF Producer!vars, ProducerInv, ProducerTypes, ScheduleOK, SlicesOK, Pending
<1> QED BY <1>1, <1>2, <1>3, <1>4, <1>5, <1>6, <1>7, <1>8 DEF Producer!Next

\* Dividing by a period rounds down.
LEMMA WholePeriods ==
  ASSUME NEW x \in Nat, NEW n \in Nat, NEW p \in Nat \ {0}, n * p <= x
  PROVE  n <= x \div p
<1> DEFINE q == x \div p
<1>1. q \in Int /\ x < (q + 1) * p
  OBVIOUS
<1> HIDE DEF q
<1>2. SUFFICES ASSUME q + 1 <= n PROVE FALSE
  BY <1>1 DEF q
<1>3. (q + 1) * p <= n * p
  BY <1>1, <1>2
<1>4. (q + 1) * p \in Int /\ n * p \in Int
  BY <1>1
<1> QED BY <1>1, <1>3, <1>4

\* The step of the four components, as the producer sees it.
LEMMA ProducerRuns ==
  ServicesInit /\ [][ServicesNext]_servicesVars
    => []ProducerInv
<1>1. ServicesInit => ProducerInv
  BY SMTT(40), ProducerInitially DEF ServicesInit
<1>2. ProducerInv /\ [ServicesNext]_servicesVars
        => ProducerInv'
  BY ProducerStep DEF ServicesNext, servicesVars, producerVars, Producer!vars
<1> QED BY <1>1, <1>2, PTL

\* However long sleeps and emits take, and whenever the rate changes: the producer has
\* never emitted more events than periods have begun since the rate was set, and what is
\* due next has not drifted.
THEOREM ProducerKeepsTheRate == ServicesSpec => []RateIsKept
<1>1. ProducerInv => RateIsKept
  <2> SUFFICES ASSUME ProducerInv PROVE Producer!RateIsKept
    BY DEF RateIsKept
  <2>1. ProducerTypes /\ ScheduleOK /\ period \in Nat \ {0}
    BY ProducerAssumption DEF ProducerInv, ProducerTypes
  <2>2. now - base \in Nat
    BY <2>1 DEF ProducerTypes, ScheduleOK
  <2>3. (now - base) \div period \in Nat
    BY <2>1, <2>2
  <2>4. CASE count = 0
    BY <2>1, <2>3, <2>4 DEF Producer!RateIsKept, ScheduleOK
  <2>5. CASE count > 0
    <3>1. count - 1 \in Nat /\ (count - 1) * period \in Int
      BY <2>1, <2>5 DEF ProducerTypes
    <3>2. (count - 1) * period <= now - base
      BY <2>1, <2>5, <3>1 DEF ProducerTypes, ScheduleOK
    <3>3. count - 1 <= (now - base) \div period
      BY <2>1, <2>2, <3>1, <3>2, WholePeriods
    <3>4. count <= (now - base) \div period + 1
      BY <2>1, <2>3, <3>3 DEF ProducerTypes
    <3> QED BY <2>1, <3>4 DEF Producer!RateIsKept, ScheduleOK
  <2> QED BY <2>1, <2>4, <2>5 DEF ProducerTypes
<1> QED BY <1>1, ProducerRuns, PTL DEF ServicesSpec

\* A config is looked at within a slice, an emit and what a sleep takes too long, for any
\* slice and any rates, so long as emits end before the next is due.
THEOREM ProducerTakesConfigsPromptly == ServicesSpec => []ConfigIsPrompt
<1>1. ProducerInv => Producer!ConfigIsPrompt
  BY SMTT(40), ProducerAssumption DEF ProducerInv, ProducerTypes, SlicesOK, Pending, Producer!ConfigIsPrompt
<1>2. ProducerInv => ConfigIsPrompt
  BY <1>1 DEF ConfigIsPrompt
<1> QED BY <1>2, ProducerRuns, PTL DEF ServicesSpec
=================================================================================
