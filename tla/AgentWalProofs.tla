----------------------------- MODULE AgentWalProofs -----------------------------
(***************************************************************************)
(* Safety of the agent's log for any number of events and crashes, with or *)
(* without torn appends, and any compaction threshold.                     *)
(*                                                                         *)
(* WalInv adds to the properties what keeps them true: the threads of a    *)
(* dead process are idle, last_acked_seq_ never runs ahead of events.ckpt  *)
(* and equals it except while an ack is being handled, nothing numbered    *)
(* nextSeq or more exists but the record being written, and a compaction   *)
(* still holds (todo, kept) every clean record the log needs.              *)
(***************************************************************************)
EXTENDS AgentWal, FiniteSetTheorems, TLAPS

\* Records whose append met no hazard, the one being written included.
CleanRecords ==
  {r \in committed \cup {Current} :
     r \notin exposed /\ (r \in committed \/ appPc = "written")}

Quiet ==
  ~up => appPc = "idle" /\ ackPc = "idle" /\ ackSeq = 0 /\ cmpPc = "idle"

AckOrder ==
  up => /\ lastAcked <= ckpt /\ ckpt < nextSeq /\ ackSeq < nextSeq
        /\ ackPc # "saved" => lastAcked = ckpt
        /\ ackPc = "saved" => ckpt = ackSeq

SeqBound ==
  up => /\ \A r \in good : r.seq < nextSeq \/ (appPc = "written" /\ r = Current)
        /\ \A r \in outbox : r.seq < nextSeq
        /\ \A r \in committed \ exposed : r.seq < nextSeq

CompactHolds ==
  /\ cmpPc = "idle" => todo = {} /\ kept = {}
  /\ todo \subseteq good /\ kept \subseteq good
  /\ cmpPc = "filtering" =>
       \A r \in CleanRecords : r.seq > ckpt => r \in todo \cup kept

CleanInLog == \A r \in CleanRecords : r.seq > ckpt => r \in good

WalInv ==
  /\ TypeOK /\ Quiet /\ AckOrder /\ SeqBound /\ CompactHolds /\ CleanInLog
  /\ CleanSeqsUnique /\ UnackedInOutbox

\* The initial state of the agent satisfies the invariant.
LEMMA WalInvInit == Init => WalInv
<1> SUFFICES ASSUME Init PROVE WalInv
  OBVIOUS
<1>1. TypeOK
  BY Zenon, FS_EmptySet DEF Init, TypeOK, Record
<1>2. CleanRecords = {}
  BY DEF Init, CleanRecords
<1>3. Quiet /\ AckOrder /\ SeqBound /\ CompactHolds /\ CleanInLog
  BY <1>2 DEF Init, Quiet, AckOrder, SeqBound, CompactHolds, CleanInLog
<1>4. CleanSeqsUnique /\ UnackedInOutbox
  BY DEF Init, CleanSeqsUnique, UnackedInOutbox
<1> QED
  BY <1>1, <1>3, <1>4 DEF WalInv

\* Every variable keeps its type in every step of the agent's threads.
LEMMA TypeStep == TypeOK /\ CompactHolds /\ [Next]_vars => TypeOK'
<1> SUFFICES ASSUME TypeOK, CompactHolds, [Next]_vars PROVE TypeOK'
  OBVIOUS
<1> USE DEF TypeOK, Record
<1>1. CASE AppendOpen
  BY Zenon, <1>1 DEF AppendOpen, files
<1>2. CASE AppendWrite
  <2>1. Fresh \in Record
    BY DEF Fresh
  <2>2. IsFiniteSet(good \cup {Fresh})
    BY FS_AddElement
  <2> QED
    BY <1>2, <2>1, <2>2 DEF AppendWrite
<1>3. CASE AppendReturn
  <2>1. Current \in Record
    BY DEF Current
  <2> QED
    BY <1>3, <2>1 DEF AppendReturn, files
<1>4. CASE AckOutbox
  BY <1>4 DEF AckOutbox, Above, files
<1>5. CASE AckSave
  BY <1>5 DEF AckSave, files
<1>6. CASE AckRemember
  BY <1>6 DEF AckRemember, files
<1>7. CASE CompactRead
  BY <1>7 DEF CompactRead, files
<1>8. CASE CompactFilter
  <2>1. \A r : IsFiniteSet(kept \cup {r}) /\ IsFiniteSet(todo \ {r})
    BY FS_AddElement, FS_RemoveElement
  <2> QED
    BY Zenon, <1>8, <2>1 DEF CompactFilter, files
<1>9. CASE CompactReplace
  BY Zenon, <1>9, FS_CardinalityType, FS_EmptySet DEF CompactReplace
<1>10. CASE Crash
  <2> USE <1>10 DEF Crash
  <2>1. torn' \in BOOLEAN
    BY Zenon
  <2>2. IsFiniteSet(good') /\ IsFiniteSet(todo') /\ IsFiniteSet(kept')
    BY FS_EmptySet
  <2>3. /\ (outbox \subseteq Record /\ todo \subseteq Record /\ kept \subseteq Record)'
        /\ (good \subseteq Record /\ behind \subseteq Record)'
        /\ (committed \subseteq Record /\ exposed \subseteq Record)'
    OBVIOUS
  <2>4. /\ (ckpt \in Nat /\ lastAcked \in Nat /\ nextSeq \in Nat /\ ackSeq \in Nat)'
        /\ (cmpSize \in Nat /\ emitted \in Nat /\ crashes \in Nat)'
    OBVIOUS
  <2> QED
    BY Zenon, <2>1, <2>2, <2>3, <2>4
<1>11. CASE Restart
  BY <1>11 DEF Restart, Above, files
<1>12. CASE UNCHANGED vars
  BY <1>12 DEF vars
<1> QED
  BY <1>1, <1>2, <1>3, <1>4, <1>5, <1>6, <1>7, <1>8, <1>9, <1>10, <1>11, <1>12 DEF Next

\* The invariant is preserved by the producer's steps.
LEMMA AppendSteps ==
  WalInv /\ TypeOK' /\ (AppendOpen \/ AppendWrite \/ AppendReturn) => WalInv'
<1> SUFFICES ASSUME WalInv, TypeOK', AppendOpen \/ AppendWrite \/ AppendReturn
             PROVE  WalInv'
  OBVIOUS
<1> USE DEF WalInv
<1>1. CASE AppendOpen
  <2> USE <1>1 DEF AppendOpen, files
  <2>1. CleanRecords' \subseteq CleanRecords
    BY DEF CleanRecords, Current
  <2>2. (Quiet /\ AckOrder /\ CleanSeqsUnique /\ UnackedInOutbox)'
    BY DEF Quiet, AckOrder, CleanSeqsUnique, UnackedInOutbox
  <2>3. SeqBound'
    BY DEF SeqBound
  <2>4. (CompactHolds /\ CleanInLog)'
    BY <2>1 DEF CompactHolds, CleanInLog
  <2> QED
    BY <2>2, <2>3, <2>4
<1>2. CASE AppendWrite
  <2> USE <1>2 DEF AppendWrite
  <2>1. Current' = Fresh
    BY DEF Current, Fresh
  <2>2. \A r \in CleanRecords' :
          \/ r \in CleanRecords
          \/ r = Fresh /\ ~appStale /\ ~torn /\ cmpPc = "idle" /\ good' = good \cup {Fresh}
    BY <2>1 DEF CleanRecords, TypeOK
  <2>3. (Quiet /\ AckOrder /\ CleanSeqsUnique /\ UnackedInOutbox)'
    BY DEF Quiet, AckOrder, CleanSeqsUnique, UnackedInOutbox
  <2>4. SeqBound'
    BY <2>1 DEF SeqBound
  <2>5. (CompactHolds /\ CleanInLog)'
    BY <2>2 DEF CompactHolds, CleanInLog, TypeOK
  <2> QED
    BY <2>3, <2>4, <2>5
<1>3. CASE AppendReturn
  <2> USE <1>3 DEF AppendReturn, files
  <2>1. CleanRecords' \subseteq CleanRecords
    BY DEF CleanRecords
  <2>2. /\ Current.seq = nextSeq /\ nextSeq \in Nat
        /\ \A r \in good \cup outbox \cup committed : r.seq \in Nat
    BY DEF Current, TypeOK, Record
  <2>3. \A r \in committed' \ exposed' : r = Current \/ r \in committed \ exposed
    OBVIOUS
  <2>4. (Quiet /\ AckOrder)'
    BY <2>2 DEF Quiet, AckOrder, TypeOK
  <2>5. SeqBound'
    <3>0. nextSeq' = nextSeq + 1 /\ good' = good /\ outbox' \subseteq outbox \cup {Current}
      OBVIOUS
    <3>1. \A r \in good' : r.seq < nextSeq'
      BY <2>2, <3>0 DEF SeqBound
    <3>2. \A r \in outbox' : r.seq < nextSeq'
      BY <2>2, <3>0 DEF SeqBound
    <3>3. \A r \in committed' \ exposed' : r.seq < nextSeq'
      BY <2>2, <2>3, <3>0 DEF SeqBound
    <3> QED
      BY <3>1, <3>2, <3>3 DEF SeqBound
  <2>6. (CompactHolds /\ CleanInLog)'
    BY <2>1 DEF CompactHolds, CleanInLog
  <2>7. CleanSeqsUnique'
    <3>1. \A r \in committed \ exposed : r.seq < nextSeq /\ r.seq # Current.seq
      BY <2>2 DEF SeqBound
    <3> QED
      BY <2>3, <3>1 DEF CleanSeqsUnique
  <2>8. UnackedInOutbox'
    BY <2>3 DEF UnackedInOutbox
  <2> QED
    BY <2>4, <2>5, <2>6, <2>7, <2>8
<1> QED
  BY <1>1, <1>2, <1>3

\* The invariant is preserved by the reader's steps.
LEMMA AckSteps ==
  WalInv /\ TypeOK' /\ (AckOutbox \/ AckSave \/ AckRemember) => WalInv'
<1> SUFFICES ASSUME WalInv, TypeOK', AckOutbox \/ AckSave \/ AckRemember
             PROVE  WalInv'
  OBVIOUS
<1> USE DEF WalInv
<1>0. CleanRecords' = CleanRecords
  BY DEF CleanRecords, Current, AckOutbox, AckSave, AckRemember
<1>n. ckpt \in Nat /\ lastAcked \in Nat /\ nextSeq \in Nat /\ ackSeq \in Nat
  BY DEF TypeOK
<1>r. \A r \in outbox \cup committed : r.seq \in Nat
  BY DEF TypeOK, Record
<1>1. CASE AckOutbox
  <2> USE <1>1 DEF AckOutbox, files
  <2>1. (Quiet /\ CleanSeqsUnique)'
    BY DEF Quiet, CleanSeqsUnique
  <2>2. AckOrder'
    BY <1>n DEF AckOrder
  <2>3. SeqBound'
    BY DEF SeqBound, Above, Current
  <2>4. (CompactHolds /\ CleanInLog)'
    BY <1>0 DEF CompactHolds, CleanInLog
  <2>5. UnackedInOutbox'
    BY <1>n, <1>r DEF UnackedInOutbox, Above
  <2> QED
    BY <2>1, <2>2, <2>3, <2>4, <2>5
<1>2. CASE AckSave
  <2> USE <1>2 DEF AckSave, files
  <2>1. (Quiet /\ CleanSeqsUnique)'
    BY DEF Quiet, CleanSeqsUnique
  <2>2. AckOrder'
    BY <1>n DEF AckOrder
  <2>3. SeqBound'
    BY DEF SeqBound, Current
  <2>4. ckpt <= ckpt'
    BY <1>n DEF AckOrder
  <2>5. (CompactHolds /\ CleanInLog)'
    <3>1. \A r \in CleanRecords : r.seq \in Nat
      BY <1>n, <1>r DEF CleanRecords, Current
    <3>2. \A r \in CleanRecords : r.seq > ckpt' => r.seq > ckpt
      <4>1. ckpt' \in Nat
        BY <1>n
      <4> QED
        BY <1>n, <2>4, <3>1, <4>1
    <3> QED
      BY <1>0, <3>2 DEF CompactHolds, CleanInLog
  <2>6. UnackedInOutbox'
    <3>1. \A r \in committed : r.seq <= ckpt \/ r.seq <= ackSeq => r.seq <= ckpt'
      <4>1. ackSeq <= ckpt'
        BY <1>n DEF AckOrder
      <4>2. ckpt' \in Nat
        BY <1>n
      <4> QED
        BY <1>n, <1>r, <2>4, <4>1, <4>2
    <3> QED
      BY <3>1 DEF UnackedInOutbox
  <2> QED
    BY <2>1, <2>2, <2>3, <2>5, <2>6
<1>3. CASE AckRemember
  <2> USE <1>3 DEF AckRemember, files
  <2>1. (Quiet /\ CleanSeqsUnique)'
    BY DEF Quiet, CleanSeqsUnique
  <2>2. AckOrder'
    BY <1>n DEF AckOrder
  <2>3. SeqBound'
    BY DEF SeqBound, Current
  <2>4. (CompactHolds /\ CleanInLog)'
    BY <1>0 DEF CompactHolds, CleanInLog
  <2>5. UnackedInOutbox'
    BY DEF UnackedInOutbox
  <2> QED
    BY <2>1, <2>2, <2>3, <2>4, <2>5
<1> QED
  BY <1>1, <1>2, <1>3

\* The invariant is preserved by the main thread's compaction.
LEMMA CompactSteps ==
  WalInv /\ TypeOK' /\ (CompactRead \/ CompactFilter \/ CompactReplace) => WalInv'
<1> SUFFICES ASSUME WalInv, TypeOK', CompactRead \/ CompactFilter \/ CompactReplace
             PROVE  WalInv'
  OBVIOUS
<1> USE DEF WalInv
<1>0. CleanRecords' = CleanRecords
  BY DEF CleanRecords, Current, CompactRead, CompactFilter, CompactReplace
<1>1. (Quiet /\ AckOrder /\ CleanSeqsUnique /\ UnackedInOutbox)'
  BY DEF Quiet, AckOrder, CleanSeqsUnique, UnackedInOutbox, CompactRead, CompactFilter,
     CompactReplace, files
<1>2. CASE CompactRead
  <2> USE <1>2 DEF CompactRead, files
  <2>1. SeqBound'
    BY DEF SeqBound, Current
  <2>2. (CompactHolds /\ CleanInLog)'
    BY <1>0 DEF CompactHolds, CleanInLog
  <2> QED
    BY <1>1, <2>1, <2>2
<1>3. CASE CompactFilter
  <2> USE <1>3 DEF CompactFilter, files
  <2>1. SeqBound'
    BY DEF SeqBound, Current
  <2>2. \A r \in todo \cup kept : r.seq > ckpt => r \in todo' \cup kept'
    <3>1. lastAcked <= ckpt /\ lastAcked \in Nat /\ ckpt \in Nat /\ \A r \in todo : r.seq \in Nat
      BY DEF AckOrder, TypeOK, Record
    <3>2. PICK r \in todo : /\ todo' = todo \ {r}
                           /\ kept' = IF r.seq > lastAcked THEN kept \cup {r} ELSE kept
      BY Zenon
    <3>3. r.seq > ckpt => r \in kept'
      BY <3>1, <3>2
    <3>4. kept \subseteq kept'
      BY <3>2
    <3> QED
      BY <3>2, <3>3, <3>4, Zenon
  <2>3. (CompactHolds /\ CleanInLog)'
    BY <1>0, <2>2 DEF CompactHolds, CleanInLog
  <2> QED
    BY <1>1, <2>1, <2>3
<1>4. CASE CompactReplace
  <2> USE <1>4 DEF CompactReplace
  <2>1. SeqBound'
    BY DEF SeqBound, Current, CompactHolds
  <2>2. (CompactHolds /\ CleanInLog)'
    BY <1>0 DEF CompactHolds, CleanInLog
  <2> QED
    BY <1>1, <2>1, <2>2
<1> QED
  BY <1>2, <1>3, <1>4

\* The invariant survives a crash and is restored by the restart.
LEMMA CrashSteps == WalInv /\ TypeOK' /\ (Crash \/ Restart) => WalInv'
<1> SUFFICES ASSUME WalInv, TypeOK', Crash \/ Restart
             PROVE  WalInv'
  OBVIOUS
<1> USE DEF WalInv
<1>1. CASE Crash
  <2> DEFINE Survives == UNCHANGED <<good, ckpt, committed, exposed>>
  <2>1. /\ ~up' /\ appPc' = "idle" /\ ackPc' = "idle" /\ ackSeq' = 0 /\ cmpPc' = "idle"
        /\ todo' = {} /\ kept' = {} /\ Survives
    BY <1>1, Zenon DEF Crash
  <2>2. CleanRecords' \subseteq CleanRecords
    BY <2>1 DEF CleanRecords
  <2>3. (Quiet /\ AckOrder /\ SeqBound /\ UnackedInOutbox)'
    BY <2>1 DEF Quiet, AckOrder, SeqBound, UnackedInOutbox
  <2>4. (CompactHolds /\ CleanInLog /\ CleanSeqsUnique)'
    BY <2>1, <2>2 DEF CompactHolds, CleanInLog, CleanSeqsUnique
  <2> QED
    BY <2>3, <2>4
<1>2. CASE Restart
  <2>1. /\ ~up /\ lastAcked' = ckpt /\ outbox' = Above(good, ckpt)
        /\ UNCHANGED <<files, ckpt, appPc, ackPc, ackSeq, cmpPc, todo, kept, committed, exposed>>
    BY <1>2, Zenon DEF Restart
  <2>2. /\ good' = good /\ ckpt' = ckpt /\ appPc' = appPc /\ ackPc' = ackPc /\ ackSeq' = ackSeq
        /\ cmpPc' = cmpPc /\ todo' = todo /\ kept' = kept
        /\ committed' = committed /\ exposed' = exposed
    BY <2>1, Zenon DEF files
  <2>3. appPc = "idle" /\ ackPc = "idle" /\ ackSeq = 0 /\ cmpPc = "idle"
    BY <2>1, Zenon DEF Quiet
  <2>4. CleanRecords' = committed \ exposed /\ CleanRecords = committed \ exposed
    BY <2>2, <2>3 DEF CleanRecords
  <2>5. ckpt \in Nat /\ \A r \in good \cup committed : r.seq \in Nat
    BY DEF TypeOK, Record
  <2>6. \A r : r \in outbox' <=> r \in good /\ r.seq > ckpt
    BY <2>1 DEF Above
  <2>7. PICK m \in {ckpt} \cup {r.seq : r \in outbox'} :
          /\ ckpt <= m /\ \A r \in outbox' : r.seq <= m
          /\ nextSeq' = m + 1
    BY <1>2, Zenon DEF Restart
  <2> HIDE DEF WalInv
  <2>8. m \in Nat
    BY <2>5, <2>6, <2>7
  <2>9. \A r \in good : r.seq < nextSeq'
    BY <2>5, <2>6, <2>7, <2>8
  <2>10. \A r \in committed \ exposed : r.seq > ckpt => r \in good
    BY <2>4 DEF WalInv, CleanInLog
  <2>11. SeqBound'
    <3>1. \A r \in committed \ exposed : r.seq < nextSeq'
      BY <2>5, <2>7, <2>8, <2>9, <2>10
    <3> QED
      BY <2>2, <2>6, <2>9, <3>1 DEF SeqBound
  <2>12. AckOrder'
    <3>1. ckpt < nextSeq' /\ 0 < nextSeq' /\ ckpt <= ckpt
      BY <2>5, <2>7, <2>8
    <3>2. ackPc' = "idle" /\ ackSeq' = 0 /\ ckpt' = ckpt /\ lastAcked' = ckpt
      BY <2>1, <2>2, <2>3
    <3> QED
      BY <3>1, <3>2 DEF AckOrder
  <2>13. (Quiet /\ CompactHolds /\ CleanInLog /\ CleanSeqsUnique)'
    BY <2>2, <2>3, <2>4 DEF WalInv, Quiet, CompactHolds, CleanInLog, CleanSeqsUnique
  <2>14. UnackedInOutbox'
    BY <2>2, <2>5, <2>6, <2>10 DEF UnackedInOutbox
  <2> QED
    BY <2>11, <2>12, <2>13, <2>14 DEF WalInv
<1> QED
  BY <1>1, <1>2

\* WalInv is inductive.
LEMMA WalInvStep == WalInv /\ [Next]_vars => WalInv'
<1> SUFFICES ASSUME WalInv, [Next]_vars PROVE WalInv'
  OBVIOUS
<1>1. TypeOK'
  BY TypeStep DEF WalInv
<1>2. CASE UNCHANGED vars
  <2>1. (Quiet /\ AckOrder)'
    BY <1>2 DEF vars, WalInv, Quiet, AckOrder
  <2>2. SeqBound'
    BY <1>2 DEF vars, WalInv, SeqBound, Current
  <2>3. CompactHolds' /\ CleanInLog'
    BY <1>2 DEF vars, WalInv, CompactHolds, CleanInLog, CleanRecords, Current
  <2>4. CleanSeqsUnique' /\ UnackedInOutbox'
    BY <1>2 DEF vars, WalInv, CleanSeqsUnique, UnackedInOutbox, CleanRecords, Current
  <2> QED
    BY <1>1, <2>1, <2>2, <2>3, <2>4 DEF WalInv
<1> QED
  BY <1>1, <1>2, AppendSteps, AckSteps, CompactSteps, CrashSteps DEF Next

\* WalInv holds in every reachable state of the agent's log, outbox and threads.
THEOREM WalInvariance == Spec => []WalInv
  BY WalInvInit, WalInvStep, PTL DEF Spec

\* Every variable of the log model keeps its type.
THEOREM WalTypeCorrect == Spec => []TypeOK
<1>1. WalInv => TypeOK
  BY DEF WalInv
<1> QED
  BY <1>1, WalInvariance, PTL

\* An append that met no torn record and overlapped no compaction is recoverable
\* from events.wal until it is acknowledged (Wal::Append, Acknowledge, Compact).
THEOREM CleanAppendsAreDurable == Spec => []CleanAppendsSurvive
<1>1. WalInv => CleanAppendsSurvive
  BY DEF WalInv, CleanInLog, CleanRecords, CleanAppendsSurvive
<1> QED
  BY <1>1, WalInvariance, PTL

\* No two such events share a sequence number (the resume number of main.cc).
THEOREM CleanSeqsAreUnique == Spec => []CleanSeqsUnique
<1>1. WalInv => CleanSeqsUnique
  BY DEF WalInv
<1> QED
  BY <1>1, WalInvariance, PTL

\* Such an event is in the running agent's outbox until an ack for it arrives.
THEOREM OutboxHoldsUnacked == Spec => []UnackedInOutbox
<1>1. WalInv => UnackedInOutbox
  BY DEF WalInv
<1> QED
  BY <1>1, WalInvariance, PTL

\* Sequence numbers ascend in the log and the outbox, across restarts.
THEOREM AppendOrder == Spec => []AppendsAscend
<1>1. WalInv => AppendsAscend
  BY DEF WalInv, SeqBound, AppendsAscend
<1> QED
  BY <1>1, WalInvariance, PTL

--------------------------------------------------------------------------------
(* The refinement of DurableOutbox. *)

Numbers(R) == {r.seq : r \in R}
Acking == IF ackPc = "popped" THEN ackSeq ELSE 0

\* What DurableOutbox calls its variables.
SameOutbox ==
  UNCHANGED <<up, ckpt, Numbers(Clean), Numbers(outbox \cap Clean), Acking>>

\* A step that leaves these alone is none of the durable outbox.
LEMMA StutterIsStutter == SameOutbox => UNCHANGED Durable!outboxVars
BY Zenon DEF SameOutbox, Durable!outboxVars, Numbers, Acking

\* A write adds nothing that was promised: its number is above all those.
LEMMA WriteIsStutter == WalInv /\ AppendWrite => SameOutbox
<1> SUFFICES ASSUME WalInv, AppendWrite PROVE SameOutbox
  OBVIOUS
<1>1. Fresh \notin Clean
  <2>1. nextSeq \in Nat /\ up /\ \A r \in Clean : r.seq < nextSeq
    BY DEF WalInv, TypeOK, SeqBound, Clean, AppendWrite
  <2>2. Fresh.seq = nextSeq
    BY DEF Fresh
  <2> QED BY <2>1, <2>2
<1>2. Clean' = Clean
  BY <1>1 DEF AppendWrite, Clean
<1>3. outbox' = outbox /\ up' = up /\ ckpt' = ckpt /\ ackPc' = ackPc /\ ackSeq' = ackSeq
  BY DEF AppendWrite
<1> QED BY <1>2, <1>3, Zenon DEF SameOutbox, Acking

\* The return of a clean append is a promise, that of an exposed one is none.
LEMMA ReturnPromises == WalInv /\ AppendReturn => SameOutbox \/ Durable!Promise(nextSeq)
<1> SUFFICES ASSUME WalInv, AppendReturn PROVE SameOutbox \/ Durable!Promise(nextSeq)
  OBVIOUS
<1>1. /\ up /\ outbox' = outbox \cup {Current} /\ committed' = committed \cup {Current}
      /\ exposed' = exposed /\ up' = up /\ ckpt' = ckpt /\ ackPc' = ackPc /\ ackSeq' = ackSeq
  BY DEF AppendReturn
<1>2. Current.seq = nextSeq
  BY DEF Current
<1>3. CASE Current \in exposed
  <2>1. Clean' = Clean /\ outbox' \cap Clean' = outbox \cap Clean
    BY <1>1, <1>3 DEF Clean
  <2> QED BY <1>1, <2>1, Zenon DEF SameOutbox, Acking
<1>4. CASE Current \notin exposed
  <2>1. Clean' = Clean \cup {Current} /\ outbox' \cap Clean' = (outbox \cap Clean) \cup {Current}
    BY <1>1, <1>4 DEF Clean
  <2>2. \A R : Numbers(R \cup {Current}) = Numbers(R) \cup {nextSeq}
    BY <1>2 DEF Numbers
  <2>3. /\ Numbers(Clean)' = Numbers(Clean) \cup {nextSeq}
        /\ Numbers(outbox \cap Clean)' = Numbers(outbox \cap Clean) \cup {nextSeq}
    <3>1. /\ Numbers(Clean)' = Numbers(Clean')
          /\ Numbers(outbox \cap Clean)' = Numbers(outbox' \cap Clean')
      BY DEF Numbers
    <3> QED BY <2>1, <2>2, <3>1, Zenon
  <2>4. nextSeq > ckpt /\ nextSeq > Acking /\ \A m \in Numbers(Clean) : nextSeq > m
    <3>1. /\ nextSeq \in Nat /\ ckpt \in Nat /\ ackSeq \in Nat /\ committed \subseteq Record
      BY DEF WalInv, TypeOK
    <3>2. ckpt < nextSeq /\ ackSeq < nextSeq
      BY <1>1 DEF WalInv, AckOrder
    <3>3. \A r \in Clean : r.seq < nextSeq /\ r.seq \in Nat
      BY <1>1, <3>1 DEF WalInv, SeqBound, Clean, Record
    <3> QED BY <3>1, <3>2, <3>3 DEF Acking, Numbers
  <2>5. Acking' = Acking
    BY <1>1 DEF Acking
  <2> QED BY <1>1, <2>3, <2>4, <2>5, Zenon DEF Durable!Promise, Numbers, Acking
<1> QED BY <1>3, <1>4

\* AckUpTo drops the acknowledged numbers and no other.
LEMMA AckIsTaken == WalInv /\ AckOutbox => Durable!AckArrives
<1> SUFFICES ASSUME WalInv, AckOutbox PROVE Durable!AckArrives
  OBVIOUS
<1>1. PICK k \in 1 .. nextSeq - 1 :
        /\ outbox' = Above(outbox, k) /\ ackSeq' = k /\ ackPc' = "popped"
  BY DEF AckOutbox
<1>2. up /\ ackPc = "idle" /\ up' = up /\ ckpt' = ckpt /\ committed' = committed /\ exposed' = exposed
  BY DEF AckOutbox
<1>3. nextSeq \in Nat /\ k \in Nat \ {0}
  BY DEF WalInv, TypeOK
<1>4. Acking = 0 /\ Acking' = k
  BY <1>1, <1>2 DEF Acking
<1>5. Clean' = Clean
  BY <1>2 DEF Clean
<1>6. Numbers(outbox' \cap Clean') = {m \in Numbers(outbox \cap Clean) : m > k}
  BY <1>1, <1>5 DEF Above, Numbers
<1>7. Numbers(Clean') = Numbers(Clean)
  BY <1>5
<1> QED BY <1>2, <1>3, <1>4, <1>6, <1>7, Zenon DEF Durable!AckArrives, Numbers, Acking

\* Wal::Acknowledge decides on last_acked_seq_, which is then what events.ckpt holds.
LEMMA AckIsSaved == WalInv /\ AckSave => SameOutbox \/ Durable!Checkpoint
<1> SUFFICES ASSUME WalInv, AckSave PROVE SameOutbox \/ Durable!Checkpoint
  OBVIOUS
<1>1. /\ up /\ ackPc = "popped" /\ up' = up /\ outbox' = outbox /\ committed' = committed
      /\ exposed' = exposed /\ ackSeq' = ackSeq /\ ackPc' # "popped"
      /\ ckpt' = IF ackSeq <= lastAcked THEN ckpt ELSE ackSeq
  BY DEF AckSave
<1>2. lastAcked = ckpt /\ ckpt \in Nat /\ ackSeq \in Nat
  BY <1>1 DEF WalInv, TypeOK, AckOrder
<1>3. Acking = ackSeq /\ Acking' = 0
  BY <1>1 DEF Acking
<1>4. Clean' = Clean
  BY <1>1 DEF Clean
<1>5. CASE ackSeq = 0
  <2>1. ckpt' = ckpt /\ Acking' = Acking
    BY <1>1, <1>2, <1>3, <1>5
  <2> QED BY <1>1, <1>4, <2>1, Zenon DEF SameOutbox
<1>6. CASE ackSeq # 0
  <2>1. ckpt' = IF Acking > ckpt THEN Acking ELSE ckpt
    BY <1>1, <1>2, <1>3
  <2>2. Numbers(Clean') = Numbers(Clean) /\ Numbers(outbox' \cap Clean') = Numbers(outbox \cap Clean)
    BY <1>1, <1>4
  <2> QED BY <1>1, <1>3, <1>6, <2>1, <2>2, Zenon DEF Durable!Checkpoint, Numbers, Acking
<1> QED BY <1>5, <1>6

\* A restart replays what was promised above the checkpoint: the log has it.
LEMMA RestartReplays == WalInv /\ Restart => Durable!Restart
<1> SUFFICES ASSUME WalInv, Restart PROVE Durable!Restart
  OBVIOUS
<1>1. /\ ~up /\ up' = TRUE /\ outbox' = Above(good, ckpt) /\ ckpt' = ckpt
      /\ committed' = committed /\ exposed' = exposed /\ ackPc' = ackPc /\ ackSeq' = ackSeq
  BY DEF Restart
<1>2. Clean' = Clean
  BY <1>1 DEF Clean
<1>3. \A r \in Clean : r.seq > ckpt => r \in good
  BY DEF WalInv, CleanInLog, CleanRecords, Clean
<1>4. outbox' \cap Clean = {r \in Clean : r.seq > ckpt}
  BY <1>1, <1>3 DEF Above
<1>5. Numbers(outbox' \cap Clean') = {m \in Numbers(Clean) : m > ckpt}
  BY <1>2, <1>4 DEF Numbers
<1>6. Acking' = Acking /\ Numbers(Clean') = Numbers(Clean)
  BY <1>1, <1>2 DEF Acking
<1> QED BY <1>1, <1>5, <1>6, Zenon DEF Durable!Restart, Numbers, Acking

\* A crash loses what is in memory and nothing else.
LEMMA CrashLosesMemory == WalInv /\ Crash => Durable!Crash
<1> SUFFICES ASSUME WalInv, Crash PROVE Durable!Crash
  OBVIOUS
<1>1. /\ up /\ up' = FALSE /\ outbox' = {} /\ ckpt' = ckpt
      /\ committed' = committed /\ exposed' = exposed /\ ackPc' = "idle"
  BY DEF Crash
<1>2. Clean' = Clean
  BY <1>1 DEF Clean
<1>3. Numbers(outbox' \cap Clean') = {} /\ Acking' = 0 /\ Numbers(Clean') = Numbers(Clean)
  BY <1>1, <1>2 DEF Numbers, Acking
<1> QED BY <1>1, <1>3, Zenon DEF Durable!Crash, Numbers, Acking

\* The agent's files, outbox and threads implement a durable outbox, for the events whose
\* append met no torn record and overlapped no compaction: the steps that open, write,
\* compact and remember stutter, the others are one step of it each.
THEOREM WalIsDurableOutbox == Spec => OutboxRefinement
<1>1. Init => Durable!Init
  BY DEF Init, Durable!Init, Clean
<1>2. WalInv /\ [Next]_vars => [Durable!Next]_(Durable!outboxVars)
  <2> SUFFICES ASSUME WalInv, [Next]_vars PROVE Durable!Next \/ SameOutbox
    BY StutterIsStutter
  <2>1. CASE AppendOpen \/ AckRemember \/ CompactRead \/ CompactFilter \/ CompactReplace
            \/ UNCHANGED vars
    <3>1. /\ up' = up /\ outbox' = outbox /\ committed' = committed /\ exposed' = exposed
          /\ ckpt' = ckpt /\ Acking' = Acking
      BY <2>1 DEF AppendOpen, AckRemember, CompactRead, CompactFilter, CompactReplace,
                  vars, Acking
    <3> QED BY <3>1, Zenon DEF SameOutbox, Clean
  <2>2. CASE AppendReturn
    <3>1. Durable!Promise(nextSeq) => Durable!Next
      BY Zenon DEF Durable!Next, Durable!Promise
    <3> QED BY SMTT(40), <2>2, <3>1, ReturnPromises
  <2> QED BY <2>1, <2>2, WriteIsStutter, AckIsTaken, AckIsSaved, RestartReplays,
             CrashLosesMemory DEF Next, Durable!Next
<1> QED BY <1>1, <1>2, WalInvariance, PTL DEF Spec, OutboxRefinement, Durable!Spec
================================================================================
