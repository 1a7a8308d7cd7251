-------------------------------- MODULE AgentWal --------------------------------
(***************************************************************************)
(* The agent's durable state: the write-ahead log and checkpoint files     *)
(* (core/src/wal.cc), the in-memory outbox that mirrors the unacknowledged *)
(* part of the log, and the three threads of agent/src/main.cc that use    *)
(* them: the producer appends (emit), the stream reader acknowledges, the  *)
(* main thread compacts.  A crash (kill -9, or an I/O error, which throws  *)
(* out of a thread) may strike between any two system calls; files survive *)
(* it, memory does not.                                                    *)
(*                                                                         *)
(* A log file is what DecodeRecord makes of its bytes: the records it can  *)
(* decode, then possibly a torn record, then records behind it, which no   *)
(* reader reaches.  Records are in the file, and events in the outbox, in  *)
(* the order of their sequence numbers (AppendsAscend), so both are sets.  *)
(***************************************************************************)
EXTENDS Integers, FiniteSets

CONSTANTS MaxEvents,    \* bound: events the producer emits
          MaxCrashes,   \* bound: crashes of the agent
          TornAppends,  \* whether a crash may leave half a record in the log
          CompactSlack  \* growth (in records) that triggers a compaction

ASSUME BoundsAssumption ==
  /\ MaxEvents \in Nat /\ MaxCrashes \in Nat /\ CompactSlack \in Nat
  /\ TornAppends \in BOOLEAN

VARIABLES
  \* files
  good,       \* the decodable records of events.wal
  torn,       \* events.wal has a torn record after them
  behind,     \* records appended behind the torn one
  ckpt,       \* events.ckpt
  \* memory
  up,         \* the process runs
  lastAcked,  \* Wal::last_acked_seq_
  outbox,     \* Outbox::items_
  nextSeq,    \* next_seq
  appPc,      \* producer in Append: "idle", "opened" the file, "written" it
  appStale,   \* the file it opened has since been replaced by a compaction
  ackPc,      \* reader: "idle", "popped" the outbox, "saved" events.ckpt
  ackSeq,     \* the up_to_seq it is handling
  cmpPc,      \* main: "idle", or "filtering" the records of the log
  todo,       \* the records it has read and not yet looked at
  kept,       \* the records it will write back
  cmpSize,    \* bytes_since_compact, in records
  \* history
  emitted,    \* events written so far, each a new one
  crashes,
  committed,  \* records whose Append has returned: the [commit] promises
  exposed     \* records appended behind torn bytes or during a compaction

files == <<good, torn, behind>>
vars == <<good, torn, behind, ckpt, up, lastAcked, outbox, nextSeq, appPc,
          appStale, ackPc, ackSeq, cmpPc, todo, kept, cmpSize, emitted, crashes,
          committed, exposed>>

\* The event being emitted, under the sequence number it is given.
Fresh == [seq |-> nextSeq, event |-> emitted + 1]

\* The same once it has been written.
Current == [seq |-> nextSeq, event |-> emitted]

Above(S, n) == {r \in S : r.seq > n}

\* FileSizeBytes, in records.
FileSize ==
  Cardinality(good) + Cardinality(behind) + (IF torn THEN 1 ELSE 0)

Init ==
  /\ good = {} /\ torn = FALSE /\ behind = {} /\ ckpt = 0
  /\ up = TRUE /\ lastAcked = 0 /\ outbox = {} /\ nextSeq = 1
  /\ appPc = "idle" /\ appStale = FALSE
  /\ ackPc = "idle" /\ ackSeq = 0
  /\ cmpPc = "idle" /\ todo = {} /\ kept = {} /\ cmpSize = 0
  /\ emitted = 0 /\ crashes = 0 /\ committed = {} /\ exposed = {}

--------------------------------------------------------------------------------
\* Producer thread: emit() = Wal::Append, Outbox::Push, ++next_seq.

\* Append opens the log by name.
AppendOpen ==
  /\ up /\ appPc = "idle" /\ emitted < MaxEvents
  /\ appPc' = "opened" /\ appStale' = FALSE
  /\ UNCHANGED <<files, ckpt, up, lastAcked, outbox, nextSeq, ackPc, ackSeq,
                 cmpPc, todo, kept, cmpSize, emitted, crashes, committed, exposed>>

\* It writes the whole record, behind whatever the file it opened ends with; a
\* file that a compaction has replaced is no longer events.wal.
AppendWrite ==
  /\ up /\ appPc = "opened"
  /\ emitted' = emitted + 1
  /\ good' = IF appStale \/ torn THEN good ELSE good \cup {Fresh}
  /\ behind' = IF ~appStale /\ torn THEN behind \cup {Fresh} ELSE behind
  /\ exposed' = IF appStale \/ torn \/ cmpPc # "idle" THEN exposed \cup {Fresh}
                ELSE exposed
  /\ appPc' = "written"
  /\ UNCHANGED <<torn, ckpt, up, lastAcked, outbox, nextSeq, appStale, ackPc,
                 ackSeq, cmpPc, todo, kept, cmpSize, crashes, committed>>

\* fsync has returned: the event is pushed, promised, and next_seq advances.
AppendReturn ==
  /\ up /\ appPc = "written"
  /\ outbox' = outbox \cup {Current}
  /\ committed' = committed \cup {Current}
  /\ nextSeq' = nextSeq + 1
  /\ appPc' = "idle"
  /\ UNCHANGED <<files, ckpt, up, lastAcked, appStale, ackPc, ackSeq, cmpPc, todo,
                 kept, cmpSize, emitted, crashes, exposed>>

--------------------------------------------------------------------------------
\* Reader thread: an Ack{n} for anything that has been pushed, possibly a
\* repeated one.

\* Mutant: AckUpTo also pops the event after the acknowledged ones.
GreedyAckOutbox ==
  /\ up /\ ackPc = "idle"
  /\ \E n \in 1 .. nextSeq - 1 :
       /\ outbox' = Above(outbox, n + 1)
       /\ ackSeq' = n
       /\ ackPc' = "popped"
  /\ UNCHANGED <<files, ckpt, up, lastAcked, nextSeq, appPc, appStale, cmpPc, todo,
                 kept, cmpSize, emitted, crashes, committed, exposed>>

\* Outbox::AckUpTo.
AckOutbox ==
  /\ up /\ ackPc = "idle"
  /\ \E n \in 1 .. nextSeq - 1 :
       /\ outbox' = Above(outbox, n)
       /\ ackSeq' = n
       /\ ackPc' = "popped"
  /\ UNCHANGED <<files, ckpt, up, lastAcked, nextSeq, appPc, appStale, cmpPc, todo,
                 kept, cmpSize, emitted, crashes, committed, exposed>>

\* Wal::Acknowledge: a stale ack is ignored, else the new events.ckpt is renamed
\* into place.
AckSave ==
  /\ up /\ ackPc = "popped"
  /\ IF ackSeq <= lastAcked
     THEN ackPc' = "idle" /\ UNCHANGED ckpt
     ELSE ackPc' = "saved" /\ ckpt' = ackSeq
  /\ UNCHANGED <<files, up, lastAcked, outbox, nextSeq, appPc, appStale, ackSeq,
                 cmpPc, todo, kept, cmpSize, emitted, crashes, committed, exposed>>

\* last_acked_seq_ follows the file.
AckRemember ==
  /\ up /\ ackPc = "saved"
  /\ lastAcked' = ackSeq
  /\ ackPc' = "idle"
  /\ UNCHANGED <<files, ckpt, up, outbox, nextSeq, appPc, appStale, ackSeq, cmpPc, todo,
                 kept, cmpSize, emitted, crashes, committed, exposed>>

--------------------------------------------------------------------------------
\* Main thread: Wal::Compact when the log has grown enough.

\* ReadWholeFile; decoding stops at the first torn record.
CompactRead ==
  /\ up /\ cmpPc = "idle"
  /\ FileSize > cmpSize + CompactSlack
  /\ todo' = good
  /\ cmpPc' = "filtering"
  /\ UNCHANGED <<files, ckpt, up, lastAcked, outbox, nextSeq, appPc, appStale, ackPc,
                 ackSeq, kept, cmpSize, emitted, crashes, committed, exposed>>

\* Mutant: compaction trusts the ack being handled, before it is saved.
HastyCompactFilter ==
  /\ up /\ cmpPc = "filtering"
  /\ \E r \in todo :
       /\ \A s \in todo : r.seq <= s.seq
       /\ todo' = todo \ {r}
       /\ kept' = IF r.seq > ackSeq THEN kept \cup {r} ELSE kept
  /\ UNCHANGED <<files, ckpt, up, lastAcked, outbox, nextSeq, appPc, appStale, ackPc,
                 ackSeq, cmpPc, cmpSize, emitted, crashes, committed, exposed>>

\* The next record is kept unless it is acknowledged.  last_acked_seq_ is read
\* anew for each record, without synchronisation with the reader's update.
CompactFilter ==
  /\ up /\ cmpPc = "filtering"
  /\ \E r \in todo :
       /\ \A s \in todo : r.seq <= s.seq
       /\ todo' = todo \ {r}
       /\ kept' = IF r.seq > lastAcked THEN kept \cup {r} ELSE kept
  /\ UNCHANGED <<files, ckpt, up, lastAcked, outbox, nextSeq, appPc, appStale, ackPc,
                 ackSeq, cmpPc, cmpSize, emitted, crashes, committed, exposed>>

\* The new log is renamed over the old one, which an append may have open.
CompactReplace ==
  /\ up /\ cmpPc = "filtering" /\ todo = {}
  /\ good' = kept /\ torn' = FALSE /\ behind' = {}
  /\ appStale' = (appStale \/ appPc = "opened")
  /\ cmpSize' = Cardinality(kept)
  /\ kept' = {} /\ cmpPc' = "idle"
  /\ UNCHANGED <<ckpt, up, lastAcked, outbox, nextSeq, appPc, ackPc, ackSeq, todo,
                 emitted, crashes, committed, exposed>>

--------------------------------------------------------------------------------
\* The process dies.  An append that had opened the log may have written part of
\* its record.
Crash ==
  /\ up /\ crashes < MaxCrashes
  /\ up' = FALSE
  /\ crashes' = crashes + 1
  /\ torn' \in IF TornAppends /\ appPc = "opened" /\ ~appStale THEN {torn, TRUE}
              ELSE {torn}
  /\ lastAcked' = 0 /\ outbox' = {} /\ nextSeq' = 1
  /\ appPc' = "idle" /\ appStale' = FALSE
  /\ ackPc' = "idle" /\ ackSeq' = 0
  /\ cmpPc' = "idle" /\ todo' = {} /\ kept' = {} /\ cmpSize' = 0
  /\ UNCHANGED <<good, behind, ckpt, emitted, committed, exposed>>

\* Mutant: numbering resumes after the checkpoint, not after the replayed events.
ForgetfulRestart ==
  /\ ~up
  /\ up' = TRUE
  /\ lastAcked' = ckpt
  /\ outbox' = Above(good, ckpt)
  /\ nextSeq' = ckpt + 1
  /\ UNCHANGED <<files, ckpt, appPc, appStale, ackPc, ackSeq, cmpPc, todo, kept, cmpSize,
                 emitted, crashes, committed, exposed>>

\* Wal::Wal (the log is opened, not repaired), LoadCheckpoint, ReplayUnacked into
\* the outbox; next_seq follows the largest number seen.
Restart ==
  /\ ~up
  /\ up' = TRUE
  /\ lastAcked' = ckpt
  /\ outbox' = Above(good, ckpt)
  /\ \E m \in {ckpt} \cup {r.seq : r \in outbox'} :
       /\ ckpt <= m /\ \A r \in outbox' : r.seq <= m
       /\ nextSeq' = m + 1
  /\ UNCHANGED <<files, ckpt, appPc, appStale, ackPc, ackSeq, cmpPc, todo, kept, cmpSize,
                 emitted, crashes, committed, exposed>>

Next ==
  \/ AppendOpen \/ AppendWrite \/ AppendReturn
  \/ AckOutbox \/ AckSave \/ AckRemember
  \/ CompactRead \/ CompactFilter \/ CompactReplace
  \/ Crash \/ Restart

Spec == Init /\ [][Next]_vars

--------------------------------------------------------------------------------
Record == [seq : Nat, event : Nat]

\* Every variable keeps its type.
TypeOK ==
  /\ good \subseteq Record /\ behind \subseteq Record
  /\ todo \subseteq Record /\ kept \subseteq Record
  /\ IsFiniteSet(good) /\ IsFiniteSet(todo) /\ IsFiniteSet(kept)
  /\ torn \in BOOLEAN /\ up \in BOOLEAN /\ appStale \in BOOLEAN
  /\ ckpt \in Nat /\ lastAcked \in Nat /\ nextSeq \in Nat /\ ackSeq \in Nat
  /\ outbox \subseteq Record /\ committed \subseteq Record /\ exposed \subseteq Record
  /\ appPc \in {"idle", "opened", "written"}
  /\ ackPc \in {"idle", "popped", "saved"}
  /\ cmpPc \in {"idle", "filtering"}
  /\ cmpSize \in Nat /\ emitted \in Nat /\ crashes \in Nat

\* Appends go to the log and the outbox in ascending order of sequence numbers,
\* across restarts and compactions: what AckUpTo's pop_front loop, the resume
\* number and the "ascending seq order" of ReplayUnacked (wal.h:79) rest on.
AppendsAscend ==
  up /\ appPc # "written" => \A r \in good \cup outbox : r.seq < nextSeq

\* "Loses nothing that was successfully WAL-appended" (agent main.cc:18), for an
\* append that met no torn record and overlapped no compaction: until it is
\* acknowledged on disk its event can be replayed, whatever crashes, restarts,
\* later compactions and acknowledgements do.
CleanAppendsSurvive ==
  \A r \in committed \ exposed : r.seq > ckpt => r \in good

\* Two such events never get the same sequence number, also across restarts (the
\* identity that scripts/chaos_test.sh matches promises by).
CleanSeqsUnique ==
  \A r, s \in committed \ exposed : r.seq = s.seq => r = s

\* While the process runs, such an event is in the outbox, hence resent on every
\* connection, until an ack for it has been received.
UnackedInOutbox ==
  up => \A r \in committed \ exposed :
          \/ r \in outbox
          \/ r.seq <= ckpt
          \/ ackPc = "popped" /\ r.seq <= ackSeq

\* Such events, and the outbox that they make.
Clean == committed \ exposed

Durable == INSTANCE DurableOutbox
             WITH running <- up, acked <- ckpt,
                  promised <- {r.seq : r \in Clean},
                  pending <- {r.seq : r \in outbox \cap Clean},
                  acking <- IF ackPc = "popped" THEN ackSeq ELSE 0

\* All of this together, as the send loop sees it: for such events the files, the memory
\* and the three threads of the agent implement one durable outbox.  Their numbers
\* ascend, an event is pending until an ack for it has arrived, the checkpoint never goes
\* back, and a restart makes pending again exactly what no saved ack covers.
OutboxRefinement == Durable!Spec

\* The promise without the proviso: an event whose Append has returned is in the
\* outbox of the running agent until it is acknowledged (agent main.cc:17-19).
PromisesKept ==
  up => \A r \in committed :
          \/ r \in outbox
          \/ r.seq <= ckpt
          \/ ackPc = "popped" /\ r.seq <= ackSeq
================================================================================
