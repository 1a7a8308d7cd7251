------------------------ MODULE ConfigReconciliation ------------------------
(***************************************************************************)
(* Desired configuration, from the gateway's file to the running pipeline. *)
(*                                                                         *)
(* The agent's heartbeat carries applied_config_version; the gateway       *)
(* reloads its file for each heartbeat and pushes the device's line when   *)
(* its version is larger (gateway/src/main.cc); the agent's reader thread  *)
(* keeps it as pending, and the producer thread applies it and rebuilds    *)
(* the pipeline (agent/src/main.cc).  The applied version and the settings *)
(* are not persistent: a restarted agent reports 0 again.                  *)
(*                                                                         *)
(* Settings are the thresholds k and n.  In a line, 0 means "leave as it   *)
(* is".  A pipeline with k > n aborts the process (kofn_confirmer.h).  The *)
(* producer thread runs as long as the agent does (--loop).                *)
(***************************************************************************)
EXTENDS Naturals, Sequences

CONSTANTS Fields,        \* values the k and n fields of a line take
          Startup,       \* [k, n] given on the command line
          MaxVersion,    \* bound: edits of the device's line
          MaxRestarts,   \* bound: crashes of the agent other than aborts
          MaxReconnects, \* bound: broken streams
          Slots          \* bound: messages in a stream, each way

ASSUME ConfigAssumption ==
    /\ Fields \subseteq Nat /\ Startup.k \in Nat \ {0} /\ Startup.n \in Nat
    /\ Startup.k <= Startup.n
    /\ {MaxVersion, MaxRestarts, MaxReconnects, Slots} \subseteq Nat

VARIABLES
    desired,     \* the device's line; version 0 when there is none
    running,     \* the agent's process is up
    heartbeats,  \* applied_config_version of the heartbeats in the stream
    pushes,      \* ConfigUpdates in the stream
    pending,     \* pending_config
    pendingSet,  \* pending_config_set
    applied,     \* applied_config_version
    setting,     \* current_confirm_k and current_confirm_n
    restarts, reconnects

agent == <<pending, pendingSet, applied, setting>>
bounds == <<restarts, reconnects>>
vars == <<desired, running, heartbeats, pushes, agent, bounds>>

Lines == [version : 0 .. MaxVersion, k : Fields \cup {0}, n : Fields \cup {0}]
NoLine == [version |-> 0, k |-> 0, n |-> 0]

Init ==
    /\ desired = NoLine
    /\ running = TRUE
    /\ heartbeats = << >> /\ pushes = << >>
    /\ pending = NoLine /\ pendingSet = FALSE
    /\ applied = 0 /\ setting = Startup
    /\ restarts = 0 /\ reconnects = 0

\* An operator edits the line and raises its version.
Edit ==
    /\ desired.version < MaxVersion
    /\ \E line \in Lines : line.version = desired.version + 1 /\ desired' = line
    /\ UNCHANGED <<running, heartbeats, pushes, agent, bounds>>

SendHeartbeat ==
    /\ running /\ Len(heartbeats) < Slots
    /\ heartbeats' = Append(heartbeats, applied)
    /\ UNCHANGED <<desired, running, pushes, agent, bounds>>

\* The handler pushes the line when the device is behind it.
HandleHeartbeat ==
    /\ heartbeats # << >> /\ Len(pushes) < Slots
    /\ heartbeats' = Tail(heartbeats)
    /\ pushes' = IF desired.version > Head(heartbeats)
                   THEN Append(pushes, desired) ELSE pushes
    /\ UNCHANGED <<desired, running, agent, bounds>>

\* The file cannot be read just now, or the line is not whole: no push.
HandleUnreadable ==
    /\ heartbeats # << >>
    /\ heartbeats' = Tail(heartbeats)
    /\ UNCHANGED <<desired, running, pushes, agent, bounds>>

\* A reader that takes whatever is pushed.
EagerReceive ==
    /\ running /\ pushes # << >>
    /\ pushes' = Tail(pushes)
    /\ pending' = Head(pushes) /\ pendingSet' = TRUE
    /\ UNCHANGED <<desired, running, heartbeats, applied, setting, bounds>>

\* A reader that waits until the pending update has been applied.
BusyReceive ==
    /\ running /\ pushes # << >>
    /\ pushes' = Tail(pushes)
    /\ LET c == Head(pushes) IN
         IF pending.version = 0
           THEN pending' = c /\ pendingSet' = TRUE
           ELSE UNCHANGED <<pending, pendingSet>>
    /\ UNCHANGED <<desired, running, heartbeats, applied, setting, bounds>>

\* The reader thread keeps an update that is newer than the one it last kept.
Receive ==
    /\ running /\ pushes # << >>
    /\ pushes' = Tail(pushes)
    /\ LET c == Head(pushes) IN
         IF c.version > pending.version \/ (~pendingSet /\ applied < c.version)
           THEN pending' = c /\ pendingSet' = TRUE
           ELSE UNCHANGED <<pending, pendingSet>>
    /\ UNCHANGED <<desired, running, heartbeats, applied, setting, bounds>>

\* A producer that keeps its k when the new one does not fit its old n.
CautiousOverride(c) ==
    [k |-> IF c.k > 0 /\ c.k <= setting.n THEN c.k ELSE setting.k,
     n |-> IF c.n > 0 THEN c.n ELSE setting.n]

\* The fields of an update replace the settings they name.
Override(c) == [k |-> IF c.k > 0 THEN c.k ELSE setting.k,
                n |-> IF c.n > 0 THEN c.n ELSE setting.n]

\* The producer thread applies the pending update, between two pipelines.
Apply ==
    /\ running /\ pendingSet /\ setting.k <= setting.n
    /\ setting' = Override(pending)
    /\ applied' = pending.version
    /\ pendingSet' = FALSE
    /\ UNCHANGED <<desired, running, heartbeats, pushes, pending, bounds>>

Die ==
    /\ running' = FALSE
    /\ heartbeats' = << >> /\ pushes' = << >>

\* The new pipeline's confirmer refuses k > n.
Abort ==
    /\ running /\ setting.k > setting.n
    /\ Die
    /\ UNCHANGED <<desired, agent, bounds>>

Crash ==
    /\ running /\ restarts < MaxRestarts
    /\ restarts' = restarts + 1
    /\ Die
    /\ UNCHANGED <<desired, agent, reconnects>>

\* A new process: command-line settings, no update applied or pending.
Restart ==
    /\ ~running
    /\ running' = TRUE
    /\ pending' = NoLine /\ pendingSet' = FALSE
    /\ applied' = 0 /\ setting' = Startup
    /\ UNCHANGED <<desired, heartbeats, pushes, bounds>>

\* The stream breaks and the agent opens another; pending_config outlives it.
Reconnect ==
    /\ running /\ reconnects < MaxReconnects
    /\ reconnects' = reconnects + 1
    /\ heartbeats' = << >> /\ pushes' = << >>
    /\ UNCHANGED <<desired, running, agent, restarts>>

Next == Edit \/ SendHeartbeat \/ HandleHeartbeat \/ HandleUnreadable
          \/ Receive \/ Apply \/ Abort \/ Crash \/ Restart \/ Reconnect

Spec == Init /\ [][Next]_vars

-----------------------------------------------------------------------------
(* The version an agent reports is true of its settings: when it is the    *)
(* version of the line, each value the line names is in effect, whatever   *)
(* was edited, lost, repeated or restarted on the way.                     *)
VersionMeansSetting ==
    (applied > 0 /\ applied = desired.version) =>
        /\ desired.k > 0 => setting.k = desired.k
        /\ desired.n > 0 => setting.n = desired.n

(* The gateway pushes on every heartbeat until the new version is          *)
(* reported, so an update can arrive several times; no process applies     *)
(* (and rebuilds its pipeline for) a version twice, or an older one after  *)
(* a newer one.                                                            *)
NoReapply == [][Apply => applied' > applied]_vars

\* A line that names both thresholds, and in the right order.
Usable == desired.k > 0 /\ desired.n > 0 /\ desired.k <= desired.n

(* Reconciliation converges: once the line stays usable, the agent ends up *)
(* running it and reporting its version.                                   *)
Converges ==
    <>[]Usable => <>[](/\ running /\ applied = desired.version
                       /\ setting.k = desired.k /\ setting.n = desired.n)
=============================================================================
