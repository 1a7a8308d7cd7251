---------------------------- MODULE EdgePipeline ----------------------------
(***************************************************************************)
(* The edge pipeline (inference/src/edge_pipeline.cc) and the agent thread *)
(* that drives it in --video mode (agent/src/main.cc).                     *)
(*                                                                         *)
(* Three threads.  The capture thread reads frames from the video and      *)
(* pushes them into a small ring; in real time it drops a frame when the   *)
(* ring is full, offline it waits.  The inference thread pops a frame,     *)
(* runs the detector, feeds the K-of-N window and pushes one event into    *)
(* the output ring when the window becomes confirmed.  The agent's         *)
(* producer thread pops events, applies a pending configuration by         *)
(* stopping and rebuilding the pipeline, and ends when the pipeline has    *)
(* finished and the output ring is empty.                                  *)
(*                                                                         *)
(* Both rings are atomic bounded queues here: that is what SpscRingBuffer  *)
(* implements (its ImplementsFifo).  A frame is its frame_index.  What the *)
(* detector says of a frame is free.                                       *)
(***************************************************************************)
EXTENDS Integers, Sequences, FiniteSets

CONSTANTS FrameSlots,   \* frames the frame ring holds: kFrameRingSlots - 1
          EventSlots,   \* events the output ring holds: 255 in the code
          Settings,     \* the confirmation thresholds [k, n] in use
          MaxFrames,    \* bound: frames the source can deliver
          MaxRebuilds   \* bound: configuration-driven rebuilds

ASSUME EdgeAssumption ==
    /\ {FrameSlots, EventSlots} \subseteq Nat \ {0}
    /\ {MaxFrames, MaxRebuilds} \subseteq Nat
    /\ \A s \in Settings : s.k \in Nat \ {0} /\ s.n \in Nat /\ s.k <= s.n

VARIABLES
    realtime,     \* config_.realtime
    setting,      \* config_.k and config_.n of this pipeline
    next,         \* next_index_ of the video source: frames it has delivered
    ring,         \* frame_ring_
    capPc,        \* where the capture thread is
    captured,     \* frames_captured_
    dropped,      \* frames_dropped_
    captureDone,  \* capture_done_
    stop,         \* stop_requested_
    infPc,        \* where the inference thread is
    window,       \* the confirmer's window_
    positives,    \* the confirmer's positive_count_
    wasConfirmed, \* was_confirmed
    seen,         \* the frames processed, each with the detector's verdict;
                  \* its length is frames_processed_
    finished,     \* finished_
    events,       \* out_events_
    overflow,     \* events the full output ring refused (the code keeps no count)
    emitted,      \* events the agent has taken from this pipeline
    agentPc,      \* where the producer thread is
    reason,       \* why it left the inner loop
    rebuilds      \* rebuilds so far

capture == <<next, capPc, captured, dropped, captureDone>>
inference == <<infPc, window, positives, wasConfirmed, seen, finished>>
agent == <<stop, emitted, agentPc, reason, rebuilds>>
config == <<realtime, setting>>
vars == <<config, capture, ring, inference, events, overflow, agent>>

(***************************************************************************)
(* A pipeline as its constructor leaves it, both threads started.          *)
(***************************************************************************)
Init ==
    /\ realtime \in BOOLEAN /\ setting \in Settings
    /\ next = 0 /\ capPc = "loop" /\ captured = 0 /\ dropped = 0
    /\ captureDone = FALSE
    /\ ring = << >>
    /\ infPc = "test" /\ window = << >> /\ positives = 0
    /\ wasConfirmed = FALSE /\ seen = << >> /\ finished = FALSE
    /\ events = << >> /\ overflow = 0
    /\ stop = FALSE /\ emitted = << >> /\ agentPc = "test"
    /\ reason = "none" /\ rebuilds = 0

-----------------------------------------------------------------------------
(* The capture thread.                                                     *)

\* while (!stop_requested_)
CaptureTest ==
    /\ capPc = "loop"
    /\ capPc' = IF stop THEN "done" ELSE "push"
    /\ UNCHANGED <<config, next, captured, dropped, captureDone, ring,
                   inference, events, overflow, agent>>

\* VideoFileFrameSource::Next delivers a frame and numbers it; with loop it
\* starts the file again instead of ending.
SourceNext ==
    /\ next < MaxFrames
    /\ next' = next + 1

\* TryPushWith finds room and the source delivers a frame.
CapturePush ==
    /\ capPc = "push" /\ Len(ring) < FrameSlots
    /\ SourceNext
    /\ ring' = Append(ring, next')
    /\ capPc' = "count"
    /\ UNCHANGED <<config, captured, dropped, captureDone, inference, events,
                   overflow, agent>>

CaptureCount ==
    /\ capPc = "count"
    /\ captured' = captured + 1
    /\ capPc' = "loop"
    /\ UNCHANGED <<config, next, dropped, captureDone, ring, inference,
                   events, overflow, agent>>

\* A capture thread that drops offline too.
CaptureFullDropping ==
    /\ capPc = "push" /\ Len(ring) = FrameSlots
    /\ capPc' = "full"
    /\ UNCHANGED <<config, next, captured, dropped, captureDone, ring,
                   inference, events, overflow, agent>>

\* TryPushWith finds no room: real time drops the next frame, offline yields.
CaptureFull ==
    /\ capPc = "push" /\ Len(ring) = FrameSlots
    /\ capPc' = IF realtime THEN "full" ELSE "loop"
    /\ UNCHANGED <<config, next, captured, dropped, captureDone, ring,
                   inference, events, overflow, agent>>

CaptureDrop ==
    /\ capPc = "full"
    /\ SourceNext
    /\ dropped' = dropped + 1
    /\ capPc' = "loop"
    /\ UNCHANGED <<config, captured, captureDone, ring, inference, events,
                   overflow, agent>>

\* A capture thread that returns at the end of the source without saying so.
SilentCaptureEnd ==
    /\ \/ capPc = "push" /\ Len(ring) < FrameSlots
       \/ capPc = "full"
    /\ capPc' = "exited"
    /\ UNCHANGED <<config, next, captured, dropped, captureDone, ring,
                   inference, events, overflow, agent>>

\* Next returns false, into the slot or into the scratch frame.  The video may
\* end, or fail to decode, after any number of frames.
CaptureEnd ==
    /\ \/ capPc = "push" /\ Len(ring) < FrameSlots
       \/ capPc = "full"
    /\ capPc' = "done"
    /\ UNCHANGED <<config, next, captured, dropped, captureDone, ring,
                   inference, events, overflow, agent>>

CaptureDone ==
    /\ capPc = "done"
    /\ captureDone' = TRUE
    /\ capPc' = "exited"
    /\ UNCHANGED <<config, next, captured, dropped, ring, inference, events,
                   overflow, agent>>

-----------------------------------------------------------------------------
(* The inference thread.                                                   *)

\* An inference thread that leaves with the capture thread, frames or not.
HastyInferTest ==
    /\ infPc = "test"
    /\ infPc' = IF captureDone THEN "exit" ELSE "stopTest"
    /\ UNCHANGED <<config, capture, ring, window, positives, wasConfirmed,
                   seen, finished, events, overflow, agent>>

\* while (!capture_done_ || SizeApprox() > 0).  The acquire load of
\* capture_done_ makes the last push visible to the size that is read next.
InferTest ==
    /\ infPc = "test"
    /\ infPc' = IF captureDone /\ ring = << >> THEN "exit" ELSE "stopTest"
    /\ UNCHANGED <<config, capture, ring, window, positives, wasConfirmed,
                   seen, finished, events, overflow, agent>>

\* if (stop_requested_ && SizeApprox() == 0) break
InferStopTest ==
    /\ infPc = "stopTest"
    /\ infPc' = IF stop /\ ring = << >> THEN "exit" ELSE "pop"
    /\ UNCHANGED <<config, capture, ring, window, positives, wasConfirmed,
                   seen, finished, events, overflow, agent>>

\* TryPopWith: the frame stays in its slot while it is processed.
InferPop ==
    /\ infPc = "pop"
    /\ infPc' = IF ring = << >> THEN "test" ELSE "process"
    /\ UNCHANGED <<config, capture, ring, window, positives, wasConfirmed,
                   seen, finished, events, overflow, agent>>

Bit(b) == IF b THEN 1 ELSE 0

\* A confirmer that never evicts.
GrowingUpdate(positive) ==
    /\ window' = Append(window, positive)
    /\ positives' = positives + Bit(positive)

\* KOfNConfirmer::Update: push the verdict, evict the one that is n old.
Update(positive) ==
    LET pushed == Append(window, positive)
        full   == Len(pushed) > setting.n
    IN  /\ window' = IF full THEN Tail(pushed) ELSE pushed
        /\ positives' = positives + Bit(positive) - Bit(full /\ Head(pushed))

\* OnnxCpuDetector::Detect reduces the boxes of a frame to one verdict.  What
\* the network sees in a frame is free.
Detect == BOOLEAN

\* The process lambda: detect, update the window, and on its rise push one
\* event, dropping it when the output ring is full.
Process ==
    \E positive \in Detect :
        /\ infPc = "process"
        /\ Update(positive)
        /\ seen' = Append(seen, [frame |-> Head(ring), positive |-> positive])
        /\ wasConfirmed' = (positives' >= setting.k)
        /\ LET rise == wasConfirmed' /\ ~wasConfirmed
               room == Len(events) < EventSlots
           IN  /\ events' = IF rise /\ room THEN Append(events, Head(ring))
                                            ELSE events
               /\ overflow' = overflow + Bit(rise /\ ~room)
        /\ infPc' = "release"
        /\ UNCHANGED <<config, capture, ring, finished, agent>>

\* TryPopWith hands the slot back.
Release ==
    /\ infPc = "release"
    /\ ring' = Tail(ring)
    /\ infPc' = "test"
    /\ UNCHANGED <<config, capture, window, positives, wasConfirmed, seen,
                   finished, events, overflow, agent>>

InferExit ==
    /\ infPc = "exit"
    /\ finished' = TRUE
    /\ infPc' = "exited"
    /\ UNCHANGED <<config, capture, ring, window, positives, wasConfirmed,
                   seen, events, overflow, agent>>

-----------------------------------------------------------------------------
(* The agent's producer thread.                                            *)

\* while (... && (!pipeline.Finished() || events.SizeApprox() > 0))
AgentTest ==
    /\ agentPc = "test"
    /\ IF finished /\ events = << >>
         THEN agentPc' = "stop" /\ reason' = "finished"
         ELSE agentPc' = "pop" /\ UNCHANGED reason
    /\ UNCHANGED <<config, capture, ring, inference, events, overflow, stop,
                   emitted, rebuilds>>

\* g_stop or time_up() ends the loop instead.
AgentHalt ==
    /\ agentPc = "test"
    /\ agentPc' = "stop" /\ reason' = "halted"
    /\ UNCHANGED <<config, capture, ring, inference, events, overflow, stop,
                   emitted, rebuilds>>

\* TryPop and emit (which makes the event durable; see AgentWal and Delivery).
AgentPop ==
    /\ agentPc = "pop"
    /\ \/ /\ events # << >>
          /\ emitted' = Append(emitted, Head(events))
          /\ events' = Tail(events)
       \/ events = << >> /\ UNCHANGED <<events, emitted>>
    /\ agentPc' = "config"
    /\ UNCHANGED <<config, capture, ring, inference, overflow, stop, reason,
                   rebuilds>>

\* No configuration is pending, or one is and it ends the inner loop.
AgentConfig ==
    /\ agentPc = "config"
    /\ \/ agentPc' = "test" /\ UNCHANGED reason
       \/ rebuilds < MaxRebuilds /\ agentPc' = "stop" /\ reason' = "config"
    /\ UNCHANGED <<config, capture, ring, inference, events, overflow, stop,
                   emitted, rebuilds>>

\* ~EdgePipeline: Stop() sets the flag, then joins both threads.
AgentStop ==
    /\ agentPc = "stop"
    /\ stop' = TRUE
    /\ agentPc' = "join"
    /\ UNCHANGED <<config, capture, ring, inference, events, overflow,
                   emitted, reason, rebuilds>>

AgentDone ==
    /\ agentPc = "join" /\ capPc = "exited" /\ infPc = "exited"
    /\ agentPc' = "done"
    /\ reason' = IF reason = "config" THEN "halted" ELSE reason
    /\ UNCHANGED <<config, capture, ring, inference, events, overflow, stop,
                   emitted, rebuilds>>

\* The outer loop builds a new output ring and a new pipeline; the video
\* starts again from its first frame.
Rebuild ==
    /\ agentPc = "join" /\ capPc = "exited" /\ infPc = "exited"
    /\ reason = "config"
    /\ rebuilds' = rebuilds + 1
    /\ setting' \in Settings
    /\ next' = 0 /\ capPc' = "loop" /\ captured' = 0 /\ dropped' = 0
    /\ captureDone' = FALSE
    /\ ring' = << >>
    /\ infPc' = "test" /\ window' = << >> /\ positives' = 0
    /\ wasConfirmed' = FALSE /\ seen' = << >> /\ finished' = FALSE
    /\ events' = << >> /\ overflow' = 0
    /\ stop' = FALSE /\ emitted' = << >> /\ agentPc' = "test"
    /\ reason' = "none"
    /\ UNCHANGED realtime

-----------------------------------------------------------------------------
CaptureStep ==
    CaptureTest \/ CapturePush \/ CaptureCount \/ CaptureFull \/ CaptureDrop
        \/ CaptureEnd \/ CaptureDone
InferenceStep ==
    InferTest \/ InferStopTest \/ InferPop \/ Process \/ Release \/ InferExit
AgentStep ==
    AgentTest \/ AgentHalt \/ AgentPop \/ AgentConfig \/ AgentStop
        \/ AgentDone \/ Rebuild

Next == CaptureStep \/ InferenceStep \/ AgentStep

Spec == Init /\ [][Next]_vars

(* Each thread keeps running: they share no lock, and the operating system *)
(* schedules all three.                                                    *)
FairSpec == Spec /\ WF_vars(CaptureStep) /\ WF_vars(InferenceStep)
                 /\ WF_vars(AgentStep)

-----------------------------------------------------------------------------
Frames == 1 .. MaxFrames

\* The frames that went into the ring, oldest first: the ones processed and
\* the ones still there.
Published ==
    [i \in DOMAIN seen |-> seen[i].frame]
        \o (IF infPc = "release" THEN Tail(ring) ELSE ring)

Increasing(s) == \A i, j \in DOMAIN s : i < j => s[i] < s[j]

(* Every frame the source delivered went into the ring, once and in order, *)
(* or is counted as dropped, and offline none is dropped (CaptureLoop:     *)
(* "wait for room, never drop").                                           *)
FramesAccounted ==
    /\ Increasing(Published)
    /\ Len(Published) + dropped = next
    /\ captured = Len(Published) - Bit(capPc = "count")
    /\ ~realtime => dropped = 0

\* After i frames, at least k of the last n were positive.
ConfirmedAfter(i) ==
    Cardinality({j \in 1 .. i : j + setting.n > i /\ seen[j].positive})
        >= setting.k

\* The frames with which the window becomes confirmed.
Rises ==
    {seen[i].frame : i \in {j \in DOMAIN seen :
                              ConfirmedAfter(j) /\ ~ConfirmedAfter(j - 1)}}

(* The agent and the output ring have, in order, one event for each        *)
(* confirmed episode: each frame with which "at least K of the last N"     *)
(* becomes true, computed from the whole history of verdicts, except the   *)
(* events that a full output ring refused.                                 *)
OneEventPerEpisode ==
    LET reported == emitted \o events IN
    /\ Increasing(reported)
    /\ \A i \in DOMAIN reported : reported[i] \in Rises
    /\ Len(reported) + overflow = Cardinality(Rises)

(* When the producer thread takes the pipeline for finished, nothing is    *)
(* left behind: each captured frame has been processed, and each event     *)
(* that got into the output ring has been emitted.                         *)
FinishedIsComplete ==
    reason = "finished" =>
        /\ capPc = "exited" /\ ring = << >> /\ events = << >>
        /\ Len(seen) = captured /\ captured + dropped = next
        /\ Len(emitted) + overflow = Cardinality(Rises)

(* The video mode ends: with a finite source and finitely many             *)
(* configuration changes the pipeline finishes or is stopped, both joins   *)
(* return, and the producer thread sets producer_done.                     *)
ProducerEnds == <>(agentPc = "done")
=============================================================================
