----------------------------- MODULE DetectionPath -----------------------------
(***************************************************************************)
(* Two stations of a detection that share no state, side by side: the      *)
(* detector that makes it and the gateway stream that takes it.  A         *)
(* behaviour runs one of them and leaves the other as it is.               *)
(***************************************************************************)
EXTENDS GatewaySession, Sequences

CONSTANTS S, Strides, Frames, Outputs, ScoreLimit, IouLimit, Targets

ASSUME DetectorAssumption ==
  /\ S \in Nat \ {0} /\ \A f \in Frames : f.w \in Nat /\ f.h \in Nat
  /\ Strides \in Seq(Nat \ {0}) /\ ScoreLimit \in Nat /\ IouLimit \in Nat

VARIABLES station,
          phase, n, frame, cols, rows, tensor, output, candidates, kept, result

detectorVars == <<phase, n, frame, cols, rows, tensor, output, candidates, kept, result>>

Detector == INSTANCE OnnxDetector

\* The model answers a row for each cell of the grid; its sigmoids make objectness and
\* class scores probabilities, its exponentials make widths and heights positive.
ModelRow(r) ==
  /\ r.px \in Int /\ r.py \in Int /\ r.bw \in Nat /\ r.bh \in Nat /\ r.obj \in 0 .. 10
  /\ r.cls \in Seq(0 .. 10) /\ r.cls # <<>>

ASSUME OutputAssumption ==
  \A k \in DOMAIN Outputs : \A out \in Outputs[k] :
    DOMAIN out = DOMAIN Detector!Grid /\ \A i \in DOMAIN out : ModelRow(out[i])

---------------------------------------------------------------------------------
PathInit ==
  /\ station \in {"session", "detector"}
  /\ SessionInit /\ Detector!Init

PathNext ==
  \/ station = "session" /\ SessionNext /\ UNCHANGED <<station, detectorVars>>
  \/ station = "detector" /\ Detector!Next /\ UNCHANGED <<station, sessionVars>>

pathVars == <<station, sessionVars, detectorVars>>

PathSpec == PathInit /\ [][PathNext]_pathVars

---------------------------------------------------------------------------------
\* Preprocess: the model sees this frame and nothing else, sampled inside its bounds.
TensorIsThisFrame == station = "detector" => Detector!TensorIsThisFrame

\* DetectAll and Detect: suppression keeps what its header says, the best is reported.
SuppressionIsSound == station = "detector" => Detector!SuppressionIsSound
=================================================================================
