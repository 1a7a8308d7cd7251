------------------------------- MODULE MCHotState -------------------------------
(***************************************************************************)
(* The one Redis connection: two threads, one that updates and one that    *)
(* reads, and a thread that only updates, as the gateway's do.             *)
(***************************************************************************)
EXTENDS HotState

\* Redis is up when the gateway starts and comes back from every outage; heartbeats keep
\* coming; a command ends with an answer, or with an error after its timeout.
FairInit == Init /\ server = TRUE

FairSpec ==
  /\ FairInit
  /\ [][Next]_vars
  /\ WF_vars(Recover)
  /\ \A t \in Threads :
       /\ WF_vars(\E d \in Devices : Call(t, "Update", d))
       /\ WF_vars(Send(t))
       /\ WF_vars(Answer(t) \/ Fail(t))
=================================================================================
