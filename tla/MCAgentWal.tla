------------------------------- MODULE MCAgentWal -------------------------------
(* Three events and two crashes: a torn append, a restart, a good append behind *)
(* it and a second restart fit, and so does a compaction around each of them.   *)
EXTENDS AgentWal
================================================================================
