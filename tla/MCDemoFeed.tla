------------------------------- MODULE MCDemoFeed -------------------------------
(* Two events in the table and a list of one: more events than the feed shows.   *)
EXTENDS DemoFeed
=================================================================================
