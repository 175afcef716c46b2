-------------------------- MODULE MCEventPipeline ---------------------------
(***************************************************************************)
(* Instances of EventPipeline for TLC. One time stamp makes every event    *)
(* compete for the same names; queues of one job make the clip thread wait *)
(* for the upload thread, and events be dropped, early.                    *)
(***************************************************************************)
EXTENDS EventPipeline

AllFaults == {"ring", "write", "delete", "sd", "network"}

=============================================================================
