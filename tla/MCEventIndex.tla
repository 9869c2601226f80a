---------------------------- MODULE MCEventIndex ----------------------------
(* Chains of three blocks that are replaced twice, polled in chunks of two. *)
EXTENDS EventIndex
=============================================================================
