------------------------------ MODULE MCSetup -------------------------------
(* One run set up by one process, or by two, under a fault of every kind.  *)
EXTENDS Setup
=============================================================================
