------------------------------- MODULE MCTurns -------------------------------
(* A run of two turns, two processes and one fault of any kind.             *)
EXTENDS Turns
=============================================================================
