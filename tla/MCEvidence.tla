----------------------------- MODULE MCEvidence -----------------------------
(* Two sessions of the same two wallets, one after the other. *)
EXTENDS MCExchange, Evidence
=============================================================================
