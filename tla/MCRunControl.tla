---------------------------- MODULE MCRunControl ----------------------------
EXTENDS RunControl
CONSTANTS r1, p1, p2

(* The requests served at once: one, two of one process, one of each.      *)
OneRequest == {<<p1, "a">>}
TwoRequests == {<<p1, "a">>, <<p1, "b">>}

(* Bound: once a second process is up and a fault has happened, a block is *)
(* explored only when it is already at the threshold.                      *)
FewForks == ~ (p2 \in up /\ faults > 0 /\ chain[r1].soft # {})
=============================================================================
