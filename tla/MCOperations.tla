---------------------------- MODULE MCOperations ----------------------------
(* Two requests on a paused run: a retry under the same key with the same  *)
(* body or another, a step and an abort, and pauses.                       *)
EXTENDS Operations
Ask(kind, key, body) == [kind |-> kind, key |-> key, body |-> body]
Two == {"r1", "r2"}
Both(a, b) == [r \in Two |-> IF r = "r1" THEN a ELSE b]
Retries == {Both(Ask("step", "k", "b"), Ask("step", "k", "b")),
            Both(Ask("step", "k", "b"), Ask("step", "k", "c")),
            Both(Ask("step", "k", "b"), Ask("abort", NoKey, "b")),
            Both(Ask("pause", "k", "b"), Ask("pause", "k", "b"))}
Aborts == {Both(Ask("abort", NoKey, "b"), Ask("resume", NoKey, "b"))}
Paused == State("paused", "")
=============================================================================
