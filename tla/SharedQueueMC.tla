--------------------------- MODULE SharedQueueMC ---------------------------
(* An instance of the shared queue for TLC: one handle awaited on the queue's *)
(* loop and on another, a second one that nobody awaits.                      *)
EXTENDS SharedQueue, TLC

CONSTANTS a, b, v, w, home, away

SharedFor == (v :> a) @@ (w :> a)
SharedWhere == (v :> home) @@ (w :> away)
=============================================================================
