---------------------------- MODULE AsyncQueueMC ----------------------------
(* Instances of AsyncQueue for TLC. *)
EXTENDS AsyncQueue, TLC

CONSTANTS t1, t2, c1, c2

\* A finite queue: one coroutine submits and runs, the other interferes.
FiniteSubmitters == [t \in Tasks |-> {"coroutine"}]
FiniteRetries == (t1 :> 1) @@ (t2 :> 0)
FiniteProgram ==
  (c1 :> <<{"submit"}, {"submit"}, {"run"}>>) @@ (c2 :> <<{"cancel", "shutdown", "reset"}, {"shutdown"}>>)

\* A queue served by run(), fed by a thread and by a hook.
ServeSubmitters == (t1 :> {"coroutine", "thread"}) @@ (t2 :> {"hook"})
ServeRetries == (t1 :> 1) @@ (t2 :> 0)
ServeProgram ==
  (c1 :> <<{"run"}, {"join"}>>) @@ (c2 :> <<{"submit"}, {"shutdown", "force"}>>)
=============================================================================
