---------------------------- MODULE ExecutionMC ----------------------------
(* Instances of the execution of attempts for TLC. *)
EXTENDS Execution, TLC

CONSTANTS a, b

InOrder == <<a, b>>

\* Execution.cfg: a thread queue whose client waits for a group, a process
\* queue whose client iterates. Task a may be retried, b must complete.
RunSetups == {<<"thread", "group">>, <<"process", "iter">>}
RunRetries == (a :> 1) @@ (b :> 0)
RunActs == (a :> {"error", "loop", "crash", "unsendable"}) @@ (b :> {"value", "loop", "exit", "garbled"})

\* WrongKill.cfg: a fails, b must complete and would return a value.
KillSetups == {<<"process", "group">>}
NoRetries == (a :> 0) @@ (b :> 0)
KillActs == (a :> {"error"}) @@ (b :> {"value"})
=============================================================================
