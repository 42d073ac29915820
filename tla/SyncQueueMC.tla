---------------------------- MODULE SyncQueueMC ----------------------------
(* Instances of the engine for TLC: who submits what, and which calls each *)
(* application thread may make. One block per configuration file.          *)
EXTENDS SyncQueueProperties, TLC

CONSTANTS c1, c2

NoRetries == [t \in Tasks |-> 0]
RetrySecond == [t \in Tasks |-> IF t = 2 THEN 1 ELSE 0]

\* SyncRun.cfg: one thread submits and runs, another cancels tasks.
RunMine == (c1 :> {1, 2}) @@ (c2 :> {})
RunMay == (c1 :> {"start", "join", "run", "timeout"}) @@ (c2 :> {"cancel", "clear"})

\* SyncService.cfg: an infinite queue served by one thread and used, shut
\* down and reset by another.
ServiceMine == (c1 :> {}) @@ (c2 :> {1, 2})
ServiceMay == (c1 :> {"run"}) @@ (c2 :> {"shutdown", "force", "reset"})

\* SyncLive.cfg: one thread makes every call.
LiveMine == c1 :> {1, 2}
LiveMay == c1 :> {"run", "timeout", "shutdown"}

\* SyncAutoTimeout.cfg: auto-scaled workers and a run with a time limit.
AutoMine == c1 :> {1}
AutoMay == c1 :> {"run", "timeout"}
=============================================================================
