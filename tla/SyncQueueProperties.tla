------------------------ MODULE SyncQueueProperties ------------------------
(* What the engine promises, and what is relied on inside it. *)
EXTENDS SyncQueue

\* Every variable keeps its type.
Status == {"new", "pending", "running", "retrying", "succeeded", "failed", "cancelled"}
WorkerPoint == {"dead", "reg", "init", "get", "check", "enter", "top", "exec", "retry", "pop", "exit", "leave"}
CallerPoint == {"idle", "full", "join.start", "join", "run.start", "run.wait", "run.drain", "run.end",
                "down.peek", "down.start", "down.refuse", "down.drain", "down.halt", "down.stop", "down.close",
                "force.refuse", "cancel", "miss", "hit", "reset.drain", "reset.clear"}
MethodPoint == {"none", "spawn", "starting", "halt", "cut", "rec1", "drain", "put", "rec2", "snap", "hit",
                "stop", "signal", "joining", "purge", "restore", "forget"}
TasksOK ==
  /\ st \in [Tasks -> Status] /\ attempts \in [Tasks -> Nat] /\ cancelEv \subseteq Tasks
  /\ later \subseteq Tasks /\ ready \subseteq Tasks /\ stops \in Nat
  /\ active \subseteq Tasks /\ results \in Seq(Tasks) /\ outstanding \in Int
FlagsOK ==
  /\ accepting \in BOOLEAN /\ halt \in BOOLEAN /\ closed \in BOOLEAN /\ started \in BOOLEAN
  /\ running \in BOOLEAN /\ timedOut \in BOOLEAN /\ shutEv \in BOOLEAN
PoolOK ==
  /\ threads \subseteq Workers /\ wpc \in [Workers -> WorkerPoint] /\ cur \in [Workers -> Tasks \cup {NULL}]
  /\ timer \in {"on", "leaving", "off"}
CallingOK ==
  /\ parked \subseteq Callers /\ pc \in [Callers -> CallerPoint] /\ arg \in [Callers -> Tasks \cup {NULL}]
  /\ idx \in [Callers -> Nat] /\ calls \in [Callers -> Nat] /\ stale \in [Callers -> {"no", "unset", "set"}]
MethodsOK ==
  /\ sub \in [Th -> MethodPoint] /\ sel \in [Th -> SUBSET Tasks] /\ hand \in [Th -> SUBSET Tasks]
  /\ handStops \in [Th -> Nat] /\ hits \in [Th -> SUBSET Tasks] /\ pub \in [Th -> Tasks \cup {NULL}]
  /\ toStart \in [Th -> SUBSET Workers] /\ snap \in [Th -> SUBSET Workers]
TypeOK == TasksOK /\ FlagsOK /\ PoolOK /\ CallingOK /\ MethodsOK

\* A task that is accepted and not finished is in exactly one place: the
\* heap, the ready queue, the local lists of one sweep, or one worker's
\* hands. (The design's Invariant 1, with the places it does not name.)
Disjoint ==
  /\ later \cap ready = {}
  /\ \A th \in Th : hand[th] \cap (later \cup ready) = {}
  /\ \A th1, th2 \in Th : th1 # th2 => hand[th1] \cap hand[th2] = {}
  /\ \A w \in Workers : cur[w] \notin later \cup ready /\ \A th \in Th : cur[w] \notin hand[th]
  /\ \A w1, w2 \in Workers : w1 # w2 /\ cur[w1] = cur[w2] => cur[w1] = NULL
Somewhere(t) ==
  \/ t \in later \cup ready
  \/ \E th \in Th : t \in hand[th]
  \/ \E w \in Workers : cur[w] = t /\ t \notin Final
OneOwner == Disjoint /\ \A t \in Tasks : t \in Live <=> Somewhere(t)

-----------------------------------------------------------------------------
(* The inductive invariant behind OneOwner: what each control point says   *)
(* of the thread's local state.                                            *)

\* A worker has a task in hand exactly between the get() and the end of the
\* attempts, live until its outcome is recorded and final from then on.
Carrying == {"check", "enter", "top", "exec", "retry"}
Holding ==
  \A w \in Workers :
    /\ cur[w] # NULL <=> wpc[w] \in Carrying \cup {"pop"}
    /\ wpc[w] \in Carrying => cur[w] \in Live
    /\ wpc[w] = "pop" => cur[w] \in Final

\* Only between tasks does a worker record, sweep or abort.
WorkerAtRest == \A w \in Workers : wpc[w] \notin {"get", "pop", "leave"} => Resting(w)

\* Tasks are in a sweep's local lists only while it drains, puts back or
\* records; _drain_sentinels drops none.
HandInSweep ==
  \A th \in Th :
    /\ hand[th] # {} => sub[th] \in {"rec1", "drain", "put", "rec2", "purge", "restore"}
    /\ sub[th] \in {"purge", "restore"} => sel[th] = {}

\* A task about to be published is final; inside a sweep, it is one the sweep
\* cancelled.
PublishFinal ==
  \A th \in Th :
    pub[th] # NULL => /\ pub[th] \in Final
                      /\ sub[th] = "none" \/ (sub[th] \in {"rec1", "rec2"} /\ st[pub[th]] = "cancelled")

\* A thread waiting for its start() is registered, and by one spawn.
Starting ==
  /\ \A th \in Th : \A w \in toStart[th] : wpc[w] = "reg"
  /\ \A th1, th2 \in Th : th1 # th2 => toStart[th1] \cap toStart[th2] = {}

\* A caller in the capacity wait holds a task of its own, still new; one in
\* cancel(), a task.
Submitting ==
  \A c \in Callers : /\ pc[c] = "full" => arg[c] \in Mine[c] /\ st[arg[c]] = "new"
                     /\ pc[c] = "cancel" => arg[c] \in Tasks

IInv == TypeOK /\ Holding /\ WorkerAtRest /\ HandInSweep /\ PublishFinal /\ Starting /\ Submitting /\ OneOwner

-----------------------------------------------------------------------------

\* self._outstanding counts the accepted tasks whose result is not yet in
\* the list, so the idle signal cannot come early or be missed. (Invariant 2)
Accounting == outstanding = Cardinality(Unpublished)

\* No two threads are about to publish the same task.
PublishOnce == \A th1, th2 \in Th : th1 # th2 /\ pub[th1] = pub[th2] => pub[th1] = NULL

\* reset() sets the counter to 0: nobody may call it, nobody is inside it.
NoReset == \A c \in Callers : "reset" \notin May[c]
NotResetting == \A c \in Callers : pc[c] \notin {"reset.drain", "reset.clear"}

\* Whoever sleeps on _done_cond still has a reason to: a wakeup is never
\* lost between the check and the wait.
NoLostWakeup == \A c \in parked : IF pc[c] = "full" THEN Full ELSE outstanding # 0

\* A caller goes to sleep inside no method of the engine.
AsleepAtRest == \A c \in parked : Resting(c) /\ pc[c] \notin {"miss", "hit"}

\* Where the tasks of the attempt loop stand: a task no attempt was made of is
\* pending, one to be tried again has an attempt left, and a worker's control
\* point tells the status of the task in its hands.
Attempting ==
  /\ \A t \in Tasks :
       /\ st[t] \in {"new", "pending"} => attempts[t] = 0
       /\ st[t] = "retrying" => attempts[t] <= Retries[t]
       /\ t \in Live /\ st[t] # "pending" => \E w \in Workers : cur[w] = t
  /\ \A w \in Workers :
       /\ wpc[w] \in {"check", "enter"} => st[cur[w]] = "pending"
       /\ wpc[w] = "top" => st[cur[w]] \in {"pending", "retrying"}
       /\ wpc[w] = "exec" => st[cur[w]] = "running"
       /\ wpc[w] = "retry" => st[cur[w]] = "retrying"

\* The engine implements the task lifecycle all queues promise.
Lifecycle == INSTANCE TaskLifecycle WITH owed <- Unpublished
LifecycleSpec == Lifecycle!Spec

\* Thread th is inside an abort with kill=True.
Kills(th) ==
  /\ sel[th] = Tasks
  /\ \/ th \in Workers /\ wpc[th] = "leave"
     \/ th \in Callers /\ pc[th] \in {"down.stop", "reset.drain"}
     \/ th \in Callers /\ pc[th] = "run.drain" /\ TimeoutKills

\* A must_complete task is cancelled, or its cancellation requested, only by
\* a cancel() call on it or by an abort with kill=True.
Spared ==
  \A t \in MustComplete :
    (st[t] # "cancelled" /\ st'[t] = "cancelled") \/ t \in cancelEv' \ cancelEv =>
       \/ t \in cancelEv \/ \E th \in Th : Kills(th)
       \/ \E c \in Callers : arg[c] = t /\ pc[c] \in {"cancel", "miss"}
MustCompleteSpared == [][Spared]_vars

\* What a sweep may cancel: the tasks that are not must_complete; or all of
\* them, when the thread kills; or the one a cancel() call is about. It holds
\* and interrupts only those.
SweepPoint == {"halt", "cut", "rec1", "drain", "put", "rec2", "snap", "hit"}
Cancels(th) ==
  /\ th \in Callers /\ sel[th] = {arg[th]} /\ sub[th] \in {"drain", "put", "rec2"}
  /\ pc[th] = "miss" \/ (pc[th] = "hit" /\ sub[th] = "rec2" /\ hand[th] = {})
Sweeps(th) ==
  /\ sub[th] \in SweepPoint => sel[th] \cap MustComplete = {} \/ Kills(th) \/ Cancels(th)
  /\ sub[th] \in {"rec1", "rec2"} => hand[th] \subseteq sel[th]
  /\ sub[th] = "hit" => hits[th] \subseteq sel[th]
Sweeping == \A th \in Th : Sweeps(th)

\* While _stop_workers joins, the sentinels still around (queued, or in the
\* hands of a sweep) suffice for the workers it waits for.
Working(w) == wpc[w] \notin {"dead", "exit", "leave"}
HeldStops == UNION {{<<th, i>> : i \in 1 .. handStops[th]} : th \in Th}
StopsAround == stops + Cardinality(HeldStops)
StopHandshake ==
  \A c \in Callers : sub[c] = "joining" => Cardinality({w \in snap[c] : Working(w)}) <= StopsAround

\* There are never more worker threads than the limit asks for.
WorkerLimit ==
  Cardinality(threads \cup {w \in Workers : Working(w)}) <= (IF FixedWorkers = 0 THEN AutoLimit ELSE FixedWorkers)

\* A scheduled task has a live timer thread to release it.
TimerCovers == later # {} /\ ~closed => timer = "on"

\* After a shutdown nothing is left unfinished, once every thread is at rest:
\* sync.py:240, force "cancels everything (including must_complete tasks)
\* immediately"; the default "finishes all outstanding work first".
\* It fails in a program where another thread's cancel() of one task holds the
\* others aside during a forced shutdown (README, section 3).
Quiescent == /\ \A c \in Callers : pc[c] = "idle" /\ Resting(c)
             /\ \A w \in Workers : wpc[w] \in {"dead", "get"} /\ Resting(w)
ClosedMeansDone == closed /\ Quiescent => outstanding = 0

\* Every call an application makes returns.
CallsReturn == \A c \in Callers : (pc[c] # "idle") ~> (pc[c] = "idle")

\* Once the queue is started, every accepted task finishes.
TasksFinish == \A t \in Tasks : (t \in Live /\ started) ~> (t \notin Live)
=============================================================================
