------------------------------- MODULE Worker -------------------------------
(***************************************************************************)
(* A worker's loop, the attempts of a task and what interrupts them        *)
(* (src/osiiso/sync.py: _worker, _attempts, _record, _Ctl, _cancel_task,   *)
(* _abort_tasks), down to where the queue's executor takes over. The       *)
(* queues themselves are the subject of SyncQueue: here the ready queue is *)
(* a set and is swept in one step, no task is scheduled or submitted, and  *)
(* what counts is which of its three steps an interrupt has reached while  *)
(* the worker goes on.                                                     *)
(***************************************************************************)
EXTENDS Handles

CONSTANTS
  Workers,       \* the worker threads
  Boss,          \* the application thread that cancels, aborts and stops
  MustComplete,  \* tasks submitted with must_complete=True
  Retries,       \* Retries[t]: opts.retries
  FailFirst,     \* fail_policy == "fail_first"
  Timed,         \* tasks with opts.timeout
  Acts,          \* Acts[t]: what becomes of an attempt's callable, see Behaviours
  Asks,          \* what Boss may do: cancel a task, "abort", "kill"
  Budget         \* bound on how often

\* It returns, raises an Exception, raises another BaseException, never ends,
\* or, in a subprocess: takes the process with it, has a reply that does not
\* unpickle, does not pickle itself.
Behaviours == {"value", "error", "exit", "loop", "crash", "garbled", "unsendable"}

ASSUME WorkerAssumption ==
  /\ Threads = Workers \cup {Boss} /\ Boss \notin Workers
  /\ MustComplete \subseteq Tasks /\ Retries \in [Tasks -> Nat]
  /\ Timed \subseteq Tasks /\ Acts \in [Tasks -> SUBSET Behaviours]
  /\ FailFirst \in BOOLEAN
  /\ Asks \subseteq Tasks \cup {"abort", "kill"} /\ {"abort", "kill"} \cap Tasks = {} /\ Budget \in Nat

VARIABLES
  ready,     \* tasks in self._ready
  active,    \* the keys of self._active
  halt,      \* self._halt
  locked,    \* a cancel() holds self._lock while it interrupts
  attempts,  \* handle.attempts
  ctl,       \* the task's control block: cancel_ev, wake (an attempt's number), slot (a worker)
  wk,        \* worker: control point, task in hand, how the attempt ended
  ab,        \* thread -> its cancel() or _abort_tasks() in progress
  asks       \* how often Boss may still ask

workerVars == <<ready, active, halt, locked, attempts, ctl, wk, ab, asks>>

\* An attempt is known by its task and its number.
Attempts == UNION {{t} \X (1 .. Retries[t] + 1) : t \in Tasks}
Current(w) == <<wk[w].task, attempts[wk[w].task]>>
Failures == {"error", "timeout", "died"}
Endings == Failures \cup {"value", "cancelled", "exit"}
WorkerPoints ==
  {"get", "register", "check", "start", "execute", "outcome", "delay", "record", "count",
   "pop", "leave", "close", "gone",
   "wired", "box", "flag", "alive", "clock", "wait",
   "ensure", "publish", "recheck", "send", "await", "reaped"}
AbortPoints == {"off", "sweep", "publish", "drop", "flag", "wake", "strike"}
AtRest == [pc |-> "off", kill |-> FALSE, swept |-> {}, todo |-> {}, cur |-> NULL]

WorkerInit ==
  /\ ready = Tasks /\ active = {} /\ halt = FALSE /\ locked = FALSE
  /\ attempts = [t \in Tasks |-> 0]
  /\ ctl = [t \in Tasks |-> [cancelled |-> FALSE, wake |-> 0, slot |-> NULL]]
  /\ wk = [w \in Workers |-> [pc |-> "get", task |-> NULL, out |-> NULL]]
  /\ ab = [th \in Threads |-> AtRest] /\ asks = Budget

At(w, pc) == wk[w].pc = pc
Cancelled(w) == ctl[wk[w].task].cancelled
Goto(w, pc) == wk' = [wk EXCEPT ![w].pc = pc]
\* The attempt is over: _execute returns or raises.
End(w, out) == wk' = [wk EXCEPT ![w].pc = "outcome", ![w].out = out]
\* `raise _Cancelled` outside _execute reaches the same handler.
Unwind(w) == End(w, "cancelled")

-----------------------------------------------------------------------------
(* The worker, between the calls it makes to its executor. *)

Take(w) ==
  /\ At(w, "get")
  /\ \E t \in ready :
       /\ ready' = ready \ {t}
       /\ wk' = [wk EXCEPT ![w] = IF halt /\ t \notin MustComplete
                                    THEN [pc |-> "record", task |-> t, out |-> "cancelled"]
                                    ELSE [pc |-> "register", task |-> t, out |-> NULL]]
  /\ UNCHANGED <<active, halt, locked, attempts, ctl, ab, asks, handleVars>>

Register(w) ==
  /\ At(w, "register") /\ ~locked
  /\ active' = active \cup {wk[w].task} /\ Goto(w, "check")
  /\ UNCHANGED <<ready, halt, locked, attempts, ctl, ab, asks, handleVars>>

\* The head of the attempt loop. The pause of a rate gate ends with the same
\* look at cancel_ev and is left to SyncQueue.
Check(w) ==
  /\ At(w, "check")
  /\ IF Cancelled(w) THEN Unwind(w) ELSE Goto(w, "start")
  /\ UNCHANGED <<ready, active, halt, locked, attempts, ctl, ab, asks, handleVars>>

\* _mark_running
Start(w) ==
  /\ At(w, "start")
  /\ attempts' = [attempts EXCEPT ![wk[w].task] = @ + 1] /\ Goto(w, "execute")
  /\ UNCHANGED <<ready, active, halt, locked, ctl, ab, asks, handleVars>>

\* Mutant: counts the attempts from zero.
RetriableOnceMore(w) ==
  /\ ~Cancelled(w) /\ attempts[wk[w].task] <= Retries[wk[w].task] + 1
  /\ ~(halt /\ wk[w].task \notin MustComplete)

Retriable(w) ==
  /\ ~Cancelled(w) /\ attempts[wk[w].task] <= Retries[wk[w].task]
  /\ ~(halt /\ wk[w].task \notin MustComplete)

\* The handlers around _execute. A BaseException that is no Exception passes
\* through them all and ends the thread.
Outcome(w) ==
  /\ At(w, "outcome")
  /\ Goto(w, IF wk[w].out = "exit" THEN "leave"
             ELSE IF wk[w].out \in Failures /\ Retriable(w) THEN "delay" ELSE "record")
  /\ UNCHANGED <<ready, active, halt, locked, attempts, ctl, ab, asks, handleVars>>

\* cancel_ev.wait(delay) before a retry
Delay(w) ==
  /\ At(w, "delay")
  /\ IF Cancelled(w) THEN Unwind(w) ELSE Goto(w, "check")
  /\ UNCHANGED <<ready, active, halt, locked, attempts, ctl, ab, asks, handleVars>>

Verdict(out) ==
  IF out = "value" THEN "succeeded" ELSE IF out \in Failures THEN "failed" ELSE "cancelled"

\* _record, in three parts: the handle; its callbacks and the lock section
\* (which applies fail_first, whose abort this thread runs); _active.pop.
Record(w) ==
  /\ At(w, "record")
  /\ MarkFinished(w, wk[w].task, Verdict(wk[w].out)) /\ Goto(w, "count")
  /\ UNCHANGED <<ready, active, halt, locked, attempts, ctl, ab, asks>>

Count(w) ==
  /\ At(w, "count") /\ invoking[w] = {} /\ ~locked
  /\ LET trip == FailFirst /\ ~halt /\ wk[w].out \in Failures IN
       /\ halt' = (halt \/ trip)
       /\ ab' = IF trip THEN [ab EXCEPT ![w].pc = "sweep"] ELSE ab
  /\ Goto(w, "pop")
  /\ UNCHANGED <<ready, active, locked, attempts, ctl, asks, handleVars>>

\* Leaving _attempts: back to get(), or out of the loop after an exit.
Pop(w) ==
  /\ wk[w].pc \in {"pop", "leave"} /\ ab[w].pc = "off" /\ ~locked
  /\ active' = active \ {wk[w].task}
  /\ wk' = [wk EXCEPT ![w] = [pc |-> IF At(w, "pop") THEN "get" ELSE "close", task |-> NULL, out |-> NULL]]
  /\ UNCHANGED <<ready, halt, locked, attempts, ctl, ab, asks, handleVars>>

\* A stop sentinel, which sorts after every task.
Stop(w) ==
  /\ At(w, "get") /\ ready = {} /\ Goto(w, "close")
  /\ UNCHANGED <<ready, active, halt, locked, attempts, ctl, ab, asks, handleVars>>

-----------------------------------------------------------------------------
(* Cancellation and aborts. *)

Ask == asks > 0 /\ ab[Boss].pc = "off" /\ asks' = asks - 1

\* handle.cancel(): an active task is interrupted with the lock held, a
\* queued one swept; a task in neither place is left alone.
Cancel(t) ==
  /\ Ask /\ t \in Asks \cap Tasks /\ ~Done(t) /\ ~locked
  /\ locked' = (t \in active)
  /\ ready' = IF t \in active THEN ready ELSE ready \ {t}
  /\ ab' = [ab EXCEPT ![Boss] =
              IF t \in active THEN [AtRest EXCEPT !.pc = "flag", !.todo = {t}]
              ELSE IF t \in ready THEN [AtRest EXCEPT !.pc = "drop", !.swept = {t}]
              ELSE AtRest]
  /\ UNCHANGED <<active, halt, attempts, ctl, wk, handleVars>>

\* _abort: a run's time limit (kill=False or True) or shutdown(force=True).
Abort(how) ==
  /\ Ask /\ how \in Asks \cap {"abort", "kill"}
  /\ halt' = TRUE
  /\ ab' = [ab EXCEPT ![Boss] = [AtRest EXCEPT !.pc = "sweep", !.kill = (how = "kill")]]
  /\ UNCHANGED <<ready, active, locked, attempts, ctl, wk, handleVars>>

Spared(th, t) == t \in MustComplete /\ ~ab[th].kill

\* _abort_tasks: sweep, record what was swept, then interrupt a snapshot.
Sweep(th) ==
  /\ ab[th].pc = "sweep" /\ ~locked
  /\ LET swept == {t \in ready : ~Spared(th, t)} IN
       /\ ready' = ready \ swept
       /\ ab' = [ab EXCEPT ![th].pc = "publish", ![th].swept = swept]
  /\ UNCHANGED <<active, halt, locked, attempts, ctl, wk, asks, handleVars>>

Publish(th) ==
  /\ ab[th].pc \in {"publish", "drop"} /\ invoking[th] = {}
  /\ \E t \in ab[th].swept :
       /\ MarkFinished(th, t, "cancelled")
       /\ ab' = [ab EXCEPT ![th].swept = @ \ {t}]
  /\ UNCHANGED <<ready, active, halt, locked, attempts, ctl, wk, asks>>

Dropped(th) ==
  /\ ab[th].pc = "drop" /\ ab[th].swept = {} /\ invoking[th] = {}
  /\ ab' = [ab EXCEPT ![th] = AtRest]
  /\ UNCHANGED <<ready, active, halt, locked, attempts, ctl, wk, asks, handleVars>>

Snapshot(th) ==
  /\ ab[th].pc = "publish" /\ ab[th].swept = {} /\ invoking[th] = {} /\ ~locked
  /\ LET hit == {t \in active : ~Spared(th, t)} IN
       ab' = IF hit = {} THEN [ab EXCEPT ![th] = AtRest]
                         ELSE [ab EXCEPT ![th].pc = "flag", ![th].todo = hit]
  /\ UNCHANGED <<ready, active, halt, locked, attempts, ctl, wk, asks, handleVars>>

\* _Ctl.interrupt, first step: cancel_ev.set(). The executors have the others.
Flag(th) ==
  /\ ab[th].pc = "flag"
  /\ \E t \in ab[th].todo :
       /\ ctl' = [ctl EXCEPT ![t].cancelled = TRUE]
       /\ ab' = [ab EXCEPT ![th].pc = "wake", ![th].cur = t, ![th].todo = @ \ {t}]
  /\ UNCHANGED <<ready, active, halt, locked, attempts, wk, asks, handleVars>>

\* What an executor's step of interrupt() does to the interrupting thread.
Woken(th) == ab' = [ab EXCEPT ![th].pc = "strike"]
Struck(th) ==
  /\ ab' = IF ab[th].todo = {} THEN [ab EXCEPT ![th] = AtRest]
                               ELSE [ab EXCEPT ![th].pc = "flag", ![th].cur = NULL]
  /\ locked' = IF th = Boss /\ ab[th].todo = {} THEN FALSE ELSE locked

WorkerStep(w) ==
  \/ Take(w) \/ Register(w) \/ Check(w) \/ Start(w) \/ Outcome(w)
  \/ Delay(w) \/ Record(w) \/ Count(w) \/ Pop(w) \/ Stop(w)

AbortStep(th) == Sweep(th) \/ Publish(th) \/ Dropped(th) \/ Snapshot(th) \/ Flag(th)

BossAsks == \E what \in Asks : Cancel(what) \/ Abort(what)
=============================================================================
