----------------------------- MODULE SyncQueue -----------------------------
(***************************************************************************)
(* The engine shared by ThreadQueue and ProcessQueue (src/osiiso/sync.py): *)
(* admission, the scheduling thread, the worker pool, the attempt loop,    *)
(* cancellation, aborts, run(), shutdown() and reset().                    *)
(*                                                                         *)
(* One step is one lock section (with self._lock), one operation of the    *)
(* priority queue self._ready, one handle transition or one Event/Thread   *)
(* operation; everything the code does between two such points is local.   *)
(* Submission order and priorities are abstracted: get() may return any    *)
(* queued task, but a stop sentinel only when no task is queued.           *)
(***************************************************************************)
EXTENDS Integers, Sequences, FiniteSets

CONSTANTS
  Tasks,          \* the submissions the callers may make, each made once
  Workers,        \* identities for worker threads (bounds the live ones)
  Callers,        \* application threads that use the queue
  NULL,
  Mine,           \* Mine[c]: the tasks caller c submits, lowest number first
  May,            \* May[c]: the other operations caller c uses
  Budget,         \* bound on the number of those operations per caller
  MustComplete,   \* tasks submitted with must_complete=True
  Delayed,        \* tasks submitted with delay / run_at
  Retries,        \* Retries[t]: opts.retries
  FixedWorkers,   \* the workers= argument, 0 for None (auto-scaling)
  AutoLimit,      \* auto_limit
  Size,           \* size= argument, 0 for unbounded
  Finite,         \* mode == "finite"
  FailFirst,      \* fail_policy == "fail_first"
  TimeoutKills,   \* on_timeout == "cancel"
  InitMayFail     \* the worker initializer may raise

Operations == {"start", "join", "run", "timeout", "shutdown", "force", "cancel", "reset", "clear"}

ASSUME SetsAssumption ==
  /\ IsFiniteSet(Tasks) /\ IsFiniteSet(Workers) /\ IsFiniteSet(Callers)
  /\ Tasks \subseteq Nat /\ Workers \subseteq Nat /\ Workers \cap Callers = {}
  /\ NULL \notin Tasks \cup Workers \cup Callers
ASSUME OptionsAssumption ==
  /\ MustComplete \subseteq Tasks /\ Delayed \subseteq Tasks
  /\ Retries \in [Tasks -> Nat]
ASSUME QueueAssumption ==
  /\ FixedWorkers \in Nat /\ AutoLimit \in Nat \ {0} /\ Size \in Nat
  /\ {Finite, FailFirst, TimeoutKills, InitMayFail} \subseteq BOOLEAN
ASSUME CallersAssumption ==
  /\ Mine \in [Callers -> SUBSET Tasks] /\ May \in [Callers -> SUBSET Operations]
  /\ \A c, d \in Callers : c # d => Mine[c] \cap Mine[d] = {}
  /\ Budget \in Nat

VARIABLES
  \* handles
  st,           \* handle.status, "new" before the submission
  attempts,     \* handle.attempts
  cancelEv,     \* tasks whose _Ctl.cancel_ev is set
  \* where tasks live
  later,        \* self._later
  ready,        \* the tasks in self._ready
  stops,        \* the number of stop sentinels in self._ready
  active,       \* the keys of self._active
  results,      \* self._results
  outstanding,  \* self._outstanding
  \* flags
  accepting, halt, closed, started, running, timedOut,
  shutEv,       \* self._shutdown_ev
  \* threads
  threads,      \* self._threads
  wpc, cur,     \* worker: control point, task in hand (local t of _worker)
  timer,        \* the scheduling thread
  parked,       \* callers asleep on self._done_cond
  pc, arg, idx, calls,  \* caller: control point, task argument, run()'s idx, calls left
  stale,        \* the state of the Event run() waits on, once reset() has replaced it
  \* calls in progress, per thread
  sub,          \* control point inside a called internal method
  sel,          \* the tasks the sweep in progress cancels
  hand,         \* tasks in the local lists dropped / kept
  handStops,    \* sentinels in the local list kept, or yet to be put by _stop_workers
  hits,         \* _abort_tasks: the snapshot of active tasks left to interrupt
  pub,          \* _record: the task marked finished but not yet published
  toStart,      \* _spawn_workers: registered threads not yet started
  snap          \* _stop_workers: threads left to join

handles == <<st, attempts, cancelEv>>
scheduled == <<later, ready, stops>>
done == <<results, outstanding>>
flags == <<accepting, closed, running, shutEv, halt, started, timedOut>>
pool == <<threads, wpc, cur>>
calling == <<parked, pc, arg, idx, calls, stale>>
sweeps == <<sel, hand, handStops, hits>>
spawns == <<toStart, snap>>
vars == <<handles, scheduled, active, done, flags, pool, timer, calling, sub, sweeps, pub, spawns>>

Th == Workers \cup Callers
Live == {t \in Tasks : st[t] \in {"pending", "running", "retrying"}}
Final == {t \in Tasks : st[t] \in {"succeeded", "failed", "cancelled"}}
Unpublished == Live \cup {t \in Tasks : \E th \in Th : pub[th] = t}

Init ==
  /\ st = [t \in Tasks |-> "new"] /\ attempts = [t \in Tasks |-> 0] /\ cancelEv = {}
  /\ later = {} /\ ready = {} /\ stops = 0 /\ active = {} /\ results = <<>> /\ outstanding = 0
  /\ accepting = TRUE /\ halt = FALSE /\ closed = FALSE /\ started = FALSE
  /\ running = FALSE /\ timedOut = FALSE /\ shutEv = FALSE
  /\ threads = {} /\ wpc = [w \in Workers |-> "dead"] /\ cur = [w \in Workers |-> NULL]
  /\ timer = "off" /\ parked = {}
  /\ pc = [c \in Callers |-> "idle"] /\ arg = [c \in Callers |-> NULL]
  /\ idx = [c \in Callers |-> 0] /\ calls = [c \in Callers |-> Budget]
  /\ stale = [c \in Callers |-> "no"]
  /\ sub = [th \in Th |-> "none"] /\ sel = [th \in Th |-> {}] /\ hand = [th \in Th |-> {}]
  /\ handStops = [th \in Th |-> 0] /\ hits = [th \in Th |-> {}] /\ pub = [th \in Th |-> NULL]
  /\ toStart = [th \in Th |-> {}] /\ snap = [th \in Th |-> {}]

-----------------------------------------------------------------------------
(* _record: the handle first, then the lock section that publishes.        *)

\* _done_cond.notify_all()
NotifyNobody == UNCHANGED parked  \* mutant
NotifyAll == parked' = {}

\* handle._mark_finished: the handle is final and its waiters are woken.
Mark(th, t, status) ==
  /\ pub[th] = NULL
  /\ IF t \in Final THEN UNCHANGED <<st, pub>>
     ELSE st' = [st EXCEPT ![t] = status] /\ pub' = [pub EXCEPT ![th] = t]

\* What an abort with kill=False cancels.
UnsparedAll == Tasks  \* mutant
Unspared == Tasks \ MustComplete

\* _record's lock section; a failure under fail_first halts the queue once
\* and makes this thread sweep it.
Publish(th) ==
  /\ pub[th] # NULL
  /\ results' = Append(results, pub[th])
  /\ outstanding' = outstanding - 1
  /\ NotifyAll
  /\ pub' = [pub EXCEPT ![th] = NULL]
  /\ IF st[pub[th]] = "failed" /\ FailFirst /\ ~halt
     THEN halt' = TRUE /\ sub' = [sub EXCEPT ![th] = "cut"] /\ sel' = [sel EXCEPT ![th] = Unspared]
     ELSE UNCHANGED <<halt, sub, sel>>
  /\ UNCHANGED <<handles, scheduled, active, accepting, closed, running, shutEv, started, timedOut, pool,
                 timer, pc, arg, idx, calls, stale, hand, handStops, hits, spawns>>

-----------------------------------------------------------------------------
(* _spawn_workers                                                          *)

TargetWorkers(queued) ==
  LET backlog == Cardinality(queued) + stops + Cardinality(active)
      floor == IF Finite THEN 0 ELSE 1
      scaled == IF backlog < AutoLimit THEN backlog ELSE AutoLimit
  IN IF FixedWorkers # 0 THEN FixedWorkers ELSE IF scaled < floor THEN floor ELSE scaled

\* Identities of new threads: a dead thread's is used again once nobody joins it.
Free == {w \in Workers : wpc[w] = "dead" /\ w \notin threads /\ \A th \in Th : w \notin snap[th]}

MaySpawn == ~closed /\ ~halt /\ started

\* The threads a spawn creates: the missing ones, lowest free identities first.
MissingAll(queued) ==  \* mutant
  IF MaySpawn THEN {w \in Free : Cardinality({v \in Free : v < w}) < TargetWorkers(queued)} ELSE {}
Missing(queued) ==
  IF MaySpawn
  THEN {w \in Free : Cardinality({v \in Free : v < w}) + Cardinality(threads) < TargetWorkers(queued)}
  ELSE {}

Spawn(th) ==
  /\ sub[th] = "spawn"
  /\ LET new == Missing(ready)
     IN /\ threads' = threads \cup new
        /\ wpc' = [w \in Workers |-> IF w \in new THEN "reg" ELSE wpc[w]]
        /\ toStart' = [toStart EXCEPT ![th] = new]
        /\ sub' = [sub EXCEPT ![th] = IF new = {} THEN "none" ELSE "starting"]
  /\ UNCHANGED <<handles, scheduled, active, done, flags, cur, timer, calling, sweeps, pub, snap>>

\* th.start(), outside the lock
StartThread(th) ==
  /\ sub[th] = "starting"
  /\ \E w \in toStart[th] :
       /\ wpc' = [wpc EXCEPT ![w] = "init"]
       /\ toStart' = [toStart EXCEPT ![th] = @ \ {w}]
       /\ sub' = [sub EXCEPT ![th] = IF toStart[th] = {w} THEN "none" ELSE "starting"]
  /\ UNCHANGED <<handles, scheduled, active, done, flags, threads, cur, timer, calling, sweeps, pub, snap>>

-----------------------------------------------------------------------------
(* _abort, _abort_tasks, _drain_ready and _drain_sentinels                 *)

aside == <<done, pool, timer, spawns>>  \* what no sweep touches

\* A thread goes from one control point of its sweep to another.
SweepTo(th, to) ==
  /\ sub' = [sub EXCEPT ![th] = to]
  /\ UNCHANGED <<aside, scheduled, handles, pub, calling>>

AbortHalt(th) ==
  /\ sub[th] = "halt" /\ SweepTo(th, "cut")
  /\ halt' = TRUE
  /\ UNCHANGED <<active, accepting, closed, running, shutEv, started, timedOut, sweeps>>

\* The scheduled tasks the abort cancels leave the heap in one lock section.
CutLater(th) ==
  /\ sub[th] = "cut"
  /\ sub' = [sub EXCEPT ![th] = "rec1"]
  /\ later' = later \ sel[th]
  /\ hand' = [hand EXCEPT ![th] = later \cap sel[th]]
  /\ UNCHANGED <<aside, handles, pub, calling, active, flags, ready, stops, sel, handStops, hits>>

\* get_nowait(): the task goes to a local list, dropped when it is in sel and
\* kept when not. _drain_ready discards a finished one.
Discarded(th) == IF sub[th] = "drain" THEN Final ELSE {}
DrainTask(th) ==
  /\ sub[th] \in {"drain", "purge"}
  /\ \E t \in ready : ready' = ready \ {t} /\ hand' = [hand EXCEPT ![th] = @ \cup ({t} \ Discarded(th))]
  /\ UNCHANGED <<aside, handles, pub, calling, active, flags, later, stops, sub, sel, handStops, hits>>

DrainStopLost(th) ==  \* mutant
  /\ sub[th] \in {"drain", "purge"} /\ ready = {} /\ stops > 0
  /\ stops' = stops - 1
  /\ UNCHANGED <<aside, handles, pub, calling, active, flags, later, ready, sub, sweeps>>
\* _drain_ready keeps the sentinels, _drain_sentinels discards them.
DrainStop(th) ==
  /\ sub[th] \in {"drain", "purge"} /\ ready = {} /\ stops > 0
  /\ stops' = stops - 1
  /\ handStops' = [handStops EXCEPT ![th] = IF sub[th] = "drain" THEN @ + 1 ELSE @]
  /\ UNCHANGED <<aside, handles, pub, calling, active, flags, later, ready, sub, sel, hand, hits>>

\* queue.Empty ends the loop.
DrainEmpty(th) ==
  /\ sub[th] \in {"drain", "purge"} /\ ready = {} /\ stops = 0
  /\ SweepTo(th, IF sub[th] = "drain" THEN "put" ELSE "restore")
  /\ UNCHANGED <<active, flags, sweeps>>

PutBackAny(th) ==  \* mutant
  /\ sub[th] \in {"put", "restore"}
  /\ \E t \in hand[th] : ready' = ready \cup {t} /\ hand' = [hand EXCEPT ![th] = @ \ ({t} \ sel[th])]
  /\ UNCHANGED <<aside, handles, pub, calling, active, flags, later, stops, sub, sel, handStops, hits>>
\* The kept ones go back, one put at a time.
PutBackTask(th) ==
  /\ sub[th] \in {"put", "restore"}
  /\ \E t \in hand[th] \ sel[th] : ready' = ready \cup {t} /\ hand' = [hand EXCEPT ![th] = @ \ {t}]
  /\ UNCHANGED <<aside, handles, pub, calling, active, flags, later, stops, sub, sel, handStops, hits>>

PutBackStop(th) ==
  /\ sub[th] \in {"put", "restore"} /\ handStops[th] > 0
  /\ stops' = stops + 1
  /\ handStops' = [handStops EXCEPT ![th] = @ - 1]
  /\ UNCHANGED <<aside, handles, pub, calling, active, flags, later, ready, sub, sel, hand, hits>>

\* Everything is back. _drain_ready records the dropped tasks next;
\* _drain_sentinels returns to _stop_workers or to reset().
PutBackEnd(th) ==
  /\ sub[th] \in {"put", "restore"} /\ hand[th] \subseteq sel[th] /\ handStops[th] = 0
  /\ SweepTo(th, CASE sub[th] = "put" -> "rec2"
                    [] sub[th] = "restore" /\ pc[th] = "reset.clear" -> "none"
                    [] OTHER -> "forget")
  /\ UNCHANGED <<active, flags, sweeps>>

\* One dropped task is recorded as cancelled; for a cancel() call that is
\* what makes it return True.
Drop(th) ==
  /\ sub[th] \in {"rec1", "rec2"}
  /\ \E t \in hand[th] : Mark(th, t, "cancelled") /\ hand' = [hand EXCEPT ![th] = @ \ {t}]
  /\ pc' = [c \in Callers |-> IF c = th /\ pc[c] = "miss" THEN "hit" ELSE pc[c]]
  /\ UNCHANGED <<aside, attempts, cancelEv, scheduled, active, flags, parked, arg, idx, calls, stale, sub,
                 sel, handStops, hits>>

\* Nothing left to record: an abort goes on (ready queue, then the active
\* tasks), a cancel() is over.
DropEnd(th) ==
  /\ sub[th] \in {"rec1", "rec2"} /\ hand[th] = {} /\ pub[th] = NULL
  /\ SweepTo(th, CASE sub[th] = "rec1" -> "drain"
                    [] sub[th] = "rec2" /\ th \in Callers /\ pc[th] \in {"miss", "hit"} -> "none"
                    [] OTHER -> "snap")
  /\ UNCHANGED <<active, flags, sweeps>>

SnapActive(th) ==
  /\ sub[th] = "snap" /\ SweepTo(th, "hit")
  /\ hits' = [hits EXCEPT ![th] = active \cap sel[th]]
  /\ UNCHANGED <<active, flags, sel, hand, handStops>>

\* _Ctl.interrupt(), outside the lock; the control block of a task that left
\* self._active meanwhile is read by nobody.
Interrupt(th) ==
  /\ sub[th] = "hit"
  /\ \E t \in hits[th] : cancelEv' = cancelEv \cup ({t} \cap active) /\ hits' = [hits EXCEPT ![th] = @ \ {t}]
  /\ UNCHANGED <<aside, st, attempts, scheduled, pub, calling, active, flags, sub, sel, hand, handStops>>

AbortEnd(th) ==
  /\ sub[th] = "hit" /\ hits[th] = {} /\ SweepTo(th, "none")
  /\ sel' = [sel EXCEPT ![th] = {}]
  /\ UNCHANGED <<active, flags, hand, handStops, hits>>

-----------------------------------------------------------------------------
(* _stop_workers (called by run and shutdown)                              *)

StopTo(c, from, to) ==
  /\ sub[c] = from
  /\ sub' = [sub EXCEPT ![c] = to]
  /\ UNCHANGED <<handles, later, ready, active, done, wpc, cur, timer, parked, arg, idx, calls, stale, hand, hits, pub,
                 toStart>>

SnapThreadsOnce(c) ==  \* mutant
  /\ StopTo(c, "stop", IF threads = {} THEN "joining" ELSE "signal")
  /\ snap' = [snap EXCEPT ![c] = threads]
  /\ handStops' = [handStops EXCEPT ![c] = IF threads = {} THEN 0 ELSE 1]
  /\ UNCHANGED <<stops, threads, flags, pc, sel>>
\* One sentinel per registered thread is due.
SnapThreads(c) ==
  /\ StopTo(c, "stop", IF threads = {} THEN "joining" ELSE "signal")
  /\ snap' = [snap EXCEPT ![c] = threads]
  /\ handStops' = [handStops EXCEPT ![c] = Cardinality(threads)]
  /\ UNCHANGED <<stops, threads, flags, pc, sel>>

\* One put per sentinel
PutStop(c) ==
  /\ StopTo(c, "signal", IF handStops[c] = 1 THEN "joining" ELSE "signal")
  /\ handStops[c] > 0
  /\ stops' = stops + 1
  /\ handStops' = [handStops EXCEPT ![c] = @ - 1]
  /\ UNCHANGED <<threads, flags, pc, sel, snap>>

JoinWorker(c) ==
  /\ StopTo(c, "joining", "joining")
  /\ \E w \in snap[c] : wpc[w] = "dead" /\ snap' = [snap EXCEPT ![c] = @ \ {w}]
  /\ UNCHANGED <<stops, threads, flags, pc, sel, handStops>>

\* Thread.join() of a thread that is registered but not started raises: the
\* method and its caller are abandoned, but for run()'s finally clause.
JoinRaises(c) ==
  /\ StopTo(c, "joining", "none")
  /\ \E w \in snap[c] : wpc[w] = "reg"
  /\ snap' = [snap EXCEPT ![c] = {}]
  /\ pc' = [pc EXCEPT ![c] = IF @ = "run.end" THEN @ ELSE "idle"]
  /\ UNCHANGED <<stops, threads, flags, sel, handStops>>

JoinedAll(c) ==
  /\ StopTo(c, "joining", "purge")
  /\ snap[c] = {}
  /\ sel' = [sel EXCEPT ![c] = {}]
  /\ UNCHANGED <<stops, threads, flags, pc, snap, handStops>>

ForgetThreads(c) ==
  /\ StopTo(c, "forget", "none")
  /\ threads' = {} /\ started' = FALSE
  /\ UNCHANGED <<stops, accepting, closed, running, shutEv, halt, timedOut, pc, sel, snap, handStops>>

-----------------------------------------------------------------------------
(* _worker and _attempts                                                   *)

Resting(th) == sub[th] = "none" /\ pub[th] = NULL

\* Worker w goes from one control point to another.
Move(w, from, to) ==
  /\ wpc[w] = from
  /\ wpc' = [wpc EXCEPT ![w] = to]
  /\ UNCHANGED <<later, done, flags, timer, calling, hand, handStops, hits, spawns>>

WorkerInit(w) ==
  /\ Move(w, "init", "get")
  /\ UNCHANGED <<handles, ready, stops, active, threads, cur, sub, sel, pub>>

\* _worker_ctx raises: the worker deregisters itself and aborts the queue.
WorkerInitFails(w) ==
  /\ Move(w, "init", "leave") /\ InitMayFail
  /\ threads' = threads \ {w}
  /\ sub' = [sub EXCEPT ![w] = "halt"] /\ sel' = [sel EXCEPT ![w] = Tasks]
  /\ UNCHANGED <<handles, ready, stops, active, cur, pub>>

\* self._ready.get()
Get(w) ==
  /\ Move(w, "get", "check") /\ Resting(w)
  /\ \E t \in ready : ready' = ready \ {t} /\ cur' = [cur EXCEPT ![w] = t]
  /\ UNCHANGED <<handles, stops, active, threads, sub, sel, pub>>

GetStop(w) ==
  /\ Move(w, "get", "exit") /\ Resting(w) /\ ready = {} /\ stops > 0
  /\ stops' = stops - 1
  /\ UNCHANGED <<handles, ready, active, threads, cur, sub, sel, pub>>

\* The task already finished, or the queue is halted and does not spare it.
Unwanted(t) == t \in Final \/ (halt /\ t \notin MustComplete)

Skip(w) ==
  /\ Move(w, "check", "get") /\ Unwanted(cur[w])
  /\ Mark(w, cur[w], "cancelled")
  /\ cur' = [cur EXCEPT ![w] = NULL]
  /\ UNCHANGED <<attempts, cancelEv, ready, stops, active, threads, sub, sel>>

Enter(w) ==
  /\ Move(w, "check", "enter") /\ ~Unwanted(cur[w])
  /\ UNCHANGED <<handles, ready, stops, active, threads, cur, sub, sel, pub>>

\* The lock section that registers the task in self._active.
Register(w) ==
  /\ Move(w, "enter", "top")
  /\ active' = active \cup {cur[w]}
  /\ UNCHANGED <<handles, ready, stops, threads, cur, sub, sel, pub>>

\* Top of the attempt loop: no cancellation so far, _mark_running, _execute.
Attempt(w) ==
  /\ Move(w, "top", "exec") /\ cur[w] \notin cancelEv
  /\ st' = [st EXCEPT ![cur[w]] = "running"]
  /\ attempts' = [attempts EXCEPT ![cur[w]] = @ + 1]
  /\ UNCHANGED <<cancelEv, ready, stops, active, threads, cur, sub, sel, pub>>

OutcomeUnrecorded(w, from, status) ==  \* mutant
  /\ Move(w, from, "pop")
  /\ st' = [st EXCEPT ![cur[w]] = status]
  /\ UNCHANGED <<attempts, cancelEv, ready, stops, active, threads, cur, sub, sel, pub>>
\* A final outcome of the attempt loop.
Outcome(w, from, status) ==
  /\ Move(w, from, "pop")
  /\ Mark(w, cur[w], status)
  /\ UNCHANGED <<attempts, cancelEv, ready, stops, active, threads, cur, sub, sel>>

\* _Cancelled: cancel_ev seen before an attempt (or during the rate gate's
\* pause), by _execute, or during the retry delay.
Cancelled(w) == \E from \in {"top", "exec", "retry"} : cur[w] \in cancelEv /\ Outcome(w, from, "cancelled")

Succeed(w) == Outcome(w, "exec", "succeeded")

RetriableOnceMore(t) == t \notin cancelEv /\ attempts[t] <= Retries[t] + 1 /\ ~(halt /\ t \notin MustComplete)  \* mutant
Retriable(t) == t \notin cancelEv /\ attempts[t] <= Retries[t] /\ ~(halt /\ t \notin MustComplete)

Fail(w) == Outcome(w, "exec", "failed") /\ ~Retriable(cur[w])

\* The attempt raised and may be retried.
Retry(w) ==
  /\ Move(w, "exec", "retry") /\ Retriable(cur[w])
  /\ st' = [st EXCEPT ![cur[w]] = "retrying"]
  /\ UNCHANGED <<attempts, cancelEv, ready, stops, active, threads, cur, sub, sel, pub>>

\* The retry delay elapsed.
Delay(w) ==
  /\ Move(w, "retry", "top") /\ cur[w] \notin cancelEv
  /\ UNCHANGED <<handles, ready, stops, active, threads, cur, sub, sel, pub>>

\* _attempts' finally: out of self._active, back to the ready queue.
Release(w) ==
  /\ Move(w, "pop", "get") /\ Resting(w)
  /\ active' = active \ {cur[w]} /\ cancelEv' = cancelEv \ {cur[w]}
  /\ cur' = [cur EXCEPT ![w] = NULL]
  /\ UNCHANGED <<st, attempts, ready, stops, threads, sub, sel, pub>>

\* _worker's finally
Exit(w) ==
  /\ Move(w, "exit", "leave")
  /\ threads' = threads \ {w}
  /\ UNCHANGED <<handles, ready, stops, active, cur, sub, sel, pub>>

\* The thread ends: only now does join() return.
Leave(w) ==
  /\ Move(w, "leave", "dead") /\ Resting(w)
  /\ UNCHANGED <<handles, ready, stops, active, threads, cur, sub, sel, pub>>

-----------------------------------------------------------------------------
(* _timer_loop                                                             *)

timerFrame == <<handles, stops, active, done, flags, cur, calling, sub, sweeps, pub, spawns>>

\* A task comes due. The whole step holds the lock, worker start included.
TimerFire ==
  /\ timer = "on" /\ ~closed
  /\ \E t \in later :
       LET due == {t} \ Final
           new == IF due = {} THEN {} ELSE Missing(ready \cup due)
       IN /\ later' = later \ {t} /\ ready' = ready \cup due
          /\ threads' = threads \cup new
          /\ wpc' = [w \in Workers |-> IF w \in new THEN "init" ELSE wpc[w]]
  /\ UNCHANGED <<timerFrame, timer>>

\* The loop sees _closed; the thread is alive a little longer.
TimerLeave == timer = "on" /\ closed /\ timer' = "leaving" /\ UNCHANGED <<timerFrame, later, ready, threads, wpc>>

TimerEnd == timer = "leaving" /\ timer' = "off" /\ UNCHANGED <<timerFrame, later, ready, threads, wpc>>

-----------------------------------------------------------------------------
(* The callers: submit                                                     *)

\* _check_accepting
CanAccept == ~closed /\ accepting /\ ~halt
Full == Size > 0 /\ outstanding >= Size

\* _ensure_timer: a thread that is ending counts as alive.
EnsureTimerLater == UNCHANGED timer  \* mutant
EnsureTimer == timer' = IF timer = "off" THEN "on" ELSE timer

\* The part of _enqueue after the capacity wait: a task with a due time still
\* ahead goes to the heap, and the timer thread is started unless alive.
Admit(c, t) ==
  /\ st' = [st EXCEPT ![t] = "pending"]
  /\ outstanding' = outstanding + 1
  /\ \/ /\ t \in Delayed
        /\ later' = later \cup {t} /\ EnsureTimer /\ UNCHANGED ready
     \/ ready' = ready \cup {t} /\ UNCHANGED <<later, timer>>
  /\ sub' = [sub EXCEPT ![c] = IF started THEN "spawn" ELSE "none"]
  /\ pc' = [pc EXCEPT ![c] = "idle"] /\ arg' = [arg EXCEPT ![c] = NULL]
  /\ UNCHANGED <<attempts, cancelEv, stops, active, results, flags, pool, parked, idx, calls, stale, sweeps, pub,
                 spawns>>

\* Asleep until a task finishes, the lock released meanwhile.
WaitForRoom(c, t) ==
  /\ parked' = parked \cup {c}
  /\ pc' = [pc EXCEPT ![c] = "full"] /\ arg' = [arg EXCEPT ![c] = t]
  /\ UNCHANGED <<handles, scheduled, active, done, flags, pool, timer, idx, calls, stale, sub, sweeps, pub,
                 spawns>>

\* Caller c is at a control point and inside no method.
At(c, label) == pc[c] = label /\ Resting(c) /\ c \notin parked

Submit(c) ==
  /\ At(c, "idle") /\ CanAccept
  /\ \E t \in Mine[c] :
       /\ st[t] = "new" /\ \A u \in Mine[c] : u < t => st[u] # "new"
       /\ IF Full THEN WaitForRoom(c, t) ELSE Admit(c, t)

\* Woken from the capacity wait: ClosedError if the queue stopped accepting.
Resubmit(c) ==
  /\ At(c, "full")
  /\ CASE ~CanAccept -> /\ pc' = [pc EXCEPT ![c] = "idle"] /\ arg' = [arg EXCEPT ![c] = NULL]
                        /\ UNCHANGED <<handles, scheduled, active, done, flags, pool, timer, parked, idx, calls,
                                       stale, sub, sweeps, pub, spawns>>
       [] CanAccept /\ Full -> WaitForRoom(c, arg[c])
       [] OTHER -> Admit(c, arg[c])

-----------------------------------------------------------------------------
(* The callers: start, join, run                                           *)

\* What a caller's own steps leave to the other threads and to the methods
\* it calls.
others == <<attempts, st, ready, stops, active, pool, timer, idx, stale, handStops, hits, pub, spawns>>

\* Caller c makes one of its calls and goes to label.
Call(c, operation, label) ==
  /\ At(c, "idle") /\ operation \in May[c] /\ calls[c] > 0
  /\ calls' = [calls EXCEPT ![c] = @ - 1]
  /\ pc' = [pc EXCEPT ![c] = label]

\* Caller c continues a call.
Goto(c, from, to) ==
  /\ At(c, from)
  /\ pc' = [pc EXCEPT ![c] = to]
  /\ UNCHANGED <<others, cancelEv, later, arg, calls, hand>>

\* It also enters an internal method, or an abort or sweep over S.
Into(c, method) == sub' = [sub EXCEPT ![c] = method] /\ UNCHANGED sel
IntoSweep(c, method, S) == sub' = [sub EXCEPT ![c] = method] /\ sel' = [sel EXCEPT ![c] = S]

\* start()'s lock section, then _spawn_workers; it raises on a closed queue.
StartSection(c) ==
  /\ ~closed
  /\ halt' = FALSE /\ timedOut' = FALSE /\ started' = TRUE
  /\ Into(c, "spawn")
  /\ UNCHANGED <<done, accepting, closed, running, shutEv, parked>>

Start(c) == Call(c, "start", "idle") /\ StartSection(c) /\ UNCHANGED <<others, cancelEv, later, arg, hand>>

\* join() reads _started without the lock, then may call start().
Join(c) ==
  /\ Call(c, "join", IF started THEN "join" ELSE "join.start")
  /\ UNCHANGED <<others, cancelEv, later, arg, hand, done, flags, parked, sub, sel>>

JoinStart(c) == Goto(c, "join.start", "join") /\ StartSection(c)

\* A run() in progress elsewhere makes it raise.
Run(c) ==
  /\ Call(c, "run", "run.start") /\ ~running
  /\ running' = TRUE
  /\ idx' = [idx EXCEPT ![c] = Len(results)] /\ stale' = [stale EXCEPT ![c] = "no"]
  /\ UNCHANGED <<handles, scheduled, active, done, accepting, closed, shutEv, halt, started, timedOut, pool, timer,
                 parked, arg, sub, sweeps, pub, spawns>>

RunStart(c) == Goto(c, "run.start", "run.wait") /\ StartSection(c)

\* ClosedError from start(): run() goes to its finally clause.
StartRefused(c) ==
  /\ closed
  /\ Goto(c, "run.start", "run.end") \/ \E label \in {"join.start", "down.start"} : Goto(c, label, "idle")
  /\ UNCHANGED <<done, flags, parked, sub, sel>>

\* Going to sleep in _await_idle.
Park(c) ==
  /\ \E label \in {"join", "run.drain", "down.drain", "reset.drain"} \cup (IF Finite THEN {"run.wait"} ELSE {}) :
        Goto(c, label, label)
  /\ outstanding # 0
  /\ parked' = parked \cup {c}
  /\ UNCHANGED <<done, flags, sub, sel>>

\* _await_idle found nothing outstanding.
GotoAnyway(c, from, to) == Goto(c, from, to) /\ UNCHANGED <<done, flags, parked>>  \* mutant
GotoIdle(c, from, to) == outstanding = 0 /\ Goto(c, from, to) /\ UNCHANGED <<done, flags, parked>>

JoinReturn(c) == GotoIdle(c, "join", "idle") /\ UNCHANGED <<sub, sel>>

\* The Event the run() of an infinite queue waits on: the one it found.
EventSet(c) == IF stale[c] = "no" THEN shutEv ELSE stale[c] = "set"

\* The wait of run() ends in time; a finite run stops the workers.
RunIdle(c) ==
  /\ IF Finite THEN GotoIdle(c, "run.wait", "run.end") /\ Into(c, "stop")
     ELSE EventSet(c) /\ Goto(c, "run.wait", "run.end") /\ UNCHANGED <<done, flags, parked, sub, sel>>

\* The run's deadline passes first: abort, sparing must_complete tasks under
\* on_timeout="complete", then wait without a limit.
RunTimeout(c) ==
  /\ pc[c] = "run.wait" /\ Resting(c) /\ "timeout" \in May[c]
  /\ IF Finite THEN outstanding # 0 ELSE ~EventSet(c)
  /\ timedOut' = TRUE
  /\ parked' = parked \ {c}
  /\ pc' = [pc EXCEPT ![c] = "run.drain"]
  /\ IntoSweep(c, "halt", IF TimeoutKills THEN Tasks ELSE Unspared)
  /\ UNCHANGED <<others, cancelEv, later, arg, calls, hand, done, accepting, closed, running, shutEv, halt, started>>

RunDrained(c) ==
  /\ GotoIdle(c, "run.drain", "run.end")
  /\ IF Finite \/ timedOut THEN Into(c, "stop") ELSE UNCHANGED <<sub, sel>>

\* run()'s finally clause; the summary holds the results from idx on.
RunEnd(c) ==
  /\ Goto(c, "run.end", "idle")
  /\ running' = FALSE /\ halt' = FALSE /\ timedOut' = FALSE
  /\ UNCHANGED <<done, accepting, closed, shutEv, started, parked, sub, sel>>

-----------------------------------------------------------------------------
(* The callers: shutdown, cancel, reset, clear_results                     *)

\* A queue already closed only has its event set.
Shutdown(c) ==
  /\ \/ Call(c, "shutdown", IF closed THEN "idle" ELSE "down.peek")
     \/ Call(c, "force", IF closed THEN "idle" ELSE "force.refuse")
  /\ shutEv' = (shutEv \/ closed)
  /\ UNCHANGED <<others, cancelEv, later, arg, hand, done, accepting, closed, running, halt, started, timedOut, parked,
                 sub, sel>>

\* need_start: outstanding work on a queue that was never started.
DownPeek(c) ==
  /\ Goto(c, "down.peek", IF outstanding > 0 /\ ~started THEN "down.start" ELSE "down.refuse")
  /\ UNCHANGED <<done, flags, parked, sub, sel>>

DownStart(c) == Goto(c, "down.start", "down.refuse") /\ StartSection(c)

Refuse(c) ==
  /\ \/ Goto(c, "down.refuse", "down.drain") /\ UNCHANGED <<sub, sel>>
     \/ Goto(c, "force.refuse", "down.stop") /\ IntoSweep(c, "halt", Tasks)
  /\ accepting' = FALSE
  /\ UNCHANGED <<done, closed, running, shutEv, halt, started, timedOut, parked>>

DownDrained(c) == GotoIdle(c, "down.drain", "down.halt") /\ UNCHANGED <<sub, sel>>

DownHalt(c) ==
  /\ Goto(c, "down.halt", "down.stop")
  /\ halt' = TRUE
  /\ UNCHANGED <<done, accepting, closed, running, shutEv, started, timedOut, parked, sub, sel>>

DownStop(c) == Goto(c, "down.stop", "down.close") /\ Into(c, "stop") /\ UNCHANGED <<done, flags, parked>>

Close(c) ==
  /\ Goto(c, "down.close", "idle")
  /\ closed' = TRUE /\ shutEv' = TRUE /\ NotifyAll
  /\ UNCHANGED <<done, accepting, running, halt, started, timedOut, sub, sel>>

\* handle.cancel() goes on with a task it finds unfinished.
Cancel(c) ==
  /\ Call(c, "cancel", "cancel")
  /\ \E t \in Live : arg' = [arg EXCEPT ![c] = t]
  /\ UNCHANGED <<others, cancelEv, later, hand, done, flags, parked, sub, sel>>

\* _cancel_task's lock section, whatever became of the task: interrupt it if
\* it is active, take it off the heap, or else search the ready queue.
CancelTask(c) ==
  /\ At(c, "cancel")
  /\ LET t == arg[c]
     IN IF t \in active
        THEN /\ pc' = [pc EXCEPT ![c] = "idle"] /\ arg' = [arg EXCEPT ![c] = NULL]
             /\ cancelEv' = cancelEv \cup {t}
             /\ UNCHANGED <<later, hand, sub, sel>>
        ELSE /\ pc' = [pc EXCEPT ![c] = "miss"]
             /\ later' = later \ {t}
             /\ hand' = [hand EXCEPT ![c] = later \cap {t}]
             /\ IntoSweep(c, IF t \in later THEN "rec2" ELSE "drain", {t})
             /\ UNCHANGED <<cancelEv, arg>>
  /\ UNCHANGED <<others, calls, done, flags, parked>>

\* cancel() returns True at "hit", False at "miss".
CancelReturn(c) ==
  /\ \E label \in {"miss", "hit"} : At(c, label)
  /\ pc' = [pc EXCEPT ![c] = "idle"] /\ arg' = [arg EXCEPT ![c] = NULL] /\ IntoSweep(c, "none", {})
  /\ UNCHANGED <<others, cancelEv, later, calls, hand, done, flags, parked>>

\* reset() raises during run() and while workers are registered.
Reset(c) ==
  /\ Call(c, "reset", "reset.drain") /\ ~running /\ threads = {}
  /\ IntoSweep(c, "halt", Tasks)
  /\ UNCHANGED <<others, cancelEv, later, arg, hand, done, flags, parked>>

ResetDrained(c) == GotoIdle(c, "reset.drain", "reset.clear") /\ IntoSweep(c, "purge", {})

\* The Event is a new one: a run() that has begun to wait stays on the old.
ResetClear(c) ==
  /\ At(c, "reset.clear") /\ pc' = [pc EXCEPT ![c] = "idle"]
  /\ results' = <<>> /\ outstanding' = 0 /\ NotifyAll
  /\ accepting' = TRUE /\ closed' = FALSE /\ shutEv' = FALSE
  /\ halt' = FALSE /\ started' = FALSE /\ timedOut' = FALSE
  /\ \E waiting \in SUBSET {d \in Callers : ~Finite /\ At(d, "run.wait") /\ stale[d] = "no"} :
        stale' = [d \in Callers |-> IF d \notin waiting THEN stale[d] ELSE IF shutEv THEN "set" ELSE "unset"]
  /\ UNCHANGED <<handles, scheduled, active, running, pool, timer, arg, idx, calls, sub, sweeps, pub, spawns>>

ClearResults(c) ==
  /\ Call(c, "clear", "idle")
  /\ results' = <<>>
  /\ UNCHANGED <<others, cancelEv, later, arg, hand, outstanding, flags, parked, sub, sel>>

-----------------------------------------------------------------------------

\* The internal methods any thread may be inside of.
ThreadStep(th) ==
  \/ Publish(th) \/ AbortHalt(th) \/ CutLater(th) \/ DrainTask(th) \/ DrainStop(th) \/ DrainEmpty(th)
  \/ PutBackTask(th) \/ PutBackStop(th) \/ PutBackEnd(th) \/ Drop(th) \/ DropEnd(th)
  \/ SnapActive(th) \/ Interrupt(th) \/ AbortEnd(th)

WorkerStep(w) ==
  \/ WorkerInit(w) \/ WorkerInitFails(w) \/ Get(w) \/ GetStop(w) \/ Skip(w) \/ Enter(w)
  \/ Register(w) \/ Attempt(w) \/ Cancelled(w) \/ Succeed(w) \/ Fail(w) \/ Retry(w)
  \/ Delay(w) \/ Release(w) \/ Exit(w) \/ Leave(w)

TimerStep == TimerFire \/ TimerLeave \/ TimerEnd

\* Calls an application thread is free to make or not.
NewCall(c) ==
  \/ Submit(c) \/ Start(c) \/ Join(c) \/ Run(c) \/ Shutdown(c) \/ Cancel(c) \/ Reset(c) \/ ClearResults(c)

\* The rest of a call once made.
Returning(c) ==
  \/ Spawn(c) \/ StartThread(c) \/ SnapThreads(c) \/ PutStop(c) \/ JoinWorker(c) \/ JoinRaises(c)
  \/ JoinedAll(c) \/ ForgetThreads(c) \/ Resubmit(c) \/ JoinStart(c) \/ RunStart(c) \/ StartRefused(c) \/ Park(c)
  \/ JoinReturn(c) \/ RunIdle(c) \/ RunDrained(c) \/ RunEnd(c) \/ DownPeek(c) \/ DownStart(c) \/ Refuse(c)
  \/ DownDrained(c) \/ DownHalt(c) \/ DownStop(c) \/ Close(c) \/ CancelTask(c) \/ CancelReturn(c)
  \/ ResetDrained(c) \/ ResetClear(c)

Next ==
  \/ \E th \in Th : ThreadStep(th)
  \/ \E w \in Workers : WorkerStep(w)
  \/ \E c \in Callers : NewCall(c) \/ Returning(c) \/ RunTimeout(c)
  \/ TimerStep

Spec == Init /\ [][Next]_vars

\* Every thread that can move eventually does: the scheduler is fair, callables
\* return or raise, and a delay elapses.  Nothing obliges a caller to call.
Fairness ==
  /\ \A th \in Th : WF_vars(ThreadStep(th))
  /\ \A w \in Workers : WF_vars(WorkerStep(w))
  /\ \A c \in Callers : WF_vars(Returning(c))
  /\ WF_vars(TimerStep)

FairSpec == Spec /\ Fairness
=============================================================================
