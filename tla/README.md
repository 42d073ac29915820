# TLA+ verification of osiiso

osiiso is a task-queue library: one submission API over an asyncio queue, a
thread queue and a process queue. This directory holds TLA+ models of it, TLC
configurations that check them, and proofs the TLA+ proof system checks. Paths
below are relative to `src/osiiso/` of the repository unless they say otherwise.

## 1. Inventory

| part | state | operations | what is hard | what makes it correct |
|---|---|---|---|---|
| handle (`handle.py`) | status, attempts, result, callbacks, waiters | `cancel`, `add_done_callback`, `wait`, `_mark_running/_retrying/_finished` | several threads finish or wait for one task | final once; every waiter and callback served once |
| submission plane (`core.py`) | counter, task records | `submit`, `map`, `group`, `_enqueue_tracked` | a fan-out stopped half-way | one handle per input, in order |
| rate gate (`core.py`) | theoretical arrival time | `reserve` | concurrent reservations, idle periods | never more than burst + rate × time |
| sync engine (`sync.py`) | ready queue, heap of later tasks, active table, results, outstanding counter, flags, threads, timer thread | `submit`, `start`, `join`, `run`, `shutdown`, `cancel`, `reset`, `clear_results`; workers; timer | threads of the application, the workers and the timer interleave at every lock section; aborts sweep a queue others use; sentinels are anonymous | no task lost or duplicated; the idle signal is exact; calls return; `must_complete` is honoured |
| thread executor (`threadqueue.py`) | one sidecar thread, box and wake event per attempt | `_execute`, `_Ctl.interrupt` | completion, timeout and cancellation race for one event | no interrupt is lost; every attempt ends |
| process slots (`processqueue.py`) | a subprocess and a pipe, kept from task to task | `ensure`, `terminate`, `reap`, `close`, `_execute`, `_pool_main` | the subprocess dies at any time; terminate only sends a signal, and to whatever the slot holds | the right attempt is killed, no reply goes astray, no process leaks |
| asyncio engine (`asyncqueue.py`) | as the sync engine, on one loop | as the sync engine, as coroutines | cancellation at every await; callbacks between awaits | as the sync engine |
| shared queue (`sharedqueue.py`) | an AsyncQueue and its loop | `_marshal` | cross-thread call racing a closing loop | each call is applied once or refused |
| checkpoint (`checkpoint.py`) | SQLite table, closed flag | `lookup`, `record`, `clear`, `close`, `_watch` | crash between completion and record; close before the last callback | a recorded input never runs again; an unrecorded one does |
| groups (`group.py`) | a client's position and queue of finished handles | `wait`, `iter_completed` | handles finish while the client registers | each handle once, and the wait ends |
| results, options, shortcuts | none that changes | pure functions over handles and results | - | - |

**How they interact.** `submit` (core) calls the engine's `_enqueue`, which
makes a handle and puts a task into the heap `_later` or the priority queue
`_ready`. The timer thread moves due tasks from one to the other. Workers take
tasks, run attempts through `_execute` (thread or process), and record the
result: handle first (waking its waiters and callbacks), then the engine's lock
section that appends the result, decrements the counter and notifies the
condition on which `run`, `join`, `shutdown`, `reset` and bounded submissions
sleep. `handle.cancel()` calls back into the engine. An abort (timeout,
`fail_first`, forced shutdown, failed initializer) sets `_halt` and sweeps heap,
ready queue and active table.

`PROJECT.json` lists every hazard of this code with its line and the properties
that cover it.

## 2. Modules

| module | what it is |
|---|---|
| `TaskLifecycle` | abstract specification: what any queue promises about a task |
| `TokenBucket` | abstract specification: what a rate limit means |
| `SyncQueue` | the sync engine, one action per lock section, queue operation, handle transition or Event/Thread operation |
| `SyncQueueProperties` | its type invariant, inductive invariant, safety, action and liveness properties, and the refinement mapping |
| `SyncQueueMC` | instances for TLC |
| `SyncQueueProofs`, `SyncQueuePromises` | proofs, the second extending the first: types and one owner; what the queue promises |
| `AsyncQueue` | the asyncio engine and the calls `SharedQueue` and handles marshal to its loop, one action per stretch of code the loop runs |
| `AsyncQueueMC` | instances for TLC |
| `AsyncQueueProofs`, `AsyncQueuePromises` | proofs, the second extending the first: types, one owner, accounting and wake-ups; what `run()` and `shutdown()` promise |
| `Handles` | what a sync handle and its waiting client do to each other: result, callbacks, group waits, `iter_completed` |
| `Worker` | extends it: a worker's loop, the attempts of a task, `_record`, and the interrupts of cancels and aborts, step by step |
| `ThreadExec`, `ProcessSlot` | extend it: `_execute` of the two queues, with the sidecar thread, or the slot, its pipe and its subprocess |
| `Execution`, `ExecutionMC`, `ExecutionProofs` | their composition, its properties, instances for TLC, and proofs |
| `SharedQueue`, `SharedQueueMC`, `SharedQueueProofs` | producers and waiters of other threads and loops against the queue's loop, an instance for TLC, and proofs |
| `RateGate`, `RateGateProofs` | `_RateGate` of `core.py`, and the proof that it implements `TokenBucket` |
| `Checkpoint`, `CheckpointProofs` | a checkpointed fan-out run again after crashes: `checkpoint.py`, `_enqueue_tracked`, the callbacks of `handle.py`; and its proofs |

`SyncQueue` implements `TaskLifecycle`; `RateGate` implements `TokenBucket`;
`Checkpoint` takes from `SyncQueue` what a queue does with a task (one worker
takes it, marks the handle, runs its callbacks, then publishes) and composes it
with the store. `Execution` refines the part of `SyncQueue` that is one step there,
the execution of an attempt and what interrupts it, and leaves out the rest
(scheduling, submission, the calls); `SharedQueue` does the same for the calls
other threads make to `AsyncQueue`.

### How SyncQueue corresponds to the code

*State.* `later`, `ready`, `stops` (the sentinels in `_ready`), `active`,
`results`, `outstanding`, `threads` and the flags are the attributes of the same
name. `st`, `attempts` are the handles'; `cancelEv` the tasks whose control block
has its event set. The rest is the local state of threads: `wpc`/`cur` for a
worker (`_worker`, `_attempts`), `pc`/`arg`/`idx`/`calls` for a caller, and for
either one `sub` (the internal method it is inside of), `sel` (what its sweep
cancels), `hand` and `handStops` (the local lists `kept`/`dropped`, or sentinels
still to be put), `hits` (active tasks left to interrupt), `pub` (a task whose
handle is final and whose result is not yet published), `toStart`, `snap`. `stale`
is the state of the Event a `run()` waits on once `reset()` has put a new one in its
place (`"no"` while it is `_shutdown_ev` itself).

*Atomicity.* A step is what the code does under one acquisition of
`self._lock`, or one `put`/`get` of the priority queue, or one handle transition,
or one operation on an Event or Thread. `_record` is therefore two steps
(`Mark` inside its caller's action, then `Publish`); `_drain_ready` is a loop of
`DrainTask`/`DrainStop`, `PutBackTask`/`PutBackStop` and `Drop`; `_spawn_workers`
registers under the lock (`Spawn`) and starts outside it (`StartThread`);
`_stop_workers` is snapshot, one put per sentinel, joins, drain, clear. What is read
without the lock is a step of its own: `_started` in `join()` (`Join`, then
`JoinStart`), the handle's status in `handle.cancel()` (`Cancel`, then `CancelTask`,
the lock section of `_cancel_task`, whatever became of the task since). `TimerFire`
is one step because the scheduling thread holds the (re-entrant) lock from the
pop to the start of the workers.

*Threads.* `Callers` are application threads, each inside at most one call. Each
submits its own tasks, once, in number order, and may make `Budget` other calls
out of `May[c]`. `Workers` are identities of worker threads; one is used again
when its thread is dead and nobody is joining it, so no two live threads share one.
In the code `reset()` restarts the numbers, and a live worker that `_threads.clear()`
forgot may have the number of a new one, whose registration it then removes when it
ends; this is not modelled. A call that raises at once
(`run()` during a run, `start()` on a closed queue, `reset()` while workers live)
changes nothing and is no step.

*Abstractions.* `get()` returns any queued task (priorities and sequence numbers
are left out), but a sentinel only when no task is queued: `_stop_task` sorts
last. A delayed task is due at once or later, nondeterministically; a run's
deadline may pass whenever its wait has not ended. User code, hooks and
callbacks return or raise and do not call back into the queue. The rate gate's
pause is the moment before an attempt at which a cancellation may be seen.
`run(fail_policy=...)` is not modelled; `queue.cancel()` from outside a worker is
`shutdown(force=True)`, and the context manager is `start()` then `shutdown()`.
Values, exceptions and messages are left out.

### How AsyncQueue corresponds to the code

*The loop.* `loop` is the event loop's FIFO: workers, runners and callers to
resume, and callbacks to run (a timer that is due, a marshalled submission or
cancellation, a time limit, the done-callback by which `gather()` learns of a
worker's end). The head runs until it awaits something that is not ready
(`Leave`); a step after which it goes on is `Stay`. Only the world outside
(`Due`, `Resume`, `Expire`, `ThreadSubmits`, `ThreadCancels`, `CallerWakes`) acts
between steps, and all it does is append. So the order in which an abort, a
sentinel, a wake-up and a cancellation arrive is asyncio's, not any order.

*State.* `ready`/`stops` are `self._ready`, `getters` the workers asleep in its
`get()`; `timers`, `dormant`, `runners` (a dict: insertion order), `registered`
(`_worker_tasks`), `outstanding`, `idle` and the flags are the attributes. `job[w]`
is what worker w awaits, `rn[t]` where the runner of t is (`"new"` before its
first step, `"gate"`, `"call"`, `"wait"` asleep, `"hook"` in `on_complete`),
`cancelling` the runners with a cancellation to be delivered. `snap[c]` is what
c's `gather()` still waits for. `Begin` may go on at once (a callable that does
not await) or sleep; a callable may end in any way when cancelled, or swallow the
cancellation. `Program[c]` lists, for each call a coroutine makes, the methods it
may be. `unborn`, `crossed`, `asked` and `covered` are history.

*Left out.* Priorities (any queued task comes out of `get()`, sentinels last);
calls that raise at once, and a `BaseException` out of a runner; a worker's number
given again after `reset()` (`asyncqueue.py:306`) while a forgotten worker still has it
(identities never collide here, as in `SyncQueue`);
a `run()` cancelled from outside; a second loop; hooks other than the
`on_complete` of a runner's own result (a sweep's hooks see the same state); a
loop that closes under a producer (see `SharedQueue`); a thread that submits before the queue is
bound, which `SharedQueue` documents as single-threaded use.

### How Execution corresponds to the code

*Handles.* `MarkFinished` is the lock section of `_mark_finished`: the first result
stands, and the callbacks change hands to the finishing thread, which calls them
afterwards (`InvokeCallback`). The client registers on its handles one by one
(`AddDoneCallback`: the callback is stored, or called at once) and takes what comes
(`Yield`), or waits for each in order (`WaitHandle`), or gives up.

*Worker.* `wk[w]` is where a worker is: `get`, `register` (between `get()` and
`_active`), `check` (the head of the attempt loop), `start`, `execute`; then the
executor's own points; then `outcome` (the `except` clauses), `delay`, `record`,
`count` (the lock section of `_record`), `pop`. `ab[th]` is a cancel or an abort a
thread is inside of: `sweep`, `publish`, then for each active task of its snapshot
the three steps of `_Ctl.interrupt`: `flag` (`cancel_ev.set()`), `wake`, `strike`
(`slot.terminate()`). Between any two of them the worker may go on to another
attempt or another task. A worker whose task failed under `fail_first` is such a
thread too. `locked` is the engine's lock where it is held across the interrupt.

*ThreadExec.* One wake event, box and sidecar per attempt, named by task and
number. The four looks of the loop (box, event, thread, clock) are four steps.

*ProcessSlot.* A subprocess is named by the attempt that spawned it. `Terminated`
only marks it dying: it is alive, may be kept by the next `Ensure` and may still
reply, until `Perish`. `replies` is what is in its pipe, tagged with the attempt it
answers. `Acts[t]` says what an attempt's callable may do: return, raise, raise a
`BaseException`, loop, end its process, have a reply that does not unpickle, not
pickle itself; `InitMayFail` lets an initializer fail.

*Abstractions.* The ready queue is a set swept in one step (`SyncQueue` has the
sweep's own interleavings); priorities, hooks, submission and scheduling are left
out, and so is the rate gate's pause, whose end is the same look at `cancel_ev` as
`Check`. A signal ends a process some time later, and `reap`/`close` end it by
their return: a process that survives SIGKILL is not modelled. A graceful close,
which tells an idle subprocess to leave, is a `Reap`. A failing initializer reports
its error; one that raises `SystemExit` is not modelled. The sidecar's `wake.set()` and
the end of its thread are one step (`SetWake`). One worker is enough for what
the model is about, since workers share nothing but the lock and the aborts, and an
abort runs in the application's thread or in the worker itself.

### How SharedQueue corresponds to the code

`prod[t]` is where the producer of t is in `_marshal`: `start`, `post`
(`call_soon_threadsafe`), `ask` (`fut.result(timeout=1.0)`), `expired` (about to look
at `fut.done()`), `pending` (about to look at `loop.is_closed()`), or its answer.
`queue` holds the callbacks of each loop in order, `busy` what occupies its thread
between two steps of one callback or coroutine. A loop runs, is drained
(`asyncio.run` after its main coroutine: callbacks still run, `is_running()` may be
true or false) and is closed, which drops its callbacks. A waiter takes its first
look at the result without the handle's lock (`BeginWait`), its second with it
(`Enlist`); `Finish` is the lock section of `_mark_finished`, after which the queue's
loop deals with the snapshot one waiter at a time: check, then post. `crossed` is
history: the submission ran after its producer's last look at the future. The
queue's own loop closes only after a shutdown, as it does under `async with`.

### How RateGate corresponds to the code

`Reserve` is `reserve()`, one step because it holds the gate's lock from the clock
reading to the update; `tat` is `self._tat`, `booked` the start each call was
given. Time is integers, where the code has floats: rounding is not modelled. A
call's start is the time its pause ends, not the moment the operating system
resumes its thread.

### How Checkpoint corresponds to the code

The program is the documented one: open the store, `map(..., checkpoint=cp)`,
`run()`, leave both contexts. `db` survives `Crash`; everything else is the
process's. The calling thread goes through the plan, restoring an input that was
found or submitting it and then registering the callback (`Enqueue`, `Watch`); a
worker marks a handle final, runs its callback and publishes (`Take`, `Finish`,
`Record`, `Publish`). If the handle is already final when the callback is added
the calling thread runs it itself. `Encodable` and `Decodable` say whose value the
encoder and decoder accept; `Meddling` what other code may do to the store
meanwhile. `won` is the history of successes, `excuse` counts what may make an
input run again.

## 3. Runs

| run | question | bounds |
|---|---|---|
| `sync_run` | Do ownership, the stop handshake, the worker limit and the refinement hold when one thread submits, starts, joins and runs with a deadline under `fail_first` and another cancels and clears? | 2 tasks (one `must_complete` with a retry, none scheduled), 2 workers (3 identities), 1 call each |
| `sync_service` | Are ownership, accounting and wake-ups right for an infinite bounded queue whose initializer may fail, served by one thread and used, shut down and reset by another | 2 tasks, size 1, 1 worker + 1 replacement, 2 calls each |
| `sync_live` | Does every call return, every task finish, and every scheduled task have its timer thread, when one thread makes the calls? | 2 tasks, 2 workers, run + shutdown with a deadline |
| `sync_auto_timeout` | Does `run()` return after a timeout that spares a scheduled task, with auto-scaled workers? (no) | 1 task |
| `async_run` | Are tasks owned and counted exactly and does every call return on a finite queue with `fail_first` and a sparing time limit, while another coroutine cancels, resets and shuts down? | 2 tasks (one `must_complete` with a delayed retry, the other scheduled), 2 workers (3 identities), 3 + 2 calls |
| `async_serve` | Are wake-ups kept, and is no task and no worker left behind, on an auto-scaled bounded queue served by `run()` and fed by a thread, a coroutine and a hook? | 2 tasks (one scheduled), size 1, up to 2 workers (3 identities), 2 + 2 calls |
| `async_unborn` | Does a runner always record a result? (no) | as `async_run` |
| `execution` | Does every attempt end, and does every interrupt, reply, subprocess and callback reach the attempt it is for, in a thread queue and in a process queue? | 2 tasks (one `must_complete`, timed, with a retry), 1 worker, one cancel or kill, `fail_first`, every behaviour of a callable |
| `wrong_kill` | Does a `must_complete` task survive a `fail_first` abort in a process queue? (no) | 2 tasks, 1 worker |
| `shared` | Are producers answered truly and waiters woken, whatever loop closes when? | 2 producers, 2 waiters on one handle, 2 loops |
| `rate_gate` | Does the gate keep the rate, and is it a token bucket? | interval 3, burst 2, 6 calls, 13 ticks, clock starting at 0 or later |
| `checkpoint` | Is exactly what is unrecorded run again, whatever crashes, fails or touches the store? | 2 inputs (one whose value does not decode), 2 workers, 3 passes |

Two tasks are enough for one to be swept while another is kept, for a sweep to
meet a worker, and for a failure to abort the other; two workers are enough for
one to take a sentinel while the other works; two callers for every pair of
overlapping calls in the lists above. `Budget` bounds the number of calls;
everything after a call is made runs to the end. `CHECK_DEADLOCK FALSE`
everywhere: a system whose callers have used their budget stops.

**Properties.** *IInv* (the inductive invariant of the proofs, *TypeOK* a part of it);
*OneOwner* (an unfinished task is in exactly one
place); *Accounting* (the counter counts exactly the tasks accepted and not
published); *NoLostWakeup* (whoever sleeps has a reason to); *StopHandshake*
(while workers are joined the sentinels that exist suffice for those that still
need one); *WorkerLimit*; *TimerCovers* (a scheduled task has a timer thread
alive to release it); *ClosedMeansDone* (a queue that is closed, with every thread at
rest, owes nothing); *MustCompleteSpared* (only a kill or a
cancel of that task cancels a `must_complete` task); *LifecycleSpec* (the engine
implements `TaskLifecycle`, with `owed` the set of tasks accepted and not
published); *CallsReturn* and *TasksFinish* (liveness).

Of the asyncio engine: *TypeOK*, *OneOwner*, *Accounting*, *NoLostWakeup*,
*ClosedMeansDone*, *CallsReturn* with the same meaning, and *Covers* (when `run()`
or `shutdown()` returns, what was outstanding when it was called is over), and the
action property *NoneLeftOut* (while a caller gathers the workers, none is created that
it does not wait for, unless nothing is left to do). Of the gate: *RateBound* (no window holds more starts than the burst and the rate allow)
and *BucketSpec*. Of the checkpoint: *OnlySuccesses* (only the value of an earlier
success is stored or handed back), *RecordedAtReturn* (when `run()` has returned
every success of the pass whose value can be stored is in the store, unless other
code cleared or closed it), *AtLeastOnce* (an input succeeds a
second time only if a crash, a clear or a refused record explains it), *PassEnds*
(every pass ends, the store closed early or not), *IInv* (the inductive invariant
of the proofs). Six calls with a burst of two make every case of the bound
happen, an idle gate included; three passes let a crash hit a pass that was
itself a restart.

Of the execution of attempts: *InterruptReaches* (once `interrupt()` has returned, a
worker asleep on the attempt it was meant for has something that wakes it);
*OwnReply* (what a worker is about to receive was sent for the attempt it awaits);
*ProcessOwned* (a live subprocess is in the slot of a live worker, and one that runs
a callable runs the attempt its worker awaits); *HandlesOnce* (each registered
callback is in exactly one place, so no handle comes twice or never); *AttemptsEnd*
and *ClientServed* (liveness); *MustCompleteSurvives*, which fails. Of the shared
queue: *HonestAnswer* (a producer told that its submission timed out or was refused
has not had its task accepted, except in the crossing described below);
*WaiterReached* (an awaiting coroutine is registered, or its wake-up is on its way);
*EveryoneReturns* (liveness).

With one worker and one interrupting request every pair of an interrupt's step and a
worker's step occurs, on the attempt meant, on its retry, and on the next task; with
two waiters of one handle, one loop closes while the other's waiter is woken.

Every property has a mutant of the model, a plausible bug, that breaks it
(operators a comment marks as mutants, unused in the model itself).

**What the violations show.** Three statements of the repository do not hold:

1. With `workers=None`, a scheduled `must_complete` task spared by a timeout may
   come due when no worker exists, and a halted queue starts none: `run()` never
   returns.
2. A runner task cancelled between its creation and its first step (by
   `fail_first`, `cancel()`, a timeout) never enters `_attempts`: no result is
   recorded, and a finite `run()` waits forever. (`asyncqueue.py:423`: "Always
   records a result".)
3. In a process queue, a task that fails under `fail_first` makes its own worker run
   the abort, while the task is still in `_active`: the worker interrupts its own
   control block and so terminates its own, idle subprocess. The next task it takes
   finds that subprocess not yet dead, is sent to it, and is reported failed with
   "worker process died", a spared `must_complete` task included
   (`options.py:19`: such a task "survives timeouts, `fail_first` aborts").

**Weaknesses met, no run devoted to them.**

- A forced shutdown may close the queue with a task neither run nor cancelled, so
  *ClosedMeansDone* of `SyncQueue` fails when one thread cancels while another forces a
  shutdown. `cancel()` of a queued task empties the ready queue into the list `kept`
  (`sync.py:602`-`618`); meanwhile `shutdown(force=True)` finds nothing to drain, stops
  the workers and closes (`sync.py:249`-`264`); then `cancel()` puts the other tasks
  back (`sync.py:619`). They stay counted as outstanding, and a `wait()` on their
  handles ends only if a `reset()` cancels them. (`sync.py:240`: force "cancels
  everything (including `must_complete` tasks) immediately".) TLC reaches this state when
  one caller may only `cancel` and another, which submits both tasks, `start` and
  `force`; the programs of the runs do not combine the two calls.
- `cancel()` may return `False` for a task that has not finished and then runs: a
  worker has taken it from the ready queue and not yet registered it
  (`sync.py:474`-`502`; `handle.py:152` keeps `False` for a finished task).
- With `reset()` and two scheduled tasks *TimerCovers* fails: the timer thread leaves
  its loop because the queue is closed, `reset()` reopens the queue, and a scheduled
  submission finds the thread still alive and starts none (`sync.py:411`-`417`;
  `docs/internals.md:791` says it is restarted "if it ever exited"). The property is
  checked, and proved, without `reset()`.
- A submission from another thread near the end of `run()` may start a worker that
  takes a stop sentinel meant for another (`sync.py:667`); `run()` then never
  returns. And a `start()` that overlaps the end of a `shutdown()` makes a worker that
  `_threads.clear()` forgets, so that after a `reset()` more workers than the limit are
  at work.
- A thread task that finishes between the look at the box and the look at
  `is_alive()` is taken for dead, and its outcome is lost (`threadqueue.py:137`-`145`);
  `Execution` takes this step.
- A task that raises `SystemExit` passes every handler of `_attempts`: no result is
  recorded, its worker's thread ends and `run()` hangs (`sync.py:518`; `sync.py:493`
  says "always records a result"). *AttemptsEnd* excepts it.
- A producer of a shared queue whose poll expires as the loop runs its submission is
  given the timeout (`sharedqueue.py:99`), or `ClosedError` if the loop has also
  closed, though its task was accepted. *HonestAnswer* excepts exactly this.
- `iter_completed` yields handles that were final before it began in submission
  order, not in completion order; `map` and `group` without a checkpoint lose the
  handles already made if a later element raises (`core.py`, `group.py`).
- In the asyncio engine, a `run()` or `start()` that begins while a `shutdown()`
  gathers its workers may lose its own workers and sentinels to the
  `_worker_tasks.clear()` and `_drain_sentinels()` that follow, and hang: no document
  says which calls may overlap, so *CallsReturn* excepts a history with `crossed`. A
  task submitted while `run()` gathers spawns a worker nobody waits for. And finding
  1 holds there for the same reason (`_spawn_workers` does nothing once halted), with
  a queue that is auto-scaled, finite and limited in time with
  `on_timeout="complete"`; no asyncio run combines the three.

**Fairness.** Weak fairness for every thread: its internal methods, its worker
loop, the rest of a call it has made, and the timer thread. This is what an
operating system's scheduler gives to a thread that is not blocked; it also says
that a callable returns or raises, and that a delay elapses. There is none on
making a call and none on the run's deadline. For `AsyncQueue`: the loop runs its
head, a timer fires, and what a callable awaits comes. For `Execution`: some
thread that can go on does, a deadline passes, a callable that does not loop ends, a
signalled process ends; every run of the model is finite, so that one fairness
condition on the whole gives each of them its turn. None on cancels, crashes and the
client's patience. For `SharedQueue`: a loop that is not closed runs what is queued
on it, and each producer's thread goes on; none on shutting down, closing a loop or
cancelling a waiter. For `Checkpoint`: the
program's thread and the workers go on; there is none on crashes, on opening a
new pass, or on what other code does to the store.

## 4. Proofs

`SyncQueueProofs` proves, for any finite sets of tasks, workers and callers and
any options, `Spec => []IInv`, and from it `Spec => []TypeOK` and
`Spec => []OneOwner`. `OneOwner` alone is not inductive: that a task is nowhere
else when a worker or a sweep finishes it depends on what each control point says
of its thread's locals. `IInv` adds exactly that: a worker has a task in hand
between its `get()` and the end of the attempts (`Holding`); it records and sweeps
only between tasks (`WorkerAtRest`); the lists of a sweep are empty outside it
(`HandInSweep`); a task about to be published is final (`PublishFinal`); threads to
start are registered once (`Starting`); a caller waiting for room holds a task of
its own, still new, and one in `cancel()` a task (`Submitting`). The module proves first
that every action keeps `TypeOK`, then has one step per action for each of the rest.

`SyncQueuePromises` proves what the queue promises, each from `IInv` and a
strengthening of its own.

- `Spec => []Accounting` and `Spec => []NoLostWakeup`, under the assumption `NoReset`
  (no caller may call `reset()`): an induction over the cardinality of the tasks owed,
  with `PublishOnce` (no two threads publish the same task) and `AsleepAtRest`. The
  assumption is needed: `reset()` sets the counter to zero without looking, so a
  submission that slips in before it, or a worker restarted by another thread, breaks
  the equality. TLC checks the two properties with `reset()` when the resetting thread
  is the one that submits (`sync_service`).
- `Spec => LifecycleSpec`: the engine implements `TaskLifecycle`, `reset()` included,
  each step being one of the abstract task's or a stutter. What it takes beyond `IInv`
  is `PublishOnce` and `Attempting`: a worker about to start an attempt of a task has
  attempts left for it.
- `Spec => MustCompleteSpared`, an action property. It rests on `Sweeping`: a sweep has
  in its lists only what it may cancel, that is nothing spared unless it is a kill or a
  `cancel()` of that task.
- `Spec => []TimerCovers` under `NoReset`. Without it the property fails (section 3).
- `Spec => []ClosedMeansDone` under `Graceful`: no caller forces a shutdown or resets;
  `cancel()` by other threads is allowed.
  The strengthening `Drained` follows a caller through `shutdown()`: past its wait the
  queue accepts nothing and owes nothing, which `Accounting` turns into "every task is
  over". A forced shutdown gives no such invariant, and with another thread's `cancel()`
  the property fails: the task that `cancel()` holds aside is put back after the abort
  (section 3). Without `cancel()`, TLC checks forced shutdowns, a failing
  initializer and `reset()` in `sync_service`, where the property holds.
- `Spec => []WorkerLimit` and `Spec => []StopHandshake` under `NoReset` and `Alone(s)`: one
  thread, `s`, submits, starts, runs and shuts down; any number of others cancel tasks
  and clear results (the program of `sync_run`). Two
  things make the limit inductive. `Stopping`: while the workers are being stopped the queue is
  halted or owes nothing, so neither a task that comes due nor a submission starts another;
  those at work are all among the ones waited for, and none is at work when they
  are forgotten. And `MissingBounded`: the threads one spawn adds, ranked among the
  free identities, fit in what is missing. The handshake adds `Signalled`: each worker
  awaited has a sentinel, in the queue, in a sweep's list or yet to be put. A worker that
  leaves without taking one, a halt, a sweep that takes sentinels out and puts them back are each
  a step of that proof. The sentinels in hand are counted as a set of pairs, so that no
  recursively defined sum is needed.

`AsyncQueueProofs` proves, for any tasks, callers, programs and options:

- `Spec => []OneOwner`. The invariant `OInv` says that each task without a result is
  in one place, in a form (`Single`) that names the places one by one.
- `Spec /\ [][CleanReset]_vars => []Accounting`. `CleanReset`: a `reset()` finds no
  task with a runner. `reset()` cancels what is queued or timed and then sets the
  counter to zero (`asyncqueue.py:282`-`308`), but a runner that a worker has left
  behind may still be alive. `NeverReset` proves that a program without `reset()` meets
  the hypothesis; TLC confirms that `async_run`, which resets, meets it too.
- `Spec => []NoLostWakeup`, whatever the programs call. By itself it is far from
  inductive: that a wake-up on the loop is worth one task needs each worker to be on the
  loop once at most, those asleep in `get()` not to be on it, and a worker that is on it
  and awaits a runner to await one that is over (`Pool`); which needs runners to be
  created once, for tasks that were submitted (`Ran`). `WInv` is their conjunction.
- `Spec /\ [][CleanReset]_vars => []TypeOK`; the hypothesis is for `outstanding \in
  Nat` alone.

`AsyncQueuePromises` proves that `run()` and `shutdown()` of the asyncio engine do what
they say, that is `Covers` and `ClosedMeansDone`, in three classes of programs, all of
them without `reset()` (`NoReset`) and with any tasks, callers, workers, submitters,
retries and time limits. (A runner that died before its first step, finding 2, is
excepted by both properties.)

- *A queue in the infinite mode*: `Spec => NoneLeftOut`, `Spec => []ClosedMeansDone`,
  `Spec => []Covers`. `NoneLeftOut` holds because a `run()` of such a queue gathers its
  workers only after a time limit, on a queue halted, or with nothing left to do, and a
  `shutdown()` has stopped accepting by then. `SInv` says this of each caller; it needs
  that one caller at a time is inside `run()`, since the end of a `run()` lifts the halt.
- *Either mode, in a behaviour that keeps* `NoneLeftOut`: `Spec /\ NoneLeftOut =>
  []ClosedMeansDone`, and the same of `Covers`. This is where the two above come from.
- *Either mode, programs that do not force a shutdown* (`NoForce`): both, with no
  hypothesis on the behaviour. Here a worker may be forgotten by a finite `run()`, and the
  promises hold all the same.

The argument of the second, whose inductive invariant is `PInv`. That a caller may go on
because its tasks are done is known when it is resumed, and used when its turn comes on
the loop, any number of steps later. So `PInv` follows the signals: each resumption and
each end of a worker is on the loop once at most, and nobody is asleep and resumed at once
(`Loops`). A caller that is resumed from `_idle` finds its tasks over, though others may
have been submitted since (`RunOK`), or, once the queue refuses, finds nothing left at
all (`DownOK`). A forced shutdown waits for no event, only for the workers, so `Teams`
says what it can conclude from their end: every runner whose attempts go on has a worker
that awaits it, and each such worker is among those waited for. `NoneLeftOut` keeps it
so: a worker created meanwhile would take a task the gathering caller knows nothing of.
For the programs of the third class `Teams` is not invariant and not needed: a graceful
shutdown is past its wait only when all is done and the queue refuses (`QInv`), whatever
workers there are.

Beyond them `ClosedMeansDone` may fail: in the finite mode, a task submitted while
`run()` gathers starts a worker that is then forgotten, and a forced shutdown that
follows closes the queue with that task still in its attempt.

`ExecutionProofs` proves, for any number of workers, tasks, interrupting threads and
behaviours of a callable, `Spec => []Inv` for `TypeOK`, `InterruptReaches`, `OwnReply`,
`ProcessOwned` and `HandlesOnce`. Its `IInv` has six parts, each kept by every action with
the help of those before it: `Types`; `Control` (no task in two hands, a task in the
ready queue has had no attempt, an interrupt's step has its task); `Slots` (no subprocess in two
slots, a live one in one, and an attempt yet to spawn has none); `Pipes` (what a pipe
holds is the request or the reply of the attempt its worker awaits, or the report of a
failed initializer: whoever leaves an attempt unanswered reaps the process); `Reach`
(the control block names the wake event or slot of the attempt a worker is about to
wait for, and if the flag is up the wake-up has happened or is the interrupting
thread's next step); `Once` (a callback is in one of the four places exactly when its
handle is registered).

Assumptions are those of the models, which TLC evaluates in every run: finite sets,
distinct identities, options of the right type, callers that submit distinct tasks
(`SyncQueue`); task names distinct from `"get"` and `"none"` (`AsyncQueue`); a non-empty
sequence of tasks to wait for, and `NULL` no attempt (`Execution`).

`RateGateProofs` proves, for any rate, burst, clock and number of calls,
`Spec => []TypeOK`, `Spec => []RateBound` and `Spec => Bucket!Spec`. `RateBound` needs to know how
far the next slot lies ahead of each start already given; that is `Ahead`. The
refinement maps the bucket's level to `Burst * Interval` less what `tat` is ahead
of the clock.

`CheckpointProofs` proves, for any inputs, workers, passes and crashes,
`Spec => []IInv`, `Spec => []OnlySuccesses` and `Spec => []RecordedAtReturn`. The
argument of the last: `outstanding` counts the tasks queued or in a worker's hands
(`Counted`), a worker is in a callback only while it has a task in its hands
(`Callbacks`), and a success the store can hold is in it once its callback is over, unless other code
meddled (`Recording`); when `run()` finds nothing outstanding, no callback is pending.
`Spec => []AtLeastOnce` rests on one invariant more, `Excused`: the successes of an
input number at most its excuses, and one more while it is in the store or its record is
in progress (`Kept`); and an input due to be run (`Due`) is not in the store.

`SharedQueueProofs` proves, for any producers, waiters and loops,
`Spec => []TypeOK`, `Spec => []HonestAnswer` and `Spec => []WaiterReached`. The
inductive invariant adds: a loop's thread is taken while it deals with a snapshot and
while one of its coroutines is between its two looks (`Taken`; without it a second
result could overwrite the snapshot of the first); a submission that is on the loop is
there once, its future still pending and its producer waiting (`Queued`); and the
future is the truth about the task, which a producer past its last look knows unless
the submission has crossed it (`Told`).

Only model-checked:

- The liveness properties: out of the prover's reach.
- `WorkerLimit` and `StopHandshake` of `SyncQueue` where several threads submit, start or
  stop. There `WorkerLimit` fails: a second thread's submission between the joins of
  `_stop_workers` and its `_threads.clear()` starts a worker that is then forgotten.
- `ClosedMeansDone` of `SyncQueue` with forced shutdowns and `reset()`, in `sync_service`,
  whose programs do not cancel (with `cancel()` it fails, section 3); and `Accounting` and
  `NoLostWakeup` where `reset()` is called in the ways `sync_service` and `async_run` allow.

Neither proved nor checked: `Covers`, `ClosedMeansDone` and `NoneLeftOut` of `AsyncQueue`
in programs that reset the queue, or that force the shutdown of a finite one.

## 5. Not modelled

Options, shortcuts, results, exceptions and the loop helper keep no state that
changes. `TaskGroup.wait` and `as_completed` await the `TaskHandle.wait` of
`SharedQueue` one after the other, or through `asyncio.wait`, and add nothing of
their own; key derivation and argument fan-out in `core.py` are pure.
