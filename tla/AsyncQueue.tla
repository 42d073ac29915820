----------------------------- MODULE AsyncQueue -----------------------------
(***************************************************************************)
(* The asyncio engine (src/osiiso/asyncqueue.py) and the calls other       *)
(* threads marshal to it (sharedqueue.py, handle.cancel()). Everything     *)
(* runs on one event loop, a FIFO of coroutines to resume and callbacks to *)
(* run: the head runs until it awaits something that is not ready. A step  *)
(* is what the head does up to such a point, or a part of it after which   *)
(* it is still the head. The world outside (timers, I/O, other threads)    *)
(* only appends to the loop.                                               *)
(***************************************************************************)
EXTENDS Integers, FiniteSets, Sequences, SequencesExt

CONSTANTS
  Tasks,
  Submitters,   \* Submitters[t]: who may submit t, of "coroutine", "hook", "thread"
  MustComplete, Scheduled,
  Retries,      \* Retries[t]: retries=
  RetryDelay,   \* retry_delay > 0
  Rated,        \* the queue has a rate gate
  MaxWorkers,   \* bound on the workers ever alive at once
  Fixed,        \* workers=, 0 for None
  AutoLimit,
  Size,         \* size=, 0 for unbounded
  Mode, FailFirst, TimeoutKills,
  Timed,        \* run() has a time limit
  Callers,      \* the coroutines that use the queue
  Program,      \* Program[c]: for each call c makes, the methods it may be
  Threaded      \* tasks another thread may cancel

ASSUME TasksAssumption ==
  IsFiniteSet(Tasks) /\ MustComplete \subseteq Tasks /\ Scheduled \subseteq Tasks /\ Threaded \subseteq Tasks
\* What job[w] says besides the name of a task.
ASSUME NamesAssumption == Tasks \cap {"get", "none"} = {}
ASSUME BoundsAssumption == {MaxWorkers, Fixed, AutoLimit, Size} \subseteq Nat /\ Retries \in [Tasks -> Nat]
ASSUME CallersAssumption == Mode \in {"finite", "infinite"} /\ IsFiniteSet(Callers)

VARIABLES
  loop,        \* what the event loop is to run, in order
  ready,       \* the tasks in self._ready
  stops,       \* the stop sentinels in self._ready
  getters,     \* workers asleep in self._ready.get(), in order
  timers,      \* self._timers
  dormant,     \* self._dormant
  runners,     \* self._runners, in order of insertion
  job,         \* job[w]: the task whose runner worker w awaits, "get" in its loop, "none" for no worker
  registered,  \* self._worker_tasks
  rn,          \* rn[t]: where t's runner is
  cancelling,  \* tasks whose runner has a cancellation to be delivered
  st,          \* handle.status, "new" before the submission
  attempts,    \* handle.attempts
  outstanding, idle,
  sleepers,    \* callers asleep on self._idle
  wake, accepting, halt, closed, started, running, timedOut,
  bound,       \* self._loop is not None
  pc,          \* where a caller is
  snap,        \* snap[c]: workers c's gather() waits for
  expired,     \* callers whose time limit has passed
  calls,       \* calls[c]: calls made
  \* history
  unborn,      \* tasks whose runner was cancelled before its first step
  asked,       \* tasks somebody asked to cancel
  crossed,     \* start() was called while a caller gathered the workers
  covered      \* covered[c]: the tasks outstanding when c's run() or shutdown() began

loopVars  == <<loop>>
places    == <<ready, stops, timers, dormant>>
pool      == <<getters, job, registered>>
runVars   == <<runners, rn, cancelling, attempts, unborn>>
count     == <<st, outstanding, idle, sleepers>>
flags     == <<wake, accepting, halt, closed, started, running, timedOut, bound, crossed>>
callVars  == <<pc, snap, expired, calls, covered>>
vars == <<loop, places, pool, runVars, count, flags, callVars, asked>>

Workers == 1..MaxWorkers
Final == {"succeeded", "failed", "cancelled"}
Live(t) == st[t] \notin Final \cup {"new"}

Init ==
  /\ loop = <<>> /\ ready = {} /\ stops = 0 /\ timers = {} /\ dormant = {}
  /\ getters = <<>> /\ job = [w \in Workers |-> "none"] /\ registered = {}
  /\ runners = <<>> /\ rn = [t \in Tasks |-> "none"] /\ cancelling = {} /\ unborn = {}
  /\ st = [t \in Tasks |-> "new"] /\ attempts = [t \in Tasks |-> 0]
  /\ outstanding = 0 /\ idle = TRUE /\ sleepers = <<>>
  /\ wake = FALSE /\ accepting = TRUE /\ halt = FALSE /\ closed = FALSE
  /\ started = FALSE /\ running = FALSE /\ timedOut = FALSE /\ bound = FALSE
  /\ pc = [c \in Callers |-> "idle"] /\ snap = [c \in Callers |-> {}] /\ expired = {}
  /\ calls = [c \in Callers |-> 0] /\ asked = {} /\ crossed = FALSE /\ covered = [c \in Callers |-> {}]

-----------------------------------------------------------------------------
(* The event loop                                                          *)

At(item) == loop # <<>> /\ Head(loop) = item
Posted(item) == \E i \in 1..Len(loop) : loop[i] = item

\* The head awaits or ends, having scheduled items; or it goes on.
Leave(items) == loop' = Tail(loop) \o items
Stay(items) == loop' = loop \o items
Post(item) == loop' = Append(loop, item)

\* A coroutine that uses the queue runs, and calls a method of it.
CallerAt(c, where) == At(<<"caller", c>>) /\ pc[c] = where
Goto(c, where) == pc' = [pc EXCEPT ![c] = where]
HasCall(c) == calls[c] < Len(Program[c])
MayCall(c, call) == CallerAt(c, "idle") /\ HasCall(c) /\ call \in Program[c][calls[c] + 1]
Called(c) == calls' = [calls EXCEPT ![c] = @ + 1]

Items(kind, s) == [i \in 1..Len(s) |-> <<kind, s[i]>>]

\* The elements of s that are in S, in order; s without x, which it has once
\* at most.
Increasing(I) == {f \in [1..Cardinality(I) -> I] : \A i, j \in 1..Cardinality(I) : i < j => f[i] < f[j]}
Only(s, S) ==
  LET I == {i \in 1..Len(s) : s[i] \in S}
      f == CHOOSE f \in Increasing(I) : TRUE
  IN [i \in 1..Cardinality(I) |-> s[f[i]]]
Without(s, x) ==
  IF \E i \in 1..Len(s) : s[i] = x THEN RemoveAt(s, CHOOSE i \in 1..Len(s) : s[i] = x) ELSE s

\* n items are put into the ready queue: each wakes a sleeping getter.
Wakes(n) == IF n < Len(getters) THEN n ELSE Len(getters)
Woken(n) == Items("worker", SubSeq(getters, 1, Wakes(n)))
StillAsleep(n) == SubSeq(getters, Wakes(n) + 1, Len(getters))

-----------------------------------------------------------------------------
(* Results                                                                 *)

\* Mutant: the queued tasks an abort cancels are not counted off.
RecordDoneOnly(done, o, cut) ==
  /\ st' = [t \in Tasks |-> IF t \in done THEN o ELSE IF t \in cut THEN "cancelled" ELSE st[t]]
  /\ outstanding' = outstanding - Cardinality(done)
  /\ idle' = (idle \/ (done \cup cut # {} /\ outstanding' <= 0))
  /\ sleepers' = IF idle' THEN <<>> ELSE sleepers

\* _record for the tasks done (with outcome o) and cut (cancelled).
Record(done, o, cut) ==
  /\ st' = [t \in Tasks |-> IF t \in done THEN o ELSE IF t \in cut THEN "cancelled" ELSE st[t]]
  /\ outstanding' = outstanding - Cardinality(done \cup cut)
  /\ idle' = (idle \/ (done \cup cut # {} /\ outstanding' <= 0))
  /\ sleepers' = IF idle' THEN <<>> ELSE sleepers

\* Mutant: off by one in what wakes the callers.
ResumedLate(n) == IF n > 0 /\ outstanding - n < 0 THEN Items("caller", sleepers) ELSE <<>>
\* The callers this wakes.
Resumed(n) == IF n > 0 /\ outstanding - n <= 0 THEN Items("caller", sleepers) ELSE <<>>

\* task.cancel() on the runners of S, in order: those asleep are resumed.
Interruptible(t) == rn[t] \in {"new", "gate", "call", "wait"}
Interrupted(S) == Items("runner", Only(runners, {t \in S : Interruptible(t) /\ ~Posted(<<"runner", t>>)}))
Interrupt(S, over) == cancelling' = (cancelling \ over) \cup {t \in S : Interruptible(t)}

Running == ToSet(runners)
Unspared(kill) == {t \in Tasks : kill \/ t \notin MustComplete}

\* _abort, after the record of done: what is cut, and what it appends.
CutBy(kill) == (ready \cup timers \cup dormant) \cap Unspared(kill)
Kept(kill) == Cardinality(ready \ Unspared(kill)) + stops
AbortItems(kill, done) ==
  Resumed(Cardinality(done \cup CutBy(kill))) \o Woken(Kept(kill)) \o Interrupted((Running \cap Unspared(kill)) \ done)
Abort(kill, done, o) ==
  /\ halt' = TRUE
  /\ Record(done, o, CutBy(kill))
  /\ ready' = ready \ Unspared(kill) /\ timers' = timers \ Unspared(kill) /\ dormant' = dormant \ Unspared(kill)
  /\ getters' = StillAsleep(Kept(kill))
  /\ Interrupt((Running \cap Unspared(kill)) \ done, done)
  /\ UNCHANGED stops

-----------------------------------------------------------------------------
(* Workers wanted                                                          *)

Largest(a, b) == IF a > b THEN a ELSE b
Smallest(a, b) == IF a < b THEN a ELSE b

\* _target_workers, with queued items in the ready queue.
Target(queued) ==
  IF Fixed > 0 THEN Fixed
  ELSE Largest(IF Mode = "infinite" THEN 1 ELSE 0, Smallest(AutoLimit, queued + Len(runners)))

\* _spawn_workers: the workers created, in order. The ids are bounded.
Missing(queued) == Largest(0, Target(queued) - Cardinality(registered))
FreeIds == Only([i \in Workers |-> i], {w \in Workers : job[w] = "none" /\ \A c \in Callers : w \notin snap[c]})
Spawned(queued) ==
  IF Missing(queued) <= Len(FreeIds) THEN SubSeq(FreeIds, 1, Missing(queued)) ELSE FreeIds
Spawn(new) ==
  /\ registered' = registered \cup ToSet(new)
  /\ job' = [w \in Workers |-> IF w \in ToSet(new) THEN "get" ELSE job[w]]

-----------------------------------------------------------------------------
(* Submission                                                              *)

\* Mutant: a queue that is halted still admits.
AdmitsHalted == ~closed /\ accepting /\ (Size > 0 => outstanding < Size)
\* Mutant: a queue that is shutting down still admits.
AdmitsClosing == ~closed /\ ~halt /\ (Size > 0 => outstanding < Size)
Admits == ~closed /\ accepting /\ ~halt /\ (Size > 0 => outstanding < Size)

\* _enqueue of an admitted task, with what it appends to the loop.
NewWorkers(t) == IF t \notin Scheduled /\ started THEN Spawned(Cardinality(ready) + 1 + stops) ELSE <<>>
EnqueueItems(t) == (IF t \in Scheduled THEN <<>> ELSE Woken(1)) \o Items("worker", NewWorkers(t))
Enqueue(t) ==
  /\ st[t] = "new" /\ Admits
  /\ st' = [st EXCEPT ![t] = "pending"]
  /\ outstanding' = outstanding + 1 /\ idle' = FALSE
  /\ dormant' = IF t \in Scheduled /\ ~started THEN dormant \cup {t} ELSE dormant
  /\ timers' = IF t \in Scheduled /\ started THEN timers \cup {t} ELSE timers
  /\ ready' = IF t \in Scheduled THEN ready ELSE ready \cup {t}
  /\ getters' = IF t \in Scheduled THEN getters ELSE StillAsleep(1)
  /\ Spawn(NewWorkers(t))
  /\ UNCHANGED <<stops, sleepers>>

\* call_later's time has come, and the timer callback runs: _release.
Due(t) ==
  /\ t \in timers /\ ~Posted(<<"due", t>>) /\ Post(<<"due", t>>)
  /\ UNCHANGED <<places, pool, runVars, count, flags, callVars, asked>>

\* Mutant: the worker that sleeps is not woken.
ReleaseQuietly(t) ==
  /\ At(<<"due", t>>) /\ t \in timers
  /\ timers' = timers \ {t} /\ ready' = ready \cup {t} /\ Leave(<<>>)
  /\ UNCHANGED <<stops, dormant, pool, runVars, count, flags, callVars, asked>>

Release(t) ==
  /\ At(<<"due", t>>) /\ t \in timers
  /\ timers' = timers \ {t} /\ ready' = ready \cup {t}
  /\ LET new == IF halt \/ closed \/ ~started THEN <<>> ELSE Spawned(Cardinality(ready) + 1 + stops)
     IN Spawn(new) /\ Leave(Woken(1) \o Items("worker", new))
  /\ getters' = StillAsleep(1)
  /\ UNCHANGED <<stops, dormant, runVars, count, flags, callVars, asked>>

\* A timer cancelled in time does not run its callback.
ReleaseNone(t) ==
  /\ At(<<"due", t>>) /\ t \notin timers /\ Leave(<<>>)
  /\ UNCHANGED <<places, pool, runVars, count, flags, callVars, asked>>

\* SharedQueue._marshal: another thread's submission, and its commit.
ThreadSubmits(t) ==
  /\ "thread" \in Submitters[t] /\ st[t] = "new" /\ bound /\ ~Posted(<<"commit", t>>)
  /\ Post(<<"commit", t>>)
  /\ UNCHANGED <<places, pool, runVars, count, flags, callVars, asked>>

Commit(t) ==
  /\ At(<<"commit", t>>) /\ Enqueue(t) /\ Leave(EnqueueItems(t))
  /\ UNCHANGED <<runVars, flags, callVars, asked>>

CommitRefused(t) ==
  /\ At(<<"commit", t>>) /\ ~(st[t] = "new" /\ Admits) /\ Leave(<<>>)
  /\ UNCHANGED <<places, pool, runVars, count, flags, callVars, asked>>
-----------------------------------------------------------------------------
(* Cancelling one task                                                     *)

\* _cancel_local, with what it appends.
CancelItems(t) ==
  IF t \in Running THEN Interrupted({t})
  ELSE Resumed(IF Live(t) /\ t \in ready \cup timers \cup dormant THEN 1 ELSE 0)
       \o (IF t \in timers \cup dormant THEN <<>> ELSE Woken(Cardinality(ready \ {t}) + stops))
\* Mutant: a task that is found nowhere is recorded too.
CancelTwice(t) ==
  IF t \in Running
    THEN Interrupt({t}, {}) /\ UNCHANGED <<places, count, getters>>
    ELSE /\ Record({}, "cancelled", {t})
         /\ timers' = timers \ {t} /\ dormant' = dormant \ {t} /\ ready' = ready \ {t}
         /\ getters' = IF t \in timers \cup dormant THEN getters ELSE StillAsleep(Cardinality(ready \ {t}) + stops)
         /\ UNCHANGED <<stops, cancelling>>
CancelLocal(t) ==
  IF t \in Running
    THEN Interrupt({t}, {}) /\ UNCHANGED <<places, count, getters>>
    ELSE /\ Record({}, "cancelled", {t} \cap (ready \cup timers \cup dormant))
         /\ timers' = timers \ {t} /\ dormant' = dormant \ {t} /\ ready' = ready \ {t}
         /\ getters' = IF t \in timers \cup dormant THEN getters ELSE StillAsleep(Cardinality(ready \ {t}) + stops)
         /\ UNCHANGED <<stops, cancelling>>

Cancel(c, t) ==
  /\ MayCall(c, "cancel") /\ Live(t) /\ CancelLocal(t) /\ Stay(CancelItems(t))
  /\ Called(c) /\ asked' = asked \cup {t}
  /\ UNCHANGED <<job, registered, runners, rn, attempts, unborn, flags, pc, snap, expired, covered>>

\* handle.cancel() in another thread hops onto the loop.
ThreadCancels(t) ==
  /\ t \in Threaded /\ bound /\ Live(t) /\ t \notin asked
  /\ Post(<<"cancel", t>>) /\ asked' = asked \cup {t}
  /\ UNCHANGED <<places, pool, runVars, count, flags, callVars>>

CancelHop(t) ==
  /\ At(<<"cancel", t>>) /\ CancelLocal(t) /\ Leave(CancelItems(t))
  /\ UNCHANGED <<job, registered, runners, rn, attempts, unborn, flags, callVars, asked>>

-----------------------------------------------------------------------------
(* A worker                                                                *)

AtGet(w) == At(<<"worker", w>>) /\ job[w] = "get"

\* A task is taken: its runner is created and awaited, unless the queue is
\* halted and the task not to be spared.
Take(w, t) ==
  /\ AtGet(w) /\ t \in ready /\ ready' = ready \ {t}
  /\ IF halt /\ t \notin MustComplete
       THEN /\ Record({t}, "cancelled", {}) /\ Stay(Resumed(1))
            /\ UNCHANGED <<job, runners, rn>>
       ELSE /\ runners' = Append(runners, t) /\ rn' = [rn EXCEPT ![t] = "new"]
            /\ job' = [job EXCEPT ![w] = t] /\ Leave(<<<<"runner", t>>>>)
            /\ UNCHANGED count
  /\ UNCHANGED <<stops, timers, dormant, getters, registered, cancelling, attempts, unborn, flags, callVars, asked>>

\* Sentinels come last, being of the lowest priority.
Stop(w) ==
  /\ AtGet(w) /\ ready = {} /\ stops > 0
  /\ stops' = stops - 1 /\ job' = [job EXCEPT ![w] = "none"] /\ registered' = registered \ {w}
  /\ Leave(IF \E c \in Callers : w \in snap[c] THEN <<<<"joined", w>>>> ELSE <<>>)
  /\ UNCHANGED <<ready, timers, dormant, getters, runVars, count, flags, callVars, asked>>

Sleep(w) ==
  /\ AtGet(w) /\ ready = {} /\ stops = 0
  /\ getters' = Append(getters, w) /\ Leave(<<>>)
  /\ UNCHANGED <<places, job, registered, runVars, count, flags, callVars, asked>>

\* The runner is over, cancelled or not: the worker goes on.
Back(w) ==
  /\ At(<<"worker", w>>) /\ job[w] \in Tasks
  /\ runners' = Without(runners, job[w]) /\ job' = [job EXCEPT ![w] = "get"]
  /\ Stay(<<>>)
  /\ UNCHANGED <<places, getters, registered, rn, cancelling, attempts, unborn, count, flags, callVars, asked>>

-----------------------------------------------------------------------------
(* A runner                                                                *)

AtRunner(t, where) == At(<<"runner", t>>) /\ rn[t] \in where
Awaiting(t) == {w \in Workers : job[w] = t}
WakeWorker(t) == SetToSeq({<<"worker", w>> : w \in Awaiting(t)})

\* A coroutine cancelled before its first step never runs.
Unborn(t) ==
  /\ AtRunner(t, {"new"}) /\ t \in cancelling
  /\ rn' = [rn EXCEPT ![t] = "over"] /\ cancelling' = cancelling \ {t} /\ unborn' = unborn \cup {t}
  /\ Leave(WakeWorker(t))
  /\ UNCHANGED <<places, pool, runners, attempts, count, flags, callVars, asked>>

\* The rate gate makes the runner sleep.
Gate(t) ==
  /\ Rated /\ AtRunner(t, {"new", "wait", "again"}) /\ t \notin cancelling
  /\ rn' = [rn EXCEPT ![t] = "gate"] /\ Leave(<<>>)
  /\ UNCHANGED <<places, pool, runners, cancelling, attempts, unborn, count, flags, callVars, asked>>

\* An attempt begins. Its callable awaits something, or is done at once.
Begin(t) ==
  /\ AtRunner(t, {"new", "gate", "wait", "again"}) /\ t \notin cancelling
  /\ st' = [st EXCEPT ![t] = "running"] /\ attempts' = [attempts EXCEPT ![t] = @ + 1]
  /\ rn' = [rn EXCEPT ![t] = "call"]
  /\ Leave(<<>>) \/ Stay(<<>>)
  /\ UNCHANGED <<places, pool, runners, cancelling, unborn, outstanding, idle, sleepers, flags, callVars, asked>>

\* What the runner sleeps for is there: a timer, or the callable's I/O.
Resume(t) ==
  /\ rn[t] \in {"gate", "call", "wait"} /\ ~Posted(<<"runner", t>>) /\ Post(<<"runner", t>>)
  /\ UNCHANGED <<places, pool, runVars, count, flags, callVars, asked>>

\* A final result; the hook runs next.
Succeed(t) ==
  /\ AtRunner(t, {"call"}) /\ Record({t}, "succeeded", {}) /\ Stay(Resumed(1))
  /\ rn' = [rn EXCEPT ![t] = "hook"] /\ cancelling' = cancelling \ {t}
  /\ UNCHANGED <<places, pool, runners, attempts, unborn, flags, callVars, asked>>

Retriable(t) == attempts[t] <= Retries[t] /\ (halt => t \in MustComplete)

Retry(t) ==
  /\ AtRunner(t, {"call"}) /\ Retriable(t)
  /\ st' = [st EXCEPT ![t] = "retrying"] /\ cancelling' = cancelling \ {t}
  /\ IF RetryDelay THEN rn' = [rn EXCEPT ![t] = "wait"] /\ Leave(<<>>)
                   ELSE rn' = [rn EXCEPT ![t] = "again"] /\ Stay(<<>>)
  /\ UNCHANGED <<places, pool, runners, attempts, unborn, outstanding, idle, sleepers, flags, callVars, asked>>

Fail(t) ==
  /\ AtRunner(t, {"call"}) /\ ~Retriable(t) /\ ~(FailFirst /\ ~halt)
  /\ Record({t}, "failed", {}) /\ Stay(Resumed(1))
  /\ rn' = [rn EXCEPT ![t] = "hook"] /\ cancelling' = cancelling \ {t}
  /\ UNCHANGED <<places, pool, runners, attempts, unborn, flags, callVars, asked>>

\* The first failure aborts the queue.
FailAborts(t) ==
  /\ AtRunner(t, {"call"}) /\ ~Retriable(t) /\ FailFirst /\ ~halt
  /\ Abort(FALSE, {t}, "failed") /\ Stay(AbortItems(FALSE, {t}))
  /\ rn' = [rn EXCEPT ![t] = "hook"]
  /\ UNCHANGED <<job, registered, runners, attempts, unborn, wake, accepting, closed, started, running, timedOut, bound, crossed, callVars, asked>>

\* Mutant: a cancelled runner leaves without a record.
CancelledSilently(t) ==
  /\ AtRunner(t, {"gate", "wait", "call"}) /\ t \in cancelling
  /\ Stay(<<>>) /\ UNCHANGED count
  /\ rn' = [rn EXCEPT ![t] = "hook"] /\ cancelling' = cancelling \ {t}
  /\ UNCHANGED <<places, pool, runners, attempts, unborn, flags, callVars, asked>>

\* CancelledError: out of a sleep, or out of a callable that lets it through.
Cancelled(t) ==
  /\ AtRunner(t, {"gate", "wait", "call"}) /\ t \in cancelling
  /\ Record({t}, "cancelled", {}) /\ Stay(Resumed(1))
  /\ rn' = [rn EXCEPT ![t] = "hook"] /\ cancelling' = cancelling \ {t}
  /\ UNCHANGED <<places, pool, runners, attempts, unborn, flags, callVars, asked>>

\* A callable that catches the CancelledError and awaits something more.
Swallow(t) ==
  /\ AtRunner(t, {"call"}) /\ t \in cancelling /\ cancelling' = cancelling \ {t} /\ Leave(<<>>)
  /\ UNCHANGED <<places, pool, runners, rn, attempts, unborn, count, flags, callVars, asked>>

\* on_complete may submit; then the runner is over.
HookSubmits(t, s) ==
  /\ AtRunner(t, {"hook"}) /\ "hook" \in Submitters[s]
  /\ Enqueue(s) /\ Leave(EnqueueItems(s) \o WakeWorker(t))
  /\ rn' = [rn EXCEPT ![t] = "over"]
  /\ UNCHANGED <<runners, cancelling, attempts, unborn, flags, callVars, asked>>

EndRunner(t) ==
  /\ AtRunner(t, {"hook"})
  /\ rn' = [rn EXCEPT ![t] = "over"] /\ Leave(WakeWorker(t))
  /\ UNCHANGED <<places, pool, runners, cancelling, attempts, unborn, count, flags, callVars, asked>>

-----------------------------------------------------------------------------
(* A coroutine that uses the queue                                         *)

\* It is resumed by something of its own, and awaits that again.
CallerWakes(c) ==
  /\ pc[c] = "idle" /\ HasCall(c) /\ ~Posted(<<"caller", c>>) /\ Post(<<"caller", c>>)
  /\ UNCHANGED <<places, pool, runVars, count, flags, callVars, asked>>

Yield(c) ==
  /\ CallerAt(c, "idle") /\ Leave(<<>>)
  /\ UNCHANGED <<places, pool, runVars, count, flags, callVars, asked>>

Submit(c, t) ==
  /\ MayCall(c, "submit") /\ "coroutine" \in Submitters[t]
  /\ Enqueue(t) /\ Stay(EnqueueItems(t)) /\ Called(c)
  /\ UNCHANGED <<runVars, flags, pc, snap, expired, covered, asked>>

\* start() on a queue that is not closed.
StartItems == Items("worker", Spawned(Cardinality(ready) + stops))
Start ==
  /\ bound' = TRUE /\ halt' = FALSE /\ timedOut' = FALSE /\ started' = TRUE
  /\ timers' = timers \cup dormant /\ dormant' = {}
  /\ Spawn(Spawned(Cardinality(ready) + stops))
  /\ crossed' = (crossed \/ \E c \in Callers : pc[c] \in {"run.gather", "down.gather"})

\* await self._idle.wait(): an event that is set does not suspend.
AwaitIdle(c, asleep, next) ==
  IF idle THEN Goto(c, next) /\ Stay(<<>>) /\ UNCHANGED sleepers
          ELSE Goto(c, asleep) /\ Leave(<<>>) /\ sleepers' = Append(sleepers, c)

(* run()                                                                   *)

Run(c) ==
  /\ MayCall(c, "run") /\ ~running /\ ~closed
  /\ Start /\ Stay(StartItems) /\ running' = TRUE /\ Called(c) /\ Goto(c, "run.go")
  /\ covered' = [covered EXCEPT ![c] = {t \in Tasks : Live(t)}]
  /\ UNCHANGED <<ready, stops, getters, runVars, count, wake, accepting, closed, snap, expired, asked>>

\* On a closed queue start() raises, after which run() resets its flags.
RunRefused(c) ==
  /\ MayCall(c, "run") /\ ~running /\ closed
  /\ halt' = FALSE /\ timedOut' = FALSE /\ Called(c) /\ Stay(<<>>)
  /\ UNCHANGED <<places, pool, runVars, count, wake, accepting, closed, started, running, bound, crossed, pc, snap, expired, covered, asked>>

RunWait(c) ==
  /\ CallerAt(c, "run.go")
  /\ IF Mode = "finite" THEN AwaitIdle(c, "run.wait", "run.stop")
     ELSE /\ UNCHANGED sleepers
          /\ IF wake THEN Goto(c, "run.stop") /\ Stay(<<>>) ELSE Goto(c, "run.wait") /\ Leave(<<>>)
  /\ UNCHANGED <<places, pool, runVars, st, outstanding, idle, flags, snap, expired, calls, covered, asked>>

\* The time limit passes; its callback cancels the wait.
Expire(c) ==
  /\ Timed /\ pc[c] = "run.wait" /\ c \notin expired /\ ~Posted(<<"timeout", c>>) /\ Post(<<"timeout", c>>)
  /\ UNCHANGED <<places, pool, runVars, count, flags, callVars, asked>>

ExpireHop(c) ==
  /\ At(<<"timeout", c>>)
  /\ IF pc[c] = "run.wait"
       THEN /\ expired' = expired \cup {c} /\ sleepers' = Without(sleepers, c)
            /\ Leave(IF Posted(<<"caller", c>>) THEN <<>> ELSE <<<<"caller", c>>>>)
       ELSE Leave(<<>>) /\ UNCHANGED <<expired, sleepers>>
  /\ UNCHANGED <<places, pool, runVars, st, outstanding, idle, flags, pc, snap, calls, covered, asked>>

\* The event is set; the timer is cancelled.
RunWoken(c) ==
  /\ CallerAt(c, "run.wait") /\ c \notin expired /\ Goto(c, "run.stop")
  /\ loop' = Without(loop, <<"timeout", c>>)
  /\ UNCHANGED <<places, pool, runVars, count, flags, snap, expired, calls, covered, asked>>

RunTimesOut(c) ==
  /\ CallerAt(c, "run.wait") /\ c \in expired
  /\ expired' = expired \ {c} /\ timedOut' = TRUE
  /\ Abort(TimeoutKills, {}, "cancelled") /\ Stay(AbortItems(TimeoutKills, {})) /\ Goto(c, "run.rest")
  /\ UNCHANGED <<job, registered, runners, rn, attempts, unborn, wake, accepting, closed, started, running, bound, crossed,
                 snap, calls, covered, asked>>

RunRest(c) ==
  /\ CallerAt(c, "run.rest") /\ AwaitIdle(c, "run.resting", "run.stop")
  /\ UNCHANGED <<places, pool, runVars, st, outstanding, idle, flags, snap, expired, calls, covered, asked>>

RunRested(c) ==
  /\ CallerAt(c, "run.resting") /\ Goto(c, "run.stop") /\ Stay(<<>>)
  /\ UNCHANGED <<places, pool, runVars, count, flags, snap, expired, calls, covered, asked>>

\* _stop_workers: a sentinel per worker, and gather().
Dismiss(c, gathering) ==
  /\ registered # {} /\ snap' = [snap EXCEPT ![c] = registered] /\ stops' = stops + Cardinality(registered)
  /\ getters' = StillAsleep(Cardinality(registered)) /\ Leave(Woken(Cardinality(registered)))
  /\ Goto(c, gathering)
  /\ UNCHANGED <<registered, started>>

\* What follows it: leftover sentinels are drained.
Dismissed(c, next) ==
  /\ registered' = {} /\ stops' = 0 /\ started' = FALSE
  /\ getters' = StillAsleep(Cardinality(ready)) /\ Stay(Woken(Cardinality(ready)))
  /\ Goto(c, next) /\ UNCHANGED snap

RunStop(c) ==
  /\ CallerAt(c, "run.stop")
  /\ \/ (Mode = "finite" \/ timedOut) /\ Dismiss(c, "run.gather")
     \/ (Mode = "finite" \/ timedOut) /\ registered = {} /\ Dismissed(c, "run.end")
     \/ /\ Mode = "infinite" /\ ~timedOut /\ Goto(c, "run.end") /\ Stay(<<>>)
        /\ UNCHANGED <<stops, getters, registered, started, snap>>
  /\ UNCHANGED <<ready, timers, dormant, job, runVars, count, wake, accepting, halt, closed, running, timedOut, bound, crossed,
                 expired, calls, covered, asked>>

\* A worker's end reaches the callers that gather it.
Joined(w) ==
  /\ At(<<"joined", w>>)
  /\ snap' = [c \in Callers |-> snap[c] \ {w}]
  /\ Leave(SetToSeq({<<"caller", c>> : c \in {d \in Callers : snap[d] = {w}}}))
  /\ UNCHANGED <<places, pool, runVars, count, flags, pc, expired, calls, covered, asked>>

RunGathered(c) ==
  /\ CallerAt(c, "run.gather") /\ Dismissed(c, "run.end")
  /\ UNCHANGED <<ready, timers, dormant, job, runVars, count, wake, accepting, halt, closed, running, timedOut, bound, crossed,
                 expired, calls, covered, asked>>

RunEnd(c) ==
  /\ CallerAt(c, "run.end") /\ Goto(c, "idle") /\ Stay(<<>>)
  /\ timedOut' = FALSE /\ halt' = FALSE /\ running' = FALSE
  /\ UNCHANGED <<places, pool, runVars, count, wake, accepting, closed, started, bound, crossed, snap, expired, calls, covered, asked>>

(* join()                                                                  *)

Join(c) ==
  /\ MayCall(c, "join") /\ Called(c) /\ Goto(c, "join.rest")
  /\ \/ /\ started /\ Stay(<<>>)
        /\ UNCHANGED <<bound, crossed, halt, timedOut, started, timers, dormant, job, registered>>
     \/ ~started /\ ~closed /\ Start /\ Stay(StartItems)
  /\ UNCHANGED <<ready, stops, getters, runVars, count, wake, accepting, closed, running, snap, expired, covered, asked>>

JoinRest(c) ==
  /\ CallerAt(c, "join.rest") /\ AwaitIdle(c, "join.resting", "idle")
  /\ UNCHANGED <<places, pool, runVars, st, outstanding, idle, flags, snap, expired, calls, covered, asked>>

JoinRested(c) ==
  /\ CallerAt(c, "join.resting") /\ Goto(c, "idle") /\ Stay(<<>>)
  /\ UNCHANGED <<places, pool, runVars, count, flags, snap, expired, calls, covered, asked>>

(* shutdown(), cancel()                                                    *)

\* self._wake.set(): the run() it resumes.
WakeItems ==
  IF Mode = "infinite" /\ ~wake
    THEN SetToSeq({<<"caller", c>> : c \in {d \in Callers : pc[d] = "run.wait" /\ ~Posted(<<"caller", d>>)}})
    ELSE <<>>

ShutdownAgain(c) ==
  /\ MayCall(c, "shutdown") \/ MayCall(c, "force")
  /\ closed /\ Called(c)
  /\ wake' = TRUE /\ Stay(WakeItems)
  /\ UNCHANGED <<places, pool, runVars, count, accepting, halt, closed, started, running, timedOut, bound, crossed,
                 pc, snap, expired, covered, asked>>

\* Also what queue.cancel() makes a new coroutine do.
ForcedShutdown(c) ==
  /\ MayCall(c, "force") /\ ~closed /\ Called(c) /\ Goto(c, "down.stop")
  /\ accepting' = FALSE /\ Abort(TRUE, {}, "cancelled") /\ Stay(AbortItems(TRUE, {}))
  /\ covered' = [covered EXCEPT ![c] = {t \in Tasks : Live(t)}]
  /\ UNCHANGED <<job, registered, runners, rn, attempts, unborn, wake, closed, started, running, timedOut, bound, crossed,
                 snap, expired, asked>>

\* queue.cancel() before any loop is bound closes the queue at once.
CancelUnbound(c) ==
  /\ MayCall(c, "force") /\ ~bound /\ ~closed /\ Called(c)
  /\ accepting' = FALSE /\ closed' = TRUE /\ Abort(TRUE, {}, "cancelled") /\ Stay(AbortItems(TRUE, {}))
  /\ UNCHANGED <<job, registered, runners, rn, attempts, unborn, wake, started, running, timedOut, bound, crossed,
                 pc, snap, expired, covered, asked>>

Shutdown(c) ==
  /\ MayCall(c, "shutdown") /\ ~closed /\ Called(c) /\ Goto(c, "down.rest")
  /\ \/ outstanding > 0 /\ ~started /\ Start /\ Stay(StartItems)
     \/ /\ outstanding = 0 \/ started
        /\ Stay(<<>>) /\ UNCHANGED <<bound, crossed, halt, timedOut, started, timers, dormant, job, registered>>
  /\ accepting' = FALSE
  /\ covered' = [covered EXCEPT ![c] = {t \in Tasks : Live(t)}]
  /\ UNCHANGED <<ready, stops, getters, runVars, count, wake, closed, running, snap, expired, asked>>

\* Mutant: a graceful shutdown does not wait for the work.
DownRestless(c) ==
  /\ CallerAt(c, "down.rest") /\ Goto(c, "down.halt") /\ Stay(<<>>)
  /\ UNCHANGED <<places, pool, runVars, count, flags, snap, expired, calls, covered, asked>>

DownRest(c) ==
  /\ CallerAt(c, "down.rest") /\ AwaitIdle(c, "down.resting", "down.halt")
  /\ UNCHANGED <<places, pool, runVars, st, outstanding, idle, flags, snap, expired, calls, covered, asked>>

DownHalt(c) ==
  /\ CallerAt(c, "down.resting") \/ CallerAt(c, "down.halt")
  /\ Goto(c, "down.stop") /\ Stay(<<>>) /\ halt' = TRUE
  /\ UNCHANGED <<places, pool, runVars, count, wake, accepting, closed, started, running, timedOut, bound, crossed,
                 snap, expired, calls, covered, asked>>

DownStop(c) ==
  /\ \/ CallerAt(c, "down.stop") /\ Dismiss(c, "down.gather")
     \/ CallerAt(c, "down.stop") /\ registered = {} /\ Dismissed(c, "down.end")
     \/ CallerAt(c, "down.gather") /\ Dismissed(c, "down.end")
  /\ UNCHANGED <<ready, timers, dormant, job, runVars, count, wake, accepting, halt, closed, running, timedOut, bound, crossed,
                 expired, calls, covered, asked>>

\* Mutant: run() is not told.
DownEndQuietly(c) ==
  /\ CallerAt(c, "down.end") /\ Goto(c, "idle") /\ closed' = TRUE /\ Stay(<<>>)
  /\ UNCHANGED <<places, pool, runVars, count, wake, accepting, halt, started, running, timedOut, bound, crossed,
                 snap, expired, calls, covered, asked>>

DownEnd(c) ==
  /\ CallerAt(c, "down.end") /\ Goto(c, "idle")
  /\ closed' = TRUE /\ wake' = TRUE /\ Stay(WakeItems)
  /\ UNCHANGED <<places, pool, runVars, count, accepting, halt, started, running, timedOut, bound, crossed,
                 snap, expired, calls, covered, asked>>

(* reset()                                                                 *)

Reset(c) ==
  /\ MayCall(c, "reset") /\ Called(c) /\ ~running /\ registered = {}
  /\ LET cut == ready \cup timers \cup dormant
     IN st' = [t \in Tasks |-> IF t \in cut THEN "cancelled" ELSE st[t]]
  /\ ready' = {} /\ timers' = {} /\ dormant' = {} /\ stops' = 0
  /\ getters' = StillAsleep(stops) /\ Interrupt(Running, {})
  /\ outstanding' = 0 /\ idle' = TRUE /\ sleepers' = <<>>
  /\ Stay(Items("caller", sleepers) \o Woken(stops) \o Interrupted(Running))
  /\ wake' = FALSE /\ accepting' = TRUE /\ halt' = FALSE /\ closed' = FALSE
  /\ started' = FALSE /\ timedOut' = FALSE /\ bound' = FALSE
  /\ UNCHANGED <<job, registered, runners, rn, attempts, unborn, running, crossed, pc, snap, expired, covered, asked>>

-----------------------------------------------------------------------------

CallerStep(c) ==
  \/ Yield(c) \/ Run(c) \/ RunRefused(c) \/ RunWait(c) \/ ExpireHop(c) \/ RunWoken(c) \/ RunTimesOut(c)
  \/ RunRest(c) \/ RunRested(c) \/ RunStop(c) \/ RunGathered(c) \/ RunEnd(c)
  \/ Join(c) \/ JoinRest(c) \/ JoinRested(c)
  \/ ShutdownAgain(c) \/ ForcedShutdown(c) \/ CancelUnbound(c) \/ Shutdown(c)
  \/ DownRest(c) \/ DownHalt(c) \/ DownStop(c) \/ DownEnd(c) \/ Reset(c)
  \/ \E t \in Tasks : Submit(c, t) \/ Cancel(c, t)
WorkerStep(w) ==
  \/ Stop(w) \/ Sleep(w) \/ Back(w) \/ Joined(w)
  \/ \E t \in Tasks : Take(w, t)
RunnerStep(t) ==
  \/ Unborn(t) \/ Gate(t) \/ Begin(t) \/ Succeed(t) \/ Retry(t) \/ Fail(t) \/ FailAborts(t)
  \/ Cancelled(t) \/ Swallow(t) \/ EndRunner(t)
  \/ \E s \in Tasks : HookSubmits(t, s)
Callback(t) == Release(t) \/ ReleaseNone(t) \/ Commit(t) \/ CommitRefused(t) \/ CancelHop(t)

\* The loop runs its head.
Segment ==
  \/ \E c \in Callers : CallerStep(c)
  \/ \E w \in Workers : WorkerStep(w)
  \/ \E t \in Tasks : RunnerStep(t) \/ Callback(t)

Outside ==
  \/ \E t \in Tasks : Due(t) \/ Resume(t) \/ ThreadSubmits(t) \/ ThreadCancels(t)
  \/ \E c \in Callers : CallerWakes(c) \/ Expire(c)

Next == Segment \/ Outside

Spec == Init /\ [][Next]_vars

\* The loop runs what is due, timers expire, and what callables await comes.
Fairness == WF_vars(Segment) /\ \A t \in Tasks : WF_vars(Due(t)) /\ WF_vars(Resume(t))
FairSpec == Spec /\ Fairness

-----------------------------------------------------------------------------
(* Properties                                                              *)

\* Types; the count of outstanding tasks is never negative (_outstanding).
TasksOK ==
  /\ ready \subseteq Tasks /\ timers \subseteq Tasks /\ dormant \subseteq Tasks /\ unborn \subseteq Tasks
  /\ rn \in [Tasks -> {"none", "new", "gate", "call", "wait", "again", "hook", "over"}]
  /\ st \in [Tasks -> Final \cup {"new", "pending", "running", "retrying"}]
LoopOK ==
  /\ loop \in Seq(({"worker", "joined"} \X Workers) \cup ({"runner", "due", "commit", "cancel"} \X Tasks)
                  \cup ({"caller", "timeout"} \X Callers))
  /\ getters \in Seq(Workers) /\ registered \subseteq Workers /\ job \in [Workers -> Tasks \cup {"get", "none"}]
  /\ runners \in Seq(Tasks) /\ sleepers \in Seq(Callers) /\ stops \in Nat
TypeOK == TasksOK /\ LoopOK /\ outstanding \in Nat

\* "Always records a result" (_attempts): a runner that is over has recorded
\* one, whenever it was cancelled.
AlwaysRecords == \A t \in Tasks : rn[t] = "over" => ~Live(t)

\* _outstanding counts the tasks without a result, whatever path records it,
\* and _idle is set, with nobody asleep on it, exactly when there are none.
Accounting ==
  /\ outstanding = Cardinality({t \in Tasks : Live(t)})
  /\ idle = (outstanding = 0)
  /\ sleepers # <<>> => ~idle

\* A task without a result is in exactly one of the ready queue, the timers,
\* the dormant list and the runners, so that one abort, cancel or worker finds
\* it, and once; a finished one is in none. (A runner cancelled before its
\* first step is the exception AlwaysRecords is about.)
Places(t) ==
  <<t \in ready, t \in timers, t \in dormant, rn[t] \notin {"none", "hook", "over"}, t \in unborn>>
OneOwner ==
  \A t \in Tasks :
    IF Live(t) THEN Cardinality({i \in 1..5 : Places(t)[i]}) = 1
               ELSE \A i \in 1..4 : ~Places(t)[i]

\* A task or a sentinel is never left in the ready queue with all the workers
\* that could take it asleep in get(): each sleeper's wake-up is on its way.
Arriving == {w \in Workers : job[w] = "get" /\ Posted(<<"worker", w>>)}
NoLostWakeup == getters # <<>> => Cardinality(ready) + stops <= Cardinality(Arriving)

\* When run() or shutdown() returns, the tasks outstanding when it was called
\* all have their results, though a timeout, an abort, another call or a
\* retry intervened. (RunEnd, DownEnd; infinite run() returns when woken.)
Covers == \A c \in Callers : pc[c] \in {"run.end", "down.end"} => \A t \in covered[c] \ unborn : ~Live(t)

\* Nothing admitted before or during the shutdown outlives it.
ClosedMeansDone == closed => \A t \in Tasks \ unborn : ~Live(t)

\* While a caller waits for the workers to end no worker is created that it
\* does not wait for, unless nothing is left to do: it would be forgotten when
\* the others have ended. (_stop_workers; halt refuses the submissions, and
\* keeps the timers from making workers. A finite queue does not halt, so a
\* submission while its run() gathers breaks this.)
Queue == ready \cup timers \cup dormant
Spent == ~accepting /\ Queue = {}
Gather == {"run.gather", "down.gather"}
Gathering == \E c \in Callers : pc[c] \in Gather
Calm == Gathering /\ ~Spent => \A w \in Workers : job[w] = "none" => job'[w] = "none"
NoneLeftOut == [][Calm]_vars

\* A call returns: run() on a finite queue, join() and shutdown() always, run()
\* on an infinite one once the queue is closed. Not where a runner was
\* cancelled before its first step, nor where a call started workers while
\* another gathered them.
Serving(c) == Mode = "infinite" /\ pc[c] = "run.wait" /\ ~closed
CallsReturn == \A c \in Callers : pc[c] # "idle" ~> (pc[c] = "idle" \/ Serving(c) \/ unborn # {} \/ crossed)
=============================================================================
