------------------------- MODULE AsyncQueueProofs -------------------------
(***************************************************************************)
(* Proofs about AsyncQueue, for any tasks, callers, programs and options:  *)
(* a task has one owner, the count of outstanding tasks is right, and no   *)
(* wake-up of a worker is lost.                                            *)
(*                                                                         *)
(* Three invariants: OInv (a task is in one place), OInv with Accounting,  *)
(* and WInv, which adds to OInv what is needed of the event loop. Its      *)
(* lemmas are about parts of the loop: Carries(s, V) says that s resumes   *)
(* the workers V, each once. A lemma named ...Q says what an operation     *)
(* appends, ...W that it keeps the pool and loses no wake-up, ...O, ...A,  *)
(* ...Ran and ...Rest that it keeps OInv, Accounting, Ran and Rest.        *)
(***************************************************************************)
EXTENDS AsyncQueue, FiniteSetTheorems, SequenceTheorems, TLAPS

-----------------------------------------------------------------------------
(* One owner                                                               *)

\* The runner of t has begun and has no result.
Active(t) == rn[t] \notin {"none", "hook", "over"}

\* A task without a result is in one place, a finished one in none.
Single(t) ==
  LET r == t \in ready  m == t \in timers  d == t \in dormant  a == Active(t)  u == t \in unborn
  IN IF Live(t) THEN /\ r \/ m \/ d \/ a \/ u
                     /\ r => ~m /\ ~d /\ ~a /\ ~u
                     /\ m => ~d /\ ~a /\ ~u
                     /\ d => ~a /\ ~u
                     /\ a => ~u
                ELSE ~r /\ ~m /\ ~d /\ ~a /\ ~u

\* The inductive invariant.
OInv == TasksOK /\ \A t \in Tasks : Single(t)

\* Nothing is admitted at first.
LEMMA InitOInv == Init => OInv
BY DEF Init, OInv, TasksOK, Single, Live, Active, Final

\* Being in one place says that exactly one of the five is the case.
LEMMA OneIsSingle == OInv => OneOwner
<1> SUFFICES ASSUME OInv, NEW t \in Tasks
             PROVE  IF Live(t) THEN Cardinality({i \in 1..5 : Places(t)[i]}) = 1
                               ELSE \A i \in 1..4 : ~Places(t)[i]
  BY DEF OneOwner
<1>1. /\ Places(t)[1] <=> t \in ready
      /\ Places(t)[2] <=> t \in timers
      /\ Places(t)[3] <=> t \in dormant
      /\ Places(t)[4] <=> Active(t)
      /\ Places(t)[5] <=> t \in unborn
  BY DEF Places, Active
<1>2. Single(t)
  BY DEF OInv
<1>3. CASE Live(t)
  <2>1. \E j \in 1..5 : {i \in 1..5 : Places(t)[i]} = {j}
    <3>1. CASE t \in ready
      BY <1>1, <1>2, <1>3, <3>1 DEF Single
    <3>2. CASE t \in timers
      BY <1>1, <1>2, <1>3, <3>2 DEF Single
    <3>3. CASE t \in dormant
      BY <1>1, <1>2, <1>3, <3>3 DEF Single
    <3>4. CASE Active(t)
      BY <1>1, <1>2, <1>3, <3>4 DEF Single
    <3>5. CASE t \in unborn
      BY <1>1, <1>2, <1>3, <3>5 DEF Single
    <3> QED BY <1>2, <1>3, <3>1, <3>2, <3>3, <3>4, <3>5 DEF Single
  <2> QED BY <1>3, <2>1, FS_Singleton
<1>4. CASE ~Live(t)
  BY <1>1, <1>2, <1>4 DEF Single
<1> QED BY <1>3, <1>4

\* A step that leaves the places, the runners and the statuses alone keeps
\* the invariant.
LEMMA KeptO == ASSUME OInv, UNCHANGED <<ready, timers, dormant, rn, unborn, st>> PROVE OInv'
BY DEF OInv, TasksOK, Single, Live, Active, Final

\* An admitted task is put into one place (_enqueue).
LEMMA EnqueueO == ASSUME OInv, NEW t \in Tasks, Enqueue(t), UNCHANGED <<rn, unborn>> PROVE OInv'
<1>1. Single(t)
  BY DEF OInv
<1>2. TasksOK'
  BY DEF OInv, TasksOK, Enqueue
<1>3. Single(t)'
  BY <1>1 DEF OInv, TasksOK, Single, Live, Active, Final, Enqueue
<1>4. \A u \in Tasks \ {t} : Single(u)'
  BY DEF OInv, TasksOK, Single, Live, Active, Final, Enqueue
<1> QED BY <1>2, <1>3, <1>4 DEF OInv

\* The tasks recorded leave the place they were in, the others stay (_record).
LEMMA RecordO ==
  ASSUME OInv, NEW done, NEW o \in Final, NEW cut, Record(done, o, cut), unborn' = unborn,
         \A t \in done : Active(t) /\ ~Active(t)',
         cut \subseteq ready \cup timers \cup dormant,
         ready' = ready \ cut, timers' = timers \ cut, dormant' = dormant \ cut,
         \A t \in Tasks \ done : rn'[t] = rn[t],
         rn' \in [Tasks -> {"none", "new", "gate", "call", "wait", "again", "hook", "over"}]
  PROVE  OInv'
<1>1. TasksOK'
  BY DEF OInv, TasksOK, Record, Final
<1>2. \A t \in Tasks : t \in done \cup cut => Single(t)'
  BY DEF OInv, TasksOK, Single, Live, Active, Final, Record
<1>3. \A t \in Tasks : t \notin done \cup cut => Single(t)'
  BY DEF OInv, TasksOK, Single, Live, Active, Final, Record
<1> QED BY <1>1, <1>2, <1>3 DEF OInv

\* An abort takes what it cuts out of every place (_abort).
LEMMA AbortO ==
  ASSUME OInv, NEW kill, NEW done \in SUBSET Tasks, NEW o \in Final, Abort(kill, done, o), unborn' = unborn,
         \A t \in done : Active(t) /\ rn' = [rn EXCEPT ![t] = "hook"],
         done = {} => rn' = rn
  PROVE  OInv'
<1>1. rn' \in [Tasks -> {"none", "new", "gate", "call", "wait", "again", "hook", "over"}]
  BY DEF OInv, TasksOK
<1>2. \A t \in done : ~Active(t)'
  BY DEF OInv, TasksOK, Active
<1>3. \A t \in Tasks \ done : rn'[t] = rn[t]
  BY DEF OInv, TasksOK
<1>4. /\ ready' = ready \ CutBy(kill) /\ timers' = timers \ CutBy(kill) /\ dormant' = dormant \ CutBy(kill)
      /\ CutBy(kill) \subseteq ready \cup timers \cup dormant
  BY DEF Abort, CutBy
<1> QED BY <1>1, <1>2, <1>3, <1>4, RecordO DEF Abort

\* A task that is cancelled leaves its place, or stays with its runner
\* (_cancel_local).
LEMMA CancelLocalO == ASSUME OInv, NEW t \in Tasks, CancelLocal(t), UNCHANGED <<rn, unborn>> PROVE OInv'
<1>1. CASE t \in Running
  BY <1>1, KeptO DEF CancelLocal, places, count
<1>2. CASE t \notin Running
  <2> DEFINE cut == {t} \cap (ready \cup timers \cup dormant)
  <2>1. /\ Record({}, "cancelled", cut)
        /\ ready' = ready \ cut /\ timers' = timers \ cut /\ dormant' = dormant \ cut
    BY <1>2 DEF CancelLocal
  <2>2. cut \subseteq ready \cup timers \cup dormant
    OBVIOUS
  <2>3. rn' \in [Tasks -> {"none", "new", "gate", "call", "wait", "again", "hook", "over"}]
    BY DEF OInv, TasksOK
  <2> HIDE DEF cut
  <2> QED BY <2>1, <2>2, <2>3, RecordO DEF Final
<1> QED BY <1>1, <1>2

\* A runner that has its result is no owner any more.
LEMMA EndO ==
  ASSUME OInv, NEW t \in Tasks, Active(t), NEW o \in Final, Record({t}, o, {}), rn' = [rn EXCEPT ![t] = "hook"],
         UNCHANGED <<ready, timers, dormant, unborn>>
  PROVE  OInv'
<1>1. rn' \in [Tasks -> {"none", "new", "gate", "call", "wait", "again", "hook", "over"}]
  BY DEF OInv, TasksOK
<1>2. ~Active(t)' /\ \A u \in Tasks \ {t} : rn'[u] = rn[u]
  BY DEF OInv, TasksOK, Active
<1> QED BY <1>1, <1>2, RecordO

\* A runner that begins, sleeps or retries stays the owner of its task.
LEMMA GoesOnO ==
  ASSUME OInv, NEW t \in Tasks, Active(t), NEW where \in {"gate", "call", "wait", "again"},
         rn' = [rn EXCEPT ![t] = where], UNCHANGED <<ready, timers, dormant, unborn>>,
         st' = st \/ st' = [st EXCEPT ![t] = "running"] \/ st' = [st EXCEPT ![t] = "retrying"]
  PROVE  OInv'
<1>0. TasksOK'
  BY DEF OInv, TasksOK
<1>1. Single(t)'
  BY DEF OInv, TasksOK, Single, Live, Active, Final
<1>2. \A u \in Tasks \ {t} : Single(u)'
  BY DEF OInv, TasksOK, Single, Live, Active, Final
<1> QED BY <1>0, <1>1, <1>2 DEF OInv

\* The steps of a runner keep the invariant (_attempts, _execute).
LEMMA RunnerO == ASSUME OInv, NEW t \in Tasks, RunnerStep(t) PROVE OInv'
<1>1. CASE Unborn(t)
  <2>1. Active(t)
    BY <1>1 DEF Unborn, AtRunner, Active
  <2>2. TasksOK'
    BY <1>1 DEF Unborn, OInv, TasksOK, places, count
  <2>3. \A u \in Tasks : Single(u)'
    BY <1>1, <2>1 DEF Unborn, OInv, TasksOK, Single, Live, Active, Final, places, count
  <2> QED BY <2>2, <2>3 DEF OInv
<1>2. CASE Gate(t)
  BY <1>2, GoesOnO DEF Gate, AtRunner, Active, places, count
<1>3. CASE Begin(t)
  BY <1>3, GoesOnO DEF Begin, AtRunner, Active, places
<1>4. CASE Succeed(t) \/ Fail(t) \/ Cancelled(t)
  <2>1. Active(t)
    BY <1>4 DEF Succeed, Fail, Cancelled, AtRunner, Active
  <2>2. \E o \in Final : Record({t}, o, {})
    BY <1>4 DEF Succeed, Fail, Cancelled, Final
  <2> QED BY <1>4, <2>1, <2>2, EndO DEF Succeed, Fail, Cancelled, places
<1>5. CASE Retry(t)
  <2>1. Active(t)
    BY <1>5 DEF Retry, AtRunner, Active
  <2> QED BY <1>5, <2>1, GoesOnO DEF Retry, places
<1>6. CASE FailAborts(t)
  <2>1. Active(t)
    BY <1>6 DEF FailAborts, AtRunner, Active
  <2>2. (\E kill : Abort(kill, {t}, "failed")) /\ rn' = [rn EXCEPT ![t] = "hook"] /\ unborn' = unborn
    BY <1>6 DEF FailAborts
  <2>3. {t} \in SUBSET Tasks /\ {t} # {} /\ \A u \in {t} : Active(u) /\ rn' = [rn EXCEPT ![u] = "hook"]
    BY <2>1, <2>2
  <2>4. "failed" \in Final
    BY DEF Final
  <2> QED BY <2>2, <2>3, <2>4, AbortO
<1>7. CASE Swallow(t)
  BY <1>7, KeptO DEF Swallow, places, count
<1>8. ASSUME rn' = [rn EXCEPT ![t] = "over"], AtRunner(t, {"hook"}), unborn' = unborn, OInv,
             NEW s \in Tasks, Enqueue(s) \/ UNCHANGED <<ready, timers, dormant, st>>
      PROVE  OInv'
  <2>0. ~Active(t) /\ ~Active(t)' /\ \A u \in Tasks : Active(u)' <=> Active(u)
    BY <1>8 DEF AtRunner, Active, OInv, TasksOK
  <2>1. CASE Enqueue(s)
    <3>1. TasksOK'
      BY <1>8, <2>1 DEF OInv, TasksOK, Enqueue
    <3>2. Single(s)'
      BY <1>8, <2>0, <2>1 DEF OInv, TasksOK, Single, Live, Final, Enqueue
    <3>3. \A u \in Tasks \ {s} : Single(u)'
      BY <1>8, <2>0, <2>1 DEF OInv, TasksOK, Single, Live, Final, Enqueue
    <3> QED BY <3>1, <3>2, <3>3 DEF OInv
  <2>2. CASE UNCHANGED <<ready, timers, dormant, st>>
    <3>1. TasksOK'
      BY <1>8, <2>2 DEF OInv, TasksOK
    <3>2. \A u \in Tasks : Single(u)'
      BY <1>8, <2>0, <2>2 DEF OInv, Single, Live, Final
    <3> QED BY <3>1, <3>2 DEF OInv
  <2> QED BY <1>8, <2>1, <2>2
<1>9. CASE \E s \in Tasks : HookSubmits(t, s)
  BY <1>8, <1>9 DEF HookSubmits
<1>10. CASE EndRunner(t)
  BY <1>8, <1>10 DEF EndRunner, places, count
<1> QED BY <1>1, <1>2, <1>3, <1>4, <1>5, <1>6, <1>7, <1>9, <1>10 DEF RunnerStep

\* The steps of a worker keep it: a task that is taken moves to its runner,
\* or is recorded (_worker).
LEMMA WorkerO == ASSUME OInv, NEW w \in Workers, WorkerStep(w) PROVE OInv'
<1>1. ASSUME NEW t \in Tasks, Take(w, t)
      PROVE  OInv'
  <2>1. CASE halt /\ t \notin MustComplete
    <3>1. Record({}, "cancelled", {t}) \/ Record({t}, "cancelled", {})
      BY <1>1, <2>1 DEF Take
    <3>2. TasksOK'
      BY <1>1, <2>1 DEF Take, Record, OInv, TasksOK, Final
    <3>3. \A u \in Tasks : Single(u)'
      BY <1>1, <2>1 DEF Take, Record, OInv, TasksOK, Final, Single, Live, Active
    <3> QED BY <3>2, <3>3 DEF OInv
  <2>2. CASE ~(halt /\ t \notin MustComplete)
    <3>1. /\ t \in ready /\ ready' = ready \ {t} /\ rn' = [rn EXCEPT ![t] = "new"]
          /\ UNCHANGED <<timers, dormant, unborn, st>>
      BY <1>1, <2>2 DEF Take, count
    <3>2. TasksOK'
      BY <3>1 DEF OInv, TasksOK
    <3>3. Single(t)'
      BY <3>1 DEF OInv, TasksOK, Single, Live, Active, Final
    <3>4. \A u \in Tasks \ {t} : Single(u)'
      BY <3>1 DEF OInv, TasksOK, Single, Live, Active, Final
    <3> QED BY <3>2, <3>3, <3>4 DEF OInv
  <2> QED BY <2>1, <2>2
<1>2. CASE Stop(w) \/ Sleep(w) \/ Back(w) \/ Joined(w)
  BY <1>2, KeptO DEF Stop, Sleep, Back, Joined, places, runVars, count
<1> QED BY <1>1, <1>2 DEF WorkerStep

\* The callbacks of the loop keep it: a timer moves a task to the ready queue
\* (_release), a commit admits one, a cancellation takes one away.
LEMMA CallbackO == ASSUME OInv, NEW t \in Tasks, Callback(t) PROVE OInv'
<1>1. CASE Release(t)
  <2>1. /\ t \in timers /\ timers' = timers \ {t} /\ ready' = ready \cup {t}
        /\ UNCHANGED <<dormant, rn, unborn, st>>
    BY <1>1 DEF Release, runVars, count
  <2>2. TasksOK'
    BY <2>1 DEF OInv, TasksOK
  <2>3. \A u \in Tasks : Single(u)'
    BY <2>1 DEF OInv, Single, Live, Active, Final
  <2> QED BY <2>2, <2>3 DEF OInv
<1>2. CASE ReleaseNone(t) \/ CommitRefused(t)
  BY <1>2, KeptO DEF ReleaseNone, CommitRefused, places, runVars, count
<1>3. CASE Commit(t)
  BY <1>3, EnqueueO DEF Commit, runVars
<1>4. CASE CancelHop(t)
  BY <1>4, CancelLocalO DEF CancelHop
<1> QED BY <1>1, <1>2, <1>3, <1>4 DEF Callback

\* start() arms the dormant tasks.
LEMMA StartO == ASSUME OInv, UNCHANGED <<ready, rn, unborn, st>>, 
                       Start \/ UNCHANGED <<timers, dormant>>  PROVE OInv'
<1>1. timers' \cup dormant' = timers \cup dormant /\ (dormant' = {} \/ UNCHANGED <<timers, dormant>>)
  BY DEF Start
<1>2. TasksOK'
  BY <1>1 DEF OInv, TasksOK
<1>3. \A u \in Tasks : Single(u)'
  BY <1>1 DEF OInv, Single, Live, Active, Final
<1> QED BY <1>2, <1>3 DEF OInv

\* The calls of a coroutine keep the invariant.
LEMMA CallerO == ASSUME OInv, NEW c \in Callers, CallerStep(c) PROVE OInv'
<1>1. CASE Run(c) \/ Join(c) \/ Shutdown(c)
  <2>1. UNCHANGED <<ready, rn, unborn, st>> /\ (Start \/ UNCHANGED <<timers, dormant>>)
    BY <1>1 DEF Run, Join, Shutdown, runVars, count
  <2> QED BY <2>1, StartO
<1>2. CASE RunTimesOut(c) \/ ForcedShutdown(c) \/ CancelUnbound(c)
  <2>1. (\E kill : Abort(kill, {}, "cancelled")) /\ UNCHANGED <<rn, unborn>>
    BY <1>2 DEF RunTimesOut, ForcedShutdown, CancelUnbound
  <2> QED BY <2>1, AbortO DEF Final
<1>3. CASE Reset(c)
  <2>1. TasksOK'
    BY <1>3 DEF Reset, OInv, TasksOK, Final
  <2>2. \A u \in Tasks : Single(u)'
    BY <1>3 DEF Reset, OInv, TasksOK, Single, Live, Active, Final
  <2> QED BY <2>1, <2>2 DEF OInv
<1>4. ASSUME NEW t \in Tasks, Submit(c, t) \/ Cancel(c, t)
      PROVE  OInv'
  BY <1>4, EnqueueO, CancelLocalO DEF Submit, Cancel, runVars
<1>5. CASE Yield(c) \/ RunRefused(c) \/ RunWait(c) \/ ExpireHop(c) \/ RunWoken(c) \/ RunRest(c) \/ RunRested(c)
           \/ RunStop(c) \/ RunGathered(c) \/ RunEnd(c) \/ JoinRest(c) \/ JoinRested(c) \/ ShutdownAgain(c)
           \/ DownRest(c) \/ DownHalt(c) \/ DownStop(c) \/ DownEnd(c)
  <2>1. UNCHANGED <<ready, timers, dormant, rn, unborn, st>>
    BY <1>5 DEF Yield, RunRefused, RunWait, ExpireHop, RunWoken, RunRest, RunRested, RunStop, RunGathered, RunEnd,
       JoinRest, JoinRested, ShutdownAgain, DownRest, DownHalt, DownStop, DownEnd, places, runVars, count
  <2> QED BY <2>1, KeptO
<1> QED BY <1>1, <1>2, <1>3, <1>4, <1>5 DEF CallerStep

\* Every step keeps the invariant.
LEMMA StepO == OInv /\ [Next]_vars => OInv'
<1> SUFFICES ASSUME OInv, [Next]_vars
             PROVE  OInv'
  OBVIOUS
<1>1. CASE Segment
  BY <1>1, CallerO, WorkerO, RunnerO, CallbackO DEF Segment
<1>2. CASE Outside
  BY <1>2, KeptO DEF Outside, Due, Resume, ThreadSubmits, ThreadCancels, CallerWakes, Expire, places, runVars, count
<1>3. CASE UNCHANGED vars
  BY <1>3, KeptO DEF vars, places, runVars, count
<1> QED BY <1>1, <1>2, <1>3 DEF Next

\* Whatever coroutines, hooks, threads, timers and workers do, reset()
\* included: a task without a result is in one of the ready queue, the timers,
\* the dormant list and the runners, or died unborn; a finished one is in none.
THEOREM OneOwnerAlways == Spec => []OneOwner
BY InitOInv, StepO, OneIsSingle, PTL DEF Spec

-----------------------------------------------------------------------------
\* What _outstanding counts.
LiveTasks == {t \in Tasks : Live(t)}
\* No program calls reset().
NoReset == Program \in [Callers -> Seq(SUBSET {"submit", "cancel", "run", "join", "shutdown", "force"})]
Counted == calls \in [Callers -> Nat]

\* reset() finds the tasks without a result where it cancels them, none with a runner.
CleanReset == (\E c \in Callers : Reset(c)) => LiveTasks \subseteq ready \cup timers \cup dormant

\* There are finitely many tasks to count.
LEMMA LiveFinite == IsFiniteSet(LiveTasks) /\ Cardinality(LiveTasks) \in Nat
BY TasksAssumption, FS_Subset, FS_CardinalityType DEF LiveTasks

\* Recording tasks that are live counts them off (_record).
LEMMA RecordA ==
  ASSUME OInv, Accounting, NEW done, NEW o \in Final, NEW cut, done \cup cut \subseteq LiveTasks, Record(done, o, cut)
  PROVE  Accounting'
<1> DEFINE D == done \cup cut
<1>1. LiveTasks' = LiveTasks \ D
  BY DEF Record, LiveTasks, Live, Final, OInv, TasksOK
<1>2. LiveTasks \cap D = D
  OBVIOUS
<1>3. Cardinality(LiveTasks') = Cardinality(LiveTasks) - Cardinality(D)
  <2>1. Cardinality(LiveTasks \ D) = Cardinality(LiveTasks) - Cardinality(LiveTasks \cap D)
    BY LiveFinite, FS_Difference
  <2>2. Cardinality(LiveTasks') = Cardinality(LiveTasks \ D)
    BY <1>1
  <2>3. Cardinality(LiveTasks \cap D) = Cardinality(D)
    BY <1>2
  <2> QED BY <2>1, <2>2, <2>3
<1>4. /\ IsFiniteSet(D) /\ Cardinality(D) \in Nat
      /\ IsFiniteSet(LiveTasks \ D) /\ Cardinality(LiveTasks \ D) \in Nat
      /\ Cardinality(D) = 0 <=> D = {}
  BY LiveFinite, FS_Subset, FS_Difference, FS_CardinalityType, FS_EmptySet
<1>5. /\ outstanding' = outstanding - Cardinality(D)
      /\ idle' = (idle \/ (D # {} /\ outstanding' <= 0))
      /\ sleepers' = IF idle' THEN <<>> ELSE sleepers
  BY DEF Record
<1> HIDE DEF D
<1>6. outstanding = Cardinality(LiveTasks) /\ idle = (outstanding = 0) /\ (sleepers # <<>> => ~idle)
  BY DEF Accounting, LiveTasks
<1>7. outstanding' = Cardinality(LiveTasks') /\ outstanding' \in Nat /\ outstanding \in Nat
  BY <1>1, <1>3, <1>4, <1>5, <1>6, LiveFinite
<1>8. idle' = (outstanding' = 0)
  <2>1. CASE D = {}
    <3>1. Cardinality(D) = 0 /\ outstanding' = outstanding
      BY <1>4, <1>5, <1>7, <2>1
    <3> QED BY <1>5, <1>6, <2>1, <3>1
  <2>2. CASE D # {}
    <3>1. Cardinality(D) # 0 /\ outstanding # 0
      BY <1>4, <1>5, <1>7, <2>2
    <3>2. (outstanding' <= 0) = (outstanding' = 0)
      BY <1>7
    <3>3. idle = FALSE
      BY <1>6, <3>1
    <3> QED BY <1>5, <2>2, <3>2, <3>3
  <2> QED BY <2>1, <2>2
<1> QED BY <1>5, <1>7, <1>8 DEF Accounting, LiveTasks

\* A step that admits and records nothing keeps the count, and the event, so
\* long as nobody is put to sleep on an event that is set.
LEMMA SameA ==
  ASSUME Accounting, LiveTasks' = LiveTasks, UNCHANGED <<outstanding, idle>>, sleepers' # <<>> => ~idle
  PROVE  Accounting'
BY DEF Accounting, LiveTasks

\* An admission counts one more (_enqueue).
LEMMA EnqueueA == ASSUME OInv, Accounting, NEW t \in Tasks, Enqueue(t) PROVE Accounting'
<1>1. LiveTasks' = LiveTasks \cup {t} /\ t \notin LiveTasks
  BY DEF Enqueue, LiveTasks, Live, Final, OInv, TasksOK
<1>2. Cardinality(LiveTasks') = Cardinality(LiveTasks) + 1
  BY <1>1, LiveFinite, FS_AddElement
<1>3. outstanding' = outstanding + 1 /\ idle' = FALSE
  BY DEF Enqueue
<1>4. outstanding = Cardinality(LiveTasks)
  BY DEF Accounting, LiveTasks
<1>5. outstanding' = Cardinality(LiveTasks') /\ outstanding' # 0
  BY <1>2, <1>3, <1>4, LiveFinite
<1> QED BY <1>3, <1>5 DEF Accounting, LiveTasks

\* What waits to be taken has no result, so recording it counts it off once.
LEMMA QueuedLive == ASSUME OInv PROVE ready \cup timers \cup dormant \subseteq LiveTasks
BY DEF OInv, TasksOK, Single, LiveTasks

\* The steps of a runner keep the count right.
LEMMA RunnerA == ASSUME OInv, Accounting, NEW t \in Tasks, RunnerStep(t) PROVE Accounting'
<1>1. CASE Unborn(t) \/ Gate(t) \/ Swallow(t) \/ EndRunner(t)
  <2>1. UNCHANGED count
    BY <1>1 DEF Unborn, Gate, Swallow, EndRunner
  <2> QED BY <2>1, SameA DEF count, LiveTasks, Live, Accounting
<1>2. CASE Begin(t) \/ Retry(t)
  <2>1. Active(t)
    BY <1>2 DEF Begin, Retry, AtRunner, Active
  <2>2. t \in LiveTasks
    BY <2>1 DEF OInv, Single, LiveTasks
  <2>3. \E s \in {"running", "retrying"} : st' = [st EXCEPT ![t] = s]
    BY <1>2 DEF Begin, Retry
  <2>4. LiveTasks' = LiveTasks
    BY <2>2, <2>3 DEF LiveTasks, Live, Final, OInv, TasksOK
  <2>5. UNCHANGED <<outstanding, idle, sleepers>>
    BY <1>2 DEF Begin, Retry
  <2> QED BY <2>4, <2>5, SameA DEF Accounting
<1>3. CASE Succeed(t) \/ Fail(t) \/ Cancelled(t)
  <2>1. Active(t)
    BY <1>3 DEF Succeed, Fail, Cancelled, AtRunner, Active
  <2>2. {t} \cup {} \subseteq LiveTasks
    BY <2>1 DEF OInv, Single, LiveTasks
  <2>3. \E o \in Final : Record({t}, o, {})
    BY <1>3 DEF Succeed, Fail, Cancelled, Final
  <2> QED BY <2>2, <2>3, RecordA
<1>4. CASE FailAborts(t)
  <2>1. Active(t)
    BY <1>4 DEF FailAborts, AtRunner, Active
  <2>2. t \in LiveTasks
    BY <2>1 DEF OInv, Single, LiveTasks
  <2>3. {t} \cup CutBy(FALSE) \subseteq LiveTasks
    BY <2>2, QueuedLive DEF CutBy
  <2>4. Record({t}, "failed", CutBy(FALSE))
    BY <1>4 DEF FailAborts, Abort
  <2> QED BY <2>3, <2>4, RecordA DEF Final
<1>5. CASE \E s \in Tasks : HookSubmits(t, s)
  BY <1>5, EnqueueA DEF HookSubmits
<1> QED BY <1>1, <1>2, <1>3, <1>4, <1>5 DEF RunnerStep

\* A cancellation records at most the one task, and only if it is queued.
LEMMA CancelLocalA == ASSUME OInv, Accounting, NEW t \in Tasks, CancelLocal(t) PROVE Accounting'
<1>1. CASE t \in Running
  <2>1. UNCHANGED count
    BY <1>1 DEF CancelLocal
  <2> QED BY <2>1, SameA DEF count, LiveTasks, Live, Accounting
<1>2. CASE t \notin Running
  <2>1. Record({}, "cancelled", {t} \cap (ready \cup timers \cup dormant))
    BY <1>2 DEF CancelLocal
  <2>2. {} \cup ({t} \cap (ready \cup timers \cup dormant)) \subseteq LiveTasks
    BY QueuedLive
  <2> QED BY <2>1, <2>2, RecordA DEF Final
<1> QED BY <1>1, <1>2

\* The steps of a worker keep the count right.
LEMMA WorkerA == ASSUME OInv, Accounting, NEW w \in Workers, WorkerStep(w) PROVE Accounting'
<1>1. ASSUME NEW t \in Tasks, Take(w, t)
      PROVE  Accounting'
  <2>1. CASE halt /\ t \notin MustComplete
    <3>1. Record({t}, "cancelled", {})
      BY <1>1, <2>1 DEF Take
    <3>2. {t} \cup {} \subseteq LiveTasks
      BY <1>1, QueuedLive DEF Take
    <3> QED BY <3>1, <3>2, RecordA DEF Final
  <2>2. CASE ~(halt /\ t \notin MustComplete)
    <3>1. UNCHANGED count
      BY <1>1, <2>2 DEF Take
    <3> QED BY <3>1, SameA DEF count, LiveTasks, Live, Accounting
  <2> QED BY <2>1, <2>2
<1>2. CASE Stop(w) \/ Sleep(w) \/ Back(w) \/ Joined(w)
  <2>1. UNCHANGED count
    BY <1>2 DEF Stop, Sleep, Back, Joined
  <2> QED BY <2>1, SameA DEF count, LiveTasks, Live, Accounting
<1> QED BY <1>1, <1>2 DEF WorkerStep

\* The callbacks of the loop keep the count right.
LEMMA CallbackA == ASSUME OInv, Accounting, NEW t \in Tasks, Callback(t) PROVE Accounting'
<1>1. CASE CancelHop(t) \/ Commit(t)
  BY <1>1, CancelLocalA, EnqueueA DEF CancelHop, Commit
<1>2. CASE Release(t) \/ ReleaseNone(t) \/ CommitRefused(t)
  <2>1. UNCHANGED count
    BY <1>2 DEF Release, ReleaseNone, CommitRefused
  <2> QED BY <2>1, SameA DEF count, LiveTasks, Live, Accounting
<1> QED BY <1>1, <1>2 DEF Callback

\* The calls keep the count right; reset(), if it finds nobody running.
LEMMA CallerA == ASSUME OInv, Accounting, CleanReset, NEW c \in Callers, CallerStep(c) PROVE Accounting'
<1>1. CASE RunTimesOut(c) \/ ForcedShutdown(c) \/ CancelUnbound(c)
  <2>1. \E kill : Abort(kill, {}, "cancelled")
    BY <1>1 DEF RunTimesOut, ForcedShutdown, CancelUnbound
  <2>2. \E kill : Record({}, "cancelled", CutBy(kill)) /\ {} \cup CutBy(kill) \subseteq LiveTasks
    BY <2>1, QueuedLive DEF Abort, CutBy
  <2> QED BY <2>2, RecordA DEF Final
<1>2. ASSUME NEW t \in Tasks, Submit(c, t) \/ Cancel(c, t)
      PROVE  Accounting'
  BY <1>2, EnqueueA, CancelLocalA DEF Submit, Cancel
<1>3. CASE RunWait(c) \/ RunRest(c) \/ JoinRest(c) \/ DownRest(c)
  <2>1. UNCHANGED <<st, outstanding, idle>> /\ (sleepers' = sleepers \/ ~idle)
    BY <1>3 DEF RunWait, RunRest, JoinRest, DownRest, AwaitIdle
  <2> QED BY <2>1, SameA DEF LiveTasks, Live, Accounting
<1>4. CASE ExpireHop(c)
  <2>1. UNCHANGED <<st, outstanding, idle>> /\ (sleepers' = sleepers \/ sleepers' = Without(sleepers, c))
    BY <1>4 DEF ExpireHop
  <2>2. Without(<<>>, c) = <<>>
    BY DEF Without
  <2> QED BY <2>1, <2>2, SameA DEF LiveTasks, Live, Accounting
<1>5. CASE Reset(c)
  <2>1. LiveTasks \subseteq ready \cup timers \cup dormant
    BY <1>5 DEF CleanReset
  <2>2. LiveTasks' = {}
    BY <1>5, <2>1 DEF Reset, LiveTasks, Live, Final, OInv, TasksOK
  <2>3. Cardinality(LiveTasks') = 0
    BY <2>2, FS_EmptySet
  <2>4. outstanding' = 0 /\ idle' = TRUE /\ sleepers' = <<>>
    BY <1>5 DEF Reset
  <2> QED BY <2>3, <2>4 DEF Accounting, LiveTasks
<1>6. CASE Yield(c) \/ Run(c) \/ RunRefused(c) \/ RunWoken(c) \/ RunRested(c)
           \/ RunStop(c) \/ RunGathered(c) \/ RunEnd(c) \/ Join(c) \/ JoinRested(c) \/ ShutdownAgain(c)
           \/ Shutdown(c) \/ DownHalt(c) \/ DownStop(c) \/ DownEnd(c)
  <2>1. UNCHANGED count
    BY <1>6 DEF Yield, Run, RunRefused, RunWoken, RunRested, RunStop, RunGathered, RunEnd, Join, JoinRested,
       ShutdownAgain, Shutdown, DownHalt, DownStop, DownEnd
  <2> QED BY <2>1, SameA DEF count, LiveTasks, Live, Accounting
<1> QED BY <1>1, <1>2, <1>3, <1>4, <1>5, <1>6 DEF CallerStep

\* The number of calls a coroutine has made is a number.
LEMMA CountedKept == ASSUME Counted, [Next]_vars PROVE Counted'
<1>1. calls' = calls \/ \E c \in Callers : calls' = [calls EXCEPT ![c] = @ + 1]
  <2>1. ASSUME NEW c \in Callers, CallerStep(c)
        PROVE  calls' = calls \/ calls' = [calls EXCEPT ![c] = @ + 1]
    BY <2>1 DEF CallerStep, Yield, Run, RunRefused, RunWait, ExpireHop, RunWoken, RunTimesOut, RunRest, RunRested, RunStop,
       RunGathered, RunEnd, Join, JoinRest, JoinRested, ShutdownAgain, ForcedShutdown, CancelUnbound, Shutdown, DownRest,
       DownHalt, DownStop, DownEnd, Reset, Submit, Cancel, Called, callVars
  <2>2. ASSUME \/ \E w \in Workers : WorkerStep(w)
               \/ \E t \in Tasks : RunnerStep(t) \/ Callback(t)
        PROVE  calls' = calls
    BY <2>2 DEF WorkerStep, Take, Stop, Sleep, Back, Joined, RunnerStep, Unborn, Gate, Begin, Succeed, Retry, Fail, FailAborts,
       Cancelled, Swallow, EndRunner, HookSubmits, Callback, Release, ReleaseNone, Commit, CommitRefused, CancelHop, callVars
  <2>3. ASSUME Outside \/ UNCHANGED vars
        PROVE  calls' = calls
    BY <2>3 DEF Outside, Due, Resume, ThreadSubmits, ThreadCancels, CallerWakes, Expire, callVars, vars
  <2> QED BY <2>1, <2>2, <2>3 DEF Next, Segment
<1> QED BY <1>1 DEF Counted

\* Every step keeps the count right.
LEMMA StepA == ASSUME OInv, Accounting, [CleanReset]_vars, [Next]_vars PROVE Accounting'
<1>1. CASE Segment /\ CleanReset
  BY <1>1, CallerA, WorkerA, RunnerA, CallbackA DEF Segment
<1>2. CASE Outside \/ UNCHANGED vars
  <2>1. UNCHANGED count
    BY <1>2 DEF Outside, Due, Resume, ThreadSubmits, ThreadCancels, CallerWakes, Expire, vars
  <2> QED BY <2>1, SameA DEF count, LiveTasks, Live, Accounting
<1> QED BY <1>1, <1>2 DEF Next

\* Nothing is outstanding at first.
LEMMA InitA == Init => Accounting
<1> SUFFICES ASSUME Init PROVE Accounting
  OBVIOUS
<1>1. {t \in Tasks : Live(t)} = {}
  BY DEF Init, Live
<1>2. Cardinality({t \in Tasks : Live(t)}) = 0
  BY <1>1, FS_EmptySet
<1> QED BY <1>2 DEF Init, Accounting

\* _outstanding is the number of tasks without a result, _idle is set exactly
\* when there are none, and nobody sleeps on it then; so long as reset(), which
\* sets the counter to zero, does not meet a task that has a runner.
THEOREM AccountingAlways == Spec /\ [][CleanReset]_vars => []Accounting
<1>1. (OInv /\ Accounting) /\ [Next]_vars /\ [CleanReset]_vars => (OInv /\ Accounting)'
  BY StepO, StepA
<1> QED BY InitOInv, InitA, <1>1, PTL DEF Spec

\* A queue that is never reset meets that condition.
THEOREM NeverReset == ASSUME NoReset PROVE Spec => [][CleanReset]_vars
<1>1. Init => Counted
  BY DEF Init, Counted
<1>2. ASSUME Counted, NEW c \in Callers PROVE ~Reset(c)
  <2>1. Program[c] \in Seq(SUBSET {"submit", "cancel", "run", "join", "shutdown", "force"}) /\ calls[c] \in Nat
    BY <1>2 DEF NoReset, Counted
  <2>2. CASE Reset(c)
    <3>1. calls[c] + 1 \in 1..Len(Program[c]) /\ "reset" \in Program[c][calls[c] + 1]
      BY <2>1, <2>2 DEF Reset, MayCall, HasCall
    <3>2. Program[c][calls[c] + 1] \subseteq {"submit", "cancel", "run", "join", "shutdown", "force"}
      BY <2>1, <3>1
    <3> QED BY <3>1, <3>2
  <2> QED BY <2>2
<1>3. Counted /\ [Next]_vars => Counted' /\ [CleanReset]_vars
  BY <1>2, CountedKept DEF CleanReset
<1> QED BY <1>1, <1>3, PTL DEF Spec

-----------------------------------------------------------------------------
(* Sequences                                                               *)

\* A set of positions has an increasing enumeration, or there is a least
\* length for which one has none.
LEMMA Enumerated == \A n \in Nat : \A I \in SUBSET (1..n) : Increasing(I) # {}
<1> DEFINE Bad == {n \in Nat : \E I \in SUBSET (1..n) : Increasing(I) = {}}
<1>1. SUFFICES ASSUME Bad # {} PROVE FALSE
  OBVIOUS
<1>2. PICK n \in Bad : \A m \in Bad : ~(m < n)
  <2>1. PICK x \in Bad : \A y \in Bad : ~(<<y, x>> \in OpToRel(<, Nat))
    BY <1>1, NatLessThanWellFounded, WFMin
  <2>2. \A y \in Nat : y < x => <<y, x>> \in OpToRel(<, Nat)
    BY DEF OpToRel
  <2> QED BY <2>1, <2>2
<1>3. PICK I \in SUBSET (1..n) : Increasing(I) = {}
  OBVIOUS
<1>4. n \in Nat
  OBVIOUS
<1> HIDE DEF Bad
<1>5. CASE n = 0
  <2>0. I = {}
    BY <1>5
  <2>1. Cardinality(I) = 0
    BY <2>0, FS_EmptySet
  <2>2. [i \in {} |-> 0] \in Increasing(I)
    BY <2>0, <2>1 DEF Increasing
  <2> QED BY <1>3, <2>2
<1>6. CASE n # 0
  <2>1. n - 1 \in Nat /\ n - 1 < n /\ n - 1 \notin Bad
    BY <1>2, <1>4, <1>6
  <2>2. \A J \in SUBSET (1..(n - 1)) : Increasing(J) # {}
    BY <2>1 DEF Bad
  <2>3. n \in I
    BY <1>3, <1>4, <2>2
  <2> DEFINE J == I \ {n}
  <2>4. J \in SUBSET (1..(n - 1))
    BY <1>4
  <2>5. IsFiniteSet(I) /\ IsFiniteSet(J) /\ Cardinality(I) = Cardinality(J) + 1 /\ Cardinality(J) \in Nat
    <3>1. IsFiniteSet(1..n)
      BY <1>4, FS_Interval
    <3>2. IsFiniteSet(I) /\ IsFiniteSet(J)
      BY <3>1, FS_Subset
    <3>3. Cardinality(J) = Cardinality(I) - 1
      BY <2>3, <3>2, FS_RemoveElement
    <3>4. Cardinality(I) \in Nat /\ Cardinality(J) \in Nat
      BY <3>2, FS_CardinalityType
    <3> QED BY <3>2, <3>3, <3>4
  <2>6. PICK g \in Increasing(J) : TRUE
    BY <2>2, <2>4
  <2> HIDE DEF J
  <2>7. g \in [1..Cardinality(J) -> J] /\ \A i, j \in 1..Cardinality(J) : i < j => g[i] < g[j]
    BY <2>6 DEF Increasing
  <2> DEFINE k == Cardinality(J)
             f == [i \in 1..(k + 1) |-> IF i = k + 1 THEN n ELSE g[i]]
  <2>8. ASSUME NEW i \in 1..k PROVE g[i] \in I /\ g[i] \in Nat /\ g[i] < n
    <3>1. g[i] \in J
      BY <2>7
    <3>2. g[i] \in I /\ g[i] \in 1..(n - 1)
      BY <2>4, <3>1 DEF J
    <3> QED BY <1>4, <3>2
  <2>9. f \in [1..(k + 1) -> I]
    BY <2>3, <2>5, <2>8
  <2>10. \A i, j \in 1..(k + 1) : i < j => f[i] < f[j]
    BY <2>5, <2>7, <2>8
  <2>11. f \in Increasing(I)
    BY <2>5, <2>9, <2>10 DEF Increasing
  <2> QED BY <1>3, <2>11
<1> QED BY <1>5, <1>6

\* Only keeps elements of the sequence that are in the set, each as often as
\* it was there.
LEMMA OnlyTyped ==
  ASSUME NEW S, NEW s \in Seq(S), NEW K
  PROVE  /\ Only(s, K) \in Seq(S \cap K)
         /\ (\A i, j \in 1..Len(s) : s[i] = s[j] => i = j) =>
              \A i, j \in 1..Len(Only(s, K)) : Only(s, K)[i] = Only(s, K)[j] => i = j
<1> DEFINE I == {i \in 1..Len(s) : s[i] \in K}
           f == CHOOSE f \in Increasing(I) : TRUE
<1>1. Len(s) \in Nat /\ I \in SUBSET (1..Len(s))
  OBVIOUS
<1>2. f \in Increasing(I)
  <2> HIDE DEF I
  <2>1. Increasing(I) # {}
    BY <1>1, Enumerated
  <2> QED BY <2>1
<1>3. IsFiniteSet(I) /\ Cardinality(I) \in Nat
  <2>1. IsFiniteSet(1..Len(s))
    BY <1>1, FS_Interval
  <2> QED BY <1>1, <2>1, FS_Subset, FS_CardinalityType
<1>4. Only(s, K) = [i \in 1..Cardinality(I) |-> s[f[i]]]
  BY DEF Only
<1> HIDE DEF f
<1>5. f \in [1..Cardinality(I) -> I] /\ \A i, j \in 1..Cardinality(I) : i < j => f[i] < f[j]
  BY <1>2 DEF Increasing
<1>6. \A i \in 1..Cardinality(I) : s[f[i]] \in S \cap K
  BY <1>5
<1>7. Only(s, K) \in Seq(S \cap K) /\ Len(Only(s, K)) = Cardinality(I)
  BY <1>3, <1>4, <1>6
<1>8. ASSUME \A i, j \in 1..Len(s) : s[i] = s[j] => i = j,
             NEW i \in 1..Cardinality(I), NEW j \in 1..Cardinality(I), s[f[i]] = s[f[j]]
      PROVE  i = j
  <2> HIDE DEF I
  <2>1. f[i] \in 1..Len(s) /\ f[j] \in 1..Len(s)
    BY <1>1, <1>5
  <2>2. f[i] = f[j]
    BY <1>8, <2>1
  <2>3. ~(i < j) /\ ~(j < i)
    BY <1>1, <1>5, <2>1, <2>2
  <2>4. i \in Int /\ j \in Int
    BY <1>3
  <2> QED BY <2>3, <2>4
<1>9. \A i \in 1..Cardinality(I) : Only(s, K)[i] = s[f[i]]
  BY <1>4
<1> HIDE DEF I
<1> QED BY <1>7, <1>8, <1>9

\* Without has no element the sequence did not have.
LEMMA WithoutTyped ==
  ASSUME NEW S, NEW s \in Seq(S), NEW x
  PROVE  /\ Without(s, x) \in Seq(S)
         /\ \A i \in 1..Len(Without(s, x)) : \E j \in 1..Len(s) : Without(s, x)[i] = s[j]
<1>1. CASE \E i \in 1..Len(s) : s[i] = x
  <2>1. PICK k \in 1..Len(s) : Without(s, x) = SubSeq(s, 1, k - 1) \o SubSeq(s, k + 1, Len(s))
    BY <1>1 DEF Without, RemoveAt
  <2>2. SubSeq(s, 1, k - 1) \in Seq(S) /\ SubSeq(s, k + 1, Len(s)) \in Seq(S)
    BY SubSeqProperties
  <2>3. \A i \in 1..Len(SubSeq(s, 1, k - 1)) : SubSeq(s, 1, k - 1)[i] = s[i] /\ i \in 1..Len(s)
    BY SubSeqProperties
  <2>4. \A i \in 1..Len(SubSeq(s, k + 1, Len(s))) : SubSeq(s, k + 1, Len(s))[i] = s[i + k] /\ i + k \in 1..Len(s)
    BY SubSeqProperties
  <2> DEFINE a == SubSeq(s, 1, k - 1)  b == SubSeq(s, k + 1, Len(s))
  <2> HIDE DEF a, b
  <2>5. /\ a \in Seq(S) /\ b \in Seq(S) /\ Without(s, x) = a \o b
        /\ \A i \in 1..Len(a) : \E j \in 1..Len(s) : a[i] = s[j]
        /\ \A i \in 1..Len(b) : \E j \in 1..Len(s) : b[i] = s[j]
    BY <2>1, <2>2, <2>3, <2>4 DEF a, b
  <2>6. ASSUME NEW i \in 1..Len(a \o b) PROVE \E j \in 1..Len(s) : (a \o b)[i] = s[j]
    <3>1. /\ Len(a) \in Nat /\ Len(b) \in Nat /\ i \in 1..Len(a) + Len(b)
          /\ (a \o b)[i] = IF i <= Len(a) THEN a[i] ELSE b[i - Len(a)]
      BY <2>5, ConcatProperties
    <3>2. CASE i <= Len(a)
      <4>1. i \in 1..Len(a) /\ (a \o b)[i] = a[i]
        BY <3>1, <3>2
      <4> QED BY <2>5, <4>1
    <3>3. CASE ~(i <= Len(a))
      <4>1. i - Len(a) \in 1..Len(b) /\ (a \o b)[i] = b[i - Len(a)]
        BY <3>1, <3>3
      <4> QED BY <2>5, <4>1
    <3> QED BY <3>2, <3>3
  <2> QED BY <2>5, <2>6, ConcatProperties
<1>2. CASE ~\E i \in 1..Len(s) : s[i] = x
  BY <1>2 DEF Without
<1> QED BY <1>1, <1>2

\* A finite set as a sequence has each of its elements once.
LEMMA SetToSeqTyped ==
  ASSUME NEW T, IsFiniteSet(T)
  PROVE  /\ SetToSeq(T) \in Seq(T)
         /\ \A i, j \in 1..Len(SetToSeq(T)) : SetToSeq(T)[i] = SetToSeq(T)[j] => i = j
<1>1. Cardinality(T) \in Nat /\ \E f \in [1..Cardinality(T) -> T] : IsInjective(f)
  BY FS_CardinalityType DEF ExistsBijection, Bijection, Injection
<1>2. SetToSeq(T) \in [1..Cardinality(T) -> T] /\ IsInjective(SetToSeq(T))
  BY <1>1 DEF SetToSeq
<1> QED BY <1>1, <1>2 DEF IsInjective

-----------------------------------------------------------------------------
(* What is on the loop                                                     *)

\* The ids of workers are finitely many.
LEMMA WorkersFinite == IsFiniteSet(Workers)
BY BoundsAssumption, FS_Interval DEF Workers

\* What the loop holds.
LoopItem ==
  ({"worker", "joined"} \X Workers) \cup ({"runner", "due", "commit", "cancel"} \X Tasks) \cup ({"caller", "timeout"} \X Callers)

\* The workers a part s of the loop is to resume; s resumes each once.
OnWay(s) == {w \in Workers : \E i \in 1..Len(s) : s[i] = <<"worker", w>>}
Once(s) == \A w \in Workers : \A i, j \in 1..Len(s) : s[i] = <<"worker", w>> /\ s[j] = <<"worker", w>> => i = j
Distinct(s) == \A i, j \in 1..Len(s) : s[i] = s[j] => i = j
Carries(s, V) == s \in Seq(LoopItem) /\ Once(s) /\ OnWay(s) = V

\* Two parts that resume different workers, put together, resume both.
LEMMA Joining ==
  ASSUME NEW s, NEW V, Carries(s, V), NEW q, NEW U, Carries(q, U), V \cap U = {}
  PROVE  Carries(s \o q, V \cup U)
<1>1. s \in Seq(LoopItem) /\ q \in Seq(LoopItem) /\ Len(s) \in Nat /\ Len(q) \in Nat
  BY DEF Carries
<1>2. /\ s \o q \in Seq(LoopItem) /\ Len(s \o q) = Len(s) + Len(q)
      /\ \A i \in 1..Len(s) + Len(q) : (s \o q)[i] = IF i <= Len(s) THEN s[i] ELSE q[i - Len(s)]
  BY <1>1, ConcatProperties
<1> DEFINE r == s \o q
<1> HIDE DEF r
<1>3. /\ r \in Seq(LoopItem) /\ Len(r) = Len(s) + Len(q)
      /\ \A i \in 1..Len(s) : i \in 1..Len(r) /\ r[i] = s[i]
      /\ \A i \in 1..Len(q) : i + Len(s) \in 1..Len(r) /\ r[i + Len(s)] = q[i]
      /\ \A i \in 1..Len(r) : (i \in 1..Len(s) /\ r[i] = s[i]) \/ (i - Len(s) \in 1..Len(q) /\ r[i] = q[i - Len(s)])
  BY <1>1, <1>2 DEF r
<1>4. OnWay(r) = OnWay(s) \cup OnWay(q)
  <2>1. ASSUME NEW w \in OnWay(r) PROVE w \in OnWay(s) \cup OnWay(q)
    BY <1>3 DEF OnWay
  <2>2. ASSUME NEW w \in OnWay(s) PROVE w \in OnWay(r)
    BY <1>3 DEF OnWay
  <2>3. ASSUME NEW w \in OnWay(q) PROVE w \in OnWay(r)
    BY <1>3 DEF OnWay
  <2> QED BY <2>1, <2>2, <2>3
<1>5. Once(r)
  <2> SUFFICES ASSUME NEW w \in Workers, NEW i \in 1..Len(r), NEW j \in 1..Len(r), r[i] = <<"worker", w>>, r[j] = <<"worker", w>>
               PROVE  i = j
    BY DEF Once
  <2>1. OnWay(s) \cap OnWay(q) = {} /\ Once(s) /\ Once(q)
    BY DEF Carries
  <2>2. CASE w \in OnWay(s)
    <3>1. w \notin OnWay(q)
      BY <2>1, <2>2
    <3>2. \A k \in 1..Len(q) : q[k] # <<"worker", w>>
      BY <3>1 DEF OnWay
    <3>3. i \in 1..Len(s) /\ j \in 1..Len(s) /\ s[i] = r[i] /\ s[j] = r[j]
      BY <1>3, <3>2
    <3> QED BY <2>1, <3>3 DEF Once
  <2>3. CASE w \notin OnWay(s)
    <3>1. \A k \in 1..Len(s) : s[k] # <<"worker", w>>
      BY <2>3 DEF OnWay
    <3>2. i - Len(s) \in 1..Len(q) /\ j - Len(s) \in 1..Len(q) /\ q[i - Len(s)] = r[i] /\ q[j - Len(s)] = r[j]
      BY <1>3, <3>1
    <3>3. i - Len(s) = j - Len(s)
      BY <2>1, <3>2 DEF Once
    <3> QED BY <1>1, <1>3, <3>3
  <2> QED BY <2>2, <2>3
<1> QED BY <1>3, <1>4, <1>5 DEF Carries, r

\* What is left of the loop when its head has run resumes the others.
LEMMA Popping ==
  ASSUME NEW V, Carries(loop, V), loop # <<>>
  PROVE  /\ \A w \in Workers : Head(loop) = <<"worker", w>> => w \in V /\ Carries(Tail(loop), V \ {w})
         /\ (\A w \in Workers : Head(loop) # <<"worker", w>>) => Carries(Tail(loop), V)
<1> DEFINE t == Tail(loop)
<1>1. /\ loop \in Seq(LoopItem) /\ Len(loop) \in Nat /\ Len(loop) >= 1 /\ Head(loop) = loop[1] /\ 1 \in 1..Len(loop)
      /\ t \in Seq(LoopItem) /\ Len(t) = Len(loop) - 1
      /\ \A i \in 1..Len(t) : i + 1 \in 1..Len(loop) /\ t[i] = loop[i + 1]
      /\ \A i \in 1..Len(loop) : i # 1 => i - 1 \in 1..Len(t) /\ loop[i] = t[i - 1]
  BY HeadTailProperties, EmptySeq DEF Carries
<1> HIDE DEF t
<1>2. Once(loop) /\ OnWay(loop) = V
  BY DEF Carries
<1>3. Once(t)
  <2> SUFFICES ASSUME NEW w \in Workers, NEW i \in 1..Len(t), NEW j \in 1..Len(t), t[i] = <<"worker", w>>, t[j] = <<"worker", w>>
               PROVE  i = j
    BY DEF Once
  <2>1. /\ i + 1 \in 1..Len(loop) /\ loop[i + 1] = <<"worker", w>>
        /\ j + 1 \in 1..Len(loop) /\ loop[j + 1] = <<"worker", w>>
    BY <1>1
  <2>2. i + 1 = j + 1
    BY <1>2, <2>1 DEF Once
  <2> QED BY <1>1, <2>2
<1>4. ASSUME NEW w \in Workers, Head(loop) = <<"worker", w>>
      PROVE  w \in V /\ OnWay(t) = V \ {w}
  <2>1. w \in V
    BY <1>1, <1>2, <1>4 DEF OnWay
  <2>2. w \notin OnWay(t)
    <3> SUFFICES ASSUME NEW i \in 1..Len(t), t[i] = <<"worker", w>> PROVE FALSE
      BY DEF OnWay
    <3>1. i + 1 = 1
      BY <1>1, <1>2, <1>4 DEF Once
    <3> QED BY <1>1, <3>1
  <2>3. \A u \in Workers : u \in OnWay(t) => u \in V
    BY <1>1, <1>2 DEF OnWay
  <2>4. ASSUME NEW u \in V, u # w PROVE u \in OnWay(t)
    <3>1. PICK i \in 1..Len(loop) : loop[i] = <<"worker", u>> /\ u \in Workers
      BY <1>2 DEF OnWay
    <3>2. i # 1
      BY <1>1, <1>4, <2>4, <3>1
    <3> QED BY <1>1, <3>1, <3>2 DEF OnWay
  <2>5. OnWay(t) \subseteq Workers
    BY DEF OnWay
  <2> QED BY <2>1, <2>2, <2>3, <2>4, <2>5
<1>5. ASSUME \A w \in Workers : Head(loop) # <<"worker", w>>
      PROVE  OnWay(t) = V
  <2>1. \A u \in Workers : u \in OnWay(t) => u \in V
    BY <1>1, <1>2 DEF OnWay
  <2>2. ASSUME NEW u \in V PROVE u \in OnWay(t)
    <3>1. PICK i \in 1..Len(loop) : loop[i] = <<"worker", u>> /\ u \in Workers
      BY <1>2 DEF OnWay
    <3>2. i # 1
      BY <1>1, <1>5, <3>1
    <3> QED BY <1>1, <3>1, <3>2 DEF OnWay
  <2>3. OnWay(t) \subseteq Workers
    BY DEF OnWay
  <2> QED BY <2>1, <2>2, <2>3
<1> QED BY <1>1, <1>3, <1>4, <1>5 DEF Carries, t

\* Items of another kind resume no worker.
LEMMA Silent ==
  ASSUME NEW S, NEW kind, {kind} \X S \subseteq LoopItem, kind # "worker", NEW s \in Seq(S)
  PROVE  Carries(Items(kind, s), {})
<1>1. /\ Items(kind, s) \in Seq(LoopItem) /\ Len(Items(kind, s)) = Len(s)
      /\ \A i \in 1..Len(s) : Items(kind, s)[i] = <<kind, s[i]>>
  BY DEF Items
<1>2. OnWay(Items(kind, s)) = {} /\ Once(Items(kind, s))
  BY <1>1 DEF OnWay, Once
<1> QED BY <1>1, <1>2 DEF Carries

\* The items that wake different workers resume these.
LEMMA Waking ==
  ASSUME NEW s \in Seq(Workers), Distinct(s)
  PROVE  Carries(Items("worker", s), ToSet(s))
<1>1. /\ Items("worker", s) \in Seq(LoopItem) /\ Len(Items("worker", s)) = Len(s)
      /\ \A i \in 1..Len(s) : Items("worker", s)[i] = <<"worker", s[i]>>
  BY DEF Items, LoopItem
<1>2. OnWay(Items("worker", s)) = ToSet(s)
  <2>1. ToSet(s) = {s[i] : i \in 1..Len(s)} /\ \A i \in 1..Len(s) : s[i] \in Workers
    BY DEF ToSet
  <2> QED BY <1>1, <2>1 DEF OnWay
<1>3. Once(Items("worker", s))
  BY <1>1 DEF Once, Distinct
<1> QED BY <1>1, <1>2, <1>3 DEF Carries

\* Nothing resumes nobody.
LEMMA Nobody == Carries(<<>>, {})
BY DEF Carries, OnWay, Once

\* The items of one kind for the members of a set, in some order.
LEMMA PairSeq ==
  ASSUME NEW kind, NEW D, IsFiniteSet(D)
  PROVE  LET q == SetToSeq({<<kind, d>> : d \in D})
         IN  /\ q \in Seq({kind} \X D)
             /\ \A i, j \in 1..Len(q) : q[i] = q[j] => i = j
             /\ \A d \in D : \E i \in 1..Len(q) : q[i] = <<kind, d>>
<1> DEFINE T == {<<kind, d>> : d \in D}
           q == SetToSeq(T)
<1>1. IsFiniteSet(T)
  <2> DEFINE f == [d \in D |-> <<kind, d>>]
  <2>1. f \in Surjection(D, T)
    BY DEF Surjection
  <2> QED BY <2>1, FS_Surjection
<1>2. \A x \in T : x \in {kind} \X D
  OBVIOUS
<1>3. \A d \in D : <<kind, d>> \in T
  OBVIOUS
<1> HIDE DEF T
<1>4. q \in Seq(T) /\ \A i, j \in 1..Len(q) : q[i] = q[j] => i = j
  BY <1>1, SetToSeqTyped
<1>5. \A x \in T : \E i \in 1..Len(q) : q[i] = x
  <2>1. Cardinality(T) \in Nat /\ \E f \in [1..Cardinality(T) -> T] : IsInjective(f)
    BY <1>1, FS_CardinalityType DEF ExistsBijection, Bijection, Injection
  <2>2. q \in [1..Cardinality(T) -> T] /\ Len(q) = Cardinality(T)
    BY <1>4, <2>1 DEF SetToSeq
  <2>3. q \in Injection(1..Cardinality(T), T)
    BY <1>4, <2>2 DEF Injection, IsInjective
  <2>4. Cardinality(1..Cardinality(T)) = Cardinality(T)
    BY <2>1, FS_Interval
  <2>5. q \in Surjection(1..Cardinality(T), T)
    BY <1>1, <2>3, <2>4, FS_Injection
  <2> HIDE DEF q
  <2> QED BY <2>2, <2>5 DEF Surjection
<1> HIDE DEF q
<1>6. q \in Seq({kind} \X D)
  BY <1>2, <1>4
<1> QED BY <1>3, <1>4, <1>5, <1>6 DEF q, T

\* Such items for a set of workers resume these.
LEMMA WakingSet == ASSUME NEW V \in SUBSET Workers PROVE Carries(SetToSeq({<<"worker", w>> : w \in V}), V)
<1> DEFINE q == SetToSeq({<<"worker", w>> : w \in V})
<1>1. IsFiniteSet(V)
  BY WorkersFinite, FS_Subset
<1>2. /\ q \in Seq({"worker"} \X V)
      /\ \A i, j \in 1..Len(q) : q[i] = q[j] => i = j
      /\ \A d \in V : \E i \in 1..Len(q) : q[i] = <<"worker", d>>
  BY <1>1, PairSeq
<1> HIDE DEF q
<1>3. q \in Seq(LoopItem)
  BY <1>2 DEF LoopItem
<1>4. OnWay(q) = V
  <2>1. ASSUME NEW w \in OnWay(q) PROVE w \in V
    <3>1. PICK i \in 1..Len(q) : q[i] = <<"worker", w>>
      BY DEF OnWay
    <3>2. q[i] \in {"worker"} \X V
      BY <1>2
    <3> QED BY <3>1, <3>2
  <2> QED BY <1>2, <2>1 DEF OnWay
<1>5. Once(q)
  BY <1>2 DEF Once
<1> QED BY <1>3, <1>4, <1>5 DEF Carries, q

\* Such items of another kind resume no worker.
LEMMA SilentSet ==
  ASSUME NEW kind, NEW D, IsFiniteSet(D), {kind} \X D \subseteq LoopItem, kind # "worker"
  PROVE  Carries(SetToSeq({<<kind, d>> : d \in D}), {})
<1> DEFINE q == SetToSeq({<<kind, d>> : d \in D})
<1>1. q \in Seq({kind} \X D)
  BY PairSeq
<1> HIDE DEF q
<1>2. q \in Seq(LoopItem)
  BY <1>1
<1>3. \A i \in 1..Len(q) : \A w \in Workers : q[i] # <<"worker", w>>
  BY <1>1
<1> QED BY <1>2, <1>3 DEF Carries, OnWay, Once, q

\* The workers woken when n items are put into the ready queue.
First(n) == {getters[i] : i \in 1..Wakes(n)}

\* Putting n items into the ready queue wakes that many getters or all: these
\* are on the loop then, and asleep no more (Queue._wakeup_next).
LEMMA WokenCarries ==
  ASSUME getters \in Seq(Workers), Distinct(getters), NEW n \in Nat
  PROVE  /\ Carries(Woken(n), First(n))
         /\ First(n) \subseteq Workers /\ IsFiniteSet(First(n))
         /\ StillAsleep(n) \in Seq(Workers) /\ Distinct(StillAsleep(n))
         /\ \A i \in 1..Len(StillAsleep(n)) :
              StillAsleep(n)[i] \notin First(n) /\ \E j \in 1..Len(getters) : StillAsleep(n)[i] = getters[j]
         /\ StillAsleep(n) # <<>> => getters # <<>> /\ Cardinality(First(n)) = n
<1> DEFINE k == Wakes(n)
           a == SubSeq(getters, 1, k)
           b == SubSeq(getters, k + 1, Len(getters))
<1>1. Len(getters) \in Nat /\ k \in 0..Len(getters) /\ (k # Len(getters) => k = n)
  BY DEF Wakes
<1> HIDE DEF k
<1>2. a \in Seq(Workers) /\ Len(a) = k /\ \A i \in 1..k : a[i] = getters[i] /\ i \in 1..Len(getters)
  BY <1>1, SubSeqProperties
<1>3. /\ b \in Seq(Workers) /\ Len(b) = Len(getters) - k
      /\ \A i \in 1..Len(b) : b[i] = getters[k + i] /\ k + i \in 1..Len(getters)
  BY <1>1, SubSeqProperties, SMTT(60)
<1> HIDE DEF a, b
<1>4. Distinct(a) /\ Distinct(b)
  <2>1. Distinct(a)
    BY <1>2 DEF Distinct
  <2>2. ASSUME NEW i \in 1..Len(b), NEW j \in 1..Len(b), b[i] = b[j] PROVE i = j
    <3>1. k + i = k + j
      BY <1>3, <2>2 DEF Distinct
    <3> QED BY <1>1, <1>3, <3>1
  <2> QED BY <2>1, <2>2 DEF Distinct
<1>5. ToSet(a) = First(n)
  BY <1>2 DEF ToSet, First, k
<1>6. Carries(Woken(n), First(n))
  BY <1>2, <1>4, <1>5, Waking DEF Woken, a, k
<1>7. First(n) \subseteq Workers /\ \A i \in 1..Len(b) : b[i] \notin First(n) /\ b[i] = getters[k + i] /\ k + i \in 1..Len(getters)
  <2>1. First(n) = {getters[i] : i \in 1..k}
    BY DEF First, k
  <2> QED BY <1>1, <1>3, <2>1 DEF Distinct
<1>8. IsFiniteSet(First(n)) /\ Cardinality(First(n)) = k
  <2>1. a \in Bijection(1..k, First(n))
    BY <1>2, <1>4, <1>5 DEF Bijection, Injection, Surjection, IsInjective, Distinct, ToSet
  <2>2. ExistsBijection(1..k, First(n))
    BY <2>1 DEF ExistsBijection
  <2> QED BY <1>1, <2>2, FS_CountingElements, FS_NatBijection
<1>9. b # <<>> => k # Len(getters) /\ getters # <<>>
  BY <1>1, <1>3
<1> QED BY <1>1, <1>3, <1>4, <1>6, <1>7, <1>8, <1>9 DEF StillAsleep, b, k

-----------------------------------------------------------------------------
(* Wake-ups: the invariant                                                 *)

\* A task whose runner was created was submitted, and has a result or died unborn once the runner's attempts are over.
Ran ==
  \A t \in Tasks : rn[t] # "none" =>
    st[t] # "new" /\ (rn[t] \in {"hook", "over"} => t \in unborn \/ st[t] \in Final)
\* The types of what is not in TasksOK and Pool.
Rest == runners \in Seq(Tasks) /\ sleepers \in Seq(Callers) /\ stops \in Nat /\ registered \subseteq Workers
\* A worker is on the event loop once at most. A getter is in its loop and not
\* on the event loop. A worker that is on it and awaits a runner awaits one
\* that is over, so a runner that ends resumes nobody who is there already; and
\* a runner some worker awaits was created.
Pool ==
  /\ loop \in Seq(LoopItem) /\ Once(loop) /\ getters \in Seq(Workers) /\ Distinct(getters)
  /\ job \in [Workers -> Tasks \cup {"get", "none"}]
  /\ \A i \in 1..Len(getters) : job[getters[i]] = "get" /\ getters[i] \notin OnWay(loop)
  /\ \A w \in OnWay(loop) : job[w] # "none" /\ (job[w] \in Tasks => rn[job[w]] = "over")
  /\ \A w \in Workers : job[w] \in Tasks => rn[job[w]] # "none"
\* What a getter can be given.
Queued == Cardinality(ready) + stops
\* The inductive invariant.
WInv == OInv /\ Ran /\ Rest /\ Pool /\ NoLostWakeup

\* The workers that arrive at get() are those on the loop that await no
\* runner.
LEMMA ArrivingIs == Arriving = {w \in OnWay(loop) : job[w] = "get"} /\ IsFiniteSet(Arriving) /\ Cardinality(Arriving) \in Nat
<1>1. Arriving = {w \in OnWay(loop) : job[w] = "get"}
  BY DEF Arriving, OnWay, Posted
<1>3. Arriving \in SUBSET Workers
  BY DEF Arriving
<1> QED BY <1>1, <1>3, WorkersFinite, FS_Subset, FS_CardinalityType

\* What is in the ready queue is finite.
LEMMA QueuedNat == ASSUME WInv PROVE IsFiniteSet(ready) /\ Cardinality(ready) \in Nat /\ Queued \in Nat
BY TasksAssumption, FS_Subset, FS_CardinalityType DEF WInv, OInv, TasksOK, Rest, Queued

\* A getter that is woken was in its loop, and was not on the event loop.
LEMMA AsleepGet == ASSUME WInv, NEW n \in Nat PROVE \A w \in First(n) : job[w] = "get" /\ w \notin OnWay(loop)
<1>1. \A i \in 1..Wakes(n) : i \in 1..Len(getters)
  BY DEF Wakes, WInv, Pool
<1> QED BY <1>1 DEF First, WInv, Pool

\* The step all the others are instances of: it wakes the first n getters,
\* creates the workers fresh, resumes the workers mine, whose runners end, and
\* takes a head that is none of the workers or none at all; what is queued
\* grows by n at most, or is n at most when everybody is woken. It keeps the
\* pool and loses no wake-up.
LEMMA WakeStep ==
  ASSUME WInv, NEW n \in Nat, getters' = StillAsleep(n),
         NEW fresh \in SUBSET Workers, \A w \in fresh : job[w] = "none",
         job' = [w \in Workers |-> IF w \in fresh THEN "get" ELSE job[w]],
         NEW mine \in SUBSET Workers, \A w \in mine : job[w] \in Tasks /\ rn[job[w]] # "over" /\ rn'[job[w]] = "over",
         \A t \in Tasks : (rn[t] = "over" => rn'[t] = "over") /\ (rn[t] # "none" => rn'[t] # "none"),
         NEW base, Carries(base, OnWay(loop)), NEW q, Carries(q, First(n) \cup fresh \cup mine), loop' = base \o q,
         Queued' \in Nat, Queued' <= Queued + n \/ Queued' <= n
  PROVE  Pool' /\ NoLostWakeup'
<1> USE NamesAssumption
<1>1. /\ getters \in Seq(Workers) /\ Distinct(getters) /\ job \in [Workers -> Tasks \cup {"get", "none"}]
      /\ \A i \in 1..Len(getters) : job[getters[i]] = "get" /\ getters[i] \notin OnWay(loop)
      /\ \A w \in OnWay(loop) : job[w] # "none" /\ (job[w] \in Tasks => rn[job[w]] = "over")
      /\ \A w \in Workers : job[w] \in Tasks => rn[job[w]] # "none"
  BY DEF WInv, Pool
<1>2. First(n) \cap fresh = {} /\ (First(n) \cup fresh) \cap mine = {} /\ \A w \in First(n) : job[w] = "get" /\ w \notin OnWay(loop)
  BY AsleepGet
<1>3. OnWay(loop) \cap (First(n) \cup fresh \cup mine) = {}
  BY <1>1, <1>2
<1>4. Carries(loop', OnWay(loop) \cup (First(n) \cup fresh \cup mine))
  BY <1>3, Joining
<1>5. loop' \in Seq(LoopItem) /\ Once(loop') /\ OnWay(loop') = OnWay(loop) \cup First(n) \cup fresh \cup mine
  BY <1>4 DEF Carries
<1>6. /\ First(n) \subseteq Workers /\ IsFiniteSet(First(n)) /\ StillAsleep(n) \in Seq(Workers) /\ Distinct(StillAsleep(n))
      /\ \A i \in 1..Len(StillAsleep(n)) :
           StillAsleep(n)[i] \notin First(n) /\ \E j \in 1..Len(getters) : StillAsleep(n)[i] = getters[j]
      /\ StillAsleep(n) # <<>> => getters # <<>> /\ Cardinality(First(n)) = n
  BY <1>1, WokenCarries
<1>7. job' \in [Workers -> Tasks \cup {"get", "none"}]
  BY <1>1
<1>8. ASSUME NEW i \in 1..Len(getters') PROVE job'[getters'[i]] = "get" /\ getters'[i] \notin OnWay(loop')
  <2>0. getters' = StillAsleep(n)
    OBVIOUS
  <2>1. PICK j \in 1..Len(getters) : getters'[i] = getters[j] /\ getters[j] \notin First(n) /\ getters[j] \in Workers
    <3>1. i \in 1..Len(StillAsleep(n)) /\ getters'[i] = StillAsleep(n)[i]
      BY <2>0
    <3>2. PICK j \in 1..Len(getters) : StillAsleep(n)[i] = getters[j]
      BY <1>6, <3>1
    <3>3. StillAsleep(n)[i] \notin First(n)
      BY <1>6, <3>1
    <3> QED BY <1>1, <3>1, <3>2, <3>3
  <2>2. job[getters[j]] = "get" /\ getters[j] \notin OnWay(loop)
    BY <1>1
  <2>3. getters[j] \notin fresh /\ getters[j] \notin mine
    BY <2>2
  <2> QED BY <1>5, <2>1, <2>2, <2>3
<1>9. ASSUME NEW w \in OnWay(loop') PROVE job'[w] # "none" /\ (job'[w] \in Tasks => rn'[job'[w]] = "over")
  <2>1. w \in Workers
    BY DEF OnWay
  <2>2. CASE w \in OnWay(loop)
    <3>1. job'[w] = job[w] /\ job[w] # "none"
      BY <1>1, <2>1, <2>2
    <3> QED BY <1>1, <2>2, <3>1
  <2>3. CASE w \in First(n) \cup fresh
    <3>1. job'[w] = "get"
      BY <1>2, <2>1, <2>3
    <3> QED BY <3>1
  <2>4. CASE w \in mine
    <3>1. job'[w] = job[w]
      BY <2>1, <2>4
    <3> QED BY <2>4, <3>1
  <2> QED BY <1>5, <2>2, <2>3, <2>4
<1>10. ASSUME NEW w \in Workers, job'[w] \in Tasks PROVE rn'[job'[w]] # "none"
  BY <1>1, <1>10
<1>11. ASSUME getters' # <<>> PROVE Queued' <= Cardinality(Arriving')
  <2>1. getters # <<>> /\ Cardinality(First(n)) = n
    BY <1>6, <1>11
  <2>2. Queued <= Cardinality(Arriving)
    BY <2>1 DEF WInv, NoLostWakeup, Queued
  <2>3. Arriving \cup First(n) \subseteq Arriving' /\ Arriving \cap First(n) = {}
    <3>1. \A w \in Arriving : w \in OnWay(loop) /\ job[w] = "get" /\ w \in Workers
      BY ArrivingIs DEF OnWay
    <3>2. \A w \in Arriving \cup First(n) : w \in OnWay(loop') /\ job'[w] = "get"
      BY <1>2, <1>5, <1>6, <3>1
    <3>3. Arriving' = {w \in OnWay(loop') : job'[w] = "get"}
      BY DEF Arriving, OnWay, Posted
    <3> QED BY <1>2, <3>1, <3>2, <3>3
  <2>4. Cardinality(Arriving \cup First(n)) = Cardinality(Arriving) + n /\ IsFiniteSet(Arriving \cup First(n))
    <3>1. Cardinality(Arriving \cap First(n)) = 0
      BY <2>3, FS_EmptySet
    <3>2. IsFiniteSet(Arriving) /\ IsFiniteSet(First(n)) /\ Cardinality(Arriving) \in Nat
      BY <1>6, ArrivingIs
    <3>3. /\ IsFiniteSet(Arriving \cup First(n))
          /\ Cardinality(Arriving \cup First(n)) =
               Cardinality(Arriving) + Cardinality(First(n)) - Cardinality(Arriving \cap First(n))
      BY <3>2, FS_Union
    <3> QED BY <2>1, <3>1, <3>2, <3>3
  <2>5. IsFiniteSet(Arriving') /\ Cardinality(Arriving') \in Nat
    <3>2. Arriving' \in SUBSET Workers
      BY DEF Arriving
    <3> QED BY <3>2, WorkersFinite, FS_Subset, FS_CardinalityType
  <2>6. Cardinality(Arriving) + n <= Cardinality(Arriving')
    BY <2>3, <2>4, <2>5, FS_Subset
  <2> QED BY <2>2, <2>5, <2>6, ArrivingIs, QueuedNat
<1> QED BY <1>5, <1>6, <1>7, <1>8, <1>9, <1>10, <1>11 DEF Pool, NoLostWakeup, Queued

-----------------------------------------------------------------------------
(* What each operation puts on the loop                                    *)

\* The kinds of items the loop holds.
LEMMA Kinds ==
  /\ {"worker"} \X Workers \subseteq LoopItem /\ {"joined"} \X Workers \subseteq LoopItem
  /\ {"runner"} \X Tasks \subseteq LoopItem /\ {"due"} \X Tasks \subseteq LoopItem
  /\ {"commit"} \X Tasks \subseteq LoopItem /\ {"cancel"} \X Tasks \subseteq LoopItem
  /\ {"caller"} \X Callers \subseteq LoopItem /\ {"timeout"} \X Callers \subseteq LoopItem
BY DEF LoopItem

\* The loop, and what is left of it when its head was no worker, resume the
\* same workers.
LEMMA Bases ==
  ASSUME WInv
  PROVE  /\ Carries(loop, OnWay(loop))
         /\ \A kind, x : At(<<kind, x>>) /\ kind # "worker" => Carries(Tail(loop), OnWay(loop))
<1>1. Carries(loop, OnWay(loop))
  BY DEF WInv, Pool, Carries
<1>2. ASSUME NEW kind, NEW x, At(<<kind, x>>), kind # "worker"
      PROVE  Carries(Tail(loop), OnWay(loop))
  <2>1. loop # <<>> /\ \A w \in Workers : Head(loop) # <<"worker", w>>
    BY <1>2 DEF At
  <2> QED BY <1>1, <2>1, Popping
<1> QED BY <1>1, <1>2

\* One item of another kind resumes no worker.
LEMMA One ==
  ASSUME NEW kind, NEW S, NEW x \in S, {kind} \X S \subseteq LoopItem, kind # "worker"
  PROVE  Carries(<<<<kind, x>>>>, {})
<1>1. <<kind, x>> \in LoopItem /\ \A w \in Workers : <<kind, x>> # <<"worker", w>>
  OBVIOUS
<1>2. <<<<kind, x>>>> \in Seq(LoopItem) /\ \A i \in 1..Len(<<<<kind, x>>>>) : <<<<kind, x>>>>[i] = <<kind, x>>
  BY <1>1
<1> QED BY <1>1, <1>2 DEF Carries, OnWay, Once

\* Putting nothing wakes nobody.
LEMMA NobodyWoken == ASSUME WInv PROVE StillAsleep(0) = getters /\ First(0) = {}
<1>1. getters \in Seq(Workers) /\ Len(getters) \in Nat /\ Wakes(0) = 0
  BY DEF WInv, Pool, Wakes
<1>2. StillAsleep(0) = getters
  BY <1>1, SubSeqFull DEF StillAsleep
<1> QED BY <1>1, <1>2 DEF First

\* Callers that are resumed are no workers.
LEMMA ResumedQ == ASSUME WInv, NEW n PROVE Carries(Resumed(n), {})
BY Nobody, Silent, Kinds DEF WInv, Rest, Resumed

\* Runners that are cancelled are no workers.
LEMMA InterruptedQ == ASSUME WInv, NEW S PROVE Carries(Interrupted(S), {})
<1> DEFINE K == {t \in S : Interruptible(t) /\ ~Posted(<<"runner", t>>)}
<1>1. Only(runners, K) \in Seq(Tasks \cap K)
  BY OnlyTyped DEF WInv, Rest
<1>2. Only(runners, K) \in Seq(Tasks)
  <2> HIDE DEF K
  <2>1. Tasks \cap K \subseteq Tasks
    OBVIOUS
  <2> QED BY <1>1, <2>1, SeqMonotonic
<1> HIDE DEF K
<1> QED BY <1>2, Silent, Kinds DEF Interrupted, K

\* A runner that ends resumes the workers that await it.
LEMMA WakeWorkerQ == ASSUME NEW t PROVE Carries(WakeWorker(t), Awaiting(t))
<1>1. Awaiting(t) \in SUBSET Workers
  BY DEF Awaiting
<1> QED BY <1>1, WakingSet DEF WakeWorker

\* Callers that are resumed together are no workers.
LEMMA CallersQ == ASSUME NEW D \in SUBSET Callers PROVE Carries(SetToSeq({<<"caller", c>> : c \in D}), {})
<1>1. IsFiniteSet(D) /\ {"caller"} \X D \subseteq LoopItem
  BY CallersAssumption, FS_Subset, Kinds
<1> QED BY <1>1, SilentSet

\* What self._wake.set() resumes is no worker.
LEMMA WakeItemsQ == Carries(WakeItems, {})
<1> DEFINE D == {d \in Callers : pc[d] = "run.wait" /\ ~Posted(<<"caller", d>>)}
<1>1. D \in SUBSET Callers
  OBVIOUS
<1> HIDE DEF D
<1>2. Carries(SetToSeq({<<"caller", c>> : c \in D}), {})
  BY <1>1, CallersQ
<1> QED BY <1>2, Nobody DEF WakeItems, D

\* The workers created are not among those there are, and each is put on the
\* loop once (_spawn_workers).
LEMMA SpawnedFree ==
  ASSUME WInv, NEW n \in Int
  PROVE  /\ Spawned(n) \in Seq(Workers) /\ Distinct(Spawned(n))
         /\ ToSet(Spawned(n)) \in SUBSET Workers /\ \A w \in ToSet(Spawned(n)) : job[w] = "none"
         /\ \A w \in ToSet(Spawned(n)), c \in Callers : w \notin snap[c]
         /\ Carries(Items("worker", Spawned(n)), ToSet(Spawned(n)))
<1> DEFINE K == {w \in Workers : job[w] = "none" /\ \A c \in Callers : w \notin snap[c]}
           ids == [i \in Workers |-> i]
<1>1. ids \in Seq(Workers) /\ Len(ids) = MaxWorkers /\ \A i, j \in 1..Len(ids) : ids[i] = ids[j] => i = j
  BY BoundsAssumption DEF Workers
<1>2. FreeIds = Only(ids, K)
  BY DEF FreeIds
<1> HIDE DEF ids
<1>3. FreeIds \in Seq(Workers \cap K) /\ Distinct(FreeIds)
  <2> HIDE DEF K
  <2>1. /\ Only(ids, K) \in Seq(Workers \cap K)
        /\ \A i, j \in 1..Len(Only(ids, K)) : Only(ids, K)[i] = Only(ids, K)[j] => i = j
    BY <1>1, OnlyTyped
  <2> QED BY <1>2, <2>1 DEF Distinct
<1>4. \A w \in Workers \cap K : job[w] = "none" /\ \A c \in Callers : w \notin snap[c]
  OBVIOUS
<1>5. Missing(n) \in Nat
  <2>1. Len(runners) \in Nat /\ Fixed \in Nat /\ AutoLimit \in Nat
    BY BoundsAssumption DEF WInv, Rest
  <2>2. Target(n) \in Int
    BY <2>1 DEF Target, Largest, Smallest
  <2>3. Cardinality(registered) \in Nat
    BY WorkersFinite, FS_Subset, FS_CardinalityType DEF WInv, Rest
  <2> QED BY <2>2, <2>3 DEF Missing, Largest
<1> HIDE DEF K
<1>6. Spawned(n) \in Seq(Workers \cap K) /\ Distinct(Spawned(n))
  <2>1. CASE Missing(n) <= Len(FreeIds)
    <3> DEFINE m == Missing(n)
    <3> HIDE DEF m
    <3>1. m \in Nat /\ m <= Len(FreeIds) /\ Spawned(n) = SubSeq(FreeIds, 1, m)
      BY <1>5, <2>1 DEF Spawned, m
    <3>2. Len(FreeIds) \in Nat /\ \A i \in 1..m : i \in 1..Len(FreeIds) /\ FreeIds[i] \in Workers \cap K
      BY <1>3, <3>1
    <3>3. /\ Spawned(n) \in Seq(Workers \cap K) /\ Len(Spawned(n)) = m
          /\ \A i \in 1..m : Spawned(n)[i] = FreeIds[i]
      BY <3>1, <3>2, SubSeqProperties
    <3> QED BY <1>3, <3>2, <3>3 DEF Distinct
  <2>2. CASE ~(Missing(n) <= Len(FreeIds))
    BY <1>3, <2>2 DEF Spawned
  <2> QED BY <2>1, <2>2
<1>7. Spawned(n) \in Seq(Workers)
  BY <1>6
<1>8. ToSet(Spawned(n)) \in SUBSET (Workers \cap K)
  BY <1>6 DEF ToSet
<1> QED BY <1>4, <1>6, <1>7, <1>8, Waking

\* The same of those an admission creates.
LEMMA NewFree ==
  ASSUME WInv, NEW t
  PROVE  /\ NewWorkers(t) \in Seq(Workers) /\ ToSet(NewWorkers(t)) \in SUBSET Workers
         /\ \A w \in ToSet(NewWorkers(t)) : job[w] = "none" /\ \A c \in Callers : w \notin snap[c]
         /\ Carries(Items("worker", NewWorkers(t)), ToSet(NewWorkers(t)))
<1>1. Cardinality(ready) + 1 + stops \in Int
  BY QueuedNat DEF WInv, Rest
<1>2. CASE t \notin Scheduled /\ started
  BY <1>1, <1>2, SpawnedFree DEF NewWorkers
<1>3. CASE ~(t \notin Scheduled /\ started)
  <2>1. NewWorkers(t) = <<>> /\ Distinct(<<>>)
    BY <1>3 DEF NewWorkers, Distinct
  <2>2. ToSet(<<>>) = {} /\ <<>> \in Seq(Workers)
    BY DEF ToSet
  <2> QED BY <2>1, <2>2, Waking
<1> QED BY <1>2, <1>3

\* How many getters an admission of t wakes.
Rings(t) == IF t \in Scheduled THEN 0 ELSE 1

\* An admission resumes one getter and the workers it creates.
LEMMA EnqueueQ == ASSUME WInv, NEW t PROVE Carries(EnqueueItems(t), First(Rings(t)) \cup ToSet(NewWorkers(t)))
<1>1. Carries(IF t \in Scheduled THEN <<>> ELSE Woken(1), First(Rings(t)))
  <2>1. CASE t \in Scheduled
    BY <2>1, Nobody, NobodyWoken DEF Rings
  <2>2. CASE t \notin Scheduled
    BY <2>2, WokenCarries DEF Rings, WInv, Pool
  <2> QED BY <2>1, <2>2
<1>2. First(Rings(t)) \cap ToSet(NewWorkers(t)) = {}
  <2>1. \A w \in First(Rings(t)) : job[w] = "get"
    BY AsleepGet DEF Rings
  <2>2. \A w \in ToSet(NewWorkers(t)) : job[w] = "none"
    BY NewFree
  <2> QED BY <2>1, <2>2
<1> QED BY <1>1, <1>2, NewFree, Joining DEF EnqueueItems

\* An abort resumes the getters that what it puts back wakes.
LEMMA AbortQ ==
  ASSUME WInv, NEW kill, NEW done
  PROVE  Carries(AbortItems(kill, done), First(Kept(kill))) /\ Kept(kill) \in Nat
<1>1. Kept(kill) \in Nat
  BY QueuedNat, FS_Subset, FS_CardinalityType DEF Kept, WInv, Rest
<1>2. Carries(Woken(Kept(kill)), First(Kept(kill)))
  BY <1>1, WokenCarries DEF WInv, Pool
<1>3. Carries(Resumed(Cardinality(done \cup CutBy(kill))) \o Woken(Kept(kill)), {} \cup First(Kept(kill)))
  BY <1>2, ResumedQ, Joining
<1>4. Carries(Resumed(Cardinality(done \cup CutBy(kill))) \o Woken(Kept(kill)), First(Kept(kill)))
  BY <1>3
<1>5. Carries(AbortItems(kill, done), First(Kept(kill)) \cup {})
  BY <1>4, InterruptedQ, Joining DEF AbortItems
<1> QED BY <1>1, <1>5

-----------------------------------------------------------------------------
(* Operations                                                              *)

\* Runners are created once and stay over.
Onward == \A t \in Tasks : (rn[t] = "over" => rn'[t] = "over") /\ (rn[t] # "none" => rn'[t] # "none")
\* The step appends, and resumes no worker.
Quietly == \E base, q : Carries(base, OnWay(loop)) /\ Carries(q, {}) /\ loop' = base \o q

\* A step whose head goes on, and that resumes no worker, is quiet.
LEMMA QuietStay == ASSUME WInv, NEW q, Carries(q, {}), Stay(q) PROVE Quietly
BY Bases DEF Quietly, Stay

\* So is one whose head was no worker, and leaves.
LEMMA QuietLeave == ASSUME WInv, NEW kind, NEW x, At(<<kind, x>>), kind # "worker", NEW q, Carries(q, {}), Leave(q) PROVE Quietly
BY Bases DEF Quietly, Leave

\* So is one of the world outside that puts one item.
LEMMA QuietPost ==
  ASSUME WInv, NEW kind, NEW S, NEW x \in S, {kind} \X S \subseteq LoopItem, kind # "worker", Post(<<kind, x>>)
  PROVE  Quietly
<1>1. Carries(<<<<kind, x>>>>, {})
  BY One
<1>2. loop' = loop \o <<<<kind, x>>>>
  <2>1. loop \in Seq(LoopItem) /\ <<kind, x>> \in LoopItem
    BY DEF WInv, Pool
  <2> QED BY <2>1, AppendIsConcat DEF Post
<1> QED BY <1>1, <1>2, Bases DEF Quietly

\* A quiet step that leaves the ready queue and the workers alone keeps the
\* pool and loses no wake-up.
LEMMA CalmStep ==
  ASSUME WInv, UNCHANGED <<getters, job, ready, stops>>, Onward, Quietly
  PROVE  Pool' /\ NoLostWakeup'
<1>1. PICK base, q : Carries(base, OnWay(loop)) /\ Carries(q, {}) /\ loop' = base \o q
  BY DEF Quietly
<1>2. getters' = StillAsleep(0) /\ First(0) = {}
  BY NobodyWoken
<1>3. First(0) \cup {} \cup {} = {} /\ {} \in SUBSET Workers
  BY <1>2
<1>4. job' = [w \in Workers |-> IF w \in {} THEN "get" ELSE job[w]]
  BY DEF WInv, Pool
<1>5. Queued' \in Nat /\ Queued' <= Queued + 0 /\ 0 \in Nat
  BY QueuedNat DEF Queued
<1>6. \E fresh, mine \in SUBSET Workers :
        /\ \A w \in fresh : job[w] = "none"
        /\ job' = [w \in Workers |-> IF w \in fresh THEN "get" ELSE job[w]]
        /\ \A w \in mine : job[w] \in Tasks /\ rn[job[w]] # "over" /\ rn'[job[w]] = "over"
        /\ Carries(q, First(0) \cup fresh \cup mine)
  <2> WITNESS {} \in SUBSET Workers, {} \in SUBSET Workers
  <2> QED BY <1>1, <1>3, <1>4
<1> QED BY <1>1, <1>2, <1>5, <1>6, WakeStep DEF Onward

\* So does a step that wakes getters and creates workers, and no more.
LEMMA RingStep ==
  ASSUME WInv, NEW n \in Nat, getters' = StillAsleep(n), NEW fresh \in SUBSET Workers, \A w \in fresh : job[w] = "none",
         job' = [w \in Workers |-> IF w \in fresh THEN "get" ELSE job[w]], Onward,
         NEW base, Carries(base, OnWay(loop)), NEW q, Carries(q, First(n) \cup fresh), loop' = base \o q,
         Queued' \in Nat, Queued' <= Queued + n \/ Queued' <= n
  PROVE  Pool' /\ NoLostWakeup'
<1>1. \E mine \in SUBSET Workers :
        /\ \A w \in mine : job[w] \in Tasks /\ rn[job[w]] # "over" /\ rn'[job[w]] = "over"
        /\ Carries(q, First(n) \cup fresh \cup mine)
  <2> WITNESS {} \in SUBSET Workers
  <2>1. First(n) \cup fresh \cup {} = First(n) \cup fresh
    OBVIOUS
  <2> QED BY <2>1
<1> QED BY <1>1, WakeStep DEF Onward

\* So does a step that wakes getters, and no more.
LEMMA RingOnly ==
  ASSUME WInv, NEW n \in Nat, getters' = StillAsleep(n), job' = job, Onward,
         NEW base, Carries(base, OnWay(loop)), NEW q, Carries(q, First(n)), loop' = base \o q,
         Queued' \in Nat, Queued' <= Queued + n \/ Queued' <= n
  PROVE  Pool' /\ NoLostWakeup'
<1>1. \E fresh \in SUBSET Workers :
        /\ \A w \in fresh : job[w] = "none"
        /\ job' = [w \in Workers |-> IF w \in fresh THEN "get" ELSE job[w]]
        /\ Carries(q, First(n) \cup fresh)
  <2> WITNESS {} \in SUBSET Workers
  <2>1. First(n) \cup {} = First(n)
    OBVIOUS
  <2>2. job' = [w \in Workers |-> IF w \in {} THEN "get" ELSE job[w]]
    BY DEF WInv, Pool
  <2> QED BY <2>1, <2>2
<1> QED BY <1>1, RingStep

\* start() creates workers.
LEMMA StartW == ASSUME WInv, Start, Stay(StartItems), UNCHANGED <<ready, stops, getters, rn>> PROVE Pool' /\ NoLostWakeup'
<1> DEFINE new == Spawned(Cardinality(ready) + stops)
<1>1. Cardinality(ready) + stops \in Int /\ Queued' \in Nat /\ Queued' <= Queued + 0 /\ 0 \in Nat
  BY QueuedNat DEF Queued
<1>2. /\ ToSet(new) \in SUBSET Workers /\ \A w \in ToSet(new) : job[w] = "none"
      /\ Carries(Items("worker", new), ToSet(new))
  BY <1>1, SpawnedFree
<1>3. job' = [w \in Workers |-> IF w \in ToSet(new) THEN "get" ELSE job[w]] /\ loop' = loop \o Items("worker", new)
  BY DEF Start, Spawn, Stay, StartItems
<1> HIDE DEF new
<1>4. getters' = StillAsleep(0) /\ First(0) \cup ToSet(new) = ToSet(new)
  BY NobodyWoken
<1> QED BY <1>1, <1>2, <1>3, <1>4, Bases, RingStep DEF Onward

\* An abort drains the ready queue and puts back what it keeps: each item it
\* puts wakes a getter.
LEMMA AbortW ==
  ASSUME WInv, NEW kill, NEW done, NEW o, Abort(kill, done, o), Stay(AbortItems(kill, done)), job' = job, Onward
  PROVE  Pool' /\ NoLostWakeup'
<1>1. Carries(AbortItems(kill, done), First(Kept(kill))) /\ Kept(kill) \in Nat
  BY AbortQ
<1>2. getters' = StillAsleep(Kept(kill)) /\ Queued' = Kept(kill)
  BY DEF Abort, Kept, Queued
<1> QED BY <1>1, <1>2, Bases, RingOnly DEF Stay

\* An admission, in a step that ends the runner some workers await or none.
LEMMA EnqueueW ==
  ASSUME WInv, NEW t \in Tasks, Enqueue(t), Onward,
         NEW mine \in SUBSET Workers, \A w \in mine : job[w] \in Tasks /\ rn[job[w]] # "over" /\ rn'[job[w]] = "over",
         NEW base, Carries(base, OnWay(loop)), NEW q, Carries(q, mine), loop' = base \o (EnqueueItems(t) \o q)
  PROVE  Pool' /\ NoLostWakeup'
<1> DEFINE n == Rings(t)
           fresh == ToSet(NewWorkers(t))
<1>1. n \in Nat /\ Carries(EnqueueItems(t), First(n) \cup fresh) /\ \A w \in First(n) : job[w] = "get"
  BY EnqueueQ, AsleepGet DEF Rings
<1>2. fresh \in SUBSET Workers /\ \A w \in fresh : job[w] = "none"
  BY NewFree
<1>3. getters' = StillAsleep(n)
  BY NobodyWoken DEF Enqueue, Rings
<1>4. job' = [w \in Workers |-> IF w \in fresh THEN "get" ELSE job[w]]
  BY DEF Enqueue, Spawn
<1>5. Queued' \in Nat /\ Queued' <= Queued + n
  <2>1. t \notin ready
    BY DEF WInv, OInv, Single, Live, Enqueue
  <2>2. CASE t \in Scheduled
    BY <2>2, QueuedNat DEF Enqueue, Queued, Rings
  <2>3. CASE t \notin Scheduled
    <3>1. Cardinality(ready') = Cardinality(ready) + 1
      BY <2>1, <2>3, QueuedNat, FS_AddElement DEF Enqueue
    <3> QED BY <2>3, <3>1, QueuedNat DEF Enqueue, Queued, Rings, WInv, Rest
  <2> QED BY <2>2, <2>3
<1> HIDE DEF n, fresh
<1>6. (First(n) \cup fresh) \cap mine = {}
  BY <1>1, <1>2, NamesAssumption
<1>7. Carries(EnqueueItems(t) \o q, First(n) \cup fresh \cup mine)
  BY <1>1, <1>6, Joining
<1> QED BY <1>1, <1>2, <1>3, <1>4, <1>5, <1>7, WakeStep DEF Onward

\* An admission in a step that ends no runner.
LEMMA AdmitW ==
  ASSUME WInv, NEW t \in Tasks, Enqueue(t), UNCHANGED rn, NEW base, Carries(base, OnWay(loop)), loop' = base \o EnqueueItems(t)
  PROVE  Pool' /\ NoLostWakeup'
<1>1. \E mine \in SUBSET Workers : \E q :
        /\ \A w \in mine : job[w] \in Tasks /\ rn[job[w]] # "over" /\ rn'[job[w]] = "over"
        /\ Carries(q, mine) /\ loop' = base \o (EnqueueItems(t) \o q)
  <2>1. EnqueueItems(t) \in Seq(LoopItem)
    BY EnqueueQ DEF Carries
  <2>2. EnqueueItems(t) \o <<>> = EnqueueItems(t)
    BY <2>1, ConcatEmptySeq
  <2>3. {} \in SUBSET Workers
    OBVIOUS
  <2> QED BY <2>2, <2>3, Nobody
<1> QED BY <1>1, EnqueueW DEF Onward

\* A cancellation drains the ready queue and puts back the other items.
LEMMA CancelLocalW ==
  ASSUME WInv, NEW t \in Tasks, CancelLocal(t), UNCHANGED <<job, rn>>,
         NEW base, Carries(base, OnWay(loop)), loop' = base \o CancelItems(t)
  PROVE  Pool' /\ NoLostWakeup'
<1>1. CASE t \in Running
  <2>1. Quietly
    BY <1>1, InterruptedQ DEF CancelItems, Quietly
  <2>2. UNCHANGED <<getters, ready, stops>>
    BY <1>1 DEF CancelLocal, places
  <2> QED BY <2>1, <2>2, CalmStep DEF Onward
<1>2. CASE t \notin Running /\ t \in timers \cup dormant
  <2>1. Carries(Resumed(IF Live(t) /\ t \in ready \cup timers \cup dormant THEN 1 ELSE 0) \o <<>>, {} \cup {})
    BY ResumedQ, Nobody, Joining
  <2>2. Quietly
    BY <1>2, <2>1 DEF CancelItems, Quietly
  <2>3. t \notin ready
    BY <1>2 DEF WInv, OInv, Single
  <2>4. UNCHANGED <<getters, ready, stops>>
    BY <1>2, <2>3 DEF CancelLocal
  <2> QED BY <2>2, <2>4, CalmStep DEF Onward
<1>3. CASE t \notin Running /\ t \notin timers \cup dormant
  <2> DEFINE n == Cardinality(ready \ {t}) + stops
             r == Resumed(IF Live(t) /\ t \in ready \cup timers \cup dormant THEN 1 ELSE 0)
  <2>1. n \in Nat
    <3>1. Cardinality(ready \ {t}) \in Nat
      BY QueuedNat, FS_Subset, FS_CardinalityType
    <3> QED BY <3>1 DEF WInv, Rest
  <2>2. getters' = StillAsleep(n) /\ Queued' = n /\ loop' = base \o (r \o Woken(n))
    BY <1>3 DEF CancelLocal, CancelItems, Queued
  <2>3. Carries(r, {})
    BY ResumedQ
  <2> HIDE DEF n, r
  <2>4. Carries(Woken(n), First(n))
    BY <2>1, WokenCarries DEF WInv, Pool
  <2>5. Carries(r \o Woken(n), {} \cup First(n))
    BY <2>3, <2>4, Joining
  <2>6. Carries(r \o Woken(n), First(n))
    BY <2>5
  <2>7. Onward /\ job' = job
    BY DEF Onward
  <2>8. Queued' \in Nat /\ Queued' <= n
    BY <2>1, <2>2
  <2> DEFINE q == r \o Woken(n)
  <2>9. Carries(q, First(n)) /\ loop' = base \o q /\ getters' = StillAsleep(n)
    BY <2>2, <2>6
  <2> HIDE DEF q
  <2> QED BY <2>1, <2>7, <2>8, <2>9, RingOnly
<1> QED BY <1>1, <1>2, <1>3

\* The sentinels are put, or what is left of them is drained (_stop_workers).
LEMMA DismissW ==
  ASSUME WInv, NEW c, NEW next, UNCHANGED <<ready, job, rn>>,
         (Dismiss(c, next) /\ \E x : At(<<"caller", x>>)) \/ Dismissed(c, next)
  PROVE  Pool' /\ NoLostWakeup'
<1>1. CASE Dismiss(c, next) /\ \E x : At(<<"caller", x>>)
  <2> DEFINE n == Cardinality(registered)
  <2>1. n \in Nat
    BY WorkersFinite, FS_Subset, FS_CardinalityType DEF WInv, Rest
  <2>2. getters' = StillAsleep(n) /\ Queued' = Queued + n /\ loop' = Tail(loop) \o Woken(n)
    BY <1>1, <2>1, QueuedNat DEF Dismiss, Leave, Queued, WInv, Rest
  <2> HIDE DEF n
  <2>3. Carries(Woken(n), First(n)) /\ Carries(Tail(loop), OnWay(loop))
    BY <1>1, <2>1, Bases, WokenCarries DEF WInv, Pool
  <2>4. Queued' \in Nat /\ Queued' <= Queued + n
    BY <2>1, <2>2, QueuedNat
  <2> QED BY <2>1, <2>2, <2>3, <2>4, RingOnly DEF Onward
<1>2. CASE Dismissed(c, next)
  <2> DEFINE n == Cardinality(ready)
  <2>1. n \in Nat /\ Queued' = n
    BY <1>2, QueuedNat DEF Dismissed, Queued
  <2>2. getters' = StillAsleep(n) /\ loop' = loop \o Woken(n)
    BY <1>2 DEF Dismissed, Stay
  <2> HIDE DEF n
  <2>3. Carries(Woken(n), First(n))
    BY <2>1, WokenCarries DEF WInv, Pool
  <2> QED BY <2>1, <2>2, <2>3, Bases, RingOnly DEF Onward
<1> QED BY <1>1, <1>2

\* Taking a cancelled timer out of the loop resumes the same workers.
LEMMA WithoutCarries ==
  ASSUME NEW V, Carries(loop, V), NEW c
  PROVE  Carries(Without(loop, <<"timeout", c>>), V)
<1> DEFINE x == <<"timeout", c>>
           s == Without(loop, x)
<1>1. loop \in Seq(LoopItem) /\ Once(loop) /\ OnWay(loop) = V /\ Len(loop) \in Nat
  BY DEF Carries
<1>2. CASE \E i \in 1..Len(loop) : loop[i] = x
  <2>1. PICK k \in 1..Len(loop) : s = SubSeq(loop, 1, k - 1) \o SubSeq(loop, k + 1, Len(loop)) /\ loop[k] = x
    BY <1>2 DEF Without, RemoveAt
  <2> DEFINE a == SubSeq(loop, 1, k - 1)  b == SubSeq(loop, k + 1, Len(loop))
  <2>2. a \in Seq(LoopItem) /\ Len(a) = k - 1 /\ \A i \in 1..k - 1 : a[i] = loop[i]
    BY <1>1, SubSeqProperties
  <2>3. b \in Seq(LoopItem) /\ Len(b) = Len(loop) - k /\ \A i \in 1..Len(loop) - k : b[i] = loop[k + i]
    BY <1>1, SubSeqProperties
  <2>4. s = a \o b
    BY <2>1
  <2> HIDE DEF a, b, s
  <2>5. /\ s \in Seq(LoopItem) /\ Len(s) = Len(loop) - 1
        /\ \A i \in 1..Len(loop) - 1 : s[i] = IF i < k THEN loop[i] ELSE loop[i + 1]
    <3>0. /\ s \in Seq(LoopItem) /\ Len(s) = Len(a) + Len(b)
          /\ \A i \in 1..Len(a) + Len(b) : s[i] = IF i <= Len(a) THEN a[i] ELSE b[i - Len(a)]
      BY <2>2, <2>3, <2>4, ConcatProperties
    <3>1. /\ s \in Seq(LoopItem) /\ Len(s) = (k - 1) + (Len(loop) - k)
          /\ \A i \in 1..(k - 1) + (Len(loop) - k) : s[i] = IF i <= k - 1 THEN a[i] ELSE b[i - (k - 1)]
      BY <2>2, <2>3, <3>0
    <3>2. (k - 1) + (Len(loop) - k) = Len(loop) - 1
      BY <1>1
    <3>3. ASSUME NEW i \in 1..Len(loop) - 1 PROVE s[i] = IF i < k THEN loop[i] ELSE loop[i + 1]
      <4>1. CASE i < k
        <5>1. s[i] = a[i] /\ i \in 1..k - 1
          BY <1>1, <3>1, <3>2, <4>1
        <5> QED BY <2>2, <4>1, <5>1
      <4>2. CASE ~(i < k)
        <5>1. s[i] = b[i - (k - 1)] /\ i - (k - 1) \in 1..Len(loop) - k
          BY <1>1, <3>1, <3>2, <4>2
        <5>2. k + (i - (k - 1)) = i + 1
          BY <1>1
        <5> QED BY <2>3, <4>2, <5>1, <5>2
      <4> QED BY <4>1, <4>2
    <3> QED BY <3>1, <3>2, <3>3
  <2>6. \A w \in Workers : loop[k] # <<"worker", w>>
    BY <2>1
  <2> DEFINE at(i) == IF i < k THEN i ELSE i + 1
  <2>9. ASSUME NEW i \in 1..Len(s) PROVE at(i) \in 1..Len(loop) /\ s[i] = loop[at(i)]
    <3>1. CASE i < k
      BY <1>1, <2>5, <3>1
    <3>2. CASE ~(i < k)
      <4>1. i \in 1..Len(loop) - 1 /\ i + 1 \in 1..Len(loop)
        BY <1>1, <2>5
      <4> QED BY <2>5, <3>2, <4>1
    <3> QED BY <3>1, <3>2
  <2>7. Once(s)
    <3> SUFFICES ASSUME NEW w \in Workers, NEW i \in 1..Len(s), NEW j \in 1..Len(s),
                        s[i] = <<"worker", w>>, s[j] = <<"worker", w>>
                 PROVE  i = j
      BY DEF Once
    <3>1. at(i) \in 1..Len(loop) /\ s[i] = loop[at(i)] /\ at(j) \in 1..Len(loop) /\ s[j] = loop[at(j)]
      BY <2>9
    <3> HIDE DEF at
    <3>2. at(i) = at(j)
      BY <1>1, <3>1 DEF Once
    <3>3. (IF i < k THEN i ELSE i + 1) = IF j < k THEN j ELSE j + 1
      BY <3>2 DEF at
    <3>4. i \in Int /\ j \in Int /\ k \in Int
      BY <1>1, <2>5
    <3> QED BY <3>3, <3>4
  <2>8. OnWay(s) = V
    <3>1. ASSUME NEW w \in OnWay(s) PROVE w \in OnWay(loop)
      <4>1. PICK i \in 1..Len(s) : s[i] = <<"worker", w>> /\ w \in Workers
        BY DEF OnWay
      <4>2. at(i) \in 1..Len(loop) /\ s[i] = loop[at(i)]
        BY <2>9
      <4> HIDE DEF at
      <4> QED BY <4>1, <4>2 DEF OnWay
    <3>2. ASSUME NEW w \in OnWay(loop) PROVE w \in OnWay(s)
      <4>1. PICK i \in 1..Len(loop) : loop[i] = <<"worker", w>> /\ w \in Workers
        BY DEF OnWay
      <4>2. i # k
        BY <2>6, <4>1
      <4>3. CASE i < k
        <5>1. i \in 1..Len(s) /\ s[i] = loop[i]
          BY <1>1, <2>5, <4>3
        <5> QED BY <4>1, <5>1 DEF OnWay
      <4>4. CASE i > k
        <5>1. i - 1 \in 1..Len(s) /\ s[i - 1] = loop[i]
          BY <1>1, <2>5, <4>4
        <5> QED BY <4>1, <5>1 DEF OnWay
      <4> QED BY <1>1, <4>2, <4>3, <4>4
    <3> QED BY <1>1, <3>1, <3>2
  <2> QED BY <2>5, <2>7, <2>8 DEF Carries, s
<1>3. CASE ~\E i \in 1..Len(loop) : loop[i] = x
  BY <1>3 DEF Without
<1> QED BY <1>2, <1>3

-----------------------------------------------------------------------------
(* Workers and runners                                                     *)

\* A task that is to be taken has had no runner.
LEMMA Untaken == ASSUME WInv, NEW t \in ready PROVE t \in Tasks /\ rn[t] = "none"
<1>1. t \in Tasks /\ Live(t) /\ ~Active(t) /\ t \notin unborn
  BY DEF WInv, OInv, TasksOK, Single
<1>2. rn[t] \notin {"hook", "over"}
  BY <1>1 DEF WInv, Ran, Live
<1> QED BY <1>1, <1>2 DEF Active

\* A worker leaves get(), with a task or for good: there is one item less,
\* and one worker less to take it.
LEMMA LeaveGet ==
  ASSUME WInv, NEW w \in Workers, AtGet(w), UNCHANGED getters, NEW x \in Tasks \cup {"none"}, job' = [job EXCEPT ![w] = x],
         Onward, x \in Tasks => rn'[x] # "none", NEW q, Carries(q, {}), Leave(q), Queued' \in Nat, Queued' <= Queued - 1
  PROVE  Pool' /\ NoLostWakeup'
<1> USE NamesAssumption
<1>1. /\ getters \in Seq(Workers) /\ Distinct(getters) /\ job \in [Workers -> Tasks \cup {"get", "none"}]
      /\ \A i \in 1..Len(getters) : job[getters[i]] = "get" /\ getters[i] \notin OnWay(loop)
      /\ \A u \in OnWay(loop) : job[u] # "none" /\ (job[u] \in Tasks => rn[job[u]] = "over")
      /\ \A u \in Workers : job[u] \in Tasks => rn[job[u]] # "none"
  BY DEF WInv, Pool
<1>2. job[w] = "get" /\ loop # <<>> /\ Head(loop) = <<"worker", w>>
  BY DEF AtGet, At
<1>3. w \in OnWay(loop) /\ Carries(Tail(loop), OnWay(loop) \ {w})
  BY <1>2, Bases, Popping
<1>4. Carries(loop', (OnWay(loop) \ {w}) \cup {})
  BY <1>3, Joining DEF Leave
<1>5. loop' \in Seq(LoopItem) /\ Once(loop') /\ OnWay(loop') = OnWay(loop) \ {w}
  BY <1>4 DEF Carries
<1>6. job' \in [Workers -> Tasks \cup {"get", "none"}] /\ job'[w] = x /\ \A u \in Workers \ {w} : job'[u] = job[u]
  BY <1>1
<1>7. ASSUME NEW i \in 1..Len(getters') PROVE job'[getters'[i]] = "get" /\ getters'[i] \notin OnWay(loop')
  <2>1. getters'[i] = getters[i] /\ i \in 1..Len(getters) /\ getters[i] \in Workers
    BY <1>1
  <2> QED BY <1>1, <1>3, <1>5, <1>6, <2>1
<1>8. ASSUME NEW u \in OnWay(loop') PROVE job'[u] # "none" /\ (job'[u] \in Tasks => rn'[job'[u]] = "over")
  <2>1. u \in OnWay(loop) /\ u \in Workers /\ u # w
    BY <1>5 DEF OnWay
  <2> QED BY <1>1, <1>6, <2>1 DEF Onward
<1>9. ASSUME NEW u \in Workers, job'[u] \in Tasks PROVE rn'[job'[u]] # "none"
  BY <1>1, <1>6, <1>9 DEF Onward
<1>10. ASSUME getters' # <<>> PROVE Queued' <= Cardinality(Arriving')
  <2>1. Queued <= Cardinality(Arriving)
    BY <1>10 DEF WInv, NoLostWakeup, Queued
  <2>2. w \in Arriving
    BY <1>2, <1>3, ArrivingIs
  <2>3. Arriving' = Arriving \ {w}
    <3>1. Arriving' = {u \in OnWay(loop') : job'[u] = "get"}
      BY DEF Arriving, OnWay, Posted
    <3>2. OnWay(loop) \subseteq Workers /\ Arriving = {u \in OnWay(loop) : job[u] = "get"}
      BY ArrivingIs DEF OnWay
    <3> QED BY <1>5, <1>6, <3>1, <3>2
  <2>4. Cardinality(Arriving \ {w}) = Cardinality(Arriving) - 1 /\ Cardinality(Arriving) \in Nat
    BY <2>2, ArrivingIs, FS_RemoveElement
  <2>5. Cardinality(Arriving') = Cardinality(Arriving \ {w})
    BY <2>3
  <2> QED BY <2>1, <2>4, <2>5, QueuedNat
<1> QED BY <1>1, <1>5, <1>6, <1>7, <1>8, <1>9, <1>10 DEF Pool, NoLostWakeup, Queued

\* A worker falls asleep only on an empty queue.
LEMMA SleepW == ASSUME WInv, NEW w \in Workers, Sleep(w) PROVE Pool' /\ NoLostWakeup'
<1>1. /\ getters \in Seq(Workers) /\ Distinct(getters) /\ job \in [Workers -> Tasks \cup {"get", "none"}]
      /\ \A i \in 1..Len(getters) : job[getters[i]] = "get" /\ getters[i] \notin OnWay(loop)
      /\ \A u \in OnWay(loop) : job[u] # "none" /\ (job[u] \in Tasks => rn[job[u]] = "over")
      /\ \A u \in Workers : job[u] \in Tasks => rn[job[u]] # "none"
  BY DEF WInv, Pool
<1>2. /\ job[w] = "get" /\ loop # <<>> /\ Head(loop) = <<"worker", w>> /\ ready = {} /\ stops = 0
      /\ getters' = Append(getters, w) /\ loop' = Tail(loop) \o <<>> /\ UNCHANGED <<ready, stops, job, rn>>
  BY DEF Sleep, AtGet, At, Leave, places, runVars
<1>3. w \in OnWay(loop) /\ Carries(Tail(loop), OnWay(loop) \ {w})
  BY <1>2, Bases, Popping
<1>4. Carries(loop', (OnWay(loop) \ {w}) \cup {})
  BY <1>2, <1>3, Nobody, Joining
<1>5. loop' \in Seq(LoopItem) /\ Once(loop') /\ OnWay(loop') = OnWay(loop) \ {w}
  BY <1>4 DEF Carries
<1>6. /\ getters' \in Seq(Workers) /\ Len(getters') = Len(getters) + 1 /\ Len(getters) \in Nat
      /\ getters'[Len(getters) + 1] = w /\ \A i \in 1..Len(getters) : getters'[i] = getters[i]
  BY <1>1, <1>2, AppendProperties
<1>7. \A i \in 1..Len(getters) : getters[i] # w
  BY <1>1, <1>3
<1>8. Distinct(getters')
  BY <1>1, <1>6, <1>7 DEF Distinct
<1>9. \A i \in 1..Len(getters') : job'[getters'[i]] = "get" /\ getters'[i] \notin OnWay(loop')
  BY <1>1, <1>2, <1>5, <1>6
<1>10. \A u \in OnWay(loop') : job'[u] # "none" /\ (job'[u] \in Tasks => rn'[job'[u]] = "over")
  BY <1>1, <1>2, <1>5
<1>11. Cardinality(ready') + stops' <= Cardinality(Arriving')
  <2>1. Cardinality(ready') + stops' = 0
    BY <1>2, FS_EmptySet
  <2>2. Arriving' \in SUBSET Workers
    BY DEF Arriving
  <2>3. Cardinality(Arriving') \in Nat
    BY <2>2, WorkersFinite, FS_Subset, FS_CardinalityType
  <2> QED BY <2>1, <2>3
<1> QED BY <1>1, <1>2, <1>5, <1>6, <1>8, <1>9, <1>10, <1>11 DEF Pool, NoLostWakeup

\* A worker whose runner is over comes to get() without leaving the loop.
LEMMA BackW == ASSUME WInv, NEW w \in Workers, Back(w) PROVE Pool' /\ NoLostWakeup'
<1> USE NamesAssumption
<1>1. /\ loop \in Seq(LoopItem) /\ Once(loop)
      /\ getters \in Seq(Workers) /\ Distinct(getters) /\ job \in [Workers -> Tasks \cup {"get", "none"}]
      /\ \A i \in 1..Len(getters) : job[getters[i]] = "get" /\ getters[i] \notin OnWay(loop)
      /\ \A u \in OnWay(loop) : job[u] # "none" /\ (job[u] \in Tasks => rn[job[u]] = "over")
      /\ \A u \in Workers : job[u] \in Tasks => rn[job[u]] # "none"
  BY DEF WInv, Pool
<1>2. /\ job[w] \in Tasks /\ job' = [job EXCEPT ![w] = "get"] /\ UNCHANGED <<getters, ready, stops, rn>>
      /\ loop' = loop \o <<>>
  BY DEF Back, places, Stay
<1>3. loop' = loop
  BY <1>1, <1>2, ConcatEmptySeq
<1>4. OnWay(loop') = OnWay(loop) /\ Once(loop')
  BY <1>1, <1>3
<1>5. job' \in [Workers -> Tasks \cup {"get", "none"}] /\ job'[w] = "get" /\ \A u \in Workers \ {w} : job'[u] = job[u]
  BY <1>1, <1>2
<1>6. ASSUME NEW i \in 1..Len(getters') PROVE job'[getters'[i]] = "get" /\ getters'[i] \notin OnWay(loop')
  <2>1. getters'[i] = getters[i] /\ i \in 1..Len(getters) /\ getters[i] \in Workers
    BY <1>1, <1>2
  <2> QED BY <1>1, <1>2, <1>4, <1>5, <2>1
<1>7. \A u \in OnWay(loop') : job'[u] # "none" /\ (job'[u] \in Tasks => rn'[job'[u]] = "over")
  <2>1. OnWay(loop) \subseteq Workers
    BY DEF OnWay
  <2> QED BY <1>1, <1>2, <1>4, <1>5, <2>1
<1>8. \A u \in Workers : job'[u] \in Tasks => rn'[job'[u]] # "none"
  BY <1>1, <1>2, <1>5
<1>9. ASSUME getters' # <<>> PROVE Queued' <= Cardinality(Arriving')
  <2>1. Queued <= Cardinality(Arriving) /\ Queued' = Queued
    BY <1>2, <1>9 DEF WInv, NoLostWakeup, Queued
  <2>2. Arriving \subseteq Arriving' /\ Arriving' \in SUBSET Workers
    <3>1. Arriving' = {u \in OnWay(loop') : job'[u] = "get"}
      BY DEF Arriving, OnWay, Posted
    <3>2. OnWay(loop) \subseteq Workers /\ Arriving = {u \in OnWay(loop) : job[u] = "get"}
      BY ArrivingIs DEF OnWay
    <3> QED BY <1>4, <1>5, <3>1, <3>2
  <2>3. IsFiniteSet(Arriving') /\ Cardinality(Arriving') \in Nat
    BY <2>2, WorkersFinite, FS_Subset, FS_CardinalityType
  <2>4. Cardinality(Arriving) <= Cardinality(Arriving')
    BY <2>2, <2>3, FS_Subset
  <2> QED BY <2>1, <2>3, <2>4, ArrivingIs, QueuedNat
<1> QED BY <1>1, <1>2, <1>3, <1>4, <1>5, <1>6, <1>7, <1>8, <1>9 DEF Pool, NoLostWakeup, Queued

\* The steps of a worker keep the pool and lose no wake-up.
LEMMA WorkerW == ASSUME WInv, NEW w \in Workers, WorkerStep(w) PROVE Pool' /\ NoLostWakeup'
<1>1. ASSUME NEW t \in Tasks, Take(w, t)
      PROVE  Pool' /\ NoLostWakeup'
  <2>1. t \in ready /\ ready' = ready \ {t} /\ stops' = stops /\ getters' = getters /\ rn[t] = "none"
    BY <1>1, Untaken DEF Take
  <2>2. Queued' \in Nat /\ Queued' <= Queued - 1
    <3>1. Cardinality(ready') = Cardinality(ready) - 1 /\ Cardinality(ready') \in Nat
      BY <2>1, QueuedNat, FS_RemoveElement, FS_CardinalityType
    <3> QED BY <2>1, <3>1, QueuedNat DEF Queued, WInv, Rest
  <2>3. CASE halt /\ t \notin MustComplete
    <3>1. Stay(Resumed(1)) /\ UNCHANGED <<job, rn>>
      BY <1>1, <2>3 DEF Take
    <3>2. loop' = loop \o Resumed(1) /\ Carries(Resumed(1), {}) /\ Carries(loop, OnWay(loop)) /\ Onward
      BY <3>1, ResumedQ, Bases DEF Stay, Onward
    <3>3. getters' = StillAsleep(0) /\ First(0) = {} /\ 0 \in Nat
      BY <2>1, NobodyWoken
    <3>4. Queued' <= Queued + 0
      BY <2>2, QueuedNat
    <3> QED BY <2>2, <3>1, <3>2, <3>3, <3>4, RingOnly
  <2>4. CASE ~(halt /\ t \notin MustComplete)
    <3>1. rn' = [rn EXCEPT ![t] = "new"] /\ job' = [job EXCEPT ![w] = t] /\ Leave(<<<<"runner", t>>>>) /\ AtGet(w)
      BY <1>1, <2>4 DEF Take
    <3>2. Onward /\ rn'[t] # "none"
      BY <2>1, <3>1 DEF Onward, WInv, OInv, TasksOK
    <3>3. Carries(<<<<"runner", t>>>>, {})
      BY One, Kinds
    <3>4. t \in Tasks \cup {"none"}
      OBVIOUS
    <3> QED BY <2>1, <2>2, <3>1, <3>2, <3>3, <3>4, LeaveGet
  <2> QED BY <2>3, <2>4
<1>2. CASE Stop(w)
  <2>1. /\ AtGet(w) /\ stops > 0 /\ stops' = stops - 1 /\ job' = [job EXCEPT ![w] = "none"]
        /\ UNCHANGED <<ready, getters, rn>>
    BY <1>2 DEF Stop, runVars
  <2>2. Queued' \in Nat /\ Queued' <= Queued - 1
    BY <2>1, QueuedNat DEF Queued, WInv, Rest
  <2>3. \E q : Carries(q, {}) /\ Leave(q)
    <3>1. Carries(<<<<"joined", w>>>>, {})
      BY One, Kinds
    <3> QED BY <1>2, <3>1, Nobody DEF Stop
  <2>4. Onward
    BY <2>1 DEF Onward
  <2>5. "none" \in Tasks \cup {"none"} /\ "none" \notin Tasks
    BY NamesAssumption
  <2> QED BY <2>1, <2>2, <2>3, <2>4, <2>5, LeaveGet
<1>3. CASE Joined(w)
  <2>1. At(<<"joined", w>>) /\ UNCHANGED <<getters, job, ready, stops, rn>>
    BY <1>3 DEF Joined, places, pool, runVars
  <2> DEFINE D == {d \in Callers : snap[d] = {w}}
  <2>2. Leave(SetToSeq({<<"caller", c>> : c \in D})) /\ D \in SUBSET Callers
    BY <1>3 DEF Joined
  <2> HIDE DEF D
  <2>3. Carries(SetToSeq({<<"caller", c>> : c \in D}), {})
    BY <2>2, CallersQ
  <2>4. Quietly
    BY <2>1, <2>2, <2>3, QuietLeave
  <2> QED BY <2>1, <2>4, CalmStep DEF Onward
<1> QED BY <1>1, <1>2, <1>3, SleepW, BackW DEF WorkerStep

\* A runner that is over resumes the workers that await it.
LEMMA EndsW ==
  ASSUME WInv, NEW t \in Tasks, rn[t] \in {"new", "hook"}, rn' = [rn EXCEPT ![t] = "over"],
         At(<<"runner", t>>), Leave(WakeWorker(t)), UNCHANGED <<ready, stops, getters, job>>
  PROVE  Pool' /\ NoLostWakeup'
<1>1. rn'[t] = "over" /\ Onward
  BY DEF WInv, OInv, TasksOK, Onward
<1>2. Carries(WakeWorker(t), Awaiting(t)) /\ Carries(Tail(loop), OnWay(loop))
  BY WakeWorkerQ, Bases
<1>3. Awaiting(t) \in SUBSET Workers /\ \A w \in Awaiting(t) : job[w] \in Tasks /\ rn[job[w]] # "over" /\ rn'[job[w]] = "over"
  BY <1>1 DEF Awaiting
<1>4. getters' = StillAsleep(0) /\ First(0) = {} /\ 0 \in Nat
  BY NobodyWoken
<1>5. Queued' \in Nat /\ Queued' <= Queued + 0
  BY QueuedNat DEF Queued
<1>6. \E fresh \in SUBSET Workers :
        /\ \A w \in fresh : job[w] = "none"
        /\ job' = [w \in Workers |-> IF w \in fresh THEN "get" ELSE job[w]]
        /\ Carries(WakeWorker(t), First(0) \cup fresh \cup Awaiting(t))
  <2> WITNESS {} \in SUBSET Workers
  <2>1. First(0) \cup {} \cup Awaiting(t) = Awaiting(t)
    BY <1>4
  <2>2. job' = [w \in Workers |-> IF w \in {} THEN "get" ELSE job[w]]
    BY DEF WInv, Pool
  <2> QED BY <1>2, <2>1, <2>2
<1> QED BY <1>1, <1>2, <1>3, <1>4, <1>5, <1>6, WakeStep DEF Leave, Onward

\* The steps of a runner keep the pool and lose no wake-up.
LEMMA RunnerW == ASSUME WInv, NEW t \in Tasks, RunnerStep(t) PROVE Pool' /\ NoLostWakeup'
<1>1. CASE Unborn(t) \/ EndRunner(t)
  BY <1>1, EndsW DEF Unborn, EndRunner, AtRunner, places, pool
<1>2. ASSUME NEW s \in Tasks, HookSubmits(t, s)
      PROVE  Pool' /\ NoLostWakeup'
  <2>1. At(<<"runner", t>>) /\ rn[t] = "hook" /\ rn' = [rn EXCEPT ![t] = "over"]
    BY <1>2 DEF HookSubmits, AtRunner
  <2>2. rn'[t] = "over" /\ Onward
    BY <2>1 DEF WInv, OInv, TasksOK, Onward
  <2>3. Carries(WakeWorker(t), Awaiting(t)) /\ Carries(Tail(loop), OnWay(loop))
    BY <2>1, WakeWorkerQ, Bases
  <2>4. Awaiting(t) \in SUBSET Workers /\ \A w \in Awaiting(t) : job[w] \in Tasks /\ rn[job[w]] # "over" /\ rn'[job[w]] = "over"
    BY <2>1, <2>2 DEF Awaiting
  <2> QED BY <1>2, <2>2, <2>3, <2>4, EnqueueW DEF HookSubmits, Leave
<1>3. CASE FailAborts(t)
  <2>1. Abort(FALSE, {t}, "failed") /\ Stay(AbortItems(FALSE, {t})) /\ job' = job
    BY <1>3 DEF FailAborts
  <2>2. Onward
    BY <1>3 DEF FailAborts, AtRunner, Onward, WInv, OInv, TasksOK
  <2>3. \E kill : Abort(kill, {t}, "failed") /\ Stay(AbortItems(kill, {t}))
    BY <2>1
  <2> QED BY <2>1, <2>2, <2>3, AbortW
<1>4. CASE Gate(t) \/ Begin(t) \/ Succeed(t) \/ Retry(t) \/ Fail(t) \/ Cancelled(t) \/ Swallow(t)
  <2>1. UNCHANGED <<getters, job, ready, stops>> /\ At(<<"runner", t>>) /\ rn[t] # "over"
    BY <1>4 DEF Gate, Begin, Succeed, Retry, Fail, Cancelled, Swallow, AtRunner, places, pool
  <2>2. Onward
    BY <1>4, <2>1 DEF Gate, Begin, Succeed, Retry, Fail, Cancelled, Swallow, Onward, WInv, OInv, TasksOK
  <2>3. Quietly
    <3>1. \E q : Carries(q, {}) /\ (Stay(q) \/ Leave(q))
      BY <1>4, Nobody, ResumedQ DEF Gate, Begin, Succeed, Retry, Fail, Cancelled, Swallow
    <3> QED BY <2>1, <3>1, QuietStay, QuietLeave
  <2> QED BY <2>1, <2>2, <2>3, CalmStep
<1> QED BY <1>1, <1>2, <1>3, <1>4 DEF RunnerStep

-----------------------------------------------------------------------------
(* Callbacks, the world outside, calls                                     *)

\* The callbacks of the loop keep the pool and lose no wake-up.
LEMMA CallbackW == ASSUME WInv, NEW t \in Tasks, Callback(t) PROVE Pool' /\ NoLostWakeup'
<1>1. CASE Release(t)
  <2> DEFINE new == IF halt \/ closed \/ ~started THEN <<>> ELSE Spawned(Cardinality(ready) + 1 + stops)
  <2>1. /\ At(<<"due", t>>) /\ t \in timers /\ ready' = ready \cup {t} /\ UNCHANGED <<stops, rn>> /\ getters' = StillAsleep(1)
        /\ Leave(Woken(1) \o Items("worker", new))
        /\ job' = [w \in Workers |-> IF w \in ToSet(new) THEN "get" ELSE job[w]]
    BY <1>1 DEF Release, Spawn, runVars
  <2>2. ToSet(new) \in SUBSET Workers /\ (\A w \in ToSet(new) : job[w] = "none") /\ Carries(Items("worker", new), ToSet(new))
    <3>1. CASE halt \/ closed \/ ~started
      <4>1. new = <<>> /\ Distinct(<<>>) /\ ToSet(<<>>) = {} /\ <<>> \in Seq(Workers)
        BY <3>1 DEF Distinct, ToSet
      <4>2. Carries(Items("worker", <<>>), {})
        BY <4>1, Waking
      <4> QED BY <4>1, <4>2
    <3>2. CASE ~(halt \/ closed \/ ~started)
      <4>1. new = Spawned(Cardinality(ready) + 1 + stops) /\ Cardinality(ready) + 1 + stops \in Int
        BY <3>2, QueuedNat DEF WInv, Rest
      <4> QED BY <4>1, SpawnedFree
    <3> QED BY <3>1, <3>2
  <2> HIDE DEF new
  <2>3. Carries(Woken(1), First(1)) /\ \A w \in First(1) : job[w] = "get"
    BY WokenCarries, AsleepGet DEF WInv, Pool
  <2>4. Carries(Woken(1) \o Items("worker", new), First(1) \cup ToSet(new))
    <3>1. First(1) \cap ToSet(new) = {}
      BY <2>2, <2>3
    <3> QED BY <2>2, <2>3, <3>1, Joining
  <2>5. Queued' \in Nat /\ Queued' <= Queued + 1
    <3>1. t \notin ready
      BY <2>1 DEF WInv, OInv, Single
    <3>2. Cardinality(ready') = Cardinality(ready) + 1
      BY <2>1, <3>1, QueuedNat, FS_AddElement
    <3> QED BY <2>1, <3>2, QueuedNat DEF Queued, WInv, Rest
  <2>6. Carries(Tail(loop), OnWay(loop)) /\ loop' = Tail(loop) \o (Woken(1) \o Items("worker", new))
    BY <2>1, Bases DEF Leave
  <2> QED BY <2>1, <2>2, <2>4, <2>5, <2>6, RingStep DEF Onward
<1>2. CASE ReleaseNone(t) \/ CommitRefused(t)
  <2>1. UNCHANGED <<getters, job, ready, stops, rn>>
    BY <1>2 DEF ReleaseNone, CommitRefused, places, pool, runVars
  <2>2. Quietly
    BY <1>2, Nobody, QuietLeave DEF ReleaseNone, CommitRefused
  <2> QED BY <2>1, <2>2, CalmStep DEF Onward
<1>3. CASE Commit(t)
  BY <1>3, Bases, AdmitW DEF Commit, Leave, runVars
<1>4. CASE CancelHop(t)
  BY <1>4, Bases, CancelLocalW DEF CancelHop, Leave
<1> QED BY <1>1, <1>2, <1>3, <1>4 DEF Callback

\* The world outside puts items on the loop, none of them a worker.
LEMMA OutsideW == ASSUME WInv, Outside \/ UNCHANGED vars PROVE Pool' /\ NoLostWakeup'
<1>1. CASE Outside
  <2>1. UNCHANGED <<getters, job, ready, stops, rn>>
    BY <1>1 DEF Outside, Due, Resume, ThreadSubmits, ThreadCancels, CallerWakes, Expire, places, pool, runVars
  <2>2. Quietly
    <3>1. ASSUME NEW t \in Tasks, Due(t) \/ Resume(t) \/ ThreadSubmits(t) \/ ThreadCancels(t)
          PROVE  Quietly
      BY <3>1, QuietPost, Kinds DEF Due, Resume, ThreadSubmits, ThreadCancels
    <3>2. ASSUME NEW c \in Callers, CallerWakes(c) \/ Expire(c)
          PROVE  Quietly
      BY <3>2, QuietPost, Kinds DEF CallerWakes, Expire
    <3> QED BY <1>1, <3>1, <3>2 DEF Outside
  <2> QED BY <2>1, <2>2, CalmStep DEF Onward
<1>2. CASE UNCHANGED vars
  <2>1. UNCHANGED <<getters, job, ready, stops, rn, loop>>
    BY <1>2 DEF vars, loopVars, places, pool, runVars
  <2>2. Quietly
    <3>1. loop \in Seq(LoopItem)
      BY DEF WInv, Pool
    <3>2. loop' = loop \o <<>>
      BY <2>1, <3>1, ConcatEmptySeq
    <3> QED BY <3>2, Bases, Nobody DEF Quietly
  <2> QED BY <2>1, <2>2, CalmStep DEF Onward
<1> QED BY <1>1, <1>2

\* The calls of a coroutine keep the pool and lose no wake-up.
LEMMA CallerW == ASSUME WInv, NEW c \in Callers, CallerStep(c) PROVE Pool' /\ NoLostWakeup'
<1>1. CASE Yield(c) \/ RunRefused(c) \/ RunWait(c) \/ RunRest(c) \/ RunRested(c) \/ RunEnd(c) \/ JoinRest(c) \/ JoinRested(c)
           \/ ShutdownAgain(c) \/ DownRest(c) \/ DownHalt(c) \/ DownEnd(c)
  <2>1. UNCHANGED <<getters, job, ready, stops, rn>>
    BY <1>1 DEF Yield, RunRefused, RunWait, RunRest, RunRested, RunEnd, JoinRest, JoinRested, ShutdownAgain,
       DownRest, DownHalt, DownEnd, places, pool, runVars
  <2>2. \E q : Carries(q, {}) /\ (Stay(q) \/ (Leave(q) /\ At(<<"caller", c>>)))
    BY <1>1, Nobody, WakeItemsQ DEF Yield, RunRefused, RunWait, RunRest, RunRested, RunEnd, JoinRest, JoinRested,
       ShutdownAgain, DownRest, DownHalt, DownEnd, AwaitIdle, CallerAt
  <2>3. Quietly
    BY <2>2, QuietStay, QuietLeave
  <2> QED BY <2>1, <2>3, CalmStep DEF Onward
<1>2. CASE ExpireHop(c)
  <2>1. UNCHANGED <<getters, job, ready, stops, rn>> /\ At(<<"timeout", c>>)
    BY <1>2 DEF ExpireHop, places, pool, runVars
  <2>2. Carries(<<<<"caller", c>>>>, {})
    BY One, Kinds
  <2>3. \E q : Carries(q, {}) /\ Leave(q)
    BY <1>2, <2>2, Nobody DEF ExpireHop
  <2>4. Quietly
    BY <2>1, <2>3, QuietLeave
  <2> QED BY <2>1, <2>4, CalmStep DEF Onward
<1>3. CASE RunWoken(c)
  <2>1. UNCHANGED <<getters, job, ready, stops, rn>> /\ loop' = Without(loop, <<"timeout", c>>)
    BY <1>3 DEF RunWoken, places, pool, runVars
  <2>2. Carries(loop', OnWay(loop))
    BY <2>1, Bases, WithoutCarries
  <2>3. loop' = loop' \o <<>>
    BY <2>2, ConcatEmptySeq DEF Carries
  <2>4. Quietly
    BY <2>2, <2>3, Nobody DEF Quietly
  <2> QED BY <2>1, <2>4, CalmStep DEF Onward
<1>4. CASE Run(c) \/ Join(c) \/ Shutdown(c)
  <2>1. UNCHANGED <<ready, stops, getters, rn>> /\ ((Start /\ Stay(StartItems)) \/ (Stay(<<>>) /\ job' = job))
    BY <1>4 DEF Run, Join, Shutdown, runVars
  <2>2. CASE Start /\ Stay(StartItems)
    BY <2>1, <2>2, StartW
  <2>3. CASE Stay(<<>>) /\ job' = job
    BY <2>1, <2>3, Nobody, QuietStay, CalmStep DEF Onward
  <2> QED BY <2>1, <2>2, <2>3
<1>5. CASE RunTimesOut(c) \/ ForcedShutdown(c) \/ CancelUnbound(c)
  <2>1. (\E kill : Abort(kill, {}, "cancelled") /\ Stay(AbortItems(kill, {}))) /\ UNCHANGED <<job, rn>>
    BY <1>5 DEF RunTimesOut, ForcedShutdown, CancelUnbound
  <2> QED BY <2>1, AbortW DEF Onward
<1>6. CASE RunStop(c) \/ RunGathered(c) \/ DownStop(c)
  <2>1. UNCHANGED <<ready, job, rn>> /\ At(<<"caller", c>>)
    BY <1>6 DEF RunStop, RunGathered, DownStop, runVars, CallerAt
  <2>2. \/ \E next : Dismiss(c, next) \/ Dismissed(c, next)
        \/ Stay(<<>>) /\ UNCHANGED <<getters, stops>>
    BY <1>6 DEF RunStop, RunGathered, DownStop
  <2>3. CASE \E next : Dismiss(c, next) \/ Dismissed(c, next)
    BY <2>1, <2>3, DismissW
  <2>4. CASE Stay(<<>>) /\ UNCHANGED <<getters, stops>>
    BY <2>1, <2>4, Nobody, QuietStay, CalmStep DEF Onward
  <2> QED BY <2>2, <2>3, <2>4
<1>7. CASE Reset(c)
  <2> DEFINE a == Items("caller", sleepers)
             b == Interrupted(Running)
  <2>1. /\ getters' = StillAsleep(stops) /\ ready' = {} /\ stops' = 0 /\ UNCHANGED <<job, rn>>
        /\ loop' = loop \o (a \o Woken(stops) \o b)
    BY <1>7 DEF Reset, Stay
  <2>2. stops \in Nat /\ Carries(a, {}) /\ Carries(b, {})
    BY Silent, Kinds, InterruptedQ DEF WInv, Rest
  <2> HIDE DEF a, b
  <2>3. Carries(Woken(stops), First(stops))
    BY <2>2, WokenCarries DEF WInv, Pool
  <2>4. Carries(a \o Woken(stops), {} \cup First(stops))
    BY <2>2, <2>3, Joining
  <2>5. Carries(a \o Woken(stops) \o b, ({} \cup First(stops)) \cup {})
    BY <2>2, <2>4, Joining
  <2>6. Carries(a \o Woken(stops) \o b, First(stops))
    BY <2>5
  <2>7. Queued' = 0
    BY <2>1, FS_EmptySet DEF Queued
  <2> DEFINE q == a \o Woken(stops) \o b
  <2>8. Carries(q, First(stops)) /\ loop' = loop \o q
    BY <2>1, <2>6
  <2> HIDE DEF q
  <2>9. Queued' \in Nat /\ Queued' <= stops
    BY <2>2, <2>7
  <2>10. Onward
    BY <2>1 DEF Onward
  <2> QED BY <2>1, <2>2, <2>8, <2>9, <2>10, Bases, RingOnly
<1>8. ASSUME NEW t \in Tasks, Submit(c, t) \/ Cancel(c, t)
      PROVE  Pool' /\ NoLostWakeup'
  BY <1>8, Bases, AdmitW, CancelLocalW DEF Submit, Cancel, Stay, runVars
<1> QED BY <1>1, <1>2, <1>3, <1>4, <1>5, <1>6, <1>7, <1>8 DEF CallerStep

-----------------------------------------------------------------------------
(* Runners and sequences; the invariant holds                              *)

\* A step that leaves runners and statuses alone keeps what runners tell.
LEMMA KeptRan == ASSUME Ran, UNCHANGED <<rn, st, unborn>> PROVE Ran'
BY DEF Ran, Final

\* A runner comes to its hook with the record of its result.
LEMMA RecordRan ==
  ASSUME OInv, Ran, NEW done, NEW o \in Final, NEW cut, Record(done, o, cut), unborn' = unborn,
         \A t \in Tasks : rn'[t] = rn[t] \/ (t \in done /\ rn'[t] = "hook")
  PROVE  Ran'
<1>1. ASSUME NEW t \in Tasks, rn'[t] # "none"
      PROVE  st'[t] # "new" /\ (rn'[t] \in {"hook", "over"} => t \in unborn' \/ st'[t] \in Final')
  <2>1. st'[t] = IF t \in done THEN o ELSE IF t \in cut THEN "cancelled" ELSE st[t]
    BY DEF Record
  <2> QED BY <1>1, <2>1 DEF Ran, Final
<1> QED BY <1>1 DEF Ran

\* A task that is admitted had no runner.
LEMMA EnqueueRan ==
  ASSUME OInv, Ran, NEW t \in Tasks, Enqueue(t), unborn' = unborn,
         \A u \in Tasks : rn'[u] = rn[u] \/ (rn[u] = "hook" /\ rn'[u] = "over")
  PROVE  Ran'
<1>1. st[t] = "new" /\ st' = [st EXCEPT ![t] = "pending"]
  BY DEF Enqueue
<1>2. rn[t] = "none" /\ rn'[t] = "none"
  BY <1>1 DEF Ran
<1>3. \A u \in Tasks \ {t} : st'[u] = st[u]
  BY <1>1 DEF OInv, TasksOK
<1> QED BY <1>2, <1>3 DEF Ran, Final

\* A cancellation creates and ends no runner.
LEMMA CancelRan == ASSUME OInv, Ran, NEW t \in Tasks, CancelLocal(t), UNCHANGED <<rn, unborn>> PROVE Ran'
<1>1. CASE t \in Running
  BY <1>1, KeptRan DEF CancelLocal, count
<1>2. CASE t \notin Running
  BY <1>2, RecordRan DEF CancelLocal, Final
<1> QED BY <1>1, <1>2

\* An abort ends no runner but one that has its result.
LEMMA AbortRan ==
  ASSUME OInv, Ran, NEW kill, NEW done, NEW o \in Final, Abort(kill, done, o), unborn' = unborn,
         \A t \in Tasks : rn'[t] = rn[t] \/ (t \in done /\ rn'[t] = "hook")
  PROVE  Ran'
BY RecordRan DEF Abort

\* The steps of a runner keep it: there is a result at the hook, or the
\* runner died unborn.
LEMMA RunnerRan == ASSUME OInv, Ran, NEW t \in Tasks, RunnerStep(t) PROVE Ran'
<1>1. CASE Unborn(t) \/ EndRunner(t)
  BY <1>1 DEF Unborn, EndRunner, AtRunner, count, Ran, OInv, TasksOK, Final
<1>2. ASSUME NEW s \in Tasks, HookSubmits(t, s) PROVE Ran'
  BY <1>2, EnqueueRan DEF HookSubmits, AtRunner, OInv, TasksOK
<1>3. CASE Gate(t) \/ Begin(t) \/ Retry(t)
  BY <1>3 DEF Gate, Begin, Retry, AtRunner, count, Ran, OInv, TasksOK, Final
<1>4. CASE Succeed(t) \/ Fail(t) \/ Cancelled(t)
  <2>1. (\E o \in Final : Record({t}, o, {})) /\ rn' = [rn EXCEPT ![t] = "hook"] /\ unborn' = unborn
    BY <1>4 DEF Succeed, Fail, Cancelled, Final
  <2>2. \A u \in Tasks : rn'[u] = rn[u] \/ (u \in {t} /\ rn'[u] = "hook")
    BY <2>1 DEF OInv, TasksOK
  <2> QED BY <2>1, <2>2, RecordRan
<1>5. CASE FailAborts(t)
  <2>1. (\E kill : Abort(kill, {t}, "failed")) /\ rn' = [rn EXCEPT ![t] = "hook"] /\ unborn' = unborn
    BY <1>5 DEF FailAborts
  <2>2. \A u \in Tasks : rn'[u] = rn[u] \/ (u \in {t} /\ rn'[u] = "hook")
    BY <2>1 DEF OInv, TasksOK
  <2> QED BY <2>1, <2>2, AbortRan DEF Final
<1>6. CASE Swallow(t)
  BY <1>6, KeptRan DEF Swallow, count
<1> QED BY <1>1, <1>2, <1>3, <1>4, <1>5, <1>6 DEF RunnerStep

\* The steps of the others keep it: a runner is created for a task that was
\* queued, hence submitted.
LEMMA OtherRan ==
  ASSUME OInv, Ran,
         \/ \E w \in Workers : WorkerStep(w)
         \/ \E c \in Callers : CallerStep(c)
         \/ \E t \in Tasks : Callback(t)
         \/ Outside \/ UNCHANGED vars
  PROVE  Ran'
<1>1. ASSUME NEW w \in Workers, NEW t \in Tasks, Take(w, t) PROVE Ran'
  <2>1. CASE halt /\ t \notin MustComplete
    BY <1>1, <2>1, RecordRan DEF Take, Final
  <2>2. CASE ~(halt /\ t \notin MustComplete)
    <3>1. t \in ready /\ rn' = [rn EXCEPT ![t] = "new"] /\ UNCHANGED <<st, unborn>>
      BY <1>1, <2>2 DEF Take, count
    <3>2. st[t] # "new"
      BY <3>1 DEF OInv, Single, Live
    <3> QED BY <3>1, <3>2 DEF Ran, OInv, TasksOK, Final
  <2> QED BY <2>1, <2>2
<1>2. ASSUME NEW c \in Callers, RunTimesOut(c) \/ ForcedShutdown(c) \/ CancelUnbound(c) PROVE Ran'
  <2>1. (\E kill : Abort(kill, {}, "cancelled")) /\ UNCHANGED <<rn, unborn>>
    BY <1>2 DEF RunTimesOut, ForcedShutdown, CancelUnbound
  <2> QED BY <2>1, AbortRan DEF Final
<1>3. ASSUME NEW c \in Callers, NEW t \in Tasks, Submit(c, t) \/ Cancel(c, t) PROVE Ran'
  BY <1>3, EnqueueRan, CancelRan DEF Submit, Cancel, runVars
<1>4. ASSUME NEW t \in Tasks, Commit(t) \/ CancelHop(t) PROVE Ran'
  BY <1>4, EnqueueRan, CancelRan DEF Commit, CancelHop, runVars
<1>5. ASSUME NEW c \in Callers, Reset(c) PROVE Ran'
  BY <1>5 DEF Reset, Ran, Final, OInv, TasksOK
<1>6. ASSUME NEW c \in Callers, CallerStep(c),
             ~(RunTimesOut(c) \/ ForcedShutdown(c) \/ CancelUnbound(c) \/ Reset(c) \/ \E t \in Tasks : Submit(c, t) \/ Cancel(c, t))
      PROVE  Ran'
  <2>1. UNCHANGED <<rn, st, unborn>>
    BY <1>6 DEF CallerStep, Yield, Run, RunRefused, RunWait, ExpireHop, RunWoken, RunRest, RunRested, RunStop, RunGathered, RunEnd,
       Join, JoinRest, JoinRested, ShutdownAgain, Shutdown, DownRest, DownHalt, DownStop, DownEnd, runVars, count
  <2> QED BY <2>1, KeptRan
<1>7. ASSUME \/ \E w \in Workers : Stop(w) \/ Sleep(w) \/ Back(w) \/ Joined(w)
             \/ \E t \in Tasks : Release(t) \/ ReleaseNone(t) \/ CommitRefused(t)
             \/ Outside \/ UNCHANGED vars
      PROVE  Ran'
  <2>1. UNCHANGED <<rn, st, unborn>>
    BY <1>7 DEF Stop, Sleep, Back, Joined, Release, ReleaseNone, CommitRefused, Outside, Due, Resume, ThreadSubmits, ThreadCancels,
       CallerWakes, Expire, vars, runVars, count
  <2> QED BY <2>1, KeptRan
<1> QED BY <1>1, <1>2, <1>3, <1>4, <1>5, <1>6, <1>7 DEF WorkerStep, Callback

\* What is put to sleep on the event is a caller.
LEMMA AwaitRest ==
  ASSUME WInv, NEW c \in Callers, NEW asleep, NEW next, AwaitIdle(c, asleep, next)
  PROVE  sleepers' \in Seq(Callers)
BY DEF AwaitIdle, WInv, Rest

\* A record lets the sleepers go or leaves them alone.
LEMMA RecordRest == ASSUME WInv, NEW done, NEW o, NEW cut, Record(done, o, cut) PROVE sleepers' \in Seq(Callers)
BY DEF Record, WInv, Rest

\* The workers created are registered.
LEMMA SpawnRest == ASSUME WInv, NEW new, ToSet(new) \in SUBSET Workers, Spawn(new) PROVE registered' \subseteq Workers
BY DEF Spawn, WInv, Rest

\* A step that leaves these sequences alone keeps their types.
LEMMA KeptRest == ASSUME WInv, UNCHANGED <<runners, sleepers, stops, registered>> PROVE Rest'
BY DEF WInv, Rest

\* A cancellation keeps the types.
LEMMA CancelRest == ASSUME WInv, NEW t \in Tasks, CancelLocal(t), UNCHANGED <<runners, registered>> PROVE Rest'
<1>1. stops' = stops /\ sleepers' \in Seq(Callers)
  BY RecordRest DEF CancelLocal, places, count, WInv, Rest
<1> QED BY <1>1 DEF WInv, Rest

\* An admission keeps the types.
LEMMA EnqueueRest == ASSUME WInv, NEW t \in Tasks, Enqueue(t), UNCHANGED runners PROVE Rest'
<1>1. stops' = stops /\ sleepers' = sleepers /\ registered' \subseteq Workers
  BY NewFree, SpawnRest DEF Enqueue
<1> QED BY <1>1 DEF WInv, Rest

\* An abort keeps the types.
LEMMA AbortRest == ASSUME WInv, NEW kill, NEW done, NEW o, Abort(kill, done, o), UNCHANGED <<runners, registered>> PROVE Rest'
<1>1. stops' = stops /\ sleepers' \in Seq(Callers)
  BY RecordRest DEF Abort
<1> QED BY <1>1 DEF WInv, Rest

\* The steps of a runner keep the types.
LEMMA RunnerRest == ASSUME WInv, NEW t \in Tasks, RunnerStep(t) PROVE Rest'
<1>1. CASE Unborn(t) \/ Gate(t) \/ Begin(t) \/ Retry(t) \/ Swallow(t) \/ EndRunner(t)
  BY <1>1, KeptRest DEF Unborn, Gate, Begin, Retry, Swallow, EndRunner, places, pool, count
<1>2. CASE Succeed(t) \/ Fail(t) \/ Cancelled(t)
  <2>1. UNCHANGED <<runners, stops, registered>> /\ sleepers' \in Seq(Callers)
    BY <1>2, RecordRest DEF Succeed, Fail, Cancelled, places, pool
  <2> QED BY <2>1 DEF WInv, Rest
<1>3. CASE FailAborts(t)
  <2>1. (\E kill : Abort(kill, {t}, "failed")) /\ UNCHANGED <<runners, registered>>
    BY <1>3 DEF FailAborts
  <2> QED BY <2>1, AbortRest
<1>4. CASE \E s \in Tasks : HookSubmits(t, s)
  BY <1>4, EnqueueRest DEF HookSubmits
<1> QED BY <1>1, <1>2, <1>3, <1>4 DEF RunnerStep

\* The steps of a worker keep the types.
LEMMA WorkerRest == ASSUME WInv, NEW w \in Workers, WorkerStep(w) PROVE Rest'
<1>1. ASSUME NEW t \in Tasks, Take(w, t) PROVE Rest'
  <2>1. UNCHANGED <<stops, registered>> /\ sleepers' \in Seq(Callers)
    BY <1>1, RecordRest DEF Take, count, WInv, Rest
  <2>2. runners' \in Seq(Tasks)
    <3>1. runners' = runners \/ runners' = Append(runners, t)
      BY <1>1 DEF Take, count
    <3>2. runners \in Seq(Tasks)
      BY DEF WInv, Rest
    <3> QED BY <3>1, <3>2, AppendProperties
  <2> QED BY <2>1, <2>2 DEF WInv, Rest
<1>2. CASE Stop(w)
  BY <1>2 DEF Stop, runVars, count, WInv, Rest
<1>3. CASE Sleep(w) \/ Joined(w)
  BY <1>3, KeptRest DEF Sleep, Joined, places, pool, runVars, count
<1>4. CASE Back(w)
  <2>1. UNCHANGED <<sleepers, stops, registered>> /\ runners' \in Seq(Tasks)
    BY <1>4, WithoutTyped DEF Back, places, count, WInv, Rest
  <2> QED BY <2>1 DEF WInv, Rest
<1> QED BY <1>1, <1>2, <1>3, <1>4 DEF WorkerStep

\* The callbacks of the loop keep the types.
LEMMA CallbackRest == ASSUME WInv, NEW t \in Tasks, Callback(t) PROVE Rest'
<1>1. CASE Release(t)
  <2> DEFINE new == IF halt \/ closed \/ ~started THEN <<>> ELSE Spawned(Cardinality(ready) + 1 + stops)
  <2>1. ToSet(new) \in SUBSET Workers
    <3>1. Cardinality(ready) + 1 + stops \in Int
      BY QueuedNat DEF WInv, Rest
    <3>2. ToSet(<<>>) = {}
      BY DEF ToSet
    <3> QED BY <3>1, <3>2, SpawnedFree
  <2>2. Spawn(new) /\ UNCHANGED <<runners, sleepers, stops>>
    BY <1>1 DEF Release, runVars, count
  <2> HIDE DEF new
  <2>3. registered' \subseteq Workers
    BY <2>1, <2>2, SpawnRest
  <2> QED BY <2>2, <2>3 DEF WInv, Rest
<1>2. CASE ReleaseNone(t) \/ CommitRefused(t)
  BY <1>2, KeptRest DEF ReleaseNone, CommitRefused, places, pool, runVars, count
<1>3. CASE Commit(t) \/ CancelHop(t)
  BY <1>3, EnqueueRest, CancelRest DEF Commit, CancelHop, runVars
<1> QED BY <1>1, <1>2, <1>3 DEF Callback

\* The calls of a coroutine keep the types.
LEMMA CallerRest == ASSUME WInv, NEW c \in Callers, CallerStep(c) PROVE Rest'
<1>1. CASE Yield(c) \/ RunRefused(c) \/ RunWoken(c) \/ RunRested(c) \/ RunEnd(c) \/ JoinRested(c) \/ ShutdownAgain(c)
           \/ DownHalt(c) \/ DownEnd(c)
  BY <1>1, KeptRest DEF Yield, RunRefused, RunWoken, RunRested, RunEnd, JoinRested, ShutdownAgain, DownHalt, DownEnd,
     places, pool, runVars, count
<1>2. CASE RunWait(c) \/ RunRest(c) \/ JoinRest(c) \/ DownRest(c)
  <2>1. UNCHANGED <<runners, stops, registered>>
    BY <1>2 DEF RunWait, RunRest, JoinRest, DownRest, places, pool, runVars
  <2>2. sleepers' \in Seq(Callers)
    BY <1>2, AwaitRest DEF RunWait, RunRest, JoinRest, DownRest, WInv, Rest
  <2> QED BY <2>1, <2>2 DEF WInv, Rest
<1>3. CASE ExpireHop(c)
  <2>1. UNCHANGED <<runners, stops, registered>> /\ sleepers' \in Seq(Callers)
    BY <1>3, WithoutTyped DEF ExpireHop, places, pool, runVars, WInv, Rest
  <2> QED BY <2>1 DEF WInv, Rest
<1>4. CASE Run(c) \/ Join(c) \/ Shutdown(c)
  <2>1. UNCHANGED <<runners, stops, sleepers>> /\ (Start \/ registered' = registered)
    BY <1>4 DEF Run, Join, Shutdown, runVars, count
  <2>2. registered' \subseteq Workers
    <3>1. Cardinality(ready) + stops \in Int
      BY QueuedNat DEF WInv, Rest
    <3> QED BY <2>1, <3>1, SpawnedFree, SpawnRest DEF Start, WInv, Rest
  <2> QED BY <2>1, <2>2 DEF WInv, Rest
<1>5. CASE RunTimesOut(c) \/ ForcedShutdown(c) \/ CancelUnbound(c)
  <2>1. (\E kill : Abort(kill, {}, "cancelled")) /\ UNCHANGED <<runners, registered>>
    BY <1>5 DEF RunTimesOut, ForcedShutdown, CancelUnbound
  <2> QED BY <2>1, AbortRest
<1>6. CASE RunStop(c) \/ RunGathered(c) \/ DownStop(c)
  <2>1. UNCHANGED <<runners, sleepers>>
    BY <1>6 DEF RunStop, RunGathered, DownStop, runVars, count
  <2>2. Cardinality(registered) \in Nat
    BY WorkersFinite, FS_Subset, FS_CardinalityType DEF WInv, Rest
  <2>3. \/ (\E next : Dismiss(c, next) \/ Dismissed(c, next))
        \/ UNCHANGED <<registered, stops>>
    BY <1>6 DEF RunStop, RunGathered, DownStop
  <2>4. stops' \in Nat /\ registered' \subseteq Workers
    BY <2>2, <2>3 DEF Dismiss, Dismissed, WInv, Rest
  <2> QED BY <2>1, <2>4 DEF WInv, Rest
<1>7. CASE Reset(c)
  <2>1. UNCHANGED <<runners, registered>> /\ stops' = 0 /\ sleepers' = <<>>
    BY <1>7 DEF Reset
  <2> QED BY <2>1 DEF WInv, Rest
<1>8. ASSUME NEW t \in Tasks, Submit(c, t) \/ Cancel(c, t) PROVE Rest'
  BY <1>8, EnqueueRest, CancelRest DEF Submit, Cancel, runVars
<1> QED BY <1>1, <1>2, <1>3, <1>4, <1>5, <1>6, <1>7, <1>8 DEF CallerStep

\* Every step keeps the invariant.
LEMMA StepW == WInv /\ [Next]_vars => WInv'
<1> SUFFICES ASSUME WInv, [Next]_vars PROVE WInv'
  OBVIOUS
<1>1. OInv'
  BY StepO DEF WInv
<1>2. CASE Segment
  <2>1. Pool' /\ NoLostWakeup'
    BY <1>2, CallerW, WorkerW, RunnerW, CallbackW DEF Segment
  <2>2. Rest'
    BY <1>2, CallerRest, WorkerRest, RunnerRest, CallbackRest DEF Segment
  <2>3. Ran'
    BY <1>2, OtherRan, RunnerRan DEF Segment, WInv
  <2> QED BY <1>1, <2>1, <2>2, <2>3 DEF WInv
<1>3. CASE Outside \/ UNCHANGED vars
  <2>1. Pool' /\ NoLostWakeup'
    BY <1>3, OutsideW
  <2>2. Rest'
    <3>1. UNCHANGED <<runners, sleepers, stops, registered>>
      BY <1>3 DEF Outside, Due, Resume, ThreadSubmits, ThreadCancels, CallerWakes, Expire, vars, places, pool, runVars, count
    <3> QED BY <3>1, KeptRest
  <2>3. Ran'
    BY <1>3, OtherRan DEF WInv
  <2> QED BY <1>1, <2>1, <2>2, <2>3 DEF WInv
<1> QED BY <1>2, <1>3 DEF Next

\* It holds at first: no workers, nothing on the loop.
LEMMA InitW == Init => WInv
<1> SUFFICES ASSUME Init PROVE WInv
  OBVIOUS
<1>1. Ran /\ Rest /\ NoLostWakeup
  BY DEF Init, Ran, Rest, NoLostWakeup
<1>2. OnWay(<<>>) = {} /\ Once(<<>>) /\ Distinct(<<>>)
  BY DEF OnWay, Once, Distinct
<1>3. Pool
  BY <1>2, NamesAssumption DEF Init, Pool
<1> QED BY <1>1, <1>3, InitOInv DEF WInv

\* Whatever coroutines, threads, timers and callbacks do, in any order and
\* with resets and overlapping shutdowns: no task and no sentinel is left in the
\* ready queue with workers asleep, unless as many are on their way to it.
THEOREM NoLostWakeupAlways == Spec => []NoLostWakeup
<1>1. WInv => NoLostWakeup
  BY DEF WInv
<1> QED BY <1>1, InitW, StepW, PTL DEF Spec

\* The types, and that _outstanding is never negative, under the same condition.
THEOREM TypeCorrect == Spec /\ [][CleanReset]_vars => []TypeOK
<1>1. WInv /\ Accounting => TypeOK
  <2> SUFFICES ASSUME WInv, Accounting PROVE TypeOK
    OBVIOUS
  <2>1. TasksOK /\ LoopOK
    BY DEF WInv, OInv, Pool, Rest, LoopOK, LoopItem
  <2>2. outstanding \in Nat
    BY LiveFinite DEF Accounting, LiveTasks
  <2> QED BY <2>1, <2>2 DEF TypeOK
<1> QED BY <1>1, InitW, StepW, AccountingAlways, PTL DEF Spec

=============================================================================
