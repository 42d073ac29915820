------------------------- MODULE SyncQueueProofs -------------------------
(***************************************************************************)
(* The inductive invariant of the engine, IInv, and the theorems it yields *)
(* for every set of tasks, workers and callers and every option: the       *)
(* variables keep their types, and a task is always in exactly one place.  *)
(* The typing needs the control part: a worker registers the task it       *)
(* holds, a caller resumes the submission it waits with.                   *)
(***************************************************************************)
EXTENDS SyncQueueProperties, FiniteSetTheorems, SequenceTheorems, TLAPS

USE DEF handles, scheduled, done, flags, pool, calling, sweeps, spawns, aside, others, timerFrame, vars

-----------------------------------------------------------------------------
(* What the steps do to the tasks, and why they keep the types             *)

Outcomes == {"succeeded", "failed", "cancelled"}

\* A task is new, live or final, and only one of them.
LEMMA StatusSplit ==
  ASSUME TypeOK
  PROVE  /\ \A t \in Tasks : t \in Final => t \notin Live /\ st[t] # "new"
         /\ \A t \in Tasks : t \notin Final => t \in Live \/ st[t] = "new"
         /\ \A t \in Live : t \in Tasks /\ st[t] # "new"
  BY DEF TypeOK, TasksOK, Status, Live, Final

\* A task in a sweep's local lists is live.
LEMMA HandLive ==
  ASSUME IInv, NEW th \in Th, NEW t \in hand[th]
  PROVE  t \in Tasks /\ t \in Live /\ t \notin Final
<1>1. t \in Tasks
  BY DEF IInv, TypeOK, MethodsOK
<1>2. t \in Live
  BY <1>1 DEF IInv, OneOwner, Somewhere
<1> QED BY <1>1, <1>2, StatusSplit DEF IInv

\* Recording a dropped task cancels one live task of the sweep.
LEMMA DropStep ==
  ASSUME IInv, NEW th \in Th, Drop(th)
  PROVE  \E t \in hand[th] : /\ t \in Tasks /\ t \in Live
                             /\ st' = [st EXCEPT ![t] = "cancelled"]
                             /\ pub' = [pub EXCEPT ![th] = t]
                             /\ hand' = [hand EXCEPT ![th] = @ \ {t}]
<1>1. PICK t \in hand[th] : Mark(th, t, "cancelled") /\ hand' = [hand EXCEPT ![th] = @ \ {t}]
  BY DEF Drop
<1> QED BY <1>1, HandLive DEF Mark

\* A sweep changes the status of nothing but its own tasks, and only to cancelled.
LEMMA ThreadStatus ==
  ASSUME IInv, NEW th \in Th, ThreadStep(th)
  PROVE  st' = st \/ \E t \in Live : t \in hand[th] /\ st' = [st EXCEPT ![t] = "cancelled"]
<1>1. CASE Drop(th)
  BY <1>1, DropStep
<1>2. CASE ~Drop(th)
  BY <1>2 DEF ThreadStep, Publish, AbortHalt, CutLater, DrainTask, DrainStop, DrainEmpty, PutBackTask, PutBackStop,
     PutBackEnd, DropEnd, SnapActive, Interrupt, AbortEnd, SweepTo
<1> QED BY <1>1, <1>2

\* The four actions that end a task end the live task in the worker's hands.
LEMMA OutcomeStep ==
  ASSUME IInv, NEW w \in Workers, Skip(w) \/ Cancelled(w) \/ Succeed(w) \/ Fail(w)
  PROVE  /\ cur[w] \in Tasks /\ cur[w] \in Live /\ Resting(w) /\ wpc[w] \in Carrying
         /\ \E s \in Outcomes : st' = [st EXCEPT ![cur[w]] = s]
         /\ pub' = [pub EXCEPT ![w] = cur[w]]
         /\ \/ wpc' = [wpc EXCEPT ![w] = "pop"] /\ cur' = cur
            \/ wpc' = [wpc EXCEPT ![w] = "get"] /\ cur' = [cur EXCEPT ![w] = NULL]
         /\ UNCHANGED <<attempts, cancelEv, scheduled, active, done, flags, threads, timer, calling, sub, sweeps,
            spawns>>
<1>1. wpc[w] \in Carrying
  BY DEF Skip, Cancelled, Succeed, Fail, Outcome, Move, Carrying
<1>2. cur[w] \in Tasks /\ cur[w] \in Live /\ cur[w] \notin Final
  BY <1>1, StatusSplit DEF IInv, Holding
<1>3. Resting(w)
  BY <1>1 DEF IInv, WorkerAtRest, Carrying
<1>4. \E s \in Outcomes : Mark(w, cur[w], s)
  BY DEF Skip, Cancelled, Succeed, Fail, Outcome, Outcomes
<1>5. /\ \/ wpc' = [wpc EXCEPT ![w] = "pop"] /\ cur' = cur
         \/ wpc' = [wpc EXCEPT ![w] = "get"] /\ cur' = [cur EXCEPT ![w] = NULL]
      /\ UNCHANGED <<attempts, cancelEv, scheduled, active, done, flags, threads, timer, calling, sub, sweeps,
         spawns>>
  BY DEF Skip, Cancelled, Succeed, Fail, Outcome, Move
<1> QED BY <1>1, <1>2, <1>3, <1>4, <1>5 DEF Mark

\* A worker changes the status of nothing but the live task in its hands.
LEMMA WorkerStatus ==
  ASSUME IInv, NEW w \in Workers, WorkerStep(w)
  PROVE  \/ st' = st
         \/ /\ cur[w] \in Live /\ cur[w] \in Tasks /\ wpc[w] \in Carrying
            /\ \E s \in Status \ {"new"} : st' = [st EXCEPT ![cur[w]] = s]
<1>1. CASE Skip(w) \/ Cancelled(w) \/ Succeed(w) \/ Fail(w)
  BY <1>1, OutcomeStep DEF Outcomes, Status
<1>2. CASE Attempt(w) \/ Retry(w)
  <2>1. wpc[w] \in Carrying
    BY <1>2 DEF Attempt, Retry, Move, Carrying
  <2>2. cur[w] \in Live /\ cur[w] \in Tasks
    BY <2>1, StatusSplit DEF IInv, Holding
  <2> QED BY <1>2, <2>1, <2>2 DEF Attempt, Retry, Status
<1>3. CASE ~(Skip(w) \/ Cancelled(w) \/ Succeed(w) \/ Fail(w) \/ Attempt(w) \/ Retry(w))
  BY <1>3 DEF WorkerStep, WorkerInit, WorkerInitFails, Get, GetStop, Enter, Register, Delay, Release, Exit, Leave
<1> QED BY <1>1, <1>2, <1>3

\* What a submission does, whether it had to wait for room or not.
LEMMA SubmitStep ==
  ASSUME IInv, NEW c \in Callers, Submit(c) \/ Resubmit(c)
  PROVE  /\ Resting(c) /\ c \notin parked /\ pc[c] \in {"idle", "full"}
         /\ \/ pc[c] = "full" /\ pc' = [pc EXCEPT ![c] = "idle"] /\ arg' = [arg EXCEPT ![c] = NULL]
               /\ UNCHANGED <<handles, scheduled, active, done, flags, pool, timer, parked, idx, calls,
                  stale, sub, sweeps, pub, spawns>>
            \/ \E t \in Mine[c] : /\ t \in Tasks /\ st[t] = "new"
                                  /\ pc[c] = "full" => arg[c] = t
                                  /\ (Full /\ WaitForRoom(c, t)) \/ (~Full /\ Admit(c, t))
<1>1. Mine[c] \subseteq Tasks
  BY CallersAssumption
<1>2. CASE Submit(c)
  BY <1>1, <1>2 DEF Submit, At
<1>3. CASE Resubmit(c)
  BY <1>1, <1>3 DEF Resubmit, At, IInv, Submitting
<1> QED BY <1>2, <1>3

\* A caller changes the status of nothing but a new task of its own.
LEMMA CallerStatus ==
  ASSUME IInv, NEW c \in Callers, NewCall(c) \/ Returning(c) \/ RunTimeout(c)
  PROVE  \/ st' = st
         \/ \E t \in Mine[c] : /\ t \in Tasks /\ st[t] = "new" /\ st' = [st EXCEPT ![t] = "pending"]
                               /\ pc' = [pc EXCEPT ![c] = "idle"]
<1>1. CASE Submit(c) \/ Resubmit(c)
  BY <1>1, SubmitStep DEF WaitForRoom, Admit
<1>2. CASE ~(Submit(c) \/ Resubmit(c))
  BY <1>2 DEF NewCall, Returning, RunTimeout, Start, Join, Run, Shutdown, Cancel, CancelTask, Reset, ClearResults,
     Spawn, StartThread,
     SnapThreads, PutStop, JoinWorker, JoinRaises, JoinedAll, ForgetThreads, StopTo, JoinStart, RunStart,
     StartRefused, Park, JoinReturn, RunIdle, RunDrained, RunEnd, DownPeek, DownStart, Refuse, DownDrained,
     DownHalt, DownStop, Close, CancelReturn, ResetDrained, ResetClear, GotoIdle, Goto
<1> QED BY <1>1, <1>2

\* The scheduling thread changes no status.
LEMMA TimerStatus ==
  ASSUME TimerStep
  PROVE  st' = st
  BY DEF TimerStep, TimerFire, TimerLeave, TimerEnd

\* No step un-finishes a task: a final status is final.
LEMMA TaskFacts ==
  ASSUME IInv, Next
  PROVE  /\ st' \in [Tasks -> Status]
         /\ \A t \in Final : st'[t] = st[t]
<1>1. st \in [Tasks -> Status] /\ Live \cap Final = {} /\ \A t \in Final : t \in Tasks /\ st[t] # "new"
  BY StatusSplit DEF IInv, TypeOK, TasksOK, Final
<1>2. CASE \E th \in Th : ThreadStep(th)
  BY <1>1, <1>2, ThreadStatus DEF Status
<1>3. CASE \E w \in Workers : WorkerStep(w)
  BY <1>1, <1>3, WorkerStatus
<1>4. CASE \E c \in Callers : NewCall(c) \/ Returning(c) \/ RunTimeout(c)
  BY <1>1, <1>4, CallerStatus DEF Status
<1>5. CASE TimerStep
  BY <1>1, <1>5, TimerStatus
<1> QED BY <1>2, <1>3, <1>4, <1>5 DEF Next

-----------------------------------------------------------------------------
(* The actions whose typing takes more than their definition.              *)

\* A submission keeps tasks, calls and methods typed.
LEMMA SubmitTypes ==
  ASSUME IInv, Next, NEW c \in Callers, Submit(c) \/ Resubmit(c)
  PROVE  TasksOK' /\ CallingOK' /\ MethodsOK'
<1>1. TypeOK /\ TasksOK /\ CallingOK /\ MethodsOK /\ c \in Th
  BY DEF IInv, TypeOK, Th
<1>2. CASE /\ pc[c] = "full" /\ pc' = [pc EXCEPT ![c] = "idle"] /\ arg' = [arg EXCEPT ![c] = NULL]
           /\ UNCHANGED <<handles, scheduled, active, done, flags, pool, timer, parked, idx, calls, stale, sub,
              sweeps, pub, spawns>>
  BY <1>1, <1>2 DEF TasksOK, CallingOK, CallerPoint, MethodsOK
<1>3. ASSUME NEW t \in Tasks, WaitForRoom(c, t)
      PROVE  TasksOK' /\ CallingOK' /\ MethodsOK'
  BY <1>1, <1>3 DEF WaitForRoom, TasksOK, CallingOK, CallerPoint, MethodsOK
<1>4. ASSUME NEW t \in Tasks, Admit(c, t)
      PROVE  TasksOK' /\ CallingOK' /\ MethodsOK'
  <2>1. TasksOK'
    BY <1>1, <1>4 DEF Admit, TasksOK, Status
  <2>2. CallingOK'
    BY <1>1, <1>4 DEF Admit, CallingOK, CallerPoint
  <2>3. MethodsOK'
    BY <1>1, <1>4 DEF Admit, MethodsOK, MethodPoint
  <2> QED BY <2>1, <2>2, <2>3
<1> QED BY <1>2, <1>3, <1>4, SubmitStep

\* Ending a task keeps the methods typed.
LEMMA OutcomeTypes ==
  ASSUME IInv, Next, NEW w \in Workers, Skip(w) \/ Cancelled(w) \/ Succeed(w) \/ Fail(w)
  PROVE MethodsOK'
<1>1. MethodsOK /\ w \in Th
  BY DEF IInv, TypeOK, Th
<1> QED BY <1>1, OutcomeStep DEF MethodsOK

\* Recording a dropped task keeps the methods typed.
LEMMA DropTypes ==
  ASSUME IInv, Next, NEW th \in Th, Drop(th)
  PROVE MethodsOK'
<1>1. UNCHANGED <<sub, sel, handStops, hits, toStart, snap>>
  BY DEF Drop
<1> QED BY <1>1, DropStep DEF IInv, TypeOK, MethodsOK

\* Publishing a task keeps tasks and methods typed.
LEMMA PublishTypes ==
  ASSUME IInv, Next, NEW th \in Th, Publish(th)
  PROVE MethodsOK' /\ TasksOK'
<1>1. pub[th] \in Tasks
  BY DEF Publish, IInv, TypeOK, MethodsOK
<1>2. Append(results, pub[th]) \in Seq(Tasks)
  BY <1>1, AppendProperties DEF IInv, TypeOK, TasksOK
<1>3. TasksOK'
  BY <1>2 DEF Publish, IInv, TypeOK, TasksOK
<1>4. Unspared \subseteq Tasks
  BY DEF Unspared
<1>5. /\ sub' = sub \/ sub' = [sub EXCEPT ![th] = "cut"]
      /\ sel' = sel \/ sel' = [sel EXCEPT ![th] = Unspared]
      /\ pub' = [pub EXCEPT ![th] = NULL]
  BY DEF Publish
<1>6. MethodsOK'
  <2>1. sub' \in [Th -> MethodPoint] /\ pub' \in [Th -> Tasks \cup {NULL}]
    BY <1>5 DEF IInv, TypeOK, MethodsOK, MethodPoint
  <2>2. sel' \in [Th -> SUBSET Tasks]
    BY <1>4, <1>5 DEF IInv, TypeOK, MethodsOK
  <2> QED BY <2>1, <2>2 DEF Publish, IInv, TypeOK, MethodsOK
<1> QED BY <1>3, <1>6

\* cancel() keeps calls and methods typed.
LEMMA CancelTypes ==
  ASSUME IInv, Next, NEW c \in Callers, Cancel(c) \/ CancelTask(c)
  PROVE MethodsOK' /\ CallingOK'
<1>1. MethodsOK /\ CallingOK /\ c \in Th /\ TasksOK
  BY DEF IInv, TypeOK, Th
<1>2. calls' \in [Callers -> Nat] /\ pc' \in [Callers -> CallerPoint]
  BY <1>1 DEF Cancel, CancelTask, Call, CallingOK, CallerPoint
<1>3. PICK t \in Tasks :
       \/ UNCHANGED <<hand, sub, sel>>
       \/ /\ hand' = [hand EXCEPT ![c] = later \cap {t}]
          /\ \E m \in {"rec2", "drain"} : sub' = [sub EXCEPT ![c] = m]
          /\ sel' = [sel EXCEPT ![c] = {t}]
  BY DEF Cancel, CancelTask, At, IntoSweep, Live, IInv, Submitting
<1>4. arg' \in [Callers -> Tasks \cup {NULL}]
  BY <1>1 DEF Cancel, CancelTask, Live, CallingOK
<1>5. hand' \in [Th -> SUBSET Tasks]
  <2>1. later \cap {t} \in SUBSET Tasks
    BY <1>1 DEF TasksOK
  <2> QED BY <1>1, <1>3, <2>1 DEF MethodsOK
<1>6. sub' \in [Th -> MethodPoint]
  BY <1>1, <1>3 DEF MethodsOK, MethodPoint
<1>7. sel' \in [Th -> SUBSET Tasks]
  BY <1>1, <1>3 DEF MethodsOK
<1> QED BY <1>1, <1>2, <1>4, <1>5, <1>6, <1>7 DEF Cancel, CancelTask, MethodsOK, CallingOK

\* shutdown() keeps the calls typed.
LEMMA ShutdownTypes ==
  ASSUME IInv, Next, NEW c \in Callers, Shutdown(c)
  PROVE CallingOK'
<1>1. /\ \E label \in {"idle", "down.peek", "force.refuse"} : pc' = [pc EXCEPT ![c] = label]
      /\ calls[c] > 0 /\ calls' = [calls EXCEPT ![c] = @ - 1]
      /\ UNCHANGED <<parked, arg, idx, stale>>
  BY DEF Shutdown, Call
<1> QED BY <1>1 DEF IInv, TypeOK, CallingOK, CallerPoint

\* A finite pool needs a number of sentinels.
LEMMA SnapTypes ==
  ASSUME IInv, Next, NEW c \in Callers, SnapThreads(c)
  PROVE MethodsOK'
<1>1. Cardinality(threads) \in Nat
  BY SetsAssumption, FS_Subset, FS_CardinalityType DEF IInv, TypeOK, PoolOK
<1>2. \E m \in {"joining", "signal"} : sub' = [sub EXCEPT ![c] = m]
  BY DEF SnapThreads, StopTo
<1> QED BY <1>1, <1>2 DEF SnapThreads, StopTo, IInv, TypeOK, PoolOK, MethodsOK, MethodPoint, Th

-----------------------------------------------------------------------------
(* One lemma per part of TypeOK and kind of thread.                        *)

\* TasksOK, the steps inside the engine's methods.
LEMMA TasksOKThread ==
  ASSUME IInv, Next, NEW th \in Th, ThreadStep(th)
  PROVE  TasksOK'
<1>1. CASE Publish(th)
  BY <1>1, PublishTypes
<1>2. CASE CutLater(th)
  BY <1>2, TaskFacts DEF IInv, TypeOK, TasksOK, CutLater
<1>3. CASE DrainTask(th)
  BY <1>3, TaskFacts DEF IInv, TypeOK, TasksOK, DrainTask
<1>4. CASE DrainStop(th)
  BY <1>4, TaskFacts DEF IInv, TypeOK, TasksOK, DrainStop
<1>5. CASE PutBackTask(th)
  BY <1>5, TaskFacts DEF IInv, TypeOK, TasksOK, MethodsOK, PutBackTask
<1>6. CASE PutBackStop(th)
  BY <1>6, TaskFacts DEF IInv, TypeOK, TasksOK, PutBackStop
<1>7. CASE Interrupt(th)
  BY <1>7, TaskFacts DEF IInv, TypeOK, TasksOK, Interrupt
<1>8. CASE \/ AbortHalt(th) \/ DrainEmpty(th) \/ PutBackEnd(th) \/ Drop(th) \/ DropEnd(th) \/ SnapActive(th)
           \/ AbortEnd(th)
  BY <1>8, TaskFacts DEF IInv, TypeOK, TasksOK, AbortHalt, DrainEmpty, PutBackEnd, Drop, DropEnd, SnapActive,
     AbortEnd, SweepTo, Mark
<1> QED BY <1>1, <1>2, <1>3, <1>4, <1>5, <1>6, <1>7, <1>8 DEF ThreadStep

\* TasksOK, the steps of the workers.
LEMMA TasksOKWorker ==
  ASSUME IInv, Next, NEW w \in Workers, WorkerStep(w)
  PROVE  TasksOK'
<1>1. CASE Get(w)
  BY <1>1, TaskFacts DEF IInv, TypeOK, TasksOK, Get, Move, Resting
<1>2. CASE GetStop(w)
  BY <1>2, TaskFacts DEF IInv, TypeOK, TasksOK, GetStop, Move, Resting
<1>3. CASE Register(w)
  BY <1>3, TaskFacts, StatusSplit DEF IInv, TypeOK, TasksOK, Carrying, Holding, PoolOK, Register, Move
<1>4. CASE Attempt(w)
  BY <1>4, TaskFacts DEF IInv, TypeOK, TasksOK, Attempt, Move
<1>5. CASE Release(w)
  BY <1>5, TaskFacts DEF IInv, TypeOK, TasksOK, Release, Move, Resting
<1>6. CASE \/ WorkerInit(w) \/ WorkerInitFails(w) \/ Skip(w) \/ Enter(w) \/ Cancelled(w) \/ Succeed(w) \/ Fail(w)
           \/ Retry(w) \/ Delay(w) \/ Exit(w) \/ Leave(w)
  BY <1>6, TaskFacts DEF IInv, TypeOK, TasksOK, WorkerInit, WorkerInitFails, Skip, Enter, Cancelled, Succeed,
     Fail, Retry, Delay, Exit, Leave, Move, Mark, Unwanted, Outcome, Resting
<1> QED BY <1>1, <1>2, <1>3, <1>4, <1>5, <1>6 DEF WorkerStep

\* TasksOK, the steps of the callers.
LEMMA TasksOKCaller ==
  ASSUME IInv, Next, NEW c \in Callers, NewCall(c) \/ Returning(c) \/ RunTimeout(c)
  PROVE  TasksOK'
<1>1. CASE Submit(c) \/ Resubmit(c)
  BY <1>1, SubmitTypes
<1>2. CASE Cancel(c) \/ CancelTask(c)
  BY <1>2, TaskFacts DEF IInv, TypeOK, TasksOK, Cancel, CancelTask, Call, At, Resting, IntoSweep
<1>3. CASE ClearResults(c)
  BY <1>3, TaskFacts DEF IInv, TypeOK, TasksOK, ClearResults, Call, At, Resting
<1>4. CASE PutStop(c)
  BY <1>4, TaskFacts DEF IInv, TypeOK, TasksOK, PutStop, StopTo
<1>5. CASE ResetClear(c)
  BY <1>5, TaskFacts DEF IInv, TypeOK, TasksOK, ResetClear, At, Resting, NotifyAll
<1>6. CASE \/ Start(c) \/ Join(c) \/ Run(c) \/ Shutdown(c) \/ Reset(c) \/ Spawn(c) \/ StartThread(c)
           \/ SnapThreads(c) \/ JoinWorker(c) \/ JoinRaises(c) \/ JoinedAll(c) \/ ForgetThreads(c)
           \/ JoinStart(c) \/ RunStart(c) \/ StartRefused(c) \/ Park(c) \/ JoinReturn(c) \/ RunIdle(c)
           \/ RunDrained(c) \/ RunEnd(c) \/ DownPeek(c) \/ DownStart(c) \/ Refuse(c) \/ DownDrained(c)
           \/ DownHalt(c) \/ DownStop(c) \/ Close(c) \/ CancelReturn(c) \/ ResetDrained(c) \/ RunTimeout(c)
  BY <1>6, TaskFacts DEF IInv, TypeOK, TasksOK, Start, Join, Run, Shutdown, Reset, Spawn, StartThread,
     SnapThreads, JoinWorker, JoinRaises, JoinedAll, ForgetThreads, JoinStart, RunStart, StartRefused, Park,
     JoinReturn, RunIdle, RunDrained, RunEnd, DownPeek, DownStart, Refuse, DownDrained, DownHalt, DownStop, Close,
     CancelReturn, ResetDrained, RunTimeout, Call, At, Resting, StartSection, Into, IntoSweep, Missing, Free,
     StopTo, Goto, GotoIdle, NotifyAll, Unspared
<1> QED BY <1>1, <1>2, <1>3, <1>4, <1>5, <1>6 DEF NewCall, Returning

\* TasksOK, the steps of the scheduling thread.
LEMMA TasksOKTimer ==
  ASSUME IInv, Next, TimerStep
  PROVE  TasksOK'
<1>1. CASE TimerFire
  BY <1>1, TaskFacts DEF IInv, TypeOK, TasksOK, TimerFire, Missing, Free
<1>2. CASE TimerLeave \/ TimerEnd
  BY <1>2, TaskFacts DEF IInv, TypeOK, TasksOK, TimerLeave, TimerEnd
<1> QED BY <1>1, <1>2 DEF TimerStep

\* FlagsOK, the steps inside the engine's methods.
LEMMA FlagsOKThread ==
  ASSUME IInv, Next, NEW th \in Th, ThreadStep(th)
  PROVE  FlagsOK'
<1>1. CASE Publish(th)
  BY <1>1 DEF IInv, TypeOK, FlagsOK, Publish, NotifyAll, Unspared
<1>2. CASE AbortHalt(th)
  BY <1>2 DEF IInv, TypeOK, FlagsOK, AbortHalt, SweepTo
<1>3. CASE \/ CutLater(th) \/ DrainTask(th) \/ DrainStop(th) \/ DrainEmpty(th) \/ PutBackTask(th)
           \/ PutBackStop(th) \/ PutBackEnd(th) \/ Drop(th) \/ DropEnd(th) \/ SnapActive(th) \/ Interrupt(th)
           \/ AbortEnd(th)
  BY <1>3 DEF IInv, TypeOK, FlagsOK, CutLater, DrainTask, DrainStop, DrainEmpty, PutBackTask, PutBackStop,
     PutBackEnd, Drop, DropEnd, SnapActive, Interrupt, AbortEnd, SweepTo, Mark
<1> QED BY <1>1, <1>2, <1>3 DEF ThreadStep

\* FlagsOK, the steps of the workers.
LEMMA FlagsOKWorker ==
  ASSUME IInv, Next, NEW w \in Workers, WorkerStep(w)
  PROVE  FlagsOK'
  BY DEF IInv, TypeOK, FlagsOK, WorkerStep, WorkerInit, WorkerInitFails, Get, GetStop, Skip, Enter, Register,
     Attempt, Cancelled, Succeed, Fail, Retry, Delay, Release, Exit, Leave, Move, Resting, Mark, Unwanted, Outcome

\* FlagsOK, the steps of the callers.
LEMMA FlagsOKCaller ==
  ASSUME IInv, Next, NEW c \in Callers, NewCall(c) \/ Returning(c) \/ RunTimeout(c)
  PROVE  FlagsOK'
<1>1. CASE Start(c)
  BY <1>1 DEF IInv, TypeOK, FlagsOK, Start, Call, At, Resting, StartSection, Into
<1>2. CASE Join(c)
  BY <1>2 DEF IInv, TypeOK, FlagsOK, Join, Call, At, Resting, StartSection, Into
<1>3. CASE Run(c)
  BY <1>3 DEF IInv, TypeOK, FlagsOK, Run, Call, At, Resting
<1>4. CASE Shutdown(c)
  BY <1>4 DEF IInv, TypeOK, FlagsOK, Shutdown, Call, At, Resting
<1>5. CASE ForgetThreads(c)
  BY <1>5 DEF IInv, TypeOK, FlagsOK, ForgetThreads, StopTo
<1>6. CASE JoinStart(c) \/ RunStart(c)
  BY <1>6 DEF IInv, TypeOK, FlagsOK, JoinStart, RunStart, StartSection, Into, Goto, At, Resting
<1>7. CASE RunEnd(c)
  BY <1>7 DEF IInv, TypeOK, FlagsOK, RunEnd, Goto, At, Resting
<1>8. CASE DownStart(c)
  BY <1>8 DEF IInv, TypeOK, FlagsOK, DownStart, StartSection, Into, Goto, At, Resting
<1>9. CASE Refuse(c)
  BY <1>9 DEF IInv, TypeOK, FlagsOK, Refuse, Goto, At, Resting, IntoSweep
<1>10. CASE DownHalt(c)
  BY <1>10 DEF IInv, TypeOK, FlagsOK, DownHalt, Goto, At, Resting
<1>11. CASE Close(c)
  BY <1>11 DEF IInv, TypeOK, FlagsOK, Close, Goto, At, Resting, NotifyAll
<1>12. CASE ResetClear(c)
  BY <1>12 DEF IInv, TypeOK, FlagsOK, ResetClear, At, Resting, NotifyAll
<1>13. CASE RunTimeout(c)
  BY <1>13 DEF IInv, TypeOK, FlagsOK, RunTimeout, IntoSweep, Resting, Unspared
<1>14. CASE \/ Submit(c) \/ Cancel(c) \/ CancelTask(c) \/ Reset(c) \/ ClearResults(c) \/ Spawn(c) \/ StartThread(c)
            \/ SnapThreads(c) \/ PutStop(c) \/ JoinWorker(c) \/ JoinRaises(c) \/ JoinedAll(c) \/ Resubmit(c)
            \/ StartRefused(c) \/ Park(c) \/ JoinReturn(c) \/ RunIdle(c) \/ RunDrained(c) \/ DownPeek(c)
            \/ DownDrained(c) \/ DownStop(c) \/ CancelReturn(c) \/ ResetDrained(c)
  BY <1>14 DEF IInv, TypeOK, FlagsOK, Submit, Cancel, CancelTask, Reset, ClearResults, Spawn, StartThread,
     SnapThreads, PutStop, JoinWorker, JoinRaises, JoinedAll, Resubmit, StartRefused, Park, JoinReturn, RunIdle,
     RunDrained, DownPeek, DownDrained, DownStop, CancelReturn, ResetDrained, At, Resting, WaitForRoom, Admit,
     EnsureTimer, Call, IntoSweep, Missing, Free, StopTo, Goto, GotoIdle, Into
<1> QED BY <1>1, <1>2, <1>3, <1>4, <1>5, <1>6, <1>7, <1>8, <1>9, <1>10, <1>11, <1>12, <1>13, <1>14 DEF NewCall,
   Returning

\* FlagsOK, the steps of the scheduling thread.
LEMMA FlagsOKTimer ==
  ASSUME IInv, Next, TimerStep
  PROVE  FlagsOK'
  BY DEF IInv, TypeOK, FlagsOK, TimerStep, TimerFire, TimerLeave, TimerEnd, Missing, Free

\* PoolOK, the steps inside the engine's methods.
LEMMA PoolOKThread ==
  ASSUME IInv, Next, NEW th \in Th, ThreadStep(th)
  PROVE  PoolOK'
  BY SetsAssumption DEF IInv, TypeOK, TasksOK, PoolOK, WorkerPoint, ThreadStep, Publish, AbortHalt, CutLater,
     DrainTask, DrainStop, DrainEmpty, PutBackTask, PutBackStop, PutBackEnd, Drop, DropEnd, SnapActive, Interrupt,
     AbortEnd, NotifyAll, Unspared, SweepTo, Mark

\* PoolOK, the steps of the workers.
LEMMA PoolOKWorker ==
  ASSUME IInv, Next, NEW w \in Workers, WorkerStep(w)
  PROVE  PoolOK'
<1>1. CASE WorkerInit(w)
  BY <1>1, SetsAssumption DEF IInv, TypeOK, TasksOK, PoolOK, WorkerPoint, WorkerInit, Move
<1>2. CASE WorkerInitFails(w)
  BY <1>2, SetsAssumption DEF IInv, TypeOK, TasksOK, PoolOK, WorkerPoint, WorkerInitFails, Move
<1>3. CASE Get(w)
  BY <1>3, SetsAssumption DEF IInv, TypeOK, TasksOK, PoolOK, WorkerPoint, Get, Move, Resting
<1>4. CASE GetStop(w)
  BY <1>4, SetsAssumption DEF IInv, TypeOK, TasksOK, PoolOK, WorkerPoint, GetStop, Move, Resting
<1>5. CASE Skip(w)
  BY <1>5, SetsAssumption DEF IInv, TypeOK, TasksOK, PoolOK, WorkerPoint, Skip, Move, Mark, Unwanted
<1>6. CASE Enter(w)
  BY <1>6, SetsAssumption DEF IInv, TypeOK, TasksOK, PoolOK, WorkerPoint, Enter, Move, Unwanted
<1>7. CASE Register(w)
  BY <1>7, SetsAssumption DEF IInv, TypeOK, TasksOK, PoolOK, WorkerPoint, Register, Move
<1>8. CASE Attempt(w)
  BY <1>8, SetsAssumption DEF IInv, TypeOK, TasksOK, PoolOK, WorkerPoint, Attempt, Move
<1>9. CASE Cancelled(w)
  BY <1>9, SetsAssumption DEF IInv, TypeOK, TasksOK, PoolOK, WorkerPoint, Cancelled, Move, Outcome, Mark
<1>10. CASE Succeed(w)
  BY <1>10, SetsAssumption DEF IInv, TypeOK, TasksOK, PoolOK, WorkerPoint, Succeed, Move, Outcome, Mark
<1>11. CASE Fail(w)
  BY <1>11, SetsAssumption DEF IInv, TypeOK, TasksOK, PoolOK, WorkerPoint, Fail, Move, Outcome, Mark
<1>12. CASE Retry(w)
  BY <1>12, SetsAssumption DEF IInv, TypeOK, TasksOK, PoolOK, WorkerPoint, Retry, Move
<1>13. CASE Delay(w)
  BY <1>13, SetsAssumption DEF IInv, TypeOK, TasksOK, PoolOK, WorkerPoint, Delay, Move
<1>14. CASE Release(w)
  BY <1>14, SetsAssumption DEF IInv, TypeOK, TasksOK, PoolOK, WorkerPoint, Release, Move, Resting
<1>15. CASE Exit(w)
  BY <1>15, SetsAssumption DEF IInv, TypeOK, TasksOK, PoolOK, WorkerPoint, Exit, Move
<1>16. CASE Leave(w)
  BY <1>16, SetsAssumption DEF IInv, TypeOK, TasksOK, PoolOK, WorkerPoint, Leave, Move, Resting
<1> QED BY <1>1, <1>2, <1>3, <1>4, <1>5, <1>6, <1>7, <1>8, <1>9, <1>10, <1>11, <1>12, <1>13, <1>14, <1>15, <1>16
   DEF WorkerStep

\* PoolOK, the steps of the callers.
LEMMA PoolOKCaller ==
  ASSUME IInv, Next, NEW c \in Callers, NewCall(c) \/ Returning(c) \/ RunTimeout(c)
  PROVE  PoolOK'
<1>1. CASE Submit(c)
  BY <1>1, SetsAssumption DEF IInv, TypeOK, TasksOK, PoolOK, WorkerPoint, Submit, At, Resting, WaitForRoom, Admit,
     EnsureTimer
<1>2. CASE Spawn(c)
  BY <1>2, SetsAssumption DEF IInv, TypeOK, TasksOK, PoolOK, WorkerPoint, Spawn, Missing, Free
<1>3. CASE StartThread(c)
  BY <1>3, SetsAssumption DEF IInv, TypeOK, TasksOK, PoolOK, WorkerPoint, StartThread
<1>4. CASE ForgetThreads(c)
  BY <1>4, SetsAssumption DEF IInv, TypeOK, TasksOK, PoolOK, WorkerPoint, ForgetThreads, StopTo
<1>5. CASE Resubmit(c)
  BY <1>5, SetsAssumption DEF IInv, TypeOK, TasksOK, PoolOK, WorkerPoint, Resubmit, At, Resting, WaitForRoom,
     Admit, EnsureTimer
<1>6. CASE \/ Start(c) \/ Join(c) \/ Run(c) \/ Shutdown(c) \/ Cancel(c) \/ CancelTask(c) \/ Reset(c)
           \/ ClearResults(c) \/ SnapThreads(c) \/ PutStop(c) \/ JoinWorker(c) \/ JoinRaises(c) \/ JoinedAll(c)
           \/ JoinStart(c) \/ RunStart(c) \/ StartRefused(c) \/ Park(c) \/ JoinReturn(c) \/ RunIdle(c)
           \/ RunDrained(c) \/ RunEnd(c) \/ DownPeek(c) \/ DownStart(c) \/ Refuse(c) \/ DownDrained(c)
           \/ DownHalt(c) \/ DownStop(c) \/ Close(c) \/ CancelReturn(c) \/ ResetDrained(c) \/ ResetClear(c)
           \/ RunTimeout(c)
  BY <1>6, SetsAssumption DEF IInv, TypeOK, TasksOK, PoolOK, WorkerPoint, Start, Join, Run, Shutdown, Cancel,
     CancelTask, Reset, ClearResults, SnapThreads, PutStop, JoinWorker, JoinRaises, JoinedAll, JoinStart, RunStart,
     StartRefused, Park, JoinReturn, RunIdle, RunDrained, RunEnd, DownPeek, DownStart, Refuse, DownDrained,
     DownHalt, DownStop, Close, CancelReturn, ResetDrained, ResetClear, RunTimeout, Call, At, Resting, StartSection,
     Into, IntoSweep, StopTo, Goto, GotoIdle, NotifyAll, Unspared
<1> QED BY <1>1, <1>2, <1>3, <1>4, <1>5, <1>6 DEF NewCall, Returning

\* PoolOK, the steps of the scheduling thread.
LEMMA PoolOKTimer ==
  ASSUME IInv, Next, TimerStep
  PROVE  PoolOK'
<1>1. CASE TimerFire
  BY <1>1, SetsAssumption DEF IInv, TypeOK, TasksOK, PoolOK, WorkerPoint, TimerFire, Missing, Free
<1>2. CASE TimerLeave
  BY <1>2, SetsAssumption DEF IInv, TypeOK, TasksOK, PoolOK, WorkerPoint, TimerLeave
<1>3. CASE TimerEnd
  BY <1>3, SetsAssumption DEF IInv, TypeOK, TasksOK, PoolOK, WorkerPoint, TimerEnd
<1> QED BY <1>1, <1>2, <1>3 DEF TimerStep

\* CallingOK, the steps inside the engine's methods.
LEMMA CallingOKThread ==
  ASSUME IInv, Next, NEW th \in Th, ThreadStep(th)
  PROVE  CallingOK'
<1>1. CASE Publish(th)
  BY <1>1 DEF IInv, TypeOK, TasksOK, CallingOK, CallerPoint, Publish, NotifyAll, Unspared
<1>2. CASE Drop(th)
  BY <1>2 DEF IInv, TypeOK, TasksOK, CallingOK, CallerPoint, Drop, Mark
<1>3. CASE \/ AbortHalt(th) \/ CutLater(th) \/ DrainTask(th) \/ DrainStop(th) \/ DrainEmpty(th) \/ PutBackTask(th)
           \/ PutBackStop(th) \/ PutBackEnd(th) \/ DropEnd(th) \/ SnapActive(th) \/ Interrupt(th) \/ AbortEnd(th)
  BY <1>3 DEF IInv, TypeOK, TasksOK, CallingOK, CallerPoint, AbortHalt, CutLater, DrainTask, DrainStop,
     DrainEmpty, PutBackTask, PutBackStop, PutBackEnd, DropEnd, SnapActive, Interrupt, AbortEnd, SweepTo
<1> QED BY <1>1, <1>2, <1>3 DEF ThreadStep

\* CallingOK, the steps of the workers.
LEMMA CallingOKWorker ==
  ASSUME IInv, Next, NEW w \in Workers, WorkerStep(w)
  PROVE  CallingOK'
  BY DEF IInv, TypeOK, TasksOK, CallingOK, CallerPoint, WorkerStep, WorkerInit, WorkerInitFails, Get, GetStop,
     Skip, Enter, Register, Attempt, Cancelled, Succeed, Fail, Retry, Delay, Release, Exit, Leave, Move, Resting,
     Mark, Unwanted, Outcome

\* CallingOK, the steps of the callers.
LEMMA CallingOKCaller ==
  ASSUME IInv, Next, NEW c \in Callers, NewCall(c) \/ Returning(c) \/ RunTimeout(c)
  PROVE  CallingOK'
<1>1. CASE Submit(c) \/ Resubmit(c)
  BY <1>1, SubmitTypes
<1>2. CASE Start(c)
  BY <1>2 DEF IInv, TypeOK, TasksOK, CallingOK, CallerPoint, Start, Call, At, Resting, StartSection, Into
<1>3. CASE Join(c)
  BY <1>3 DEF IInv, TypeOK, TasksOK, CallingOK, CallerPoint, Join, Call, At, Resting, StartSection, Into
<1>4. CASE Run(c)
  BY <1>4 DEF IInv, TypeOK, TasksOK, CallingOK, CallerPoint, Run, Call, At, Resting
<1>5. CASE Shutdown(c)
  BY <1>5, ShutdownTypes
<1>6. CASE Cancel(c) \/ CancelTask(c)
  BY <1>6, CancelTypes
<1>7. CASE Reset(c)
  BY <1>7 DEF IInv, TypeOK, TasksOK, CallingOK, CallerPoint, Reset, Call, At, Resting, IntoSweep
<1>8. CASE ClearResults(c)
  BY <1>8 DEF IInv, TypeOK, TasksOK, CallingOK, CallerPoint, ClearResults, Call, At, Resting
<1>9. CASE JoinRaises(c)
  BY <1>9 DEF IInv, TypeOK, TasksOK, CallingOK, CallerPoint, JoinRaises, StopTo
<1>10. CASE JoinStart(c) \/ RunStart(c)
  BY <1>10 DEF IInv, TypeOK, TasksOK, CallingOK, CallerPoint, JoinStart, RunStart, StartSection, Into, Goto, At,
     Resting
<1>11. CASE StartRefused(c)
  BY <1>11 DEF IInv, TypeOK, TasksOK, CallingOK, CallerPoint, StartRefused, Goto, At, Resting
<1>12. CASE Park(c)
  BY <1>12 DEF IInv, TypeOK, TasksOK, CallingOK, CallerPoint, Park, Goto, At, Resting
<1>13. CASE JoinReturn(c)
  BY <1>13 DEF IInv, TypeOK, TasksOK, CallingOK, CallerPoint, JoinReturn, GotoIdle, Goto, At, Resting
<1>14. CASE RunIdle(c)
  BY <1>14 DEF IInv, TypeOK, TasksOK, CallingOK, CallerPoint, RunIdle, GotoIdle, Goto, At, Resting, Into
<1>15. CASE RunDrained(c)
  BY <1>15 DEF IInv, TypeOK, TasksOK, CallingOK, CallerPoint, RunDrained, GotoIdle, Goto, At, Resting, Into
<1>16. CASE RunEnd(c)
  BY <1>16 DEF IInv, TypeOK, TasksOK, CallingOK, CallerPoint, RunEnd, Goto, At, Resting
<1>17. CASE DownPeek(c)
  BY <1>17 DEF IInv, TypeOK, TasksOK, CallingOK, CallerPoint, DownPeek, Goto, At, Resting
<1>18. CASE DownStart(c)
  BY <1>18 DEF IInv, TypeOK, TasksOK, CallingOK, CallerPoint, DownStart, StartSection, Into, Goto, At, Resting
<1>19. CASE Refuse(c)
  BY <1>19 DEF IInv, TypeOK, TasksOK, CallingOK, CallerPoint, Refuse, Goto, At, Resting, IntoSweep
<1>20. CASE DownDrained(c)
  BY <1>20 DEF IInv, TypeOK, TasksOK, CallingOK, CallerPoint, DownDrained, GotoIdle, Goto, At, Resting
<1>21. CASE DownHalt(c)
  BY <1>21 DEF IInv, TypeOK, TasksOK, CallingOK, CallerPoint, DownHalt, Goto, At, Resting
<1>22. CASE DownStop(c)
  BY <1>22 DEF IInv, TypeOK, TasksOK, CallingOK, CallerPoint, DownStop, Goto, At, Resting, Into
<1>23. CASE Close(c)
  BY <1>23 DEF IInv, TypeOK, TasksOK, CallingOK, CallerPoint, Close, Goto, At, Resting, NotifyAll
<1>24. CASE CancelReturn(c)
  BY <1>24 DEF IInv, TypeOK, TasksOK, CallingOK, CallerPoint, CancelReturn, At, Resting, IntoSweep
<1>25. CASE ResetDrained(c)
  BY <1>25 DEF IInv, TypeOK, TasksOK, CallingOK, CallerPoint, ResetDrained, GotoIdle, Goto, At, Resting, IntoSweep
<1>26. CASE ResetClear(c)
  BY <1>26 DEF IInv, TypeOK, TasksOK, CallingOK, CallerPoint, ResetClear, At, Resting, NotifyAll
<1>27. CASE RunTimeout(c)
  BY <1>27 DEF IInv, TypeOK, TasksOK, CallingOK, CallerPoint, RunTimeout, IntoSweep, Resting, Unspared
<1>28. CASE \/ Spawn(c) \/ StartThread(c) \/ SnapThreads(c) \/ PutStop(c) \/ JoinWorker(c) \/ JoinedAll(c)
            \/ ForgetThreads(c)
  BY <1>28 DEF IInv, TypeOK, TasksOK, CallingOK, CallerPoint, Spawn, StartThread, SnapThreads, PutStop,
     JoinWorker, JoinedAll, ForgetThreads, Missing, Free, StopTo
<1> QED BY <1>1, <1>2, <1>3, <1>4, <1>5, <1>6, <1>7, <1>8, <1>9, <1>10, <1>11, <1>12, <1>13, <1>14, <1>15, <1>16,
   <1>17, <1>18, <1>19, <1>20, <1>21, <1>22, <1>23, <1>24, <1>25, <1>26, <1>27, <1>28 DEF NewCall, Returning

\* CallingOK, the steps of the scheduling thread.
LEMMA CallingOKTimer ==
  ASSUME IInv, Next, TimerStep
  PROVE  CallingOK'
  BY DEF IInv, TypeOK, TasksOK, CallingOK, CallerPoint, TimerStep, TimerFire, TimerLeave, TimerEnd, Missing, Free

\* MethodsOK, the steps inside the engine's methods.
LEMMA MethodsOKThread ==
  ASSUME IInv, Next, NEW th \in Th, ThreadStep(th)
  PROVE  MethodsOK'
<1>1. CASE Publish(th)
  BY <1>1, PublishTypes
<1>2. CASE AbortHalt(th)
  BY <1>2, SetsAssumption DEF IInv, TypeOK, TasksOK, PoolOK, MethodsOK, MethodPoint, Th, AbortHalt, SweepTo
<1>3. CASE CutLater(th)
  BY <1>3, SetsAssumption DEF IInv, TypeOK, TasksOK, PoolOK, MethodsOK, MethodPoint, Th, CutLater
<1>4. CASE DrainTask(th)
  BY <1>4, SetsAssumption DEF IInv, TypeOK, TasksOK, PoolOK, MethodsOK, MethodPoint, Th, DrainTask
<1>5. CASE DrainStop(th)
  BY <1>5, SetsAssumption DEF IInv, TypeOK, TasksOK, PoolOK, MethodsOK, MethodPoint, Th, DrainStop
<1>6. CASE DrainEmpty(th)
  BY <1>6, SetsAssumption DEF IInv, TypeOK, TasksOK, PoolOK, MethodsOK, MethodPoint, Th, DrainEmpty, SweepTo
<1>7. CASE PutBackTask(th)
  BY <1>7, SetsAssumption DEF IInv, TypeOK, TasksOK, PoolOK, MethodsOK, MethodPoint, Th, PutBackTask
<1>8. CASE PutBackStop(th)
  BY <1>8, SetsAssumption DEF IInv, TypeOK, TasksOK, PoolOK, MethodsOK, MethodPoint, Th, PutBackStop
<1>9. CASE PutBackEnd(th)
  BY <1>9, SetsAssumption DEF IInv, TypeOK, TasksOK, PoolOK, MethodsOK, MethodPoint, Th, PutBackEnd, SweepTo
<1>10. CASE Drop(th)
  BY <1>10, DropTypes
<1>11. CASE DropEnd(th)
  BY <1>11, SetsAssumption DEF IInv, TypeOK, TasksOK, PoolOK, MethodsOK, MethodPoint, Th, DropEnd, SweepTo
<1>12. CASE SnapActive(th)
  BY <1>12, SetsAssumption DEF IInv, TypeOK, TasksOK, PoolOK, MethodsOK, MethodPoint, Th, SnapActive, SweepTo
<1>13. CASE Interrupt(th)
  BY <1>13, SetsAssumption DEF IInv, TypeOK, TasksOK, PoolOK, MethodsOK, MethodPoint, Th, Interrupt
<1>14. CASE AbortEnd(th)
  BY <1>14, SetsAssumption DEF IInv, TypeOK, TasksOK, PoolOK, MethodsOK, MethodPoint, Th, AbortEnd, SweepTo
<1> QED BY <1>1, <1>2, <1>3, <1>4, <1>5, <1>6, <1>7, <1>8, <1>9, <1>10, <1>11, <1>12, <1>13, <1>14 DEF ThreadStep

\* MethodsOK, the steps of the workers.
LEMMA MethodsOKWorker ==
  ASSUME IInv, Next, NEW w \in Workers, WorkerStep(w)
  PROVE  MethodsOK'
<1>1. CASE WorkerInitFails(w)
  BY <1>1, SetsAssumption DEF IInv, TypeOK, TasksOK, PoolOK, MethodsOK, MethodPoint, Th, WorkerInitFails, Move
<1>2. CASE Skip(w) \/ Cancelled(w) \/ Succeed(w) \/ Fail(w)
  BY <1>2, OutcomeTypes
<1>3. CASE \/ WorkerInit(w) \/ Get(w) \/ GetStop(w) \/ Enter(w) \/ Register(w) \/ Attempt(w) \/ Retry(w)
           \/ Delay(w) \/ Release(w) \/ Exit(w) \/ Leave(w)
  BY <1>3, SetsAssumption DEF IInv, TypeOK, TasksOK, PoolOK, MethodsOK, MethodPoint, Th, WorkerInit, Get, GetStop,
     Enter, Register, Attempt, Retry, Delay, Release, Exit, Leave, Move, Resting, Unwanted
<1> QED BY <1>1, <1>2, <1>3 DEF WorkerStep

\* MethodsOK, the steps of the callers.
LEMMA MethodsOKCaller ==
  ASSUME IInv, Next, NEW c \in Callers, NewCall(c) \/ Returning(c) \/ RunTimeout(c)
  PROVE  MethodsOK'
<1>1. CASE Submit(c) \/ Resubmit(c)
  BY <1>1, SubmitTypes
<1>2. CASE Start(c)
  BY <1>2, SetsAssumption DEF IInv, TypeOK, TasksOK, PoolOK, MethodsOK, MethodPoint, Th, Start, Call, At, Resting,
     StartSection, Into
<1>3. CASE Join(c)
  BY <1>3, SetsAssumption DEF IInv, TypeOK, TasksOK, PoolOK, MethodsOK, MethodPoint, Th, Join, Call, At, Resting,
     StartSection, Into
<1>4. CASE Cancel(c) \/ CancelTask(c)
  BY <1>4, CancelTypes
<1>5. CASE Reset(c)
  BY <1>5, SetsAssumption DEF IInv, TypeOK, TasksOK, PoolOK, MethodsOK, MethodPoint, Th, Reset, Call, At, Resting,
     IntoSweep
<1>6. CASE Spawn(c)
  BY <1>6, SetsAssumption DEF IInv, TypeOK, TasksOK, PoolOK, MethodsOK, MethodPoint, Th, Spawn, Missing, Free
<1>7. CASE StartThread(c)
  BY <1>7, SetsAssumption DEF IInv, TypeOK, TasksOK, PoolOK, MethodsOK, MethodPoint, Th, StartThread
<1>8. CASE SnapThreads(c)
  BY <1>8, SnapTypes
<1>9. CASE PutStop(c)
  BY <1>9, SetsAssumption DEF IInv, TypeOK, TasksOK, PoolOK, MethodsOK, MethodPoint, Th, PutStop, StopTo
<1>10. CASE JoinWorker(c)
  BY <1>10, SetsAssumption DEF IInv, TypeOK, TasksOK, PoolOK, MethodsOK, MethodPoint, Th, JoinWorker, StopTo
<1>11. CASE JoinRaises(c)
  BY <1>11, SetsAssumption DEF IInv, TypeOK, TasksOK, PoolOK, MethodsOK, MethodPoint, Th, JoinRaises, StopTo
<1>12. CASE JoinedAll(c)
  BY <1>12, SetsAssumption DEF IInv, TypeOK, TasksOK, PoolOK, MethodsOK, MethodPoint, Th, JoinedAll, StopTo
<1>13. CASE ForgetThreads(c)
  BY <1>13, SetsAssumption DEF IInv, TypeOK, TasksOK, PoolOK, MethodsOK, MethodPoint, Th, ForgetThreads, StopTo
<1>14. CASE JoinStart(c) \/ RunStart(c)
  BY <1>14, SetsAssumption DEF IInv, TypeOK, TasksOK, PoolOK, MethodsOK, MethodPoint, Th, JoinStart, RunStart,
     StartSection, Into, Goto, At, Resting
<1>15. CASE RunIdle(c)
  BY <1>15, SetsAssumption DEF IInv, TypeOK, TasksOK, PoolOK, MethodsOK, MethodPoint, Th, RunIdle, GotoIdle, Goto,
     At, Resting, Into
<1>16. CASE RunDrained(c)
  BY <1>16, SetsAssumption DEF IInv, TypeOK, TasksOK, PoolOK, MethodsOK, MethodPoint, Th, RunDrained, GotoIdle,
     Goto, At, Resting, Into
<1>17. CASE DownStart(c)
  BY <1>17, SetsAssumption DEF IInv, TypeOK, TasksOK, PoolOK, MethodsOK, MethodPoint, Th, DownStart, StartSection,
     Into, Goto, At, Resting
<1>18. CASE Refuse(c)
  <2>1. sub' = sub \/ sub' = [sub EXCEPT ![c] = "halt"]
    BY <1>18 DEF Refuse, IntoSweep
  <2>2. sel' = sel \/ sel' = [sel EXCEPT ![c] = Tasks]
    BY <1>18 DEF Refuse, IntoSweep
  <2>3. UNCHANGED <<hand, handStops, hits, pub, toStart, snap>>
    BY <1>18 DEF Refuse, Goto
  <2> QED BY <2>1, <2>2, <2>3 DEF IInv, TypeOK, MethodsOK, MethodPoint
<1>19. CASE DownStop(c)
  BY <1>19, SetsAssumption DEF IInv, TypeOK, TasksOK, PoolOK, MethodsOK, MethodPoint, Th, DownStop, Goto, At,
     Resting, Into
<1>20. CASE CancelReturn(c)
  BY <1>20, SetsAssumption DEF IInv, TypeOK, TasksOK, PoolOK, MethodsOK, MethodPoint, Th, CancelReturn, At,
     Resting, IntoSweep
<1>21. CASE ResetDrained(c)
  BY <1>21, SetsAssumption DEF IInv, TypeOK, TasksOK, PoolOK, MethodsOK, MethodPoint, Th, ResetDrained, GotoIdle,
     Goto, At, Resting, IntoSweep
<1>22. CASE RunTimeout(c)
  BY <1>22, SetsAssumption DEF IInv, TypeOK, TasksOK, PoolOK, MethodsOK, MethodPoint, Th, RunTimeout, IntoSweep,
     Resting, Unspared
<1>23. CASE \/ Run(c) \/ Shutdown(c) \/ ClearResults(c) \/ StartRefused(c) \/ Park(c) \/ JoinReturn(c) \/ RunEnd(c)
            \/ DownPeek(c) \/ DownDrained(c) \/ DownHalt(c) \/ Close(c) \/ ResetClear(c)
  BY <1>23, SetsAssumption DEF IInv, TypeOK, TasksOK, PoolOK, MethodsOK, MethodPoint, Th, Run, Shutdown,
     ClearResults, StartRefused, Park, JoinReturn, RunEnd, DownPeek, DownDrained, DownHalt, Close, ResetClear,
     Call, At, Resting, Goto, GotoIdle, NotifyAll
<1> QED BY <1>1, <1>2, <1>3, <1>4, <1>5, <1>6, <1>7, <1>8, <1>9, <1>10, <1>11, <1>12, <1>13, <1>14, <1>15, <1>16,
   <1>17, <1>18, <1>19, <1>20, <1>21, <1>22, <1>23 DEF NewCall, Returning

\* MethodsOK, the steps of the scheduling thread.
LEMMA MethodsOKTimer ==
  ASSUME IInv, Next, TimerStep
  PROVE  MethodsOK'
  BY SetsAssumption DEF IInv, TypeOK, TasksOK, PoolOK, MethodsOK, MethodPoint, Th, TimerStep, TimerFire,
     TimerLeave, TimerEnd, Missing, Free

\* Every step of the engine keeps every variable typed.
LEMMA TypeStep ==
  ASSUME IInv, Next
  PROVE  TypeOK'
<1>1. CASE \E th \in Th : ThreadStep(th)
  BY <1>1, TasksOKThread, FlagsOKThread, PoolOKThread, CallingOKThread, MethodsOKThread DEF TypeOK
<1>2. CASE \E w \in Workers : WorkerStep(w)
  BY <1>2, TasksOKWorker, FlagsOKWorker, PoolOKWorker, CallingOKWorker, MethodsOKWorker DEF TypeOK
<1>3. CASE \E c \in Callers : NewCall(c) \/ Returning(c) \/ RunTimeout(c)
  BY <1>3, TasksOKCaller, FlagsOKCaller, PoolOKCaller, CallingOKCaller, MethodsOKCaller DEF TypeOK
<1>4. CASE TimerStep
  BY <1>4, TasksOKTimer, FlagsOKTimer, PoolOKTimer, CallingOKTimer, MethodsOKTimer DEF TypeOK
<1> QED BY <1>1, <1>2, <1>3, <1>4 DEF Next


-----------------------------------------------------------------------------
(* The inductive invariant, one part after the other                       *)

\* What the start of a registered thread does.
LEMMA StartStep ==
  ASSUME IInv, NEW c \in Callers, StartThread(c)
  PROVE  \E w \in Workers : /\ wpc[w] = "reg" /\ w \in toStart[c] /\ cur[w] = NULL /\ Resting(w)
                            /\ wpc' = [wpc EXCEPT ![w] = "init"]
                            /\ toStart' = [toStart EXCEPT ![c] = @ \ {w}]
<1>1. toStart[c] \subseteq Workers /\ \A w \in toStart[c] : wpc[w] = "reg"
  BY DEF IInv, TypeOK, MethodsOK, Th, Starting
<1>2. \A w \in toStart[c] : cur[w] = NULL /\ Resting(w)
  BY <1>1 DEF IInv, Holding, Carrying, WorkerAtRest
<1> QED BY <1>1, <1>2 DEF StartThread

\* A thread that starts is at rest and holds nothing.
LEMMA StartThreadKeeps ==
  ASSUME IInv, Next, NEW c \in Callers, StartThread(c)
  PROVE WorkerAtRest' /\ Holding'
<1>1. PICK w \in Workers : /\ wpc[w] = "reg" /\ cur[w] = NULL /\ Resting(w)
                           /\ wpc' = [wpc EXCEPT ![w] = "init"]
  BY StartStep
<1>2. UNCHANGED <<cur, st, pub>> /\ \A v \in Workers : sub'[v] = sub[v]
  BY SetsAssumption DEF StartThread, IInv, TypeOK, MethodsOK, Th
<1>3. WorkerAtRest'
  BY <1>1, <1>2 DEF IInv, WorkerAtRest, Resting, TypeOK, PoolOK
<1>4. Holding'
  BY <1>1, <1>2 DEF IInv, Holding, Carrying, Live, Final, TypeOK, PoolOK
<1> QED BY <1>3, <1>4

\* A worker that ends a task publishes that task next.
LEMMA OutcomeFinal ==
  ASSUME IInv, Next, NEW w \in Workers, Skip(w) \/ Cancelled(w) \/ Succeed(w) \/ Fail(w)
  PROVE PublishFinal'
<1>1. PICK s \in Outcomes : st' = [st EXCEPT ![cur[w]] = s]
  BY OutcomeStep
<1>2. cur[w] \in Tasks /\ Resting(w) /\ pub' = [pub EXCEPT ![w] = cur[w]] /\ st'[cur[w]] = s
  BY OutcomeStep, <1>1 DEF IInv, TypeOK, TasksOK
<1>3. sub' = sub
  BY DEF Skip, Cancelled, Succeed, Fail, Outcome, Move
<1>4. ASSUME NEW th \in Th, th # w, pub[th] # NULL
      PROVE  pub[th] \in Final' /\ st'[pub[th]] = st[pub[th]]
  BY <1>4, TaskFacts DEF IInv, PublishFinal, Final
<1> QED BY <1>2, <1>3, <1>4 DEF IInv, PublishFinal, TypeOK, MethodsOK, Th, Resting, Final, Outcomes

\* A sweep that has put everything back holds only what it drops.
LEMMA PutBackEndHand ==
  ASSUME IInv, Next, NEW th \in Th, PutBackEnd(th)
  PROVE HandInSweep'
<1>1. UNCHANGED <<hand, sel>> /\ \A u \in Th \ {th} : sub'[u] = sub[u]
  BY DEF PutBackEnd, SweepTo, IInv, TypeOK, MethodsOK
<1>2. sub'[th] = "rec2" \/ (sub'[th] \in {"none", "forget"} /\ hand[th] = {})
  <2>1. CASE sub[th] = "put"
    BY <2>1 DEF PutBackEnd, SweepTo, IInv, TypeOK, MethodsOK
  <2>2. CASE sub[th] = "restore"
    BY <2>2 DEF PutBackEnd, SweepTo, IInv, TypeOK, MethodsOK, HandInSweep
  <2> QED BY <2>1, <2>2 DEF PutBackEnd
<1> QED BY <1>1, <1>2 DEF IInv, HandInSweep

\* A caller that goes to sleep for room has a new task of its own.
LEMMA SubmitNew ==
  ASSUME IInv, Next, NEW c \in Callers, Submit(c) \/ Resubmit(c)
  PROVE Submitting'
<1>1. \A d \in Callers : d # c => pc'[d] = pc[d] /\ arg'[d] = arg[d]
  BY SubmitStep DEF WaitForRoom, Admit, IInv, TypeOK, CallingOK
<1>2. \A d \in Callers : d # c => \A t \in Mine[d] : st'[t] = st[t]
  <2>1. st' = st \/ \E t \in Mine[c] : st' = [st EXCEPT ![t] = "pending"]
    BY CallerStatus DEF NewCall, Returning
  <2>2. \A d \in Callers : d # c => Mine[d] \cap Mine[c] = {} /\ Mine[d] \subseteq Tasks
    BY CallersAssumption
  <2> QED BY <2>1, <2>2 DEF IInv, TypeOK, TasksOK
<1>3. pc'[c] # "cancel" /\ (pc'[c] = "full" => arg'[c] \in Mine[c] /\ st'[arg'[c]] = "new")
  BY SubmitStep DEF WaitForRoom, Admit, IInv, TypeOK, CallingOK
<1> QED BY <1>1, <1>2, <1>3 DEF IInv, Submitting

\* A submission takes nothing into the caller's hands.
LEMMA SubmitHand ==
  ASSUME IInv, Next, NEW c \in Callers, Submit(c) \/ Resubmit(c)
  PROVE  HandInSweep'
<1>1. UNCHANGED <<hand, sel>> /\ (sub' = sub \/ sub' = [sub EXCEPT ![c] = IF started THEN "spawn" ELSE "none"])
  BY SubmitStep DEF WaitForRoom, Admit
<1>2. hand[c] = {} /\ c \in Th
  BY SubmitStep DEF IInv, HandInSweep, Resting, Th
<1> QED BY <1>1, <1>2 DEF IInv, HandInSweep, TypeOK, MethodsOK

\* The task a worker ends is final from then on, and no other worker's.
LEMMA OutcomeHolding ==
  ASSUME IInv, Next, NEW w \in Workers, Skip(w) \/ Cancelled(w) \/ Succeed(w) \/ Fail(w)
  PROVE  Holding'
<1>1. PICK s \in Outcomes : st' = [st EXCEPT ![cur[w]] = s]
  BY OutcomeStep
<1>2. cur[w] \in Tasks /\ st'[cur[w]] = s
  BY OutcomeStep, <1>1 DEF IInv, TypeOK, TasksOK
<1>3. ASSUME NEW v \in Workers, v # w
      PROVE  wpc'[v] = wpc[v] /\ cur'[v] = cur[v] /\ (cur[v] \in Tasks => st'[cur[v]] = st[cur[v]])
  BY <1>1, <1>2, <1>3, OutcomeStep, SetsAssumption, SMTT(20) DEF IInv, TypeOK, TasksOK, PoolOK, OneOwner, Disjoint
<1>4. \/ wpc'[w] = "pop" /\ cur'[w] = cur[w]
      \/ wpc'[w] = "get" /\ cur'[w] = NULL
  BY OutcomeStep DEF IInv, TypeOK, PoolOK
<1>5. cur[w] # NULL
  BY <1>2, SetsAssumption
<1> QED BY <1>2, <1>3, <1>4, <1>5 DEF IInv, Holding, Carrying, Live, Final, Outcomes

-----------------------------------------------------------------------------
(* The control part of IInv.                                               *)

\* Holding, the steps inside the engine's methods.
LEMMA HoldingThread ==
  ASSUME IInv, Next, NEW th \in Th, ThreadStep(th)
  PROVE  Holding'
<1>1. CASE Drop(th)
  BY <1>1, DropStep DEF IInv, Holding, Carrying, Live, Final, TypeOK, TasksOK, PoolOK, OneOwner, Disjoint, Drop,
     Mark
<1>2. CASE \/ Publish(th) \/ AbortHalt(th) \/ CutLater(th) \/ DrainTask(th) \/ DrainStop(th) \/ DrainEmpty(th)
           \/ PutBackTask(th) \/ PutBackStop(th) \/ PutBackEnd(th) \/ DropEnd(th) \/ SnapActive(th)
           \/ Interrupt(th) \/ AbortEnd(th)
  BY <1>2 DEF IInv, Holding, Carrying, Live, Final, TypeOK, TasksOK, PoolOK, Publish, AbortHalt, CutLater,
     DrainTask, DrainStop, DrainEmpty, PutBackTask, PutBackStop, PutBackEnd, DropEnd, SnapActive, Interrupt,
     AbortEnd, NotifyAll, Unspared, SweepTo
<1> QED BY <1>1, <1>2 DEF ThreadStep

\* Holding, the steps of the workers.
LEMMA HoldingWorker ==
  ASSUME IInv, Next, NEW w \in Workers, WorkerStep(w)
  PROVE  Holding'
<1>1. CASE WorkerInit(w)
  BY <1>1 DEF IInv, Holding, Carrying, Live, Final, TypeOK, TasksOK, PoolOK, WorkerInit, Move
<1>2. CASE WorkerInitFails(w)
  BY <1>2 DEF IInv, Holding, Carrying, Live, Final, TypeOK, TasksOK, PoolOK, WorkerInitFails, Move
<1>3. CASE Get(w)
  BY <1>3, SetsAssumption, StatusSplit DEF IInv, Holding, Carrying, Live, Final, TypeOK, TasksOK, PoolOK,
     OneOwner, Disjoint, Somewhere, Get, Move, Resting
<1>4. CASE GetStop(w)
  BY <1>4 DEF IInv, Holding, Carrying, Live, Final, TypeOK, TasksOK, PoolOK, GetStop, Move, Resting
<1>5. CASE Skip(w) \/ Cancelled(w) \/ Succeed(w) \/ Fail(w)
  BY <1>5, OutcomeHolding
<1>6. CASE Enter(w)
  BY <1>6 DEF IInv, Holding, Carrying, Live, Final, TypeOK, TasksOK, PoolOK, Enter, Move, Unwanted
<1>7. CASE Register(w)
  BY <1>7 DEF IInv, Holding, Carrying, Live, Final, TypeOK, TasksOK, PoolOK, Register, Move
<1>8. CASE Attempt(w)
  BY <1>8 DEF IInv, Holding, Carrying, Live, Final, TypeOK, TasksOK, PoolOK, Attempt, Move
<1>9. CASE Retry(w)
  BY <1>9 DEF IInv, Holding, Carrying, Live, Final, TypeOK, TasksOK, PoolOK, Retry, Move
<1>10. CASE Delay(w)
  BY <1>10 DEF IInv, Holding, Carrying, Live, Final, TypeOK, TasksOK, PoolOK, Delay, Move
<1>11. CASE Release(w)
  BY <1>11 DEF IInv, Holding, Carrying, Live, Final, TypeOK, TasksOK, PoolOK, Release, Move, Resting
<1>12. CASE Exit(w)
  BY <1>12 DEF IInv, Holding, Carrying, Live, Final, TypeOK, TasksOK, PoolOK, Exit, Move
<1>13. CASE Leave(w)
  BY <1>13 DEF IInv, Holding, Carrying, Live, Final, TypeOK, TasksOK, PoolOK, Leave, Move, Resting
<1> QED BY <1>1, <1>2, <1>3, <1>4, <1>5, <1>6, <1>7, <1>8, <1>9, <1>10, <1>11, <1>12, <1>13 DEF WorkerStep

\* Holding, the steps of the callers.
LEMMA HoldingCaller ==
  ASSUME IInv, Next, NEW c \in Callers, NewCall(c) \/ Returning(c) \/ RunTimeout(c)
  PROVE  Holding'
<1>1. CASE Submit(c) \/ Resubmit(c)
  BY <1>1, SubmitStep DEF IInv, Holding, Carrying, Live, Final, TypeOK, TasksOK, PoolOK, WaitForRoom, Admit,
     Status, OneOwner, Somewhere
<1>2. CASE Spawn(c)
  BY <1>2 DEF IInv, Holding, Carrying, Live, Final, TypeOK, TasksOK, PoolOK, Spawn, Missing, Free
<1>3. CASE StartThread(c)
  BY <1>3, StartThreadKeeps
<1>4. CASE Start(c) \/ Join(c) \/ Run(c) \/ Shutdown(c) \/ Cancel(c) \/ CancelTask(c) \/ Reset(c) \/ ClearResults(c)
  BY <1>4 DEF IInv, Holding, Carrying, Live, Final, TypeOK, TasksOK, PoolOK, Start, Join, Run, Shutdown, Cancel,
     CancelTask, Reset, ClearResults, Call, At, Resting,
     StartSection, Into, IntoSweep, StopTo, Goto, GotoIdle, NotifyAll, Unspared
<1>5. CASE \/ SnapThreads(c) \/ PutStop(c) \/ JoinWorker(c) \/ JoinRaises(c) \/ JoinedAll(c) \/ ForgetThreads(c)
           \/ JoinStart(c) \/ RunStart(c) \/ StartRefused(c) \/ Park(c) \/ JoinReturn(c) \/ RunIdle(c)
           \/ RunDrained(c)
  BY <1>5 DEF IInv, Holding, Carrying, Live, Final, TypeOK, TasksOK, PoolOK, SnapThreads, PutStop, JoinWorker,
     JoinRaises, JoinedAll, ForgetThreads, JoinStart, RunStart, StartRefused, Park, JoinReturn, RunIdle, RunDrained,
     Call, At, Resting, StartSection, Into, IntoSweep, StopTo, Goto, GotoIdle, NotifyAll, Unspared
<1>6. CASE \/ RunEnd(c) \/ DownPeek(c) \/ DownStart(c) \/ Refuse(c) \/ DownDrained(c) \/ DownHalt(c) \/ DownStop(c)
           \/ Close(c) \/ CancelReturn(c) \/ ResetDrained(c) \/ ResetClear(c) \/ RunTimeout(c)
  BY <1>6 DEF IInv, Holding, Carrying, Live, Final, TypeOK, TasksOK, PoolOK, RunEnd, DownPeek, DownStart, Refuse,
     DownDrained, DownHalt, DownStop, Close, CancelReturn, ResetDrained, ResetClear, RunTimeout, Call, At, Resting,
     StartSection, Into, IntoSweep, StopTo, Goto, GotoIdle, NotifyAll, Unspared
<1> QED BY <1>1, <1>2, <1>3, <1>4, <1>5, <1>6 DEF NewCall, Returning

\* Holding, the steps of the scheduling thread.
LEMMA HoldingTimer ==
  ASSUME IInv, Next, TimerStep
  PROVE  Holding'
<1>1. CASE TimerFire
  BY <1>1 DEF IInv, Holding, Carrying, Live, Final, TypeOK, TasksOK, PoolOK, TimerFire, Missing, Free
<1>2. CASE TimerLeave \/ TimerEnd
  BY <1>2 DEF IInv, Holding, Carrying, Live, Final, TypeOK, TasksOK, PoolOK, TimerLeave, TimerEnd
<1> QED BY <1>1, <1>2 DEF TimerStep

\* WorkerAtRest, the steps inside the engine's methods.
LEMMA WorkerAtRestThread ==
  ASSUME IInv, Next, NEW th \in Th, ThreadStep(th)
  PROVE  WorkerAtRest'
<1>1. CASE Publish(th)
  BY <1>1, SetsAssumption DEF IInv, WorkerAtRest, Resting, TypeOK, PoolOK, MethodsOK, Th, Publish, NotifyAll,
     Unspared
<1>2. CASE AbortHalt(th)
  BY <1>2, SetsAssumption DEF IInv, WorkerAtRest, Resting, TypeOK, PoolOK, MethodsOK, Th, AbortHalt, SweepTo
<1>3. CASE CutLater(th)
  BY <1>3, SetsAssumption DEF IInv, WorkerAtRest, Resting, TypeOK, PoolOK, MethodsOK, Th, CutLater
<1>4. CASE DrainEmpty(th)
  BY <1>4, SetsAssumption DEF IInv, WorkerAtRest, Resting, TypeOK, PoolOK, MethodsOK, Th, DrainEmpty, SweepTo
<1>5. CASE PutBackEnd(th)
  BY <1>5, SetsAssumption DEF IInv, WorkerAtRest, Resting, TypeOK, PoolOK, MethodsOK, Th, PutBackEnd, SweepTo
<1>6. CASE Drop(th)
  BY <1>6, SetsAssumption DEF IInv, WorkerAtRest, Resting, TypeOK, PoolOK, MethodsOK, Th, Drop, Mark
<1>7. CASE DropEnd(th)
  BY <1>7, SetsAssumption DEF IInv, WorkerAtRest, Resting, TypeOK, PoolOK, MethodsOK, Th, DropEnd, SweepTo
<1>8. CASE SnapActive(th)
  BY <1>8, SetsAssumption DEF IInv, WorkerAtRest, Resting, TypeOK, PoolOK, MethodsOK, Th, SnapActive, SweepTo
<1>9. CASE AbortEnd(th)
  BY <1>9, SetsAssumption DEF IInv, WorkerAtRest, Resting, TypeOK, PoolOK, MethodsOK, Th, AbortEnd, SweepTo
<1>10. CASE DrainTask(th) \/ DrainStop(th) \/ PutBackTask(th) \/ PutBackStop(th) \/ Interrupt(th)
  BY <1>10, SetsAssumption DEF IInv, WorkerAtRest, Resting, TypeOK, PoolOK, MethodsOK, Th, DrainTask, DrainStop,
     PutBackTask, PutBackStop, Interrupt
<1> QED BY <1>1, <1>2, <1>3, <1>4, <1>5, <1>6, <1>7, <1>8, <1>9, <1>10 DEF ThreadStep

\* WorkerAtRest, the steps of the workers.
LEMMA WorkerAtRestWorker ==
  ASSUME IInv, Next, NEW w \in Workers, WorkerStep(w)
  PROVE  WorkerAtRest'
<1>1. CASE WorkerInit(w)
  BY <1>1, SetsAssumption DEF IInv, WorkerAtRest, Resting, TypeOK, PoolOK, MethodsOK, Th, WorkerInit, Move
<1>2. CASE WorkerInitFails(w)
  BY <1>2, SetsAssumption DEF IInv, WorkerAtRest, Resting, TypeOK, PoolOK, MethodsOK, Th, WorkerInitFails, Move
<1>3. CASE Get(w)
  BY <1>3, SetsAssumption DEF IInv, WorkerAtRest, Resting, TypeOK, PoolOK, MethodsOK, Th, Get, Move, Resting
<1>4. CASE GetStop(w)
  BY <1>4, SetsAssumption DEF IInv, WorkerAtRest, Resting, TypeOK, PoolOK, MethodsOK, Th, GetStop, Move, Resting
<1>5. CASE Skip(w) \/ Cancelled(w) \/ Succeed(w) \/ Fail(w)
  BY <1>5, SetsAssumption, OutcomeStep DEF IInv, WorkerAtRest, Resting, TypeOK, PoolOK, MethodsOK, Th, Carrying,
     Holding
<1>6. CASE Enter(w)
  BY <1>6, SetsAssumption DEF IInv, WorkerAtRest, Resting, TypeOK, PoolOK, MethodsOK, Th, Enter, Move, Unwanted
<1>7. CASE Register(w)
  BY <1>7, SetsAssumption DEF IInv, WorkerAtRest, Resting, TypeOK, PoolOK, MethodsOK, Th, Register, Move
<1>8. CASE Attempt(w)
  BY <1>8, SetsAssumption DEF IInv, WorkerAtRest, Resting, TypeOK, PoolOK, MethodsOK, Th, Attempt, Move
<1>9. CASE Retry(w)
  BY <1>9, SetsAssumption DEF IInv, WorkerAtRest, Resting, TypeOK, PoolOK, MethodsOK, Th, Retry, Move
<1>10. CASE Delay(w)
  BY <1>10, SetsAssumption DEF IInv, WorkerAtRest, Resting, TypeOK, PoolOK, MethodsOK, Th, Delay, Move
<1>11. CASE Release(w)
  BY <1>11, SetsAssumption DEF IInv, WorkerAtRest, Resting, TypeOK, PoolOK, MethodsOK, Th, Release, Move, Resting
<1>12. CASE Exit(w)
  BY <1>12, SetsAssumption DEF IInv, WorkerAtRest, Resting, TypeOK, PoolOK, MethodsOK, Th, Exit, Move
<1>13. CASE Leave(w)
  BY <1>13, SetsAssumption DEF IInv, WorkerAtRest, Resting, TypeOK, PoolOK, MethodsOK, Th, Leave, Move, Resting
<1> QED BY <1>1, <1>2, <1>3, <1>4, <1>5, <1>6, <1>7, <1>8, <1>9, <1>10, <1>11, <1>12, <1>13 DEF WorkerStep

\* WorkerAtRest, the steps of the callers.
LEMMA WorkerAtRestCaller ==
  ASSUME IInv, Next, NEW c \in Callers, NewCall(c) \/ Returning(c) \/ RunTimeout(c)
  PROVE  WorkerAtRest'
<1>1. CASE Submit(c) \/ Resubmit(c)
  BY <1>1, SetsAssumption, SubmitStep DEF IInv, WorkerAtRest, Resting, TypeOK, PoolOK, MethodsOK, Th, WaitForRoom,
     Admit
<1>2. CASE Start(c)
  BY <1>2, SetsAssumption DEF IInv, WorkerAtRest, Resting, TypeOK, PoolOK, MethodsOK, Th, Start, Call, At,
     Resting, StartSection, Into
<1>3. CASE Join(c)
  BY <1>3, SetsAssumption DEF IInv, WorkerAtRest, Resting, TypeOK, PoolOK, MethodsOK, Th, Join, Call, At, Resting,
     StartSection, Into
<1>4. CASE Cancel(c) \/ CancelTask(c)
  BY <1>4, SetsAssumption DEF IInv, WorkerAtRest, Resting, TypeOK, PoolOK, MethodsOK, Th, Cancel, CancelTask, Call,
     At, Resting, IntoSweep
<1>5. CASE Reset(c)
  BY <1>5, SetsAssumption DEF IInv, WorkerAtRest, Resting, TypeOK, PoolOK, MethodsOK, Th, Reset, Call, At,
     Resting, IntoSweep
<1>6. CASE Spawn(c)
  BY <1>6, SetsAssumption DEF IInv, WorkerAtRest, Resting, TypeOK, PoolOK, MethodsOK, Th, Spawn, Missing, Free
<1>7. CASE StartThread(c)
  BY <1>7, StartThreadKeeps
<1>8. CASE SnapThreads(c)
  BY <1>8, SetsAssumption DEF IInv, WorkerAtRest, Resting, TypeOK, PoolOK, MethodsOK, Th, SnapThreads, StopTo
<1>9. CASE PutStop(c)
  BY <1>9, SetsAssumption DEF IInv, WorkerAtRest, Resting, TypeOK, PoolOK, MethodsOK, Th, PutStop, StopTo
<1>10. CASE JoinWorker(c)
  BY <1>10, SetsAssumption DEF IInv, WorkerAtRest, Resting, TypeOK, PoolOK, MethodsOK, Th, JoinWorker, StopTo
<1>11. CASE JoinRaises(c)
  BY <1>11, SetsAssumption DEF IInv, WorkerAtRest, Resting, TypeOK, PoolOK, MethodsOK, Th, JoinRaises, StopTo
<1>12. CASE JoinedAll(c)
  BY <1>12, SetsAssumption DEF IInv, WorkerAtRest, Resting, TypeOK, PoolOK, MethodsOK, Th, JoinedAll, StopTo
<1>13. CASE ForgetThreads(c)
  BY <1>13, SetsAssumption DEF IInv, WorkerAtRest, Resting, TypeOK, PoolOK, MethodsOK, Th, ForgetThreads, StopTo
<1>14. CASE JoinStart(c) \/ RunStart(c)
  BY <1>14, SetsAssumption DEF IInv, WorkerAtRest, Resting, TypeOK, PoolOK, MethodsOK, Th, JoinStart, RunStart,
     StartSection, Into, Goto, At, Resting
<1>15. CASE RunIdle(c)
  BY <1>15, SetsAssumption, QueueAssumption DEF IInv, WorkerAtRest, Resting, TypeOK, PoolOK, MethodsOK, Th,
     RunIdle, GotoIdle, Goto, At, Resting, Into
<1>16. CASE RunDrained(c)
  BY <1>16, SetsAssumption, QueueAssumption DEF IInv, WorkerAtRest, Resting, TypeOK, PoolOK, MethodsOK, Th,
     RunDrained, GotoIdle, Goto, At, Resting, Into
<1>17. CASE DownStart(c)
  BY <1>17, SetsAssumption DEF IInv, WorkerAtRest, Resting, TypeOK, PoolOK, MethodsOK, Th, DownStart,
     StartSection, Into, Goto, At, Resting
<1>18. CASE Refuse(c)
  BY <1>18, SetsAssumption, QueueAssumption DEF IInv, WorkerAtRest, Resting, TypeOK, PoolOK, MethodsOK, Th,
     Refuse, Goto, At, Resting, IntoSweep
<1>19. CASE DownStop(c)
  BY <1>19, SetsAssumption DEF IInv, WorkerAtRest, Resting, TypeOK, PoolOK, MethodsOK, Th, DownStop, Goto, At,
     Resting, Into
<1>20. CASE CancelReturn(c)
  BY <1>20, SetsAssumption DEF IInv, WorkerAtRest, Resting, TypeOK, PoolOK, MethodsOK, Th, CancelReturn, At,
     Resting, IntoSweep
<1>21. CASE ResetDrained(c)
  BY <1>21, SetsAssumption DEF IInv, WorkerAtRest, Resting, TypeOK, PoolOK, MethodsOK, Th, ResetDrained, GotoIdle,
     Goto, At, Resting, IntoSweep
<1>22. CASE RunTimeout(c)
  BY <1>22, SetsAssumption DEF IInv, WorkerAtRest, Resting, TypeOK, PoolOK, MethodsOK, Th, RunTimeout, IntoSweep,
     Resting, Unspared
<1>23. CASE \/ Run(c) \/ Shutdown(c) \/ ClearResults(c) \/ StartRefused(c) \/ Park(c) \/ JoinReturn(c) \/ RunEnd(c)
            \/ DownPeek(c) \/ DownDrained(c) \/ DownHalt(c) \/ Close(c) \/ ResetClear(c)
  BY <1>23, SetsAssumption DEF IInv, WorkerAtRest, Resting, TypeOK, PoolOK, MethodsOK, Th, Run, Shutdown,
     ClearResults, StartRefused, Park, JoinReturn, RunEnd, DownPeek, DownDrained, DownHalt, Close, ResetClear,
     Call, At, Resting, Goto, GotoIdle, NotifyAll
<1> QED BY <1>1, <1>2, <1>3, <1>4, <1>5, <1>6, <1>7, <1>8, <1>9, <1>10, <1>11, <1>12, <1>13, <1>14, <1>15, <1>16,
   <1>17, <1>18, <1>19, <1>20, <1>21, <1>22, <1>23 DEF NewCall, Returning

\* WorkerAtRest, the steps of the scheduling thread.
LEMMA WorkerAtRestTimer ==
  ASSUME IInv, Next, TimerStep
  PROVE  WorkerAtRest'
<1>1. CASE TimerFire
  BY <1>1, SetsAssumption DEF IInv, WorkerAtRest, Resting, TypeOK, PoolOK, MethodsOK, Th, TimerFire, Missing, Free
<1>2. CASE TimerLeave \/ TimerEnd
  BY <1>2, SetsAssumption DEF IInv, WorkerAtRest, Resting, TypeOK, PoolOK, MethodsOK, Th, TimerLeave, TimerEnd
<1> QED BY <1>1, <1>2 DEF TimerStep

\* HandInSweep, the steps inside the engine's methods.
LEMMA HandInSweepThread ==
  ASSUME IInv, Next, NEW th \in Th, ThreadStep(th)
  PROVE  HandInSweep'
<1>1. CASE Publish(th)
  BY <1>1 DEF IInv, HandInSweep, TypeOK, MethodsOK, Th, PublishFinal, Publish, NotifyAll, Unspared
<1>2. CASE AbortHalt(th)
  BY <1>2 DEF IInv, HandInSweep, TypeOK, MethodsOK, Th, AbortHalt, SweepTo
<1>3. CASE CutLater(th)
  BY <1>3 DEF IInv, HandInSweep, TypeOK, MethodsOK, Th, CutLater
<1>4. CASE DrainTask(th)
  BY <1>4 DEF IInv, HandInSweep, TypeOK, MethodsOK, Th, DrainTask
<1>5. CASE DrainEmpty(th)
  BY <1>5 DEF IInv, HandInSweep, TypeOK, MethodsOK, Th, DrainEmpty, SweepTo
<1>6. CASE PutBackTask(th)
  BY <1>6 DEF IInv, HandInSweep, TypeOK, MethodsOK, Th, PutBackTask
<1>7. CASE PutBackEnd(th)
  BY <1>7, PutBackEndHand
<1>8. CASE Drop(th)
  BY <1>8 DEF IInv, HandInSweep, TypeOK, MethodsOK, Th, Drop, Mark
<1>9. CASE DropEnd(th)
  BY <1>9 DEF IInv, HandInSweep, TypeOK, MethodsOK, Th, DropEnd, SweepTo
<1>10. CASE SnapActive(th)
  BY <1>10 DEF IInv, HandInSweep, TypeOK, MethodsOK, Th, SnapActive, SweepTo
<1>11. CASE AbortEnd(th)
  BY <1>11 DEF IInv, HandInSweep, TypeOK, MethodsOK, Th, AbortEnd, SweepTo
<1>12. CASE DrainStop(th) \/ PutBackStop(th) \/ Interrupt(th)
  BY <1>12 DEF IInv, HandInSweep, TypeOK, MethodsOK, Th, DrainStop, PutBackStop, Interrupt
<1> QED BY <1>1, <1>2, <1>3, <1>4, <1>5, <1>6, <1>7, <1>8, <1>9, <1>10, <1>11, <1>12 DEF ThreadStep

\* HandInSweep, the steps of the workers.
LEMMA HandInSweepWorker ==
  ASSUME IInv, Next, NEW w \in Workers, WorkerStep(w)
  PROVE  HandInSweep'
<1>1. CASE WorkerInitFails(w)
  BY <1>1 DEF IInv, HandInSweep, TypeOK, MethodsOK, Th, WorkerAtRest, Resting, WorkerInitFails, Move
<1>2. CASE \/ WorkerInit(w) \/ Get(w) \/ GetStop(w) \/ Skip(w) \/ Enter(w) \/ Register(w) \/ Attempt(w)
           \/ Cancelled(w) \/ Succeed(w) \/ Fail(w) \/ Retry(w) \/ Delay(w) \/ Release(w) \/ Exit(w) \/ Leave(w)
  BY <1>2 DEF IInv, HandInSweep, TypeOK, MethodsOK, Th, WorkerInit, Get, GetStop, Skip, Enter, Register, Attempt,
     Cancelled, Succeed, Fail, Retry, Delay, Release, Exit, Leave, Move, Resting, Mark, Unwanted, Outcome
<1> QED BY <1>1, <1>2 DEF WorkerStep

\* HandInSweep, the steps of the callers.
LEMMA HandInSweepCaller ==
  ASSUME IInv, Next, NEW c \in Callers, NewCall(c) \/ Returning(c) \/ RunTimeout(c)
  PROVE  HandInSweep'
<1>1. CASE Submit(c) \/ Resubmit(c)
  BY <1>1, SubmitHand
<1>2. CASE Start(c)
  BY <1>2 DEF IInv, HandInSweep, TypeOK, MethodsOK, Th, Start, Call, At, Resting, StartSection, Into
<1>3. CASE Join(c)
  BY <1>3 DEF IInv, HandInSweep, TypeOK, MethodsOK, Th, Join, Call, At, Resting, StartSection, Into
<1>4. CASE Cancel(c) \/ CancelTask(c)
  BY <1>4 DEF IInv, HandInSweep, TypeOK, MethodsOK, Th, Cancel, CancelTask, Call, At, Resting, IntoSweep
<1>5. CASE Reset(c)
  BY <1>5 DEF IInv, HandInSweep, TypeOK, MethodsOK, Th, Reset, Call, At, Resting, IntoSweep
<1>6. CASE Spawn(c)
  BY <1>6 DEF IInv, HandInSweep, TypeOK, MethodsOK, Th, Spawn, Missing, Free
<1>7. CASE StartThread(c)
  BY <1>7 DEF IInv, HandInSweep, TypeOK, MethodsOK, Th, StartThread
<1>8. CASE SnapThreads(c)
  BY <1>8 DEF IInv, HandInSweep, TypeOK, MethodsOK, Th, SnapThreads, StopTo
<1>9. CASE PutStop(c)
  BY <1>9 DEF IInv, HandInSweep, TypeOK, MethodsOK, Th, PutStop, StopTo
<1>10. CASE JoinWorker(c)
  BY <1>10 DEF IInv, HandInSweep, TypeOK, MethodsOK, Th, JoinWorker, StopTo
<1>11. CASE JoinRaises(c)
  BY <1>11 DEF IInv, HandInSweep, TypeOK, MethodsOK, Th, JoinRaises, StopTo
<1>12. CASE JoinedAll(c)
  BY <1>12 DEF IInv, HandInSweep, TypeOK, MethodsOK, Th, JoinedAll, StopTo
<1>13. CASE ForgetThreads(c)
  BY <1>13 DEF IInv, HandInSweep, TypeOK, MethodsOK, Th, ForgetThreads, StopTo
<1>14. CASE JoinStart(c) \/ RunStart(c)
  BY <1>14 DEF IInv, HandInSweep, TypeOK, MethodsOK, Th, JoinStart, RunStart, StartSection, Into, Goto, At, Resting
<1>15. CASE RunIdle(c)
  BY <1>15, QueueAssumption DEF IInv, HandInSweep, TypeOK, MethodsOK, Th, RunIdle, GotoIdle, Goto, At, Resting, Into
<1>16. CASE RunDrained(c)
  BY <1>16 DEF IInv, HandInSweep, TypeOK, MethodsOK, Th, RunDrained, GotoIdle, Goto, At, Resting, Into
<1>17. CASE DownStart(c)
  BY <1>17 DEF IInv, HandInSweep, TypeOK, MethodsOK, Th, DownStart, StartSection, Into, Goto, At, Resting
<1>18. CASE Refuse(c)
  BY <1>18 DEF IInv, HandInSweep, TypeOK, MethodsOK, Th, Refuse, Goto, At, Resting, IntoSweep
<1>19. CASE DownStop(c)
  BY <1>19 DEF IInv, HandInSweep, TypeOK, MethodsOK, Th, DownStop, Goto, At, Resting, Into
<1>20. CASE CancelReturn(c)
  BY <1>20 DEF IInv, HandInSweep, TypeOK, MethodsOK, Th, CancelReturn, At, Resting, IntoSweep
<1>21. CASE ResetDrained(c)
  BY <1>21 DEF IInv, HandInSweep, TypeOK, MethodsOK, Th, ResetDrained, GotoIdle, Goto, At, Resting, IntoSweep
<1>22. CASE RunTimeout(c)
  BY <1>22 DEF IInv, HandInSweep, TypeOK, MethodsOK, Th, RunTimeout, IntoSweep, Resting, Unspared
<1>23. CASE \/ Run(c) \/ Shutdown(c) \/ ClearResults(c) \/ StartRefused(c) \/ Park(c) \/ JoinReturn(c) \/ RunEnd(c)
            \/ DownPeek(c) \/ DownDrained(c) \/ DownHalt(c) \/ Close(c) \/ ResetClear(c)
  BY <1>23 DEF IInv, HandInSweep, TypeOK, MethodsOK, Th, Run, Shutdown, ClearResults, StartRefused, Park,
     JoinReturn, RunEnd, DownPeek, DownDrained, DownHalt, Close, ResetClear, Call, At, Resting, Goto, GotoIdle,
     NotifyAll
<1> QED BY <1>1, <1>2, <1>3, <1>4, <1>5, <1>6, <1>7, <1>8, <1>9, <1>10, <1>11, <1>12, <1>13, <1>14, <1>15, <1>16,
   <1>17, <1>18, <1>19, <1>20, <1>21, <1>22, <1>23 DEF NewCall, Returning

\* HandInSweep, the steps of the scheduling thread.
LEMMA HandInSweepTimer ==
  ASSUME IInv, Next, TimerStep
  PROVE  HandInSweep'
  BY DEF IInv, HandInSweep, TypeOK, MethodsOK, Th, TimerStep, TimerFire, TimerLeave, TimerEnd, Missing, Free

\* PublishFinal, the steps inside the engine's methods.
LEMMA PublishFinalThread ==
  ASSUME IInv, Next, NEW th \in Th, ThreadStep(th)
  PROVE  PublishFinal'
<1>1. CASE Publish(th)
  BY <1>1, TaskFacts DEF IInv, PublishFinal, Final, Resting, TypeOK, TasksOK, MethodsOK, Th, Publish, NotifyAll,
     Unspared
<1>2. CASE AbortHalt(th)
  BY <1>2, TaskFacts DEF IInv, PublishFinal, Final, Resting, TypeOK, TasksOK, MethodsOK, Th, AbortHalt, SweepTo
<1>3. CASE CutLater(th)
  BY <1>3, TaskFacts, SMTT(20) DEF IInv, PublishFinal, Final, Resting, TypeOK, TasksOK, MethodsOK, Th, CutLater
<1>4. CASE DrainEmpty(th)
  BY <1>4, TaskFacts DEF IInv, PublishFinal, Final, Resting, TypeOK, TasksOK, MethodsOK, Th, DrainEmpty, SweepTo
<1>5. CASE PutBackEnd(th)
  BY <1>5, TaskFacts DEF IInv, PublishFinal, Final, Resting, TypeOK, TasksOK, MethodsOK, Th, PutBackEnd, SweepTo
<1>6. CASE Drop(th)
  BY <1>6, TaskFacts, DropStep DEF IInv, PublishFinal, Final, Resting, TypeOK, TasksOK, MethodsOK, Th,
     HandInSweep, Drop, Mark
<1>7. CASE DropEnd(th)
  BY <1>7, TaskFacts DEF IInv, PublishFinal, Final, Resting, TypeOK, TasksOK, MethodsOK, Th, DropEnd, SweepTo
<1>8. CASE SnapActive(th)
  BY <1>8, TaskFacts DEF IInv, PublishFinal, Final, Resting, TypeOK, TasksOK, MethodsOK, Th, SnapActive, SweepTo
<1>9. CASE AbortEnd(th)
  BY <1>9, TaskFacts DEF IInv, PublishFinal, Final, Resting, TypeOK, TasksOK, MethodsOK, Th, AbortEnd, SweepTo
<1>10. CASE DrainTask(th) \/ DrainStop(th) \/ PutBackTask(th) \/ PutBackStop(th) \/ Interrupt(th)
  BY <1>10, TaskFacts DEF IInv, PublishFinal, Final, Resting, TypeOK, TasksOK, MethodsOK, Th, DrainTask,
     DrainStop, PutBackTask, PutBackStop, Interrupt
<1> QED BY <1>1, <1>2, <1>3, <1>4, <1>5, <1>6, <1>7, <1>8, <1>9, <1>10 DEF ThreadStep

\* PublishFinal, the steps of the workers.
LEMMA PublishFinalWorker ==
  ASSUME IInv, Next, NEW w \in Workers, WorkerStep(w)
  PROVE  PublishFinal'
<1>1. CASE WorkerInitFails(w)
  BY <1>1, TaskFacts DEF IInv, PublishFinal, Final, Resting, TypeOK, TasksOK, MethodsOK, Th, WorkerAtRest,
     WorkerInitFails, Move
<1>2. CASE Skip(w) \/ Cancelled(w) \/ Succeed(w) \/ Fail(w)
  BY <1>2, OutcomeFinal
<1>3. CASE \/ WorkerInit(w) \/ Get(w) \/ GetStop(w) \/ Enter(w) \/ Register(w) \/ Attempt(w) \/ Retry(w)
           \/ Delay(w) \/ Release(w) \/ Exit(w) \/ Leave(w)
  BY <1>3, TaskFacts, SMTT(20) DEF IInv, PublishFinal, Final, Resting, TypeOK, TasksOK, MethodsOK, Th, WorkerInit,
     Get, GetStop, Enter, Register, Attempt, Retry, Delay, Release, Exit, Leave, Move, Resting, Unwanted
<1> QED BY <1>1, <1>2, <1>3 DEF WorkerStep

\* PublishFinal, the steps of the callers.
LEMMA PublishFinalCaller ==
  ASSUME IInv, Next, NEW c \in Callers, NewCall(c) \/ Returning(c) \/ RunTimeout(c)
  PROVE  PublishFinal'
<1>1. CASE Submit(c) \/ Resubmit(c)
  <2>1. pub[c] = NULL /\ UNCHANGED pub /\ \E m \in MethodPoint : sub' = [sub EXCEPT ![c] = m]
    BY <1>1, SubmitStep DEF Resting, WaitForRoom, Admit, IInv, TypeOK, MethodsOK, MethodPoint, Th
  <2>2. \A t \in Final : t \in Final' /\ st'[t] = st[t]
    BY TaskFacts DEF Final
  <2> QED BY <2>1, <2>2 DEF IInv, PublishFinal, TypeOK, MethodsOK, Th
<1>2. CASE Start(c)
  BY <1>2, TaskFacts DEF IInv, PublishFinal, Final, Resting, TypeOK, TasksOK, MethodsOK, Th, Start, Call, At,
     Resting, StartSection, Into
<1>3. CASE Join(c)
  BY <1>3, TaskFacts, SMTT(20) DEF IInv, PublishFinal, Final, Resting, TypeOK, TasksOK, MethodsOK, Th, Join, Call, At,
     Resting, StartSection, Into
<1>4. CASE Cancel(c) \/ CancelTask(c)
  BY <1>4, TaskFacts DEF IInv, PublishFinal, Final, Resting, TypeOK, TasksOK, MethodsOK, Th, Cancel, CancelTask,
     Call, At, Resting, IntoSweep
<1>5. CASE Reset(c)
  BY <1>5, TaskFacts DEF IInv, PublishFinal, Final, Resting, TypeOK, TasksOK, MethodsOK, Th, Reset, Call, At,
     Resting, IntoSweep
<1>6. CASE Spawn(c)
  BY <1>6, TaskFacts DEF IInv, PublishFinal, Final, Resting, TypeOK, TasksOK, MethodsOK, Th, Spawn, Missing, Free
<1>7. CASE StartThread(c)
  BY <1>7, TaskFacts DEF IInv, PublishFinal, Final, Resting, TypeOK, TasksOK, MethodsOK, Th, StartThread
<1>8. CASE SnapThreads(c)
  BY <1>8, TaskFacts DEF IInv, PublishFinal, Final, Resting, TypeOK, TasksOK, MethodsOK, Th, SnapThreads, StopTo
<1>9. CASE PutStop(c)
  BY <1>9, TaskFacts DEF IInv, PublishFinal, Final, Resting, TypeOK, TasksOK, MethodsOK, Th, PutStop, StopTo
<1>10. CASE JoinWorker(c)
  BY <1>10, TaskFacts DEF IInv, PublishFinal, Final, Resting, TypeOK, TasksOK, MethodsOK, Th, JoinWorker, StopTo
<1>11. CASE JoinRaises(c)
  BY <1>11, TaskFacts DEF IInv, PublishFinal, Final, Resting, TypeOK, TasksOK, MethodsOK, Th, JoinRaises, StopTo
<1>12. CASE JoinedAll(c)
  BY <1>12, TaskFacts DEF IInv, PublishFinal, Final, Resting, TypeOK, TasksOK, MethodsOK, Th, JoinedAll, StopTo
<1>13. CASE ForgetThreads(c)
  BY <1>13, TaskFacts DEF IInv, PublishFinal, Final, Resting, TypeOK, TasksOK, MethodsOK, Th, ForgetThreads, StopTo
<1>14. CASE JoinStart(c) \/ RunStart(c)
  BY <1>14, TaskFacts DEF IInv, PublishFinal, Final, Resting, TypeOK, TasksOK, MethodsOK, Th, JoinStart, RunStart,
     StartSection, Into, Goto, At, Resting
<1>15. CASE RunIdle(c)
  BY <1>15, TaskFacts DEF IInv, PublishFinal, Final, Resting, TypeOK, TasksOK, MethodsOK, Th, RunIdle, GotoIdle,
     Goto, At, Resting, Into
<1>16. CASE RunDrained(c)
  BY <1>16, TaskFacts DEF IInv, PublishFinal, Final, Resting, TypeOK, TasksOK, MethodsOK, Th, RunDrained,
     GotoIdle, Goto, At, Resting, Into
<1>17. CASE DownStart(c)
  BY <1>17, TaskFacts DEF IInv, PublishFinal, Final, Resting, TypeOK, TasksOK, MethodsOK, Th, DownStart,
     StartSection, Into, Goto, At, Resting
<1>18. CASE Refuse(c)
  BY <1>18, TaskFacts DEF IInv, PublishFinal, Final, Resting, TypeOK, TasksOK, MethodsOK, Th, Refuse, Goto, At,
     Resting, IntoSweep
<1>19. CASE DownStop(c)
  BY <1>19, TaskFacts DEF IInv, PublishFinal, Final, Resting, TypeOK, TasksOK, MethodsOK, Th, DownStop, Goto, At,
     Resting, Into
<1>20. CASE CancelReturn(c)
  BY <1>20, TaskFacts DEF IInv, PublishFinal, Final, Resting, TypeOK, TasksOK, MethodsOK, Th, CancelReturn, At,
     Resting, IntoSweep
<1>21. CASE ResetDrained(c)
  BY <1>21, TaskFacts DEF IInv, PublishFinal, Final, Resting, TypeOK, TasksOK, MethodsOK, Th, ResetDrained,
     GotoIdle, Goto, At, Resting, IntoSweep
<1>22. CASE RunTimeout(c)
  BY <1>22, TaskFacts DEF IInv, PublishFinal, Final, Resting, TypeOK, TasksOK, MethodsOK, Th, RunTimeout,
     IntoSweep, Resting, Unspared
<1>23. CASE \/ Run(c) \/ Shutdown(c) \/ ClearResults(c) \/ StartRefused(c) \/ Park(c) \/ JoinReturn(c) \/ RunEnd(c)
            \/ DownPeek(c) \/ DownDrained(c) \/ DownHalt(c) \/ Close(c) \/ ResetClear(c)
  BY <1>23, TaskFacts DEF IInv, PublishFinal, Final, Resting, TypeOK, TasksOK, MethodsOK, Th, Run, Shutdown,
     ClearResults, StartRefused, Park, JoinReturn, RunEnd, DownPeek, DownDrained, DownHalt, Close, ResetClear,
     Call, At, Resting, Goto, GotoIdle, NotifyAll
<1> QED BY <1>1, <1>2, <1>3, <1>4, <1>5, <1>6, <1>7, <1>8, <1>9, <1>10, <1>11, <1>12, <1>13, <1>14, <1>15, <1>16,
   <1>17, <1>18, <1>19, <1>20, <1>21, <1>22, <1>23 DEF NewCall, Returning

\* PublishFinal, the steps of the scheduling thread.
LEMMA PublishFinalTimer ==
  ASSUME IInv, Next, TimerStep
  PROVE  PublishFinal'
  BY TaskFacts DEF IInv, PublishFinal, Final, Resting, TypeOK, TasksOK, MethodsOK, Th, TimerStep, TimerFire,
     TimerLeave, TimerEnd, Missing, Free

\* Starting, the steps inside the engine's methods.
LEMMA StartingThread ==
  ASSUME IInv, Next, NEW th \in Th, ThreadStep(th)
  PROVE  Starting'
  BY DEF IInv, Starting, TypeOK, PoolOK, MethodsOK, Th, ThreadStep, Publish, AbortHalt, CutLater, DrainTask,
     DrainStop, DrainEmpty, PutBackTask, PutBackStop, PutBackEnd, Drop, DropEnd, SnapActive, Interrupt, AbortEnd,
     NotifyAll, Unspared, SweepTo, Mark

\* Starting, the steps of the workers.
LEMMA StartingWorker ==
  ASSUME IInv, Next, NEW w \in Workers, WorkerStep(w)
  PROVE  Starting'
<1>1. CASE WorkerInit(w)
  BY <1>1 DEF IInv, Starting, TypeOK, PoolOK, MethodsOK, Th, WorkerInit, Move
<1>2. CASE WorkerInitFails(w)
  BY <1>2 DEF IInv, Starting, TypeOK, PoolOK, MethodsOK, Th, WorkerInitFails, Move
<1>3. CASE Get(w)
  BY <1>3 DEF IInv, Starting, TypeOK, PoolOK, MethodsOK, Th, Get, Move, Resting
<1>4. CASE GetStop(w)
  BY <1>4 DEF IInv, Starting, TypeOK, PoolOK, MethodsOK, Th, GetStop, Move, Resting
<1>5. CASE Skip(w)
  BY <1>5 DEF IInv, Starting, TypeOK, PoolOK, MethodsOK, Th, Skip, Move, Mark, Unwanted
<1>6. CASE Enter(w)
  BY <1>6 DEF IInv, Starting, TypeOK, PoolOK, MethodsOK, Th, Enter, Move, Unwanted
<1>7. CASE Register(w)
  BY <1>7 DEF IInv, Starting, TypeOK, PoolOK, MethodsOK, Th, Register, Move
<1>8. CASE Attempt(w)
  BY <1>8 DEF IInv, Starting, TypeOK, PoolOK, MethodsOK, Th, Attempt, Move
<1>9. CASE Cancelled(w)
  BY <1>9 DEF IInv, Starting, TypeOK, PoolOK, MethodsOK, Th, Cancelled, Move, Outcome, Mark
<1>10. CASE Succeed(w)
  BY <1>10 DEF IInv, Starting, TypeOK, PoolOK, MethodsOK, Th, Succeed, Move, Outcome, Mark
<1>11. CASE Fail(w)
  BY <1>11 DEF IInv, Starting, TypeOK, PoolOK, MethodsOK, Th, Fail, Move, Outcome, Mark
<1>12. CASE Retry(w)
  BY <1>12 DEF IInv, Starting, TypeOK, PoolOK, MethodsOK, Th, Retry, Move
<1>13. CASE Delay(w)
  BY <1>13 DEF IInv, Starting, TypeOK, PoolOK, MethodsOK, Th, Delay, Move
<1>14. CASE Release(w)
  BY <1>14 DEF IInv, Starting, TypeOK, PoolOK, MethodsOK, Th, Release, Move, Resting
<1>15. CASE Exit(w)
  BY <1>15 DEF IInv, Starting, TypeOK, PoolOK, MethodsOK, Th, Exit, Move
<1>16. CASE Leave(w)
  BY <1>16 DEF IInv, Starting, TypeOK, PoolOK, MethodsOK, Th, Leave, Move, Resting
<1> QED BY <1>1, <1>2, <1>3, <1>4, <1>5, <1>6, <1>7, <1>8, <1>9, <1>10, <1>11, <1>12, <1>13, <1>14, <1>15, <1>16
   DEF WorkerStep

\* Starting, the steps of the callers.
LEMMA StartingCaller ==
  ASSUME IInv, Next, NEW c \in Callers, NewCall(c) \/ Returning(c) \/ RunTimeout(c)
  PROVE  Starting'
<1>1. CASE Spawn(c)
  BY <1>1 DEF IInv, Starting, TypeOK, PoolOK, MethodsOK, Th, Spawn, Missing, Free
<1>2. CASE StartThread(c)
  BY <1>2 DEF IInv, Starting, TypeOK, PoolOK, MethodsOK, Th, StartThread
<1>3. CASE \/ Submit(c) \/ Start(c) \/ Join(c) \/ Run(c) \/ Shutdown(c) \/ Cancel(c) \/ CancelTask(c)
           \/ Reset(c) \/ ClearResults(c) \/ SnapThreads(c) \/ PutStop(c) \/ JoinWorker(c) \/ JoinRaises(c)
           \/ JoinedAll(c) \/ ForgetThreads(c) \/ Resubmit(c) \/ JoinStart(c) \/ RunStart(c) \/ StartRefused(c)
           \/ Park(c) \/ JoinReturn(c) \/ RunIdle(c) \/ RunDrained(c) \/ RunEnd(c) \/ DownPeek(c)
           \/ DownStart(c) \/ Refuse(c) \/ DownDrained(c) \/ DownHalt(c) \/ DownStop(c) \/ Close(c)
           \/ CancelReturn(c) \/ ResetDrained(c) \/ ResetClear(c) \/ RunTimeout(c)
  BY <1>3 DEF IInv, Starting, TypeOK, PoolOK, MethodsOK, Th, Submit, Start, Join, Run, Shutdown, Cancel, CancelTask,
     Reset, ClearResults, SnapThreads, PutStop, JoinWorker, JoinRaises, JoinedAll, ForgetThreads, Resubmit,
     JoinStart, RunStart, StartRefused, Park, JoinReturn, RunIdle, RunDrained, RunEnd, DownPeek, DownStart, Refuse,
     DownDrained, DownHalt, DownStop, Close, CancelReturn, ResetDrained, ResetClear, RunTimeout, At, Resting,
     WaitForRoom, Admit, EnsureTimer, Call, StartSection, Into, IntoSweep, StopTo, Goto, GotoIdle, NotifyAll, Unspared
<1> QED BY <1>1, <1>2, <1>3 DEF NewCall, Returning

\* Starting, the steps of the scheduling thread.
LEMMA StartingTimer ==
  ASSUME IInv, Next, TimerStep
  PROVE  Starting'
<1>1. CASE TimerFire
  BY <1>1 DEF IInv, Starting, TypeOK, PoolOK, MethodsOK, Th, TimerFire, Missing, Free
<1>2. CASE TimerLeave \/ TimerEnd
  BY <1>2 DEF IInv, Starting, TypeOK, PoolOK, MethodsOK, Th, TimerLeave, TimerEnd
<1> QED BY <1>1, <1>2 DEF TimerStep

\* Submitting, the steps inside the engine's methods.
LEMMA SubmittingThread ==
  ASSUME IInv, Next, NEW th \in Th, ThreadStep(th)
  PROVE  Submitting'
<1>1. CASE Drop(th)
  BY <1>1, CallersAssumption, ThreadStatus, StatusSplit DEF IInv, Submitting, TypeOK, TasksOK, CallingOK, Drop, Mark
<1>2. CASE \/ Publish(th) \/ AbortHalt(th) \/ CutLater(th) \/ DrainTask(th) \/ DrainStop(th) \/ DrainEmpty(th)
           \/ PutBackTask(th) \/ PutBackStop(th) \/ PutBackEnd(th) \/ DropEnd(th) \/ SnapActive(th)
           \/ Interrupt(th) \/ AbortEnd(th)
  BY <1>2, CallersAssumption, ThreadStatus, StatusSplit DEF IInv, Submitting, TypeOK, TasksOK, CallingOK, Publish,
     AbortHalt, CutLater, DrainTask, DrainStop, DrainEmpty, PutBackTask, PutBackStop, PutBackEnd, DropEnd,
     SnapActive, Interrupt, AbortEnd, NotifyAll, Unspared, SweepTo
<1> QED BY <1>1, <1>2 DEF ThreadStep

\* Submitting, the steps of the workers.
LEMMA SubmittingWorker ==
  ASSUME IInv, Next, NEW w \in Workers, WorkerStep(w)
  PROVE  Submitting'
<1>1. UNCHANGED <<pc, arg>>
  BY DEF WorkerStep, WorkerInit, WorkerInitFails, Get, GetStop, Skip, Enter, Register, Attempt, Cancelled,
     Succeed, Fail, Retry, Delay, Release, Exit, Leave, Move, Outcome
<1>2. \A t \in Tasks : st[t] = "new" => st'[t] = "new"
  BY WorkerStatus, StatusSplit, SMTT(20) DEF IInv, TypeOK, TasksOK
<1> QED BY <1>1, <1>2, CallersAssumption DEF IInv, Submitting

\* Submitting, the steps of the callers.
LEMMA SubmittingCaller ==
  ASSUME IInv, Next, NEW c \in Callers, NewCall(c) \/ Returning(c) \/ RunTimeout(c)
  PROVE  Submitting'
<1>1. CASE Submit(c) \/ Resubmit(c)
  BY <1>1, SubmitNew
<1>2. CASE Start(c)
  BY <1>2, CallersAssumption, CallerStatus DEF IInv, Submitting, TypeOK, TasksOK, CallingOK, Start, Call, At,
     Resting, StartSection, Into
<1>3. CASE Join(c)
  BY <1>3, CallersAssumption, CallerStatus DEF IInv, Submitting, TypeOK, TasksOK, CallingOK, Join, Call, At,
     Resting, StartSection, Into
<1>4. CASE Run(c)
  BY <1>4, CallersAssumption, CallerStatus DEF IInv, Submitting, TypeOK, TasksOK, CallingOK, Run, Call, At, Resting
<1>5. CASE Shutdown(c)
  BY <1>5, CallersAssumption, CallerStatus DEF IInv, Submitting, TypeOK, TasksOK, CallingOK, Shutdown, Call, At,
     Resting
<1>6. CASE Cancel(c) \/ CancelTask(c)
  BY <1>6, CallersAssumption, CallerStatus DEF IInv, Submitting, TypeOK, TasksOK, CallingOK, Cancel, CancelTask,
     Live, Call, At, Resting, IntoSweep
<1>7. CASE Reset(c)
  BY <1>7, CallersAssumption, CallerStatus DEF IInv, Submitting, TypeOK, TasksOK, CallingOK, Reset, Call, At,
     Resting, IntoSweep
<1>8. CASE ClearResults(c)
  BY <1>8, CallersAssumption, CallerStatus DEF IInv, Submitting, TypeOK, TasksOK, CallingOK, ClearResults, Call,
     At, Resting
<1>9. CASE JoinRaises(c)
  BY <1>9, CallersAssumption, CallerStatus DEF IInv, Submitting, TypeOK, TasksOK, CallingOK, JoinRaises, StopTo
<1>10. CASE JoinStart(c) \/ RunStart(c)
  BY <1>10, CallersAssumption, CallerStatus DEF IInv, Submitting, TypeOK, TasksOK, CallingOK, JoinStart, RunStart,
     StartSection, Into, Goto, At, Resting
<1>11. CASE StartRefused(c)
  BY <1>11, CallersAssumption, CallerStatus DEF IInv, Submitting, TypeOK, TasksOK, CallingOK, StartRefused, Goto,
     At, Resting
<1>12. CASE Park(c)
  BY <1>12, CallersAssumption, CallerStatus DEF IInv, Submitting, TypeOK, TasksOK, CallingOK, Park, Goto, At,
     Resting
<1>13. CASE JoinReturn(c)
  BY <1>13, CallersAssumption, CallerStatus DEF IInv, Submitting, TypeOK, TasksOK, CallingOK, JoinReturn,
     GotoIdle, Goto, At, Resting
<1>14. CASE RunIdle(c)
  BY <1>14, CallersAssumption, CallerStatus DEF IInv, Submitting, TypeOK, TasksOK, CallingOK, RunIdle, GotoIdle,
     Goto, At, Resting, Into
<1>15. CASE RunDrained(c)
  BY <1>15, CallersAssumption, CallerStatus DEF IInv, Submitting, TypeOK, TasksOK, CallingOK, RunDrained,
     GotoIdle, Goto, At, Resting, Into
<1>16. CASE RunEnd(c)
  BY <1>16, CallersAssumption, CallerStatus DEF IInv, Submitting, TypeOK, TasksOK, CallingOK, RunEnd, Goto, At,
     Resting
<1>17. CASE DownPeek(c)
  BY <1>17, CallersAssumption, CallerStatus DEF IInv, Submitting, TypeOK, TasksOK, CallingOK, DownPeek, Goto, At,
     Resting
<1>18. CASE DownStart(c)
  BY <1>18, CallersAssumption, CallerStatus DEF IInv, Submitting, TypeOK, TasksOK, CallingOK, DownStart,
     StartSection, Into, Goto, At, Resting
<1>19. CASE Refuse(c)
  BY <1>19, CallersAssumption, CallerStatus DEF IInv, Submitting, TypeOK, TasksOK, CallingOK, Refuse, Goto, At,
     Resting, IntoSweep
<1>20. CASE DownDrained(c)
  BY <1>20, CallersAssumption, CallerStatus DEF IInv, Submitting, TypeOK, TasksOK, CallingOK, DownDrained,
     GotoIdle, Goto, At, Resting
<1>21. CASE DownHalt(c)
  BY <1>21, CallersAssumption, CallerStatus DEF IInv, Submitting, TypeOK, TasksOK, CallingOK, DownHalt, Goto, At,
     Resting
<1>22. CASE DownStop(c)
  BY <1>22, CallersAssumption, CallerStatus DEF IInv, Submitting, TypeOK, TasksOK, CallingOK, DownStop, Goto, At,
     Resting, Into
<1>23. CASE Close(c)
  BY <1>23, CallersAssumption, CallerStatus DEF IInv, Submitting, TypeOK, TasksOK, CallingOK, Close, Goto, At,
     Resting, NotifyAll
<1>24. CASE CancelReturn(c)
  BY <1>24, CallersAssumption, CallerStatus DEF IInv, Submitting, TypeOK, TasksOK, CallingOK, CancelReturn, At,
     Resting, IntoSweep
<1>25. CASE ResetDrained(c)
  BY <1>25, CallersAssumption, CallerStatus DEF IInv, Submitting, TypeOK, TasksOK, CallingOK, ResetDrained,
     GotoIdle, Goto, At, Resting, IntoSweep
<1>26. CASE ResetClear(c)
  BY <1>26, CallersAssumption, CallerStatus DEF IInv, Submitting, TypeOK, TasksOK, CallingOK, ResetClear, Goto,
     At, Resting, NotifyAll
<1>27. CASE RunTimeout(c)
  BY <1>27, CallersAssumption, CallerStatus DEF IInv, Submitting, TypeOK, TasksOK, CallingOK, RunTimeout,
     IntoSweep, Resting, Unspared
<1>28. CASE \/ Spawn(c) \/ StartThread(c) \/ SnapThreads(c) \/ PutStop(c) \/ JoinWorker(c) \/ JoinedAll(c)
            \/ ForgetThreads(c)
  BY <1>28, CallersAssumption, CallerStatus DEF IInv, Submitting, TypeOK, TasksOK, CallingOK, Spawn, StartThread,
     SnapThreads, PutStop, JoinWorker, JoinedAll, ForgetThreads, Missing, Free, StopTo
<1> QED BY <1>1, <1>2, <1>3, <1>4, <1>5, <1>6, <1>7, <1>8, <1>9, <1>10, <1>11, <1>12, <1>13, <1>14, <1>15, <1>16,
   <1>17, <1>18, <1>19, <1>20, <1>21, <1>22, <1>23, <1>24, <1>25, <1>26, <1>27, <1>28 DEF NewCall, Returning

\* Submitting, the steps of the scheduling thread.
LEMMA SubmittingTimer ==
  ASSUME IInv, Next, TimerStep
  PROVE  Submitting'
  BY CallersAssumption, TimerStatus DEF IInv, Submitting, TypeOK, TasksOK, CallingOK, TimerStep, TimerFire,
     TimerLeave, TimerEnd, Missing, Free

-----------------------------------------------------------------------------
(* OneOwner.                                                               *)

\* The parts of IInv the moves of a task rely on.
LEMMA OwnerFacts ==
  ASSUME IInv
  PROVE  /\ st \in [Tasks -> Status] /\ later \subseteq Tasks /\ ready \subseteq Tasks
         /\ cur \in [Workers -> Tasks \cup {NULL}] /\ hand \in [Th -> SUBSET Tasks]
         /\ NULL \notin Tasks /\ Disjoint /\ OneOwner /\ HandInSweep
         /\ \A t \in later \cup ready : t \in Live /\ t \notin Final
  BY SetsAssumption, StatusSplit DEF IInv, TypeOK, TasksOK, PoolOK, MethodsOK, OneOwner, Somewhere

\* A step that changes no status and leaves every task somewhere, once.
LEMMA OwnerKept ==
  ASSUME OneOwner, st' = st, Disjoint', \A t \in Tasks : Somewhere(t)' <=> Somewhere(t)
  PROVE  OneOwner'
  BY DEF OneOwner, Live

\* A step that moves no task.
LEMMA OwnerStable ==
  ASSUME OneOwner, UNCHANGED <<later, ready, hand, cur, st>>
  PROVE  OneOwner'
  BY DEF OneOwner, Disjoint, Somewhere, Live, Final

\* OneOwner, the steps inside the engine's methods.
LEMMA OneOwnerThread ==
  ASSUME IInv, Next, NEW th \in Th, ThreadStep(th)
  PROVE  OneOwner'
<1>1. CASE CutLater(th)
  <2>1. hand[th] = {}
    BY <1>1 DEF CutLater, IInv, HandInSweep
  <2>2. /\ later' = later \ sel[th] /\ UNCHANGED <<ready, cur, st>>
        /\ hand' = [hand EXCEPT ![th] = later \cap sel[th]]
    BY <1>1 DEF CutLater
  <2>3. Disjoint'
    BY <2>1, <2>2, OwnerFacts DEF Disjoint
  <2>4. \A t \in Tasks : Somewhere(t)' <=> Somewhere(t)
    BY <2>1, <2>2, OwnerFacts DEF Somewhere, Final
  <2> QED BY <2>2, <2>3, <2>4, OwnerKept, OwnerFacts
<1>2. CASE DrainTask(th)
  <2>1. PICK t \in ready : ready' = ready \ {t} /\ hand' = [hand EXCEPT ![th] = @ \cup ({t} \ Discarded(th))]
    BY <1>2 DEF DrainTask
  <2>1a. hand' = [hand EXCEPT ![th] = @ \cup {t}]
    <3>1. {t} \ Discarded(th) = {t}
      BY <2>1, OwnerFacts DEF Discarded
    <3> QED BY <2>1, <3>1
  <2>2. UNCHANGED <<later, cur, st>>
    BY <1>2 DEF DrainTask
  <2>3. Disjoint'
    BY <2>1, <2>1a, <2>2, OwnerFacts DEF Disjoint
  <2>4. \A u \in Tasks : Somewhere(u)' <=> Somewhere(u)
    BY <2>1, <2>1a, <2>2, OwnerFacts DEF Somewhere, Final
  <2> QED BY <2>2, <2>3, <2>4, OwnerKept, OwnerFacts
<1>3. CASE PutBackTask(th)
  <2>1. PICK t \in hand[th] : ready' = ready \cup {t} /\ hand' = [hand EXCEPT ![th] = @ \ {t}]
    BY <1>3 DEF PutBackTask
  <2>2. UNCHANGED <<later, cur, st>>
    BY <1>3 DEF PutBackTask
  <2>3. Disjoint'
    BY <2>1, <2>2, OwnerFacts DEF Disjoint
  <2>4. \A u \in Tasks : Somewhere(u)' <=> Somewhere(u)
    BY <2>1, <2>2, OwnerFacts DEF Somewhere, Final
  <2> QED BY <2>2, <2>3, <2>4, OwnerKept, OwnerFacts
<1>4. CASE Drop(th)
  <2>1. PICK t \in hand[th] : /\ t \in Tasks /\ t \in Live /\ st' = [st EXCEPT ![t] = "cancelled"]
                              /\ hand' = [hand EXCEPT ![th] = @ \ {t}]
    BY <1>4, DropStep
  <2>2. UNCHANGED <<later, ready, cur>>
    BY <1>4 DEF Drop
  <2>3. Disjoint'
    BY <2>1, <2>2, OwnerFacts DEF Disjoint
  <2>4. \A w \in Workers : cur[w] # t
    BY OwnerFacts DEF Disjoint
  <2>5. \A u \in Tasks : u # t => Somewhere(u)' <=> Somewhere(u)
    BY <2>1, <2>2, OwnerFacts DEF Somewhere, Final
  <2>6. ~Somewhere(t)'
    BY <2>1, <2>2, <2>4, OwnerFacts DEF Somewhere, Disjoint
  <2>7. \A u \in Tasks : u \in Live' <=> u \in Live /\ u # t
    BY <2>1, OwnerFacts DEF Live
  <2> QED BY <2>3, <2>5, <2>6, <2>7, OwnerFacts DEF OneOwner
<1>5. CASE \/ Publish(th) \/ AbortHalt(th) \/ DrainStop(th) \/ DrainEmpty(th) \/ PutBackStop(th) \/ PutBackEnd(th)
           \/ DropEnd(th) \/ SnapActive(th) \/ Interrupt(th) \/ AbortEnd(th)
  <2>1. UNCHANGED <<later, ready, hand, cur, st>>
    BY <1>5 DEF Publish, AbortHalt, DrainStop, DrainEmpty, PutBackStop, PutBackEnd, DropEnd, SnapActive, Interrupt,
       AbortEnd, SweepTo
  <2> QED BY <2>1, OwnerStable, OwnerFacts
<1> QED BY <1>1, <1>2, <1>3, <1>4, <1>5 DEF ThreadStep

\* OneOwner, the steps of the workers.
LEMMA OneOwnerWorker ==
  ASSUME IInv, Next, NEW w \in Workers, WorkerStep(w)
  PROVE  OneOwner'
<1>1. CASE Get(w)
  <2>1. PICK t \in ready : ready' = ready \ {t} /\ cur' = [cur EXCEPT ![w] = t]
    BY <1>1 DEF Get
  <2>2. UNCHANGED <<later, hand, st>> /\ cur[w] = NULL
    BY <1>1 DEF Get, Move, IInv, Holding, Carrying
  <2>3. Disjoint'
    <3>1. /\ t \in Tasks /\ \A th \in Th : t \notin hand[th]
          /\ t \notin later /\ \A v \in Workers : cur[v] # t
      BY <2>1, OwnerFacts DEF Disjoint
    <3>2. /\ cur'[w] = t /\ \A v \in Workers \ {w} : cur'[v] = cur[v]
      BY <2>1, OwnerFacts
    <3>3. \A v \in Workers : cur'[v] \notin later' \cup ready' /\ \A th \in Th : cur'[v] \notin hand'[th]
      BY <2>1, <2>2, <3>1, <3>2, OwnerFacts DEF Disjoint
    <3>4. \A w1, w2 \in Workers : w1 # w2 /\ cur'[w1] = cur'[w2] => cur'[w1] = NULL
      BY <3>1, <3>2, OwnerFacts DEF Disjoint
    <3> QED BY <2>1, <2>2, <3>3, <3>4, OwnerFacts DEF Disjoint
  <2>4. \A u \in Tasks : Somewhere(u)' <=> Somewhere(u)
    BY <2>1, <2>2, OwnerFacts DEF Somewhere, Final
  <2> QED BY <2>2, <2>3, <2>4, OwnerKept, OwnerFacts
<1>2. CASE Skip(w) \/ Cancelled(w) \/ Succeed(w) \/ Fail(w)
  <2>0. PICK t : t = cur[w]
    OBVIOUS
  <2>1. /\ t \in Tasks /\ t \in Live /\ UNCHANGED <<later, ready, hand>>
        /\ cur' \in {cur, [cur EXCEPT ![w] = NULL]} /\ t \in Final'
        /\ \A u \in Tasks : u # t => st'[u] = st[u]
    BY <1>2, <2>0, OutcomeStep, OwnerFacts DEF Skip, Cancelled, Succeed, Fail, Outcome, Move, Outcomes, Final
  <2>2. Disjoint'
    BY <2>0, <2>1, OwnerFacts DEF Disjoint
  <2>3. \A u \in Tasks : u # t => Somewhere(u)' <=> Somewhere(u)
    BY <2>0, <2>1, OwnerFacts DEF Somewhere, Final
  <2>4. ~Somewhere(t)'
    <3>1. t \notin later' \cup ready' /\ \A th \in Th : t \notin hand'[th]
      BY <2>0, <2>1, OwnerFacts DEF Disjoint
    <3> QED BY <2>1, <3>1 DEF Somewhere
  <2>5. \A u \in Tasks : u \in Live' <=> u \in Live /\ u # t
    BY <2>1, OwnerFacts DEF Live, Final
  <2>6. \A u \in Tasks : u \in Live' <=> Somewhere(u)'
    BY <2>1, <2>3, <2>4, <2>5, OwnerFacts DEF OneOwner
  <2> QED BY <2>2, <2>6 DEF OneOwner
<1>3. CASE Attempt(w) \/ Retry(w)
  <2>1. wpc[w] \in Carrying
    BY <1>3 DEF Attempt, Retry, Move, Carrying
  <2>2. cur[w] \in Live /\ cur[w] \in Tasks
    BY <2>1, StatusSplit DEF IInv, Holding
  <2>3. UNCHANGED <<later, ready, hand, cur>> /\ \E s \in {"running", "retrying"} : st' = [st EXCEPT ![cur[w]] = s]
    BY <1>3 DEF Attempt, Retry, Move
  <2>4. Live' = Live /\ \A u \in Tasks : u \in Final' <=> u \in Final
    BY <2>2, <2>3, OwnerFacts DEF Live, Final
  <2> QED BY <2>3, <2>4, OwnerFacts DEF OneOwner, Disjoint, Somewhere
<1>4. CASE Release(w)
  <2>1. cur' = [cur EXCEPT ![w] = NULL] /\ UNCHANGED <<later, ready, hand, st>> /\ cur[w] \in Final
    BY <1>4 DEF Release, Move, IInv, Holding
  <2>2. Disjoint'
    BY <2>1, OwnerFacts DEF Disjoint
  <2>3. \A u \in Tasks : Somewhere(u)' <=> Somewhere(u)
    BY <2>1, OwnerFacts DEF Somewhere, Final
  <2> QED BY <2>1, <2>2, <2>3, OwnerKept, OwnerFacts
<1>5. CASE \/ WorkerInit(w) \/ WorkerInitFails(w) \/ GetStop(w) \/ Enter(w) \/ Register(w) \/ Delay(w) \/ Exit(w)
           \/ Leave(w)
  <2>1. UNCHANGED <<later, ready, hand, cur, st>>
    BY <1>5 DEF WorkerInit, WorkerInitFails, GetStop, Enter, Register, Delay, Exit, Leave, Move
  <2> QED BY <2>1, OwnerStable, OwnerFacts
<1> QED BY <1>1, <1>2, <1>3, <1>4, <1>5 DEF WorkerStep

\* OneOwner, the steps of the callers.
LEMMA OneOwnerCaller ==
  ASSUME IInv, Next, NEW c \in Callers, NewCall(c) \/ Returning(c) \/ RunTimeout(c)
  PROVE  OneOwner'
<1>1. CASE Submit(c) \/ Resubmit(c)
  <2>1. CASE UNCHANGED <<later, ready, hand, cur, st>>
    BY <2>1, OwnerStable, OwnerFacts
  <2>2. CASE \E t \in Mine[c] : t \in Tasks /\ st[t] = "new" /\ Admit(c, t)
    <3>1. PICK t \in Mine[c] : t \in Tasks /\ st[t] = "new" /\ Admit(c, t)
      BY <2>2
    <3>2. /\ st' = [st EXCEPT ![t] = "pending"] /\ UNCHANGED <<hand, cur>>
          /\ later' \cup ready' = later \cup ready \cup {t} /\ t \notin later \cup ready
          /\ later' \cap ready' = later \cap ready
      BY <3>1, OwnerFacts, StatusSplit DEF Admit, IInv
    <3>3. ~Somewhere(t) /\ t \notin Final
      BY <3>1, OwnerFacts DEF OneOwner, Live, Final
    <3>4. Disjoint'
      BY <3>1, <3>2, <3>3, OwnerFacts DEF Disjoint, Somewhere
    <3>5. \A u \in Tasks : u # t => Somewhere(u)' <=> Somewhere(u)
      BY <3>1, <3>2, OwnerFacts DEF Somewhere, Final
    <3>6. \A u \in Tasks : u \in Live' <=> u \in Live \/ u = t
      BY <3>1, <3>2, OwnerFacts DEF Live
    <3> QED BY <3>2, <3>4, <3>5, <3>6, OwnerFacts DEF OneOwner, Somewhere
  <2> QED BY <1>1, <2>1, <2>2, SubmitStep DEF WaitForRoom
<1>2. CASE Cancel(c) \/ CancelTask(c)
  <2>1. hand[c] = {} /\ c \in Th
    BY <1>2 DEF Cancel, CancelTask, Call, At, Resting, IInv, HandInSweep, Th
  <2>2. UNCHANGED <<ready, cur, st>>
    BY <1>2 DEF Cancel, CancelTask
  <2>3. \/ UNCHANGED <<later, hand>>
        \/ \E t \in Tasks : later' = later \ {t} /\ hand' = [hand EXCEPT ![c] = later \cap {t}]
    BY <1>2 DEF Cancel, CancelTask, At, IInv, Submitting
  <2>4. Disjoint'
    BY <2>1, <2>2, <2>3, OwnerFacts DEF Disjoint
  <2>5. \A u \in Tasks : Somewhere(u)' <=> Somewhere(u)
    BY <2>1, <2>2, <2>3, OwnerFacts DEF Somewhere, Final
  <2> QED BY <2>2, <2>4, <2>5, OwnerKept, OwnerFacts
<1>3. CASE ~(Submit(c) \/ Resubmit(c) \/ Cancel(c) \/ CancelTask(c))
  <2>1. UNCHANGED <<later, ready, hand, cur, st>>
    BY <1>3 DEF NewCall, Returning, RunTimeout, Start, Join, Run, Shutdown, Reset, ClearResults, Spawn, StartThread,
       SnapThreads, PutStop, JoinWorker, JoinRaises, JoinedAll, ForgetThreads, StopTo, JoinStart, RunStart,
       StartRefused, Park, JoinReturn, RunIdle, RunDrained, RunEnd, DownPeek, DownStart, Refuse, DownDrained,
       DownHalt, DownStop, Close, CancelReturn, ResetDrained, ResetClear, GotoIdle, Goto
  <2> QED BY <2>1, OwnerStable, OwnerFacts
<1> QED BY <1>1, <1>2, <1>3

\* OneOwner, the steps of the scheduling thread.
LEMMA OneOwnerTimer ==
  ASSUME IInv, Next, TimerStep
  PROVE  OneOwner'
<1>1. CASE TimerFire
  <2>1. PICK t \in later : later' = later \ {t} /\ ready' = ready \cup {t}
    BY <1>1, OwnerFacts DEF TimerFire
  <2>2. UNCHANGED <<hand, cur, st>>
    BY <1>1 DEF TimerFire
  <2>3. Disjoint'
    BY <2>1, <2>2, OwnerFacts DEF Disjoint
  <2>4. \A u \in Tasks : Somewhere(u)' <=> Somewhere(u)
    BY <2>1, <2>2, OwnerFacts DEF Somewhere, Final
  <2> QED BY <2>2, <2>3, <2>4, OwnerKept, OwnerFacts
<1>2. CASE TimerLeave \/ TimerEnd
  <2>1. UNCHANGED <<later, ready, hand, cur, st>>
    BY <1>2 DEF TimerLeave, TimerEnd
  <2> QED BY <2>1, OwnerStable, OwnerFacts
<1> QED BY <1>1, <1>2 DEF TimerStep

-----------------------------------------------------------------------------

\* The initial state satisfies the inductive invariant.
LEMMA InvInit ==
  ASSUME Init
  PROVE  IInv
<1>0. TasksOK
  BY DEF Init, TasksOK, Status
<1>1. FlagsOK /\ PoolOK
  BY DEF Init, FlagsOK, PoolOK, WorkerPoint
<1>2. CallingOK
  BY CallersAssumption DEF Init, CallingOK, CallerPoint
<1>3. MethodsOK
  BY DEF Init, MethodsOK, MethodPoint
<1>4. Holding /\ WorkerAtRest /\ HandInSweep /\ PublishFinal /\ Starting /\ Submitting
  BY SetsAssumption DEF Init, Holding, Carrying, WorkerAtRest, Resting, Th, HandInSweep, PublishFinal, Starting,
     Submitting
<1>5. OneOwner
  BY SetsAssumption DEF Init, OneOwner, Disjoint, Somewhere, Live, Th
<1> QED BY <1>0, <1>1, <1>2, <1>3, <1>4, <1>5 DEF IInv, TypeOK

\* Every step of the engine keeps the inductive invariant.
LEMMA InvStep ==
  ASSUME IInv, [Next]_vars
  PROVE  IInv'
<1>1. CASE Next /\ \E th \in Th : ThreadStep(th)
  BY <1>1, TypeStep, HoldingThread, WorkerAtRestThread, HandInSweepThread, PublishFinalThread, StartingThread,
     SubmittingThread, OneOwnerThread DEF IInv
<1>2. CASE Next /\ \E w \in Workers : WorkerStep(w)
  BY <1>2, TypeStep, HoldingWorker, WorkerAtRestWorker, HandInSweepWorker, PublishFinalWorker, StartingWorker,
     SubmittingWorker, OneOwnerWorker DEF IInv
<1>3. CASE Next /\ \E c \in Callers : NewCall(c) \/ Returning(c) \/ RunTimeout(c)
  BY <1>3, TypeStep, HoldingCaller, WorkerAtRestCaller, HandInSweepCaller, PublishFinalCaller, StartingCaller,
     SubmittingCaller, OneOwnerCaller DEF IInv
<1>4. CASE Next /\ TimerStep
  BY <1>4, TypeStep, HoldingTimer, WorkerAtRestTimer, HandInSweepTimer, PublishFinalTimer, StartingTimer,
     SubmittingTimer, OneOwnerTimer DEF IInv
<1>5. CASE UNCHANGED vars
  BY <1>5 DEF IInv, TypeOK, TasksOK, FlagsOK, PoolOK, CallingOK, MethodsOK, Holding, WorkerAtRest, Resting,
     HandInSweep, PublishFinal, Starting, Submitting, OneOwner, Disjoint, Somewhere, Live, Final
<1> QED BY <1>1, <1>2, <1>3, <1>4, <1>5 DEF Next

\* The inductive invariant holds in every reachable state of the engine.
THEOREM Invariant == Spec => []IInv
<1>1. Init => IInv
  BY InvInit
<1>2. IInv /\ [Next]_vars => IInv'
  BY InvStep
<1> QED BY <1>1, <1>2, PTL DEF Spec

\* In every reachable state of the engine the variables have their types.
THEOREM TypeCorrect == Spec => []TypeOK
<1>1. IInv => TypeOK
  BY DEF IInv
<1> QED BY <1>1, Invariant, PTL

\* Whatever threads submit, cancel, abort, time out or reset the queue: an
\* accepted, unfinished task is always in exactly one of the heap, the ready
\* queue, one sweep's local lists and one worker's hands, so that no task is
\* lost and none is executed by two workers.
THEOREM OneOwnerAlways == Spec => []OneOwner
<1>1. IInv => OneOwner
  BY DEF IInv
<1> QED BY <1>1, Invariant, PTL

=============================================================================
