------------------------- MODULE SyncQueuePromises -------------------------
(***************************************************************************)
(* What the sync engine promises beyond the ownership of its tasks:        *)
(*   - self._outstanding counts the unpublished tasks and no sleeper on    *)
(*     _done_cond misses its wakeup, as long as nobody calls reset(),      *)
(*     which sets the counter to 0 whatever was submitted meanwhile;       *)
(*   - the engine implements TaskLifecycle;                                *)
(*   - a must_complete task is cancelled by a kill or by a cancel of it;   *)
(*   - a scheduled task has a timer thread to release it, unless reset()   *)
(*     reopens the queue under a timer thread that is leaving;             *)
(*   - shutdown() leaves nothing unfinished, unless another thread forces  *)
(*     a shutdown or resets the queue meanwhile;                           *)
(*   - there are never more workers than the limit, and a sentinel for     *)
(*     each worker _stop_workers() waits for, if one thread alone makes    *)
(*     the calls that start and stop the workers.                          *)
(***************************************************************************)
EXTENDS SyncQueueProofs

USE DEF handles, scheduled, done, flags, pool, calling, sweeps, spawns, aside, others, timerFrame, vars

\* The invariant that makes Accounting inductive.
CInv == IInv /\ PublishOnce /\ NotResetting /\ Accounting

\* Unpublished tasks are counted by a natural number.
LEMMA UnpublishedFinite ==
  IsFiniteSet(Unpublished) /\ Cardinality(Unpublished) \in Nat
<1>1. Unpublished \subseteq Tasks
  BY DEF Unpublished, Live
<1> QED BY <1>1, SetsAssumption, FS_Subset, FS_CardinalityType

\* A step that changes neither statuses nor publications.
LEMMA UnpublishedSame ==
  ASSUME UNCHANGED <<st, pub>>
  PROVE  Unpublished' = Unpublished
  BY DEF Unpublished, Live

\* Ending a task makes it unpublished instead of live.
LEMMA MarkUnpublished ==
  ASSUME IInv, PublishOnce, NEW th \in Th, pub[th] = NULL,
         NEW t \in Live, NEW s \in Outcomes, st' = [st EXCEPT ![t] = s], pub' = [pub EXCEPT ![th] = t]
  PROVE  Unpublished' = Unpublished /\ PublishOnce'
<1>1. t \in Tasks /\ t # NULL /\ \A u \in Th : pub[u] # t
  BY StatusSplit, SetsAssumption DEF IInv, PublishFinal, Live
<1>2. Live' = Live \ {t}
  BY <1>1 DEF IInv, TypeOK, TasksOK, Live, Outcomes
<1>3. \A u \in Tasks : (\E x \in Th : pub'[x] = u) <=> u = t \/ \E x \in Th : pub[x] = u
  BY <1>1, SetsAssumption DEF IInv, TypeOK, MethodsOK
<1>4. Unpublished' = Unpublished
  BY <1>1, <1>2, <1>3 DEF Unpublished
<1>5. PublishOnce'
  BY <1>1 DEF IInv, TypeOK, MethodsOK, PublishOnce
<1> QED BY <1>4, <1>5

\* Publishing a task takes it off the unpublished tasks, into the results; a
\* sweep cancels a task of its own and owes the publication.
LEMMA OwedThread ==
  ASSUME IInv, PublishOnce, NEW th \in Th, ThreadStep(th)
  PROVE  /\ PublishOnce' /\ attempts' = attempts
         /\ \/ \E t \in Unpublished : /\ t \in Tasks /\ t \in Final /\ Unpublished' = Unpublished \ {t}
                                      /\ outstanding' = outstanding - 1 /\ results' = Append(results, t)
                                      /\ st' = st
            \/ \E t \in hand[th] : t \in Live /\ st' = [st EXCEPT ![t] = "cancelled"] /\ Unpublished' = Unpublished
                                      /\ UNCHANGED <<outstanding, results>>
            \/ UNCHANGED <<st, outstanding, results>> /\ Unpublished' = Unpublished
<1>1. CASE Publish(th)
  <2>1. PICK t \in Tasks : t = pub[th] /\ t # NULL /\ t \in Final
    <3>1. pub[th] \in Tasks /\ pub[th] # NULL /\ pub[th] \in Final
      BY <1>1 DEF Publish, IInv, TypeOK, MethodsOK, PublishFinal
    <3> QED BY <3>1
  <2>2. /\ UNCHANGED <<st, attempts>> /\ outstanding' = outstanding - 1 /\ pub' = [pub EXCEPT ![th] = NULL]
        /\ results' = Append(results, t)
    BY <1>1, <2>1 DEF Publish
  <2>3. \A u \in Th \ {th} : pub[u] # t
    BY <2>1 DEF PublishOnce
  <2>4. Unpublished' = Unpublished \ {t} /\ t \in Unpublished
    <3>1. t \notin Live /\ Live' = Live
      BY <2>1, <2>2, StatusSplit DEF Live, IInv
    <3>2. \A u \in Tasks : (\E x \in Th : pub'[x] = u) <=> u # t /\ \E x \in Th : pub[x] = u
      BY <2>1, <2>2, <2>3, SetsAssumption DEF IInv, TypeOK, MethodsOK
    <3> QED BY <2>1, <3>1, <3>2 DEF Unpublished
  <2>5. PublishOnce'
    BY <2>2 DEF IInv, TypeOK, MethodsOK, PublishOnce
  <2> QED BY <2>1, <2>2, <2>4, <2>5
<1>2. CASE Drop(th)
  <2>1. pub[th] = NULL /\ UNCHANGED <<attempts, outstanding, results>>
    BY <1>2 DEF Drop, Mark
  <2>2. PICK t \in hand[th] : t \in Live /\ st' = [st EXCEPT ![t] = "cancelled"] /\ pub' = [pub EXCEPT ![th] = t]
    BY <1>2, DropStep
  <2>3. Unpublished' = Unpublished /\ PublishOnce'
    BY <2>1, <2>2, MarkUnpublished DEF Outcomes
  <2> QED BY <2>1, <2>2, <2>3
<1>3. CASE ~Publish(th) /\ ~Drop(th)
  <2>1. UNCHANGED <<st, attempts, pub, outstanding, results>>
    BY <1>3 DEF ThreadStep, AbortHalt, CutLater, DrainTask, DrainStop, DrainEmpty, PutBackTask, PutBackStop,
       PutBackEnd, DropEnd, SnapActive, Interrupt, AbortEnd, SweepTo
  <2> QED BY <2>1, UnpublishedSame DEF PublishOnce
<1> QED BY <1>1, <1>2, <1>3

\* A worker changes neither counter nor results: a task it ends is unpublished
\* instead of live.
LEMMA OwedWorker ==
  ASSUME IInv, PublishOnce, NEW w \in Workers, WorkerStep(w)
  PROVE  PublishOnce' /\ Unpublished' = Unpublished /\ UNCHANGED <<outstanding, results>>
<1>1. CASE Skip(w) \/ Cancelled(w) \/ Succeed(w) \/ Fail(w)
  <2>1. pub[w] = NULL /\ UNCHANGED <<outstanding, results>> /\ w \in Th
    BY <1>1, OutcomeStep DEF Resting, Th
  <2> QED BY <1>1, <2>1, OutcomeStep, MarkUnpublished
<1>2. CASE Attempt(w) \/ Retry(w)
  <2>1. wpc[w] \in Carrying
    BY <1>2 DEF Attempt, Retry, Move, Carrying
  <2>2. cur[w] \in Live /\ cur[w] \in Tasks
    BY <2>1, StatusSplit DEF IInv, Holding
  <2>3. UNCHANGED <<pub, outstanding, results>> /\ \E s \in {"running", "retrying"} : st' = [st EXCEPT ![cur[w]] = s]
    BY <1>2 DEF Attempt, Retry, Move
  <2>4. Live' = Live
    BY <2>2, <2>3 DEF Live, IInv, TypeOK, TasksOK
  <2> QED BY <2>3, <2>4 DEF PublishOnce, Unpublished
<1>3. CASE ~(Skip(w) \/ Cancelled(w) \/ Succeed(w) \/ Fail(w) \/ Attempt(w) \/ Retry(w))
  <2>1. UNCHANGED <<st, pub, outstanding, results>>
    BY <1>3 DEF WorkerStep, WorkerInit, WorkerInitFails, Get, GetStop, Enter, Register, Delay, Release, Exit, Leave,
       Move
  <2> QED BY <2>1, UnpublishedSame DEF PublishOnce
<1> QED BY <1>1, <1>2, <1>3

\* A submission adds a task to the unpublished ones and one to the counter; no
\* other call changes them, but reset() the counter and clear_results() the
\* results.
LEMMA OwedCaller ==
  ASSUME IInv, PublishOnce, NEW c \in Callers, NewCall(c) \/ Returning(c) \/ RunTimeout(c)
  PROVE  /\ PublishOnce' /\ attempts' = attempts
         /\ \/ \E t \in Tasks : /\ st[t] = "new" /\ st' = [st EXCEPT ![t] = "pending"]
                                /\ Unpublished' = Unpublished \cup {t} /\ t \notin Unpublished
                                /\ outstanding' = outstanding + 1 /\ results' = results
            \/ /\ st' = st /\ Unpublished' = Unpublished
               /\ ResetClear(c) \/ outstanding' = outstanding
               /\ results' \in {results, <<>>}
<1>1. CASE Submit(c) \/ Resubmit(c)
  <2>1. CASE UNCHANGED <<st, attempts, pub, outstanding, results>>
    BY <2>1, UnpublishedSame DEF PublishOnce
  <2>2. CASE \E t \in Mine[c] : t \in Tasks /\ st[t] = "new" /\ Admit(c, t)
    <3>1. PICK t \in Tasks : st[t] = "new" /\ Admit(c, t)
      BY <2>2
    <3>2. /\ st' = [st EXCEPT ![t] = "pending"] /\ outstanding' = outstanding + 1
          /\ UNCHANGED <<pub, attempts, results>>
      BY <3>1 DEF Admit
    <3>3. Live' = Live \cup {t} /\ t \notin Live
      BY <3>1, <3>2 DEF Live, IInv, TypeOK, TasksOK
    <3>4. \A th \in Th : pub[th] # t
      BY <3>1, SetsAssumption, StatusSplit DEF IInv, PublishFinal
    <3>5. Unpublished' = Unpublished \cup {t} /\ t \notin Unpublished
      BY <3>2, <3>3, <3>4 DEF Unpublished
    <3> QED BY <3>1, <3>2, <3>5 DEF PublishOnce
  <2> QED BY <1>1, <2>1, <2>2, SubmitStep DEF WaitForRoom
<1>2. CASE ~(Submit(c) \/ Resubmit(c))
  <2>1. UNCHANGED <<st, attempts, pub>>
    BY <1>2 DEF NewCall, Returning, RunTimeout, Start, Join, Run, Shutdown, Cancel, CancelTask, Reset, ClearResults,
       Spawn, StartThread, SnapThreads, PutStop, JoinWorker, JoinRaises, JoinedAll, ForgetThreads, StopTo,
       JoinStart, RunStart, StartRefused, Park, JoinReturn, RunIdle, RunDrained, RunEnd, DownPeek, DownStart,
       Refuse, DownDrained, DownHalt, DownStop, Close, CancelReturn, ResetDrained, ResetClear, GotoIdle, Goto,
       StartSection
  <2>2. results' \in {results, <<>>} /\ (ResetClear(c) \/ outstanding' = outstanding)
    BY <1>2 DEF NewCall, Returning, RunTimeout, Start, Join, Run, Shutdown, Cancel, CancelTask, Reset, ClearResults,
       Spawn, StartThread, SnapThreads, PutStop, JoinWorker, JoinRaises, JoinedAll, ForgetThreads, StopTo,
       JoinStart, RunStart, StartRefused, Park, JoinReturn, RunIdle, RunDrained, RunEnd, DownPeek, DownStart,
       Refuse, DownDrained, DownHalt, DownStop, Close, CancelReturn, ResetDrained, ResetClear, GotoIdle, Goto,
       StartSection
  <2> QED BY <2>1, <2>2, UnpublishedSame DEF PublishOnce
<1> QED BY <1>1, <1>2

\* The scheduling thread changes none of them.
LEMMA OwedTimer ==
  ASSUME PublishOnce, TimerStep
  PROVE  PublishOnce' /\ Unpublished' = Unpublished /\ UNCHANGED <<st, attempts, outstanding, results>>
BY UnpublishedSame DEF TimerStep, TimerFire, TimerLeave, TimerEnd, PublishOnce

\* Every step publishes a task once.
LEMMA OnceStep ==
  ASSUME IInv, PublishOnce, [Next]_vars
  PROVE  PublishOnce'
BY OwedThread, OwedWorker, OwedCaller, OwedTimer DEF Next, PublishOnce

\* Unless the counter is reset, every step keeps it the number of the
\* unpublished tasks.
LEMMA CountKept ==
  ASSUME CInv, Next
  PROVE  Accounting'
<1> USE DEF CInv
<1>1. ASSUME NEW t \in Unpublished, Unpublished' = Unpublished \ {t}, outstanding' = outstanding - 1
      PROVE  Accounting'
  BY <1>1, UnpublishedFinite, FS_RemoveElement DEF Accounting
<1>2. ASSUME NEW t, t \notin Unpublished, Unpublished' = Unpublished \cup {t}, outstanding' = outstanding + 1
      PROVE  Accounting'
  BY <1>2, UnpublishedFinite, FS_AddElement DEF Accounting
<1>3. CASE Unpublished' = Unpublished /\ outstanding' = outstanding
  BY <1>3 DEF Accounting
<1>4. ASSUME NEW c \in Callers PROVE ~ResetClear(c)
  BY DEF ResetClear, At, NotResetting
<1> QED BY <1>1, <1>2, <1>3, <1>4, OwedThread, OwedWorker, OwedCaller, OwedTimer DEF Next

\* Without the permission, no caller enters reset().
LEMMA NoResetStep ==
  ASSUME NoReset, CInv, Next
  PROVE  NotResetting'
<1>1. CASE \E th \in Th : ThreadStep(th)
  BY <1>1 DEF ThreadStep, Publish, AbortHalt, CutLater, DrainTask, DrainStop, DrainEmpty, PutBackTask, PutBackStop,
     PutBackEnd, Drop, DropEnd, SnapActive, Interrupt, AbortEnd, SweepTo, CInv, NotResetting
<1>2. CASE \E w \in Workers : WorkerStep(w)
  BY <1>2 DEF WorkerStep, WorkerInit, WorkerInitFails, Get, GetStop, Skip, Enter, Register, Attempt, Cancelled,
     Succeed, Fail, Retry, Delay, Release, Exit, Leave, Move, Outcome, CInv, NotResetting
<1>3. CASE TimerStep
  BY <1>3 DEF TimerStep, TimerFire, TimerLeave, TimerEnd, CInv, NotResetting
<1>4. ASSUME NEW c \in Callers, NewCall(c) \/ Returning(c) \/ RunTimeout(c)
      PROVE  NotResetting'
  <2>1. ~Reset(c) /\ ~ResetDrained(c)
    BY DEF NoReset, Reset, Call, ResetDrained, GotoIdle, Goto, At, CInv, NotResetting
  <2> DEFINE Elsewhere == CallerPoint \ {"reset.drain", "reset.clear"}
  <2>2. CASE Submit(c) \/ Resubmit(c)
    BY <2>2, SubmitStep DEF WaitForRoom, Admit, CInv, NotResetting, IInv, TypeOK, CallingOK
  <2>3. CASE Start(c) \/ Join(c) \/ Run(c) \/ Shutdown(c) \/ Cancel(c) \/ CancelTask(c) \/ ClearResults(c)
    <3>1. \E label \in Elsewhere : pc' = [pc EXCEPT ![c] = label]
      BY <2>3 DEF CallerPoint, Start, Join, Run, Shutdown, Cancel, CancelTask, ClearResults, Call
    <3> QED BY <3>1 DEF CInv, NotResetting, IInv, TypeOK, CallingOK
  <2>4. CASE \/ JoinStart(c) \/ RunStart(c) \/ StartRefused(c) \/ JoinReturn(c) \/ RunIdle(c) \/ RunDrained(c)
             \/ RunEnd(c) \/ DownPeek(c) \/ DownStart(c) \/ Refuse(c) \/ DownDrained(c) \/ DownHalt(c)
             \/ DownStop(c) \/ Close(c) \/ CancelReturn(c) \/ ResetClear(c) \/ RunTimeout(c)
    <3>1. \E label \in Elsewhere : pc' = [pc EXCEPT ![c] = label]
      BY <2>4 DEF CallerPoint, JoinStart, RunStart, StartRefused, JoinReturn, RunIdle, RunDrained, RunEnd, DownPeek,
         DownStart, Refuse, DownDrained, DownHalt, DownStop, Close, CancelReturn, ResetClear, RunTimeout, GotoIdle,
         Goto
    <3> QED BY <3>1 DEF CInv, NotResetting, IInv, TypeOK, CallingOK
  <2>5. CASE Park(c)
    <3>1. \E label \in CallerPoint : pc[c] = label /\ pc' = [pc EXCEPT ![c] = label]
      BY <2>5 DEF Park, Goto, At, CallerPoint
    <3> QED BY <3>1 DEF CInv, NotResetting, IInv, TypeOK, CallingOK
  <2>7. CASE JoinRaises(c)
    <3>1. \E label \in {"run.end", "idle"} : pc' = [pc EXCEPT ![c] = label]
      BY <2>7 DEF JoinRaises
    <3> QED BY <3>1 DEF CInv, NotResetting, IInv, TypeOK, CallingOK
  <2>6. CASE \/ Spawn(c) \/ StartThread(c) \/ SnapThreads(c) \/ PutStop(c) \/ JoinWorker(c) \/ JoinedAll(c)
             \/ ForgetThreads(c)
    BY <2>6 DEF Spawn, StartThread, SnapThreads, PutStop, JoinWorker, JoinedAll, ForgetThreads, StopTo, CInv,
       NotResetting
  <2> QED BY <1>4, <2>1, <2>2, <2>3, <2>4, <2>5, <2>6, <2>7 DEF NewCall, Returning
<1> QED BY <1>1, <1>2, <1>3, <1>4 DEF Next

\* Every step keeps the counting invariant.
LEMMA CountStep ==
  ASSUME NoReset, CInv, [Next]_vars
  PROVE  CInv'
<1>1. IInv'
  BY InvStep DEF CInv
<1>2. CASE Next
  BY <1>1, <1>2, OnceStep, CountKept, NoResetStep DEF CInv
<1>3. CASE UNCHANGED vars
  BY <1>1, <1>3, UnpublishedSame DEF CInv, Accounting, PublishOnce, NotResetting
<1> QED BY <1>2, <1>3

\* A sweep or a publication wakes every sleeper or none, and none of them is
\* the thread that does it.
LEMMA WakeupThread ==
  ASSUME CInv, AsleepAtRest, NoLostWakeup, NEW th \in Th, ThreadStep(th)
  PROVE  AsleepAtRest' /\ NoLostWakeup'
<1>1. CASE Publish(th)
  BY <1>1 DEF Publish, NotifyAll, AsleepAtRest, NoLostWakeup
<1>2. CASE ~Publish(th)
  <2>1. UNCHANGED <<parked, outstanding>>
    BY <1>2 DEF ThreadStep, AbortHalt, CutLater, DrainTask, DrainStop, DrainEmpty, PutBackTask, PutBackStop,
       PutBackEnd, Drop, DropEnd, SnapActive, Interrupt, AbortEnd, SweepTo
  <2>2. \A c \in parked : c # th /\ c \in Callers
    BY <1>2 DEF ThreadStep, AbortHalt, CutLater, DrainTask, DrainStop, DrainEmpty, PutBackTask, PutBackStop,
       PutBackEnd, Drop, DropEnd, SnapActive, Interrupt, AbortEnd, AsleepAtRest, Resting, CInv, IInv, TypeOK,
       CallingOK
  <2>3. \A u \in Th : u # th => sub'[u] = sub[u] /\ pub'[u] = pub[u]
    <3>1. CASE Drop(th)
      <4>1. sub' = sub /\ IInv
        BY <3>1 DEF Drop, CInv
      <4> QED BY <3>1, <4>1, DropStep DEF IInv, TypeOK, MethodsOK
    <3>2. CASE ~Drop(th)
      BY <1>2, <3>2 DEF ThreadStep, AbortHalt, CutLater, DrainTask, DrainStop, DrainEmpty, PutBackTask, PutBackStop,
         PutBackEnd, DropEnd, SnapActive, Interrupt, AbortEnd, SweepTo, CInv, IInv, TypeOK, MethodsOK
    <3> QED BY <3>1, <3>2
  <2>4. \A c \in Callers : c # th => pc'[c] = pc[c]
    BY <1>2 DEF ThreadStep, AbortHalt, CutLater, DrainTask, DrainStop, DrainEmpty, PutBackTask, PutBackStop,
       PutBackEnd, Drop, DropEnd, SnapActive, Interrupt, AbortEnd, SweepTo, CInv, IInv, TypeOK, CallingOK
  <2> QED BY <2>1, <2>2, <2>3, <2>4 DEF AsleepAtRest, NoLostWakeup, Resting, Full, Th
<1> QED BY <1>1, <1>2

\* A worker's own steps wake nobody and change no sleeper's reason.
LEMMA WakeupWorker ==
  ASSUME CInv, AsleepAtRest, NoLostWakeup, NEW w \in Workers, WorkerStep(w)
  PROVE  AsleepAtRest' /\ NoLostWakeup'
<1>1. UNCHANGED <<parked, outstanding, pc>>
  BY DEF WorkerStep, WorkerInit, WorkerInitFails, Get, GetStop, Skip, Enter, Register, Attempt, Cancelled, Succeed,
     Fail, Retry, Delay, Release, Exit, Leave, Move, Outcome
<1>2. \A u \in Th : u # w => sub'[u] = sub[u] /\ pub'[u] = pub[u]
  <2>1. CASE Skip(w) \/ Cancelled(w) \/ Succeed(w) \/ Fail(w)
    BY <2>1, OutcomeStep DEF CInv, IInv, TypeOK, MethodsOK
  <2>2. CASE ~(Skip(w) \/ Cancelled(w) \/ Succeed(w) \/ Fail(w))
    BY <2>2 DEF WorkerStep, WorkerInit, WorkerInitFails, Get, GetStop, Enter, Register, Attempt, Retry, Delay,
       Release, Exit, Leave, Move, CInv, IInv, TypeOK, MethodsOK
  <2> QED BY <2>1, <2>2
<1>3. \A c \in parked : c # w /\ c \in Th
  BY SetsAssumption DEF CInv, IInv, TypeOK, CallingOK, Th
<1> QED BY <1>1, <1>2, <1>3 DEF AsleepAtRest, NoLostWakeup, Resting, Full

\* A caller that sleeps takes no step but its timeout, which wakes it; the
\* steps of the others notify or leave the sleepers' reason alone.
LEMMA WakeupCaller ==
  ASSUME CInv, AsleepAtRest, NoLostWakeup, NEW c \in Callers, NewCall(c) \/ Returning(c) \/ RunTimeout(c)
  PROVE  AsleepAtRest' /\ NoLostWakeup'
<1> USE DEF CInv
<1>0. outstanding \in Nat /\ c \in Th /\ Callers \subseteq Th /\ parked \subseteq Callers
  BY UnpublishedFinite DEF Accounting, Th, IInv, TypeOK, CallingOK
<1>1. CASE Submit(c) \/ Resubmit(c)
  <2>1. c \notin parked
    BY <1>1, SubmitStep
  <2>2. \A d \in Callers : d # c => pc'[d] = pc[d] /\ sub'[d] = sub[d] /\ pub'[d] = pub[d]
    BY <1>1, SubmitStep DEF WaitForRoom, Admit, IInv, TypeOK, CallingOK, MethodsOK, Th
  <2>3. \/ parked' = parked /\ outstanding' \in {outstanding, outstanding + 1}
        \/ /\ parked' = parked \cup {c} /\ outstanding' = outstanding /\ Full
           /\ pc'[c] = "full" /\ UNCHANGED <<sub, pub>>
    BY <1>1, SubmitStep DEF WaitForRoom, Admit, IInv, TypeOK, CallingOK
  <2>4. Full => Full'
    BY <1>0, <2>3, QueueAssumption DEF Full
  <2>5. AsleepAtRest'
    BY <1>0, <1>1, <2>1, <2>2, <2>3, SubmitStep DEF AsleepAtRest, Resting
  <2>6. NoLostWakeup'
    BY <1>0, <2>1, <2>2, <2>3, <2>4 DEF NoLostWakeup
  <2> QED BY <2>5, <2>6
<1>2. CASE ResetClear(c) \/ Close(c)
  BY <1>2 DEF ResetClear, Close, NotifyAll, AsleepAtRest, NoLostWakeup
<1>3. CASE Park(c)
  <2>1. PICK label \in CallerPoint \ {"full", "miss", "hit"} : Goto(c, label, label)
    BY <1>3 DEF Park, CallerPoint
  <2>2. pc' = pc /\ UNCHANGED <<sub, pub, outstanding>> /\ Resting(c) /\ pc[c] = label
    BY <1>3, <2>1 DEF Park, Goto, At, IInv, TypeOK, CallingOK
  <2>3. parked' = parked \cup {c} /\ outstanding # 0
    BY <1>3 DEF Park
  <2> QED BY <2>1, <2>2, <2>3 DEF AsleepAtRest, NoLostWakeup, Resting, Full
<1>4. CASE ~(Submit(c) \/ Resubmit(c) \/ ResetClear(c) \/ Close(c) \/ Park(c))
  <2>1. outstanding' = outstanding /\ parked' = parked \ {c}
    BY <1>0, <1>4 DEF NewCall, Returning, RunTimeout, Start, Join, Run, Shutdown, Cancel, CancelTask, Reset,
       ClearResults, Spawn, StartThread, SnapThreads, PutStop, JoinWorker, JoinRaises, JoinedAll, ForgetThreads,
       StopTo, JoinStart, RunStart, StartRefused, JoinReturn, RunIdle, RunDrained, RunEnd, DownPeek, DownStart,
       Refuse, DownDrained, DownHalt, DownStop, CancelReturn, ResetDrained, GotoIdle, Goto, StartSection, Call, At,
       AsleepAtRest, Resting
  <2>2. \A d \in Callers : d # c => pc'[d] = pc[d]
    BY <1>4 DEF NewCall, Returning, RunTimeout, Start, Join, Run, Shutdown, Cancel, CancelTask, Reset, ClearResults,
       Spawn, StartThread, SnapThreads, PutStop, JoinWorker, JoinRaises, JoinedAll, ForgetThreads, StopTo,
       JoinStart, RunStart, StartRefused, JoinReturn, RunIdle, RunDrained, RunEnd, DownPeek, DownStart, Refuse,
       DownDrained, DownHalt, DownStop, CancelReturn, ResetDrained, GotoIdle, Goto, Call, IInv, TypeOK, CallingOK
  <2>3. pub' = pub /\ \A d \in Callers : d # c => sub'[d] = sub[d]
    BY <1>0, <1>4 DEF NewCall, Returning, RunTimeout, Start, Join, Run, Shutdown, Cancel, CancelTask, Reset,
       ClearResults, Spawn, StartThread, SnapThreads, PutStop, JoinWorker, JoinRaises, JoinedAll, ForgetThreads,
       StopTo, JoinStart, RunStart, StartRefused, JoinReturn, RunIdle, RunDrained, RunEnd, DownPeek, DownStart,
       Refuse, DownDrained, DownHalt, DownStop, CancelReturn, ResetDrained, GotoIdle, Goto, StartSection, Into,
       IntoSweep, IInv, TypeOK, MethodsOK
  <2> QED BY <1>0, <2>1, <2>2, <2>3 DEF AsleepAtRest, NoLostWakeup, Resting, Full
<1> QED BY <1>1, <1>2, <1>3, <1>4

\* Every step leaves the sleepers a reason to sleep.
LEMMA WakeupStep ==
  ASSUME CInv, AsleepAtRest, NoLostWakeup, [Next]_vars
  PROVE  AsleepAtRest' /\ NoLostWakeup'
<1>1. CASE TimerStep
  BY <1>1 DEF TimerStep, TimerFire, TimerLeave, TimerEnd, AsleepAtRest, NoLostWakeup, Resting, Full
<1>2. CASE UNCHANGED vars
  BY <1>2 DEF AsleepAtRest, NoLostWakeup, Resting, Full
<1> QED BY <1>1, <1>2, WakeupThread, WakeupWorker, WakeupCaller DEF Next

\* The initial state satisfies the counting and the sleeping invariants.
LEMMA CountInit ==
  ASSUME Init
  PROVE  CInv /\ AsleepAtRest /\ NoLostWakeup
<1>1. Unpublished = {}
  BY SetsAssumption DEF Init, Unpublished, Live, Th
<1>2. Accounting /\ PublishOnce /\ NotResetting /\ AsleepAtRest /\ NoLostWakeup
  BY <1>1, FS_EmptySet DEF Init, Accounting, PublishOnce, NotResetting, AsleepAtRest, NoLostWakeup
<1> QED BY <1>2, InvInit DEF CInv

\* Without reset(): self._outstanding is always the number of tasks accepted
\* and not yet in the results, so join(), run() and shutdown() neither return
\* early nor wait for a task that was recorded.
THEOREM AccountingAlways ==
  ASSUME NoReset
  PROVE  Spec => []Accounting
<1>1. Init => CInv
  BY CountInit
<1>2. CInv /\ [Next]_vars => CInv'
  BY CountStep
<1>3. CInv => Accounting
  BY DEF CInv
<1> QED BY <1>1, <1>2, <1>3, PTL DEF Spec

\* Without reset(): a thread asleep in the capacity wait or in _await_idle
\* still has to wait; no notification was sent before it slept and never again.
THEOREM NoWakeupLost ==
  ASSUME NoReset
  PROVE  Spec => []NoLostWakeup
<1>1. Init => CInv /\ AsleepAtRest /\ NoLostWakeup
  BY CountInit
<1>2. CInv /\ AsleepAtRest /\ NoLostWakeup /\ [Next]_vars => (CInv /\ AsleepAtRest /\ NoLostWakeup)'
  BY CountStep, WakeupStep
<1> QED BY <1>1, <1>2, PTL DEF Spec

-----------------------------------------------------------------------------
(* The engine implements TaskLifecycle, with or without reset().            *)

\* What the refinement rests on.
LInv == IInv /\ PublishOnce /\ Attempting

\* A step of a sweep is, for the task, its record or its cancellation.
LEMMA LifeThread ==
  ASSUME LInv, NEW th \in Th, ThreadStep(th)
  PROVE  [Lifecycle!Next]_Lifecycle!vars
<1> USE DEF Lifecycle!vars
<1>1. attempts' = attempts
  BY OwedThread DEF LInv
<1>2. ASSUME NEW t \in Unpublished, t \in Tasks, t \in Final, Unpublished' = Unpublished \ {t},
             results' = Append(results, t), st' = st
      PROVE  Lifecycle!Record(t)
  BY <1>1, <1>2 DEF Lifecycle!Record, Lifecycle!Outcomes, Final
<1>3. ASSUME NEW t \in hand[th], t \in Live, st' = [st EXCEPT ![t] = "cancelled"], Unpublished' = Unpublished,
             results' = results
      PROVE  Lifecycle!Finish(t) /\ t \in Tasks
  BY <1>1, <1>3 DEF Lifecycle!Finish, Lifecycle!Outcomes, Live
<1> QED BY <1>1, <1>2, <1>3, OwedThread DEF LInv, Lifecycle!Next

\* A step of a worker is, for the task in its hands, the beginning or the end
\* of an attempt, or nothing.
LEMMA LifeWorker ==
  ASSUME LInv, NEW w \in Workers, WorkerStep(w)
  PROVE  [Lifecycle!Next]_Lifecycle!vars
<1> USE DEF LInv, Lifecycle!vars
<1>1. Unpublished' = Unpublished /\ results' = results
  BY OwedWorker
<1>2. wpc[w] \in Carrying => cur[w] \in Tasks /\ cur[w] \in Live
  BY StatusSplit DEF IInv, Holding
<1>3. CASE Attempt(w)
  <2>1. wpc[w] = "top" /\ wpc[w] \in Carrying
    BY <1>3 DEF Attempt, Move, Carrying
  <2>2. st[cur[w]] \in {"pending", "retrying"} /\ attempts[cur[w]] <= Retries[cur[w]]
    BY <1>2, <2>1, OptionsAssumption DEF Attempting
  <2>3. Lifecycle!Begin(cur[w])
    BY <1>1, <1>3, <2>2 DEF Attempt, Lifecycle!Begin
  <2> QED BY <1>2, <2>1, <2>3 DEF Lifecycle!Next
<1>4. CASE Retry(w)
  <2>1. wpc[w] = "exec" /\ wpc[w] \in Carrying
    BY <1>4 DEF Retry, Move, Carrying
  <2>2. Lifecycle!Again(cur[w])
    BY <1>1, <1>4, <2>1 DEF Retry, Attempting, Lifecycle!Again
  <2> QED BY <1>2, <2>1, <2>2 DEF Lifecycle!Next
<1>5. CASE Skip(w) \/ Cancelled(w) \/ Succeed(w) \/ Fail(w)
  <2>1. wpc[w] \in Carrying /\ attempts' = attempts
    BY <1>5, OutcomeStep
  <2>2. CASE Skip(w) \/ Cancelled(w)
    <3>1. st' = [st EXCEPT ![cur[w]] = "cancelled"]
      BY <1>2, <2>1, <2>2, StatusSplit DEF Skip, Cancelled, Outcome, Mark, IInv
    <3>2. st[cur[w]] \in {"pending", "retrying", "running"}
      BY <1>2, <2>1 DEF Live
    <3> QED BY <1>1, <1>2, <2>1, <3>1, <3>2 DEF Lifecycle!Next, Lifecycle!Finish, Lifecycle!Outcomes
  <2>3. CASE Succeed(w) \/ Fail(w)
    <3>1. wpc[w] = "exec"
      BY <2>3 DEF Succeed, Fail, Outcome, Move
    <3>2. st[cur[w]] = "running"
      BY <3>1 DEF Attempting
    <3>3. \E o \in Lifecycle!Outcomes : st' = [st EXCEPT ![cur[w]] = o]
      BY <1>5, OutcomeStep DEF Outcomes, Lifecycle!Outcomes
    <3> QED BY <1>1, <1>2, <2>1, <3>2, <3>3 DEF Lifecycle!Next, Lifecycle!Finish
  <2> QED BY <1>5, <2>2, <2>3
<1>6. CASE ~(Skip(w) \/ Cancelled(w) \/ Succeed(w) \/ Fail(w) \/ Attempt(w) \/ Retry(w))
  <2>1. UNCHANGED <<st, attempts>>
    BY <1>6 DEF WorkerStep, WorkerInit, WorkerInitFails, Get, GetStop, Enter, Register, Delay, Release, Exit, Leave,
       Move
  <2> QED BY <1>1, <2>1
<1> QED BY <1>3, <1>4, <1>5, <1>6

\* A call accepts a task, forgets the results or does nothing to either.
LEMMA LifeCaller ==
  ASSUME LInv, NEW c \in Callers, NewCall(c) \/ Returning(c) \/ RunTimeout(c)
  PROVE  [Lifecycle!Next]_Lifecycle!vars
<1> USE DEF LInv, Lifecycle!vars
<1>1. attempts' = attempts
  BY OwedCaller
<1>2. ASSUME NEW t \in Tasks, st[t] = "new", st' = [st EXCEPT ![t] = "pending"],
             Unpublished' = Unpublished \cup {t}, results' = results
      PROVE  Lifecycle!Accept(t)
  BY <1>1, <1>2 DEF Lifecycle!Accept
<1>3. ASSUME st' = st, Unpublished' = Unpublished, results' = <<>>
      PROVE  Lifecycle!Forget
  BY <1>1, <1>3 DEF Lifecycle!Forget
<1> QED BY <1>1, <1>2, <1>3, OwedCaller DEF Lifecycle!Next

\* A worker that acts leaves the tasks in the others' hands alone, and nobody
\* else touches a task in a worker's hands.
LEMMA AttemptingElsewhere ==
  ASSUME LInv, attempts' = attempts, cur' = cur,
         \A w \in Workers : wpc'[w] = wpc[w] \/ wpc'[w] \notin Carrying,
         \/ st' = st
         \/ \E t \in Tasks : /\ \A w \in Workers : cur[w] # t
                             /\ \/ st' = [st EXCEPT ![t] = "cancelled"]
                                \/ st[t] = "new" /\ st' = [st EXCEPT ![t] = "pending"]
  PROVE  Attempting'
<1>1. st \in [Tasks -> Status] /\ \A t \in Live : t \in Tasks
  BY DEF LInv, IInv, TypeOK, TasksOK, Live
<1>2. ASSUME NEW t \in Tasks
      PROVE  \/ st'[t] = st[t]
             \/ st'[t] = "cancelled" /\ \A w \in Workers : cur[w] # t
             \/ st[t] = "new" /\ st'[t] = "pending"
  <2>1. CASE st' = st
    BY <2>1
  <2>2. ASSUME NEW u \in Tasks, \A w \in Workers : cur[w] # u,
               \/ st' = [st EXCEPT ![u] = "cancelled"]
               \/ st[u] = "new" /\ st' = [st EXCEPT ![u] = "pending"]
        PROVE  \/ st'[t] = st[t]
               \/ st'[t] = "cancelled" /\ \A w \in Workers : cur[w] # t
               \/ st[t] = "new" /\ st'[t] = "pending"
    BY <1>1, <2>2
  <2> QED BY <2>1, <2>2
<1>3. \A t \in Tasks : /\ st'[t] \in {"new", "pending"} => attempts'[t] = 0
                       /\ st'[t] = "retrying" => attempts'[t] <= Retries[t]
                       /\ t \in Live' /\ st'[t] # "pending" => \E w \in Workers : cur'[w] = t
  BY <1>2 DEF LInv, Attempting, Live
<1>4. ASSUME NEW w \in Workers, wpc'[w] \in Carrying
      PROVE  wpc'[w] = wpc[w] /\ st'[cur'[w]] = st[cur[w]]
  <2>1. cur[w] \in Live /\ cur[w] \in Tasks /\ wpc'[w] = wpc[w] /\ st[cur[w]] # "new"
    BY <1>1, <1>4, StatusSplit DEF LInv, IInv, Holding
  <2> QED BY <1>2, <2>1
<1>5. ASSUME NEW w \in Workers
      PROVE  /\ wpc'[w] \in {"check", "enter"} => st'[cur'[w]] = "pending"
             /\ wpc'[w] = "top" => st'[cur'[w]] \in {"pending", "retrying"}
             /\ wpc'[w] = "exec" => st'[cur'[w]] = "running"
             /\ wpc'[w] = "retry" => st'[cur'[w]] = "retrying"
  BY <1>4 DEF LInv, Attempting, Carrying
<1> QED BY <1>3, <1>5 DEF Attempting

\* Sweeps, calls and the scheduling thread keep the attempts counted.
LEMMA AttemptingOthers ==
  ASSUME LInv, \/ \E th \in Th : ThreadStep(th)
               \/ \E c \in Callers : NewCall(c) \/ Returning(c) \/ RunTimeout(c)
               \/ TimerStep
  PROVE  Attempting'
<1>1. ASSUME NEW th \in Th, ThreadStep(th)
      PROVE  Attempting'
  <2>1. ASSUME NEW t \in hand[th] PROVE t \in Tasks /\ \A w \in Workers : cur[w] # t
    BY HandLive DEF LInv, IInv, OneOwner, Disjoint
  <2>2. UNCHANGED <<wpc, cur>>
    BY <1>1 DEF ThreadStep, Publish, AbortHalt, CutLater, DrainTask, DrainStop, DrainEmpty, PutBackTask, PutBackStop,
       PutBackEnd, Drop, DropEnd, SnapActive, Interrupt, AbortEnd, SweepTo
  <2> QED BY <1>1, <2>1, <2>2, OwedThread, AttemptingElsewhere DEF LInv
<1>2. ASSUME NEW c \in Callers, NewCall(c) \/ Returning(c) \/ RunTimeout(c)
      PROVE  Attempting'
  <2>1. ASSUME NEW t \in Tasks, st[t] = "new" PROVE \A w \in Workers : cur[w] # t
    BY <2>1, StatusSplit, SetsAssumption DEF LInv, IInv, Holding
  <2>2. cur' = cur
    BY <1>2, SubmitStep DEF LInv, WaitForRoom, Admit, NewCall, Returning, RunTimeout, Start, Join, Run, Shutdown,
       Cancel, CancelTask, Reset, ClearResults, Spawn, StartThread, SnapThreads, PutStop, JoinWorker, JoinRaises,
       JoinedAll, ForgetThreads, StopTo, JoinStart, RunStart, StartRefused, Park, JoinReturn, RunIdle, RunDrained,
       RunEnd, DownPeek, DownStart, Refuse, DownDrained, DownHalt, DownStop, Close, CancelReturn, ResetDrained,
       ResetClear, GotoIdle, Goto, StartSection
  <2>3. \A w \in Workers : wpc'[w] = wpc[w] \/ wpc'[w] \notin Carrying
    <3>1. CASE Spawn(c) \/ StartThread(c)
      BY <3>1 DEF Spawn, StartThread, Carrying, LInv, IInv, TypeOK, PoolOK
    <3>2. CASE ~(Spawn(c) \/ StartThread(c))
      BY <1>2, <3>2, SubmitStep DEF LInv, WaitForRoom, Admit, NewCall, Returning, RunTimeout, Start, Join, Run,
         Shutdown, Cancel, CancelTask, Reset, ClearResults, SnapThreads, PutStop, JoinWorker, JoinRaises, JoinedAll,
         ForgetThreads, StopTo, JoinStart, RunStart, StartRefused, Park, JoinReturn, RunIdle, RunDrained, RunEnd,
         DownPeek, DownStart, Refuse, DownDrained, DownHalt, DownStop, Close, CancelReturn, ResetDrained,
         ResetClear, GotoIdle, Goto, StartSection
    <3> QED BY <3>1, <3>2
  <2> QED BY <1>2, <2>1, <2>2, <2>3, OwedCaller, AttemptingElsewhere DEF LInv
<1>3. CASE TimerStep
  <2>1. cur' = cur /\ \A w \in Workers : wpc'[w] = wpc[w] \/ wpc'[w] \notin Carrying
    BY <1>3 DEF TimerStep, TimerFire, TimerLeave, TimerEnd, Carrying
  <2> QED BY <1>3, <2>1, OwedTimer, AttemptingElsewhere DEF LInv
<1> QED BY <1>1, <1>2, <1>3

\* A worker changes the point, the task and the attempts of its own task only.
LEMMA AttemptingWorker ==
  ASSUME LInv, NEW w \in Workers, WorkerStep(w)
  PROVE  Attempting'
<1> USE DEF LInv
<1>1. /\ st \in [Tasks -> Status] /\ attempts \in [Tasks -> Nat]
      /\ wpc \in [Workers -> WorkerPoint] /\ cur \in [Workers -> Tasks \cup {NULL}]
  BY DEF IInv, TypeOK, TasksOK, PoolOK
<1>2. \A v \in Workers : wpc[v] \in Carrying => cur[v] \in Tasks /\ cur[v] \in Live /\ cur[v] # NULL
  BY StatusSplit, SetsAssumption DEF IInv, Holding
<1>3. \A v \in Workers \ {w} : cur[v] = cur[w] => cur[w] = NULL
  BY DEF IInv, OneOwner, Disjoint
<1>4. ASSUME \A v \in Workers \ {w} : wpc'[v] = wpc[v] /\ cur'[v] = cur[v],
             cur'[w] = cur[w], wpc[w] \in Carrying, attempts' \in [Tasks -> Nat],
             \A t \in Tasks \ {cur[w]} : st'[t] = st[t] /\ attempts'[t] = attempts[t],
             \/ st'[cur[w]] \notin {"new", "pending"}
             \/ st'[cur[w]] = st[cur[w]] /\ attempts'[cur[w]] = attempts[cur[w]],
             st'[cur[w]] = "retrying" => attempts'[cur[w]] <= Retries[cur[w]],
             wpc'[w] \in {"check", "enter"} => st'[cur[w]] = "pending",
             wpc'[w] = "top" => st'[cur[w]] \in {"pending", "retrying"},
             wpc'[w] = "exec" => st'[cur[w]] = "running",
             wpc'[w] = "retry" => st'[cur[w]] = "retrying"
      PROVE  Attempting'
  <2>1. ASSUME NEW t \in Tasks
        PROVE  /\ st'[t] \in {"new", "pending"} => attempts'[t] = 0
               /\ st'[t] = "retrying" => attempts'[t] <= Retries[t]
    BY <1>4 DEF Attempting
  <2>2. ASSUME NEW t \in Tasks, t \in Live', st'[t] # "pending"
        PROVE  \E v \in Workers : cur'[v] = t
    <3>1. CASE t = cur[w]
      BY <1>4, <3>1
    <3>2. CASE t # cur[w]
      <4>1. t \in Live /\ st[t] # "pending"
        BY <1>4, <2>2, <3>2 DEF Live
      <4>2. PICK v \in Workers : cur[v] = t
        BY <4>1 DEF Attempting
      <4> QED BY <1>4, <3>2, <4>2
    <3> QED BY <3>1, <3>2
  <2>3. ASSUME NEW v \in Workers
        PROVE  /\ wpc'[v] \in {"check", "enter"} => st'[cur'[v]] = "pending"
               /\ wpc'[v] = "top" => st'[cur'[v]] \in {"pending", "retrying"}
               /\ wpc'[v] = "exec" => st'[cur'[v]] = "running"
               /\ wpc'[v] = "retry" => st'[cur'[v]] = "retrying"
    <3>1. CASE v = w
      BY <1>4, <3>1
    <3>2. CASE v # w
      <4>1. wpc'[v] = wpc[v] /\ (wpc[v] \in Carrying => st'[cur'[v]] = st[cur[v]])
        BY <1>2, <1>3, <1>4, <3>2
      <4> QED BY <4>1 DEF Attempting, Carrying
    <3> QED BY <3>1, <3>2
  <2> QED BY <2>1, <2>2, <2>3 DEF Attempting
<1>5. CASE Skip(w) \/ Cancelled(w) \/ Succeed(w) \/ Fail(w)
  <2>1. /\ cur[w] \in Tasks /\ attempts' = attempts
        /\ \E s \in Outcomes : st' = [st EXCEPT ![cur[w]] = s]
        /\ \/ wpc' = [wpc EXCEPT ![w] = "pop"] /\ cur' = cur
           \/ wpc' = [wpc EXCEPT ![w] = "get"] /\ cur' = [cur EXCEPT ![w] = NULL]
    BY <1>5, OutcomeStep
  <2>2. \A t \in Tasks : st'[t] = st[t] \/ (t = cur[w] /\ st'[t] \in Outcomes)
    BY <1>1, <2>1
  <2>3. ASSUME NEW t \in Tasks
        PROVE  /\ st'[t] \in {"new", "pending"} => attempts'[t] = 0
               /\ st'[t] = "retrying" => attempts'[t] <= Retries[t]
               /\ t \in Live' /\ st'[t] # "pending" => \E v \in Workers : cur'[v] = t
    <3>1. CASE st'[t] \in Outcomes
      BY <3>1 DEF Outcomes, Live
    <3>2. CASE st'[t] = st[t] /\ st[t] \notin Outcomes
      <4>1. cur[w] = t => t \notin Live' \/ st'[t] \in Outcomes
        BY <2>1, <1>1
      <4>2. ASSUME NEW v \in Workers, cur[v] = t, t # cur[w] PROVE cur'[v] = t
        BY <1>1, <2>1, <4>2
      <4> QED BY <2>1, <3>2, <4>1, <4>2 DEF Attempting, Live
    <3> QED BY <2>2, <3>1, <3>2
  <2>4. ASSUME NEW v \in Workers, wpc'[v] \in Carrying
        PROVE  wpc'[v] = wpc[v] /\ st'[cur'[v]] = st[cur[v]]
    <3>1. v # w /\ wpc'[v] = wpc[v] /\ cur'[v] = cur[v]
      BY <1>1, <2>1, <2>4 DEF Carrying
    <3> QED BY <1>2, <1>3, <2>1, <2>4, <3>1
  <2>5. ASSUME NEW v \in Workers
        PROVE  /\ wpc'[v] \in {"check", "enter"} => st'[cur'[v]] = "pending"
               /\ wpc'[v] = "top" => st'[cur'[v]] \in {"pending", "retrying"}
               /\ wpc'[v] = "exec" => st'[cur'[v]] = "running"
               /\ wpc'[v] = "retry" => st'[cur'[v]] = "retrying"
    BY <2>4 DEF Attempting, Carrying
  <2> QED BY <2>3, <2>5 DEF Attempting
<1>6. CASE Get(w)
  <2>1. PICK t \in ready : cur' = [cur EXCEPT ![w] = t]
    BY <1>6 DEF Get
  <2>2. /\ wpc[w] = "get" /\ wpc' = [wpc EXCEPT ![w] = "check"] /\ UNCHANGED <<st, attempts>>
    BY <1>6 DEF Get, Move
  <2>3. t \in Live /\ t \in Tasks /\ \A v \in Workers : cur[v] # t
    BY DEF IInv, TypeOK, TasksOK, OneOwner, Somewhere, Disjoint
  <2>4. st[t] = "pending"
    BY <2>3 DEF Attempting
  <2>5. cur[w] = NULL /\ NULL \notin Tasks
    BY <2>2, SetsAssumption DEF IInv, Holding, Carrying
  <2>6. \A u \in Tasks : (\E v \in Workers : cur[v] = u) => \E v \in Workers : cur'[v] = u
    <3>1. ASSUME NEW u \in Tasks, NEW v \in Workers, cur[v] = u PROVE cur'[v] = u
      BY <1>1, <2>1, <2>5, <3>1
    <3> QED BY <3>1
  <2>7. ASSUME NEW u \in Tasks
        PROVE  /\ st'[u] \in {"new", "pending"} => attempts'[u] = 0
               /\ st'[u] = "retrying" => attempts'[u] <= Retries[u]
               /\ u \in Live' /\ st'[u] # "pending" => \E v \in Workers : cur'[v] = u
    BY <2>2, <2>6 DEF Attempting, Live
  <2>8. ASSUME NEW v \in Workers
        PROVE  /\ wpc'[v] \in {"check", "enter"} => st'[cur'[v]] = "pending"
               /\ wpc'[v] = "top" => st'[cur'[v]] \in {"pending", "retrying"}
               /\ wpc'[v] = "exec" => st'[cur'[v]] = "running"
               /\ wpc'[v] = "retry" => st'[cur'[v]] = "retrying"
    BY <1>1, <2>1, <2>2, <2>4 DEF Attempting
  <2> QED BY <2>7, <2>8 DEF Attempting
<1>7. CASE Attempt(w)
  <2>1. /\ wpc[w] = "top" /\ wpc' = [wpc EXCEPT ![w] = "exec"] /\ cur' = cur
        /\ st' = [st EXCEPT ![cur[w]] = "running"] /\ attempts' = [attempts EXCEPT ![cur[w]] = @ + 1]
    BY <1>7 DEF Attempt, Move
  <2> QED BY <1>1, <1>2, <1>4, <2>1 DEF Carrying
<1>8. CASE Retry(w)
  <2>1. /\ wpc[w] = "exec" /\ wpc' = [wpc EXCEPT ![w] = "retry"] /\ cur' = cur
        /\ st' = [st EXCEPT ![cur[w]] = "retrying"] /\ attempts' = attempts
        /\ attempts[cur[w]] <= Retries[cur[w]]
    BY <1>8 DEF Retry, Move, Retriable
  <2> QED BY <1>1, <1>2, <1>4, <2>1 DEF Carrying
<1>9. CASE Enter(w) \/ Register(w) \/ Delay(w)
  <2>1. /\ \/ wpc[w] = "check" /\ wpc' = [wpc EXCEPT ![w] = "enter"]
           \/ wpc[w] = "enter" /\ wpc' = [wpc EXCEPT ![w] = "top"]
           \/ wpc[w] = "retry" /\ wpc' = [wpc EXCEPT ![w] = "top"]
        /\ UNCHANGED <<cur, st, attempts>>
    BY <1>9 DEF Enter, Register, Delay, Move
  <2> QED BY <1>1, <1>2, <1>4, <2>1 DEF Carrying, Attempting
<1>10. CASE WorkerInit(w) \/ WorkerInitFails(w) \/ GetStop(w) \/ Exit(w) \/ Leave(w) \/ Release(w)
  <2>1. /\ UNCHANGED <<st, attempts>> /\ wpc[w] \notin Carrying
        /\ \E p \in {"get", "leave", "exit", "dead"} : wpc' = [wpc EXCEPT ![w] = p]
        /\ cur' = cur \/ (wpc[w] = "pop" /\ cur' = [cur EXCEPT ![w] = NULL])
    BY <1>10 DEF WorkerInit, WorkerInitFails, GetStop, Exit, Leave, Release, Move, Carrying
  <2>2. wpc[w] = "pop" => cur[w] \notin Live
    BY StatusSplit DEF IInv, Holding, Final
  <2>3. ASSUME NEW t \in Tasks
        PROVE  /\ st'[t] \in {"new", "pending"} => attempts'[t] = 0
               /\ st'[t] = "retrying" => attempts'[t] <= Retries[t]
               /\ t \in Live' /\ st'[t] # "pending" => \E v \in Workers : cur'[v] = t
    BY <1>1, <2>1, <2>2 DEF Attempting, Live
  <2>4. ASSUME NEW v \in Workers
        PROVE  /\ wpc'[v] \in {"check", "enter"} => st'[cur'[v]] = "pending"
               /\ wpc'[v] = "top" => st'[cur'[v]] \in {"pending", "retrying"}
               /\ wpc'[v] = "exec" => st'[cur'[v]] = "running"
               /\ wpc'[v] = "retry" => st'[cur'[v]] = "retrying"
    BY <1>1, <2>1 DEF Attempting
  <2> QED BY <2>3, <2>4 DEF Attempting
<1> QED BY <1>5, <1>6, <1>7, <1>8, <1>9, <1>10 DEF WorkerStep

\* Every step keeps what the refinement rests on.
LEMMA LifeStep ==
  ASSUME LInv, [Next]_vars
  PROVE  LInv'
<1>1. IInv' /\ PublishOnce'
  BY InvStep, OnceStep DEF LInv
<1>2. UNCHANGED vars => Attempting'
  BY DEF LInv, Attempting, Live
<1>3. Next => Attempting'
  BY AttemptingOthers, AttemptingWorker DEF Next
<1> QED BY <1>1, <1>2, <1>3 DEF LInv

\* The engine keeps every queue's promise: a task is accepted once, tried at
\* most once more than it has retries, finished once by an attempt or a
\* cancellation, and appended to the results once, after that.
THEOREM Lifecycles == Spec => LifecycleSpec
<1>1. Init => LInv /\ Lifecycle!Init
  <2>1. Init => IInv /\ Unpublished = {} /\ PublishOnce /\ Live = {}
    <3>1. Init => Live = {} /\ Unpublished = {}
      BY SetsAssumption DEF Init, Unpublished, Live, Th
    <3>2. Init => PublishOnce
      BY DEF Init, PublishOnce
    <3> QED BY <3>1, <3>2, InvInit
  <2> QED BY <2>1 DEF Init, LInv, Attempting, Lifecycle!Init
<1>2. LInv /\ [Next]_vars => LInv'
  BY LifeStep
<1>3. LInv /\ [Next]_vars => [Lifecycle!Next]_Lifecycle!vars
  <2>1. UNCHANGED vars => UNCHANGED Lifecycle!vars
    BY UnpublishedSame DEF Lifecycle!vars
  <2>2. LInv /\ TimerStep => UNCHANGED Lifecycle!vars
    BY OwedTimer DEF LInv, Lifecycle!vars
  <2> QED BY <2>1, <2>2, LifeThread, LifeWorker, LifeCaller DEF Next
<1> QED BY <1>1, <1>2, <1>3, PTL DEF Spec, LifecycleSpec, Lifecycle!Spec

-----------------------------------------------------------------------------
(* must_complete.                                                           *)

\* What a thread sweeps is its own affair.
LEMMA SweepsKept ==
  ASSUME NEW th \in Th, Sweeps(th), UNCHANGED <<sub[th], sel[th], hand[th], hits[th]>>,
         th \in Callers => UNCHANGED <<pc[th], arg[th]>>,
         th \in Workers => wpc'[th] = wpc[th] \/ wpc[th] # "leave"
  PROVE  Sweeps(th)'
BY DEF Sweeps, Kills, Cancels

\* A thread outside every sweep sweeps nothing.
LEMMA NoSweep ==
  ASSUME NEW th \in Th, sub'[th] \notin SweepPoint
  PROVE  Sweeps(th)'
BY DEF Sweeps, SweepPoint

\* A step inside a method is one of its thread.
LEMMA ThreadLocal ==
  ASSUME IInv, NEW th \in Th, ThreadStep(th)
  PROVE  /\ \A u \in Th \ {th} : UNCHANGED <<sub[u], sel[u], hand[u], hits[u]>>
         /\ \A c \in Callers : c # th => pc'[c] = pc[c]
         /\ UNCHANGED <<arg, calls, wpc>>
<1> USE DEF IInv, TypeOK, MethodsOK, CallingOK
<1>1. CASE Publish(th)
  BY <1>1 DEF Publish
<1>2. CASE Drop(th)
  <2>1. UNCHANGED <<sub, sel, hits, arg, calls, wpc>> /\ \A c \in Callers : c # th => pc'[c] = pc[c]
    BY <1>2 DEF Drop
  <2> QED BY <1>2, <2>1, DropStep
<1>3. CASE ~Publish(th) /\ ~Drop(th)
  BY <1>3 DEF ThreadStep, AbortHalt, CutLater, DrainTask, DrainStop, DrainEmpty, PutBackTask, PutBackStop,
     PutBackEnd, DropEnd, SnapActive, Interrupt, AbortEnd, SweepTo
<1> QED BY <1>1, <1>2, <1>3

\* A sweep goes on over the same tasks, and holds and interrupts only those.
LEMMA SweepGoesOn ==
  ASSUME IInv, NEW th \in Th, Sweeps(th), ThreadStep(th)
  PROVE  Sweeps(th)'
<1> USE DEF IInv, TypeOK, MethodsOK
<1>0. wpc' = wpc /\ arg' = arg
  BY ThreadLocal
<1>1. CASE Publish(th)
  <2>1. CASE sub' = [sub EXCEPT ![th] = "cut"] /\ sel' = [sel EXCEPT ![th] = Unspared]
    BY <2>1 DEF Sweeps, Unspared
  <2>2. CASE UNCHANGED <<sub, sel>>
    BY <1>1, <2>2, SweepsKept DEF Publish
  <2> QED BY <1>1, <2>1, <2>2 DEF Publish
<1>2. CASE AbortHalt(th)
  BY <1>0, <1>2 DEF AbortHalt, SweepTo, Sweeps, SweepPoint, Kills, Cancels
<1>3. CASE CutLater(th)
  BY <1>0, <1>3 DEF CutLater, Sweeps, SweepPoint, Kills, Cancels
<1>4. CASE DrainTask(th)
  BY <1>0, <1>4 DEF DrainTask, Sweeps, SweepPoint, Kills, Cancels
<1>5. CASE DrainStop(th)
  BY <1>0, <1>5 DEF DrainStop, Sweeps, SweepPoint, Kills, Cancels
<1>6. CASE DrainEmpty(th)
  BY <1>0, <1>6 DEF DrainEmpty, SweepTo, Sweeps, SweepPoint, Kills, Cancels
<1>7. CASE PutBackTask(th)
  BY <1>0, <1>7 DEF PutBackTask, Sweeps, SweepPoint, Kills, Cancels
<1>8. CASE PutBackStop(th)
  BY <1>0, <1>8 DEF PutBackStop, Sweeps, SweepPoint, Kills, Cancels
<1>9. CASE PutBackEnd(th)
  <2>1. /\ \/ sub[th] = "put" /\ sub'[th] = "rec2" /\ hand[th] \subseteq sel[th]
           \/ sub'[th] \in {"none", "forget"}
        /\ UNCHANGED <<pc, sel, hand, hits>>
    BY <1>9 DEF PutBackEnd, SweepTo
  <2> QED BY <1>0, <2>1, NoSweep DEF Sweeps, SweepPoint, Kills, Cancels
<1>10. CASE Drop(th)
  <2>1. PICK t \in hand[th] : hand' = [hand EXCEPT ![th] = @ \ {t}]
    BY <1>10, DropStep
  <2>2. /\ sub[th] \in {"rec1", "rec2"} /\ UNCHANGED <<sub, sel, hits>>
        /\ th \in Callers => pc'[th] = IF pc[th] = "miss" THEN "hit" ELSE pc[th]
    BY <1>10 DEF Drop
  <2>3. hand'[th] = hand[th] \ {t} /\ hand[th] \subseteq sel[th]
    BY <2>1, <2>2 DEF Sweeps
  <2>4. Kills(th) => Kills(th)'
    BY <1>0, <2>2 DEF Kills
  <2>5. Cancels(th) => Cancels(th)'
    BY <1>0, <2>1, <2>2, <2>3 DEF Cancels
  <2> QED BY <2>2, <2>3, <2>4, <2>5 DEF Sweeps
<1>11. CASE DropEnd(th)
  <2>1. \/ sub[th] = "rec1" /\ sub'[th] = "drain"
        \/ sub[th] = "rec2" /\ sub'[th] = "none"
        \/ sub[th] = "rec2" /\ sub'[th] = "snap" /\ ~(th \in Callers /\ pc[th] \in {"miss", "hit"})
    BY <1>11 DEF DropEnd, SweepTo
  <2>2. UNCHANGED <<pc, sel, hand, hits>>
    BY <1>11 DEF DropEnd, SweepTo
  <2> QED BY <1>0, <2>1, <2>2, NoSweep DEF Sweeps, SweepPoint, Kills, Cancels
<1>12. CASE SnapActive(th)
  BY <1>0, <1>12 DEF SnapActive, SweepTo, Sweeps, SweepPoint, Kills, Cancels
<1>13. CASE Interrupt(th)
  BY <1>0, <1>13 DEF Interrupt, Sweeps, SweepPoint, Kills, Cancels
<1>14. CASE AbortEnd(th)
  BY <1>14, NoSweep DEF AbortEnd, SweepTo, SweepPoint
<1> QED BY <1>1, <1>2, <1>3, <1>4, <1>5, <1>6, <1>7, <1>8, <1>9, <1>10, <1>11, <1>12, <1>13, <1>14 DEF ThreadStep

\* A step of a call is one of its caller; a worker it starts was dead.
LEMMA CallLocal ==
  ASSUME IInv, NEW c \in Callers, NewCall(c) \/ Returning(c) \/ RunTimeout(c)
  PROVE  /\ \A u \in Th \ {c} : UNCHANGED <<sub[u], sel[u], hand[u], hits[u]>>
         /\ \A d \in Callers \ {c} : UNCHANGED <<pc[d], arg[d]>>
         /\ \A w \in Workers : wpc'[w] = wpc[w] \/ wpc[w] # "leave"
<1> USE DEF IInv, TypeOK, MethodsOK, CallingOK, Th
<1>1. CASE Submit(c) \/ Resubmit(c)
  BY <1>1, SubmitStep DEF WaitForRoom, Admit
<1>2. CASE Spawn(c) \/ StartThread(c)
  <2>1. UNCHANGED <<sel, hand, hits, pc, arg>> /\ \A u \in Th \ {c} : sub'[u] = sub[u]
    BY <1>2 DEF Spawn, StartThread
  <2>2. ASSUME NEW w \in Workers PROVE wpc'[w] = wpc[w] \/ wpc[w] # "leave"
    <3>1. CASE Spawn(c)
      BY <3>1 DEF Spawn, Missing, Free
    <3>2. CASE StartThread(c)
      BY <3>2 DEF StartThread, Starting
    <3> QED BY <1>2, <3>1, <3>2
  <2> QED BY <2>1, <2>2
<1>3. CASE Cancel(c) \/ CancelTask(c)
  <2>1. UNCHANGED <<hits, wpc>> /\ \A d \in Callers \ {c} : UNCHANGED <<pc[d], arg[d]>>
    BY <1>3 DEF Cancel, CancelTask, Call
  <2>2. \A u \in Th \ {c} : UNCHANGED <<sub[u], sel[u], hand[u]>>
    BY <1>3 DEF Cancel, CancelTask, IntoSweep
  <2> QED BY <2>1, <2>2
<1>4. CASE ~(Submit(c) \/ Resubmit(c) \/ Spawn(c) \/ StartThread(c) \/ Cancel(c) \/ CancelTask(c))
  <2>1. UNCHANGED <<hand, hits, wpc>>
    BY <1>4 DEF NewCall, Returning, RunTimeout, Start, Join, Run, Shutdown, Reset, ClearResults,
       SnapThreads, PutStop, JoinWorker, JoinRaises, JoinedAll, ForgetThreads, StopTo, JoinStart, RunStart,
       StartRefused, Park, JoinReturn, RunIdle, RunDrained, RunEnd, DownPeek, DownStart, Refuse, DownDrained,
       DownHalt, DownStop, Close, CancelReturn, ResetDrained, ResetClear, GotoIdle, Goto
  <2>2. \A d \in Callers \ {c} : UNCHANGED <<pc[d], arg[d]>>
    BY <1>4 DEF NewCall, Returning, RunTimeout, Start, Join, Run, Shutdown, Reset, ClearResults,
       SnapThreads, PutStop, JoinWorker, JoinRaises, JoinedAll, ForgetThreads, StopTo, JoinStart, RunStart,
       StartRefused, Park, JoinReturn, RunIdle, RunDrained, RunEnd, DownPeek, DownStart, Refuse, DownDrained,
       DownHalt, DownStop, Close, CancelReturn, ResetDrained, ResetClear, GotoIdle, Goto, Call
  <2>3. \A u \in Th \ {c} : UNCHANGED <<sub[u], sel[u]>>
    BY <1>4 DEF NewCall, Returning, RunTimeout, Start, Join, Run, Shutdown, Reset, ClearResults,
       SnapThreads, PutStop, JoinWorker, JoinRaises, JoinedAll, ForgetThreads, StopTo, JoinStart, RunStart,
       StartRefused, Park, JoinReturn, RunIdle, RunDrained, RunEnd, DownPeek, DownStart, Refuse, DownDrained,
       DownHalt, DownStop, Close, CancelReturn, ResetDrained, ResetClear, GotoIdle, Goto, Into, IntoSweep,
       StartSection
  <2> QED BY <2>1, <2>2, <2>3
<1> QED BY <1>1, <1>2, <1>3, <1>4

\* A call begins a sweep only as it kills, spares or cancels a task.
LEMMA CallSweeps ==
  ASSUME IInv, NEW c \in Callers, NewCall(c) \/ Returning(c) \/ RunTimeout(c)
  PROVE  Sweeps(c)'
<1> USE DEF IInv, TypeOK, MethodsOK, CallingOK, Th
<1>1. CASE Submit(c) \/ Resubmit(c)
  <2>1. Resting(c) /\ \E m \in {"none", "spawn"} : sub' = [sub EXCEPT ![c] = m] \/ sub' = sub
    BY <1>1, SubmitStep DEF WaitForRoom, Admit
  <2>2. sub'[c] \in {"none", "spawn"}
    BY <2>1 DEF Resting
  <2> QED BY <2>2, NoSweep DEF SweepPoint
<1>2. CASE Spawn(c) \/ StartThread(c)
  BY <1>2, NoSweep DEF Spawn, StartThread, SweepPoint
<1>3. CASE Cancel(c) \/ CancelTask(c)
  <2>1. Resting(c)
    BY <1>3 DEF Cancel, CancelTask, Call, At
  <2>2. CASE UNCHANGED sub
    BY <2>1, <2>2, NoSweep DEF Resting, SweepPoint
  <2>3. ASSUME NEW t, t = arg[c], pc' = [pc EXCEPT ![c] = "miss"], arg' = arg,
               hand' = [hand EXCEPT ![c] = later \cap {t}],
               IntoSweep(c, IF t \in later THEN "rec2" ELSE "drain", {t})
        PROVE  Sweeps(c)'
    BY <2>3 DEF IntoSweep, Sweeps, Cancels
  <2> QED BY <1>3, <2>2, <2>3 DEF Cancel, CancelTask, Call
<1>4. CASE \/ SnapThreads(c) \/ PutStop(c) \/ JoinWorker(c) \/ JoinRaises(c) \/ JoinedAll(c) \/ ForgetThreads(c)
  <2>1. sub'[c] \in {"joining", "signal", "none", "purge"}
    BY <1>4 DEF SnapThreads, PutStop, JoinWorker, JoinRaises, JoinedAll, ForgetThreads, StopTo
  <2> QED BY <2>1, NoSweep DEF SweepPoint
<1>5. CASE \/ Start(c) \/ Join(c) \/ Run(c) \/ Shutdown(c) \/ ClearResults(c) \/ JoinStart(c) \/ RunStart(c)
           \/ StartRefused(c) \/ Park(c) \/ JoinReturn(c) \/ RunIdle(c) \/ RunDrained(c) \/ RunEnd(c)
           \/ DownPeek(c) \/ DownStart(c) \/ DownDrained(c) \/ DownHalt(c) \/ DownStop(c) \/ Close(c)
           \/ CancelReturn(c) \/ ResetDrained(c) \/ ResetClear(c)
  <2>1. Resting(c)
    BY <1>5 DEF Start, Join, Run, Shutdown, ClearResults, JoinStart, RunStart, StartRefused, Park, JoinReturn,
       RunIdle, RunDrained, RunEnd, DownPeek, DownStart, DownDrained, DownHalt, DownStop, Close, CancelReturn,
       ResetDrained, ResetClear, GotoIdle, Goto, Call, At
  <2>2. sub'[c] \in {"none", "spawn", "stop", "purge"}
    BY <1>5, <2>1 DEF Start, Join, Run, Shutdown, ClearResults, JoinStart, RunStart, StartRefused, Park, JoinReturn,
       RunIdle, RunDrained, RunEnd, DownPeek, DownStart, DownDrained, DownHalt, DownStop, Close, CancelReturn,
       ResetDrained, ResetClear, StartSection, Into, IntoSweep, Resting
  <2> QED BY <2>2, NoSweep DEF SweepPoint
<1>6. CASE RunTimeout(c)
  <2>1. pc'[c] = "run.drain" /\ sub'[c] = "halt" /\ sel'[c] = IF TimeoutKills THEN Tasks ELSE Unspared
    BY <1>6 DEF RunTimeout, IntoSweep
  <2> QED BY <2>1 DEF Sweeps, Kills, Unspared
<1>7. CASE Refuse(c)
  <2>1. \/ Resting(c) /\ sub' = sub
        \/ pc'[c] = "down.stop" /\ sub'[c] = "halt" /\ sel'[c] = Tasks
    BY <1>7 DEF Refuse, IntoSweep, Goto, At
  <2> QED BY <2>1, NoSweep DEF Sweeps, Kills, Resting, SweepPoint
<1>8. CASE Reset(c)
  <2>1. pc'[c] = "reset.drain" /\ sub'[c] = "halt" /\ sel'[c] = Tasks
    BY <1>8 DEF Reset, IntoSweep, Call
  <2> QED BY <2>1 DEF Sweeps, Kills
<1> QED BY <1>1, <1>2, <1>3, <1>4, <1>5, <1>6, <1>7, <1>8 DEF NewCall, Returning

\* A worker begins a sweep only as its initializer fails, and that one kills.
LEMMA WorkerSweeps ==
  ASSUME IInv, Sweeping, NEW w \in Workers, WorkerStep(w)
  PROVE  Sweeping'
<1> USE DEF IInv, TypeOK, MethodsOK, PoolOK, Th
<1>1. /\ \A u \in Th \ {w} : UNCHANGED <<sub[u], sel[u], hand[u], hits[u]>>
      /\ UNCHANGED <<pc, arg>> /\ \A v \in Workers \ {w} : wpc'[v] = wpc[v]
  <2>1. CASE Skip(w) \/ Cancelled(w) \/ Succeed(w) \/ Fail(w)
    BY <2>1, OutcomeStep
  <2>2. CASE ~(Skip(w) \/ Cancelled(w) \/ Succeed(w) \/ Fail(w))
    BY <2>2 DEF WorkerStep, WorkerInit, WorkerInitFails, Get, GetStop, Enter, Register, Attempt, Retry, Delay,
       Release, Exit, Leave, Move
  <2> QED BY <2>1, <2>2
<1>2. Sweeps(w)'
  <2>1. CASE WorkerInitFails(w)
    BY <2>1 DEF WorkerInitFails, Move, Sweeps, Kills
  <2>2. CASE ~WorkerInitFails(w)
    <3>1. Resting(w)
      BY <2>2 DEF WorkerStep, WorkerAtRest, WorkerInit, Get, GetStop, Skip, Enter, Register, Attempt, Cancelled,
         Succeed, Fail, Outcome, Retry, Delay, Release, Exit, Leave, Move
    <3>2. sub' = sub
      BY <2>2 DEF WorkerStep, WorkerInit, Get, GetStop, Skip, Enter, Register, Attempt, Cancelled,
         Succeed, Fail, Outcome, Retry, Delay, Release, Exit, Leave, Move
    <3> QED BY <3>1, <3>2, NoSweep DEF Resting, SweepPoint
  <2> QED BY <2>1, <2>2
<1>3. ASSUME NEW u \in Th \ {w} PROVE Sweeps(u)'
  BY <1>1, SweepsKept, SetsAssumption DEF Sweeping
<1> QED BY <1>2, <1>3 DEF Sweeping

\* Every step keeps what the sweeps hold.
LEMMA SweepingStep ==
  ASSUME IInv, Sweeping, [Next]_vars
  PROVE  Sweeping'
<1> USE DEF Sweeping
<1>1. ASSUME NEW th \in Th, ThreadStep(th) PROVE Sweeping'
  <2>1. ASSUME NEW u \in Th \ {th} PROVE Sweeps(u)'
    BY <1>1, ThreadLocal, SweepsKept
  <2> QED BY <1>1, <2>1, SweepGoesOn
<1>2. ASSUME NEW c \in Callers, NewCall(c) \/ Returning(c) \/ RunTimeout(c) PROVE Sweeping'
  <2>1. ASSUME NEW u \in Th \ {c} PROVE Sweeps(u)'
    BY <1>2, CallLocal, SweepsKept
  <2> QED BY <1>2, <2>1, CallSweeps
<1>3. CASE TimerStep
  <2>1. UNCHANGED <<sub, sel, hand, hits, pc, arg>> /\ \A w \in Workers : wpc'[w] = wpc[w] \/ wpc[w] # "leave"
    BY <1>3 DEF TimerStep, TimerFire, TimerLeave, TimerEnd, Missing, Free
  <2> QED BY <2>1, SweepsKept
<1>4. CASE UNCHANGED vars
  BY <1>4, SweepsKept
<1> QED BY <1>1, <1>2, <1>3, <1>4, WorkerSweeps DEF Next

\* What Sweeping is for: no step touches a must_complete task but in a kill
\* or for a cancel() call on it.
LEMMA SparedStep ==
  ASSUME IInv, Sweeping, [Next]_vars
  PROVE  [Spared]_vars
<1> SUFFICES ASSUME Next PROVE Spared
  OBVIOUS
<1>1. ASSUME NEW t \in MustComplete, (st[t] # "cancelled" /\ st'[t] = "cancelled") \/ t \in cancelEv' \ cancelEv
      PROVE  \/ t \in cancelEv \/ \E th \in Th : Kills(th)
             \/ \E c \in Callers : arg[c] = t /\ pc[c] \in {"cancel", "miss"}
  <2>0. t \in Tasks /\ st \in [Tasks -> Status]
    BY OptionsAssumption DEF IInv, TypeOK, TasksOK
  <2>1. ASSUME NEW th \in Th, ThreadStep(th)
        PROVE  Kills(th) \/ \E c \in Callers : arg[c] = t /\ pc[c] = "miss"
    <3>1. CASE Drop(th)
      <4>1. t \in hand[th] /\ sub[th] \in {"rec1", "rec2"}
        BY <1>1, <2>0, <3>1, DropStep DEF Drop
      <4>2. t \in sel[th] \cap MustComplete /\ hand[th] # {}
        BY <1>1, <4>1 DEF Sweeping, Sweeps
      <4> QED BY <4>1, <4>2 DEF Sweeping, Sweeps, SweepPoint, Cancels
    <3>2. CASE Interrupt(th)
      <4>1. t \in hits[th] /\ sub[th] = "hit"
        BY <1>1, <3>2 DEF Interrupt
      <4> QED BY <1>1, <4>1 DEF Sweeping, Sweeps, SweepPoint, Cancels
    <3>3. CASE ~Drop(th) /\ ~Interrupt(th)
      <4>1. UNCHANGED <<st, cancelEv>>
        BY <2>1, <3>3 DEF ThreadStep, Publish, AbortHalt, CutLater, DrainTask, DrainStop, DrainEmpty, PutBackTask,
           PutBackStop, PutBackEnd, DropEnd, SnapActive, AbortEnd, SweepTo
      <4> QED BY <1>1, <4>1
    <3> QED BY <3>1, <3>2, <3>3
  <2>2. ASSUME NEW w \in Workers, WorkerStep(w)
        PROVE  t \in cancelEv
    <3>1. CASE Cancelled(w)
      <4>1. cur[w] \in cancelEv /\ cancelEv' = cancelEv /\ \E s \in Outcomes : st' = [st EXCEPT ![cur[w]] = s]
        BY <3>1, OutcomeStep DEF Cancelled
      <4> QED BY <1>1, <2>0, <4>1
    <3>2. CASE Skip(w)
      <4>1. /\ cancelEv' = cancelEv /\ \E s \in Outcomes : st' = [st EXCEPT ![cur[w]] = s]
            /\ cur[w] \in Live
        BY <3>2, OutcomeStep
      <4>2. t = cur[w] /\ t \notin Final
        BY <1>1, <2>0, <4>1, StatusSplit DEF IInv
      <4> QED BY <1>1, <3>2, <4>2 DEF Skip, Unwanted
    <3>3. CASE Succeed(w) \/ Fail(w)
      <4>1. cancelEv' = cancelEv /\ \/ st' = st
                                    \/ \E s \in {"succeeded", "failed"} : st' = [st EXCEPT ![cur[w]] = s]
        BY <3>3 DEF Succeed, Fail, Outcome, Mark
      <4> QED BY <1>1, <2>0, <4>1
    <3>4. CASE Attempt(w) \/ Retry(w)
      <4>1. cancelEv' = cancelEv /\ \E s \in {"running", "retrying"} : st' = [st EXCEPT ![cur[w]] = s]
        BY <3>4 DEF Attempt, Retry
      <4> QED BY <1>1, <2>0, <4>1
    <3>5. CASE ~(Skip(w) \/ Cancelled(w) \/ Succeed(w) \/ Fail(w) \/ Attempt(w) \/ Retry(w))
      <4>1. st' = st /\ cancelEv' \subseteq cancelEv
        BY <2>2, <3>5 DEF WorkerStep, WorkerInit, WorkerInitFails, Get, GetStop, Enter, Register, Delay, Release,
           Exit, Leave
      <4> QED BY <1>1, <4>1
    <3> QED BY <2>2, <3>1, <3>2, <3>3, <3>4, <3>5
  <2>3. ASSUME NEW c \in Callers, NewCall(c) \/ Returning(c) \/ RunTimeout(c)
        PROVE  arg[c] = t /\ pc[c] = "cancel"
    <3>1. CASE CancelTask(c)
      BY <1>1, <3>1 DEF CancelTask, At
    <3>2. CASE ~CancelTask(c)
      <4>1. cancelEv' = cancelEv
        BY <2>3, <3>2, SubmitStep DEF NewCall, Returning, RunTimeout, Start, Join, Run, Shutdown, Cancel, Reset,
           ClearResults,
           Spawn, StartThread, SnapThreads, PutStop, JoinWorker, JoinRaises, JoinedAll, ForgetThreads, StopTo,
           JoinStart, RunStart, StartRefused, Park, JoinReturn, RunIdle, RunDrained, RunEnd, DownPeek, DownStart,
           Refuse, DownDrained, DownHalt, DownStop, Close, CancelReturn, ResetDrained, ResetClear, GotoIdle, Goto,
           WaitForRoom, Admit
      <4> QED BY <1>1, <2>0, <2>3, <4>1, CallerStatus
    <3> QED BY <3>1, <3>2
  <2>4. CASE TimerStep
    BY <1>1, <2>4 DEF TimerStep, TimerFire, TimerLeave, TimerEnd
  <2> QED BY <2>1, <2>2, <2>3, <2>4 DEF Next
<1> QED BY <1>1 DEF Spared

\* A must_complete task survives timeouts that spare it, fail_first and the
\* graceful shutdown: it is cancelled only by a kill or by cancel() on it.
THEOREM MustCompleteIsSpared == Spec => MustCompleteSpared
<1>1. Init => IInv /\ Sweeping
  BY InvInit, NoSweep DEF Init, Sweeping, Sweeps, SweepPoint
<1>2. IInv /\ Sweeping /\ [Next]_vars => (IInv /\ Sweeping)'
  BY InvStep, SweepingStep
<1>3. IInv /\ Sweeping /\ [Next]_vars => [Spared]_vars
  BY SparedStep
<1> QED BY <1>1, <1>2, <1>3, PTL DEF Spec, MustCompleteSpared

-----------------------------------------------------------------------------
(* The scheduling thread.                                                   *)

\* Before a shutdown the thread leaves its loop for nothing else.
TInv == CInv /\ TimerCovers /\ (~closed => timer # "leaving")

\* What happens to the heap, the scheduling thread and the closed flag: a
\* submission to an open queue adds a task and starts the thread; the thread
\* leaves a closed queue; only reset() reopens one.
LEMMA TimerFrame ==
  ASSUME IInv, NotResetting, [Next]_vars
  PROVE  \/ later' \subseteq later /\ timer' = timer /\ closed' \in {closed, TRUE}
         \/ EnsureTimer /\ ~closed /\ closed' = closed
         \/ timer' # "on" /\ closed /\ closed' = closed
         \/ timer = "leaving" /\ timer' = "off" /\ later' = later /\ closed' = closed
<1>1. ASSUME NEW th \in Th, ThreadStep(th)
      PROVE  later' \subseteq later /\ timer' = timer /\ closed' = closed
  BY <1>1 DEF ThreadStep, Publish, AbortHalt, CutLater, DrainTask, DrainStop, DrainEmpty, PutBackTask, PutBackStop,
     PutBackEnd, Drop, DropEnd, SnapActive, Interrupt, AbortEnd, SweepTo
<1>2. ASSUME NEW w \in Workers, WorkerStep(w)
      PROVE  later' \subseteq later /\ timer' = timer /\ closed' = closed
  BY <1>2, OutcomeStep DEF WorkerStep, WorkerInit, WorkerInitFails, Get, GetStop, Enter, Register, Attempt, Retry,
     Delay, Release, Exit, Leave, Move
<1>3. ASSUME NEW c \in Callers, Submit(c) \/ Resubmit(c)
      PROVE  \/ UNCHANGED <<later, timer, closed>>
             \/ EnsureTimer /\ ~closed /\ closed' = closed
  <2>1. PICK t : \/ UNCHANGED <<later, timer, closed>>
                 \/ CanAccept /\ Admit(c, t)
    BY <1>3 DEF Submit, Resubmit, WaitForRoom
  <2> QED BY <2>1 DEF CanAccept, Admit
<1>4. ASSUME NEW c \in Callers, NewCall(c) \/ Returning(c) \/ RunTimeout(c), ~(Submit(c) \/ Resubmit(c))
      PROVE  later' \subseteq later /\ timer' = timer /\ closed' \in {closed, TRUE}
  <2>1. ~ResetClear(c)
    BY DEF ResetClear, Goto, At, NotResetting
  <2> QED BY <1>4, <2>1 DEF NewCall, Returning, RunTimeout, Start, Join, Run, Shutdown, Cancel, CancelTask, Reset,
     ClearResults, Spawn,
       StartThread, SnapThreads, PutStop, JoinWorker, JoinRaises, JoinedAll, ForgetThreads, StopTo, JoinStart,
       RunStart, StartRefused, Park, JoinReturn, RunIdle, RunDrained, RunEnd, DownPeek, DownStart, Refuse,
       DownDrained, DownHalt, DownStop, Close, CancelReturn, ResetDrained, GotoIdle, Goto, StartSection
<1>5. CASE TimerStep
  BY <1>5 DEF TimerStep, TimerFire, TimerLeave, TimerEnd
<1> QED BY <1>1, <1>2, <1>3, <1>4, <1>5 DEF Next

\* Without reset(): a scheduled task of an open queue has a thread that will
\* move it to the ready queue when it is due.
THEOREM TimerAlwaysCovers ==
  ASSUME NoReset
  PROVE  Spec => []TimerCovers
<1>1. Init => TInv
  BY CountInit DEF Init, TInv, TimerCovers
<1>2. TInv /\ [Next]_vars => TInv'
  <2> SUFFICES ASSUME TInv, [Next]_vars PROVE TInv'
    OBVIOUS
  <2>1. timer \in {"on", "leaving", "off"} /\ closed \in BOOLEAN /\ IInv /\ NotResetting
    BY DEF TInv, CInv, IInv, TypeOK, PoolOK, FlagsOK
  <2>2. TimerCovers' /\ (~closed' => timer' # "leaving")
    BY <2>1, TimerFrame DEF TInv, TimerCovers, EnsureTimer
  <2> QED BY <2>2, CountStep DEF TInv
<1>3. TInv => TimerCovers
  BY DEF TInv
<1> QED BY <1>1, <1>2, <1>3, PTL DEF Spec

-----------------------------------------------------------------------------
(* Shutting down gracefully.                                                *)

\* Nobody forces a shutdown or resets the queue.
Graceful == \A c \in Callers : May[c] \cap {"force", "reset"} = {}

\* A caller past its wait in shutdown() has seen the queue refuse and nothing
\* outstanding, and so it stays.
Drained ==
  /\ \A c \in Callers :
       /\ pc[c] # "force.refuse"
       /\ pc[c] \in {"down.drain", "down.halt", "down.stop", "down.close"} => ~accepting
       /\ pc[c] \in {"down.halt", "down.stop", "down.close"} => outstanding = 0
  /\ closed => ~accepting /\ outstanding = 0
DInv == CInv /\ Drained

\* Whoever is about to publish is owed for.
LEMMA PublisherOwed ==
  ASSUME CInv, NEW th \in Th, pub[th] # NULL
  PROVE  outstanding # 0
<1>1. Unpublished # {}
  BY DEF Unpublished, CInv, IInv, TypeOK, MethodsOK
<1> QED BY <1>1, UnpublishedFinite, FS_EmptySet DEF Accounting, CInv

\* A queue that refuses never accepts again, and with nothing outstanding it
\* has nothing to publish; the queue is closed at the end of a shutdown().
LEMMA StaysDrained ==
  ASSUME CInv, [Next]_vars
  PROVE  /\ ~accepting => ~accepting'
         /\ ~accepting /\ outstanding = 0 => outstanding' = 0
         /\ closed' => closed \/ \E c \in Callers : pc[c] = "down.close"
<1> USE DEF CInv
<1>1. ASSUME NEW th \in Th, pub[th] # NULL PROVE outstanding # 0
  BY <1>1, PublisherOwed
<1>2. ASSUME NEW th \in Th, ThreadStep(th)
      PROVE  UNCHANGED <<accepting, closed>> /\ (outstanding' = outstanding \/ pub[th] # NULL)
  BY <1>2 DEF ThreadStep, Publish, AbortHalt, CutLater, DrainTask, DrainStop, DrainEmpty, PutBackTask, PutBackStop,
     PutBackEnd, Drop, DropEnd, SnapActive, Interrupt, AbortEnd, SweepTo
<1>3. ASSUME NEW w \in Workers, WorkerStep(w)
      PROVE  UNCHANGED <<accepting, closed, outstanding>>
  BY <1>3, OutcomeStep DEF WorkerStep, WorkerInit, WorkerInitFails, Get, GetStop, Enter, Register, Attempt, Retry,
     Delay, Release, Exit, Leave, Move
<1>4. ASSUME NEW c \in Callers, Submit(c) \/ Resubmit(c)
      PROVE  UNCHANGED <<accepting, closed>> /\ (outstanding' = outstanding \/ accepting)
  <2>1. PICK t : \/ UNCHANGED <<accepting, closed, outstanding>>
                 \/ CanAccept /\ Admit(c, t)
    BY <1>4 DEF Submit, Resubmit, WaitForRoom
  <2> QED BY <2>1 DEF CanAccept, Admit
<1>5. ASSUME NEW c \in Callers, NewCall(c) \/ Returning(c) \/ RunTimeout(c), ~(Submit(c) \/ Resubmit(c)), ~Close(c)
      PROVE  (~accepting => ~accepting') /\ UNCHANGED <<closed, outstanding>>
  <2>1. ~ResetClear(c)
    BY DEF ResetClear, Goto, At, NotResetting
  <2> QED BY <1>5, <2>1 DEF NewCall, Returning, RunTimeout, Start, Join, Run, Shutdown, Cancel, CancelTask, Reset,
     ClearResults, Spawn,
       StartThread, SnapThreads, PutStop, JoinWorker, JoinRaises, JoinedAll, ForgetThreads, StopTo, JoinStart,
       RunStart, StartRefused, Park, JoinReturn, RunIdle, RunDrained, RunEnd, DownPeek, DownStart, Refuse,
       DownDrained, DownHalt, DownStop, CancelReturn, ResetDrained, GotoIdle, Goto, StartSection
<1>6. ASSUME NEW c \in Callers, Close(c)
      PROVE  UNCHANGED <<accepting, outstanding>> /\ pc[c] = "down.close"
  BY <1>6 DEF Close, Goto, At
<1>7. CASE TimerStep \/ UNCHANGED vars
  BY <1>7 DEF TimerStep, TimerFire, TimerLeave, TimerEnd
<1> QED BY <1>1, <1>2, <1>3, <1>4, <1>5, <1>6, <1>7 DEF Next

\* Where a caller of shutdown() comes from.
Path(c) ==
  /\ pc'[c] # "force.refuse"
  /\ pc'[c] = "down.drain" => pc[c] = "down.drain" \/ ~accepting'
  /\ pc'[c] = "down.halt" => pc[c] = "down.halt" \/ (pc[c] = "down.drain" /\ outstanding = 0)
  /\ pc'[c] \in {"down.stop", "down.close"} => pc[c] \in {"down.halt", "down.stop", "down.close"}

\* It refuses before it waits, and waits before it halts, stops and closes.
LEMMA Descent ==
  ASSUME Graceful, DInv, [Next]_vars, NEW d \in Callers
  PROVE  Path(d)
<1> USE DEF DInv, CInv
<1>0. pc \in [Callers -> CallerPoint] /\ pc[d] # "force.refuse" /\ pc[d] \notin {"reset.drain", "reset.clear"}
  BY DEF IInv, TypeOK, CallingOK, Drained, NotResetting
<1>1. CASE UNCHANGED pc
  BY <1>0, <1>1 DEF Path
<1>2. ASSUME NEW th \in Th, ThreadStep(th) PROVE Path(d)
  <2>1. pc' = pc \/ (pc'[d] = "hit" /\ pc[d] = "miss") \/ pc'[d] = pc[d]
    BY <1>0, <1>2 DEF ThreadStep, Publish, AbortHalt, CutLater, DrainTask, DrainStop, DrainEmpty, PutBackTask,
       PutBackStop, PutBackEnd, Drop, DropEnd, SnapActive, Interrupt, AbortEnd, SweepTo
  <2> QED BY <1>0, <2>1 DEF Path
<1>3. ASSUME NEW w \in Workers, WorkerStep(w) PROVE UNCHANGED pc
  BY <1>3, OutcomeStep DEF WorkerStep, WorkerInit, WorkerInitFails, Get, GetStop, Enter, Register, Attempt, Retry,
     Delay, Release, Exit, Leave, Move
<1>4. ASSUME TimerStep \/ UNCHANGED vars PROVE UNCHANGED pc
  BY <1>4 DEF TimerStep, TimerFire, TimerLeave, TimerEnd
<1>5. ASSUME NEW c \in Callers, NewCall(c) \/ Returning(c) \/ RunTimeout(c) PROVE Path(d)
  <2> DEFINE Elsewhere == CallerPoint \ {"force.refuse", "down.drain", "down.halt", "down.stop", "down.close"}
  <2>1. ASSUME NEW label \in Elsewhere, pc' = [pc EXCEPT ![c] = label] PROVE Path(d)
    BY <1>0, <2>1 DEF Path
  <2>2. CASE Submit(c) \/ Resubmit(c)
    <3>1. UNCHANGED pc \/ \E label \in {"full", "idle"} : pc' = [pc EXCEPT ![c] = label]
      BY <2>2, SubmitStep DEF WaitForRoom, Admit
    <3> QED BY <1>1, <2>1, <3>1 DEF CallerPoint
  <2>3. CASE Start(c) \/ Join(c) \/ Run(c) \/ Shutdown(c) \/ Cancel(c) \/ CancelTask(c) \/ ClearResults(c) \/ Reset(c)
    <3>1. ~Reset(c) /\ ~Call(c, "force", IF closed THEN "idle" ELSE "force.refuse")
      BY DEF Graceful, Reset, Call
    <3>2. \E label \in Elsewhere : pc' = [pc EXCEPT ![c] = label]
      BY <2>3, <3>1 DEF CallerPoint, Start, Join, Run, Shutdown, Cancel, CancelTask, ClearResults, Call
    <3> QED BY <2>1, <3>2
  <2>4. CASE \/ JoinStart(c) \/ RunStart(c) \/ StartRefused(c) \/ JoinReturn(c) \/ RunIdle(c) \/ RunDrained(c)
             \/ RunEnd(c) \/ DownPeek(c) \/ DownStart(c) \/ Close(c) \/ CancelReturn(c) \/ RunTimeout(c)
             \/ JoinRaises(c)
    <3>1. \E label \in Elsewhere : pc' = [pc EXCEPT ![c] = label]
      BY <2>4 DEF CallerPoint, JoinStart, RunStart, StartRefused, JoinReturn, RunIdle, RunDrained, RunEnd, DownPeek,
         DownStart, Close, CancelReturn, RunTimeout, GotoIdle, Goto, JoinRaises
    <3> QED BY <2>1, <3>1
  <2>5. CASE Park(c)
    <3>1. \E label \in CallerPoint : pc[c] = label /\ pc' = [pc EXCEPT ![c] = label]
      BY <2>5 DEF Park, Goto, At, CallerPoint
    <3> QED BY <1>0, <1>1, <3>1
  <2>6. CASE ResetDrained(c) \/ ResetClear(c)
    BY <2>6 DEF ResetDrained, ResetClear, GotoIdle, Goto, At, NotResetting
  <2>7. CASE Refuse(c)
    BY <1>0, <2>7 DEF Refuse, Goto, At, Drained, Path
  <2>8. CASE DownDrained(c)
    BY <1>0, <2>8 DEF DownDrained, GotoIdle, Goto, At, Path
  <2>9. CASE DownHalt(c) \/ DownStop(c)
    BY <1>0, <2>9 DEF DownHalt, DownStop, Goto, At, Path
  <2>10. CASE \/ Spawn(c) \/ StartThread(c) \/ SnapThreads(c) \/ PutStop(c) \/ JoinWorker(c) \/ JoinedAll(c)
              \/ ForgetThreads(c)
    BY <1>1, <2>10 DEF Spawn, StartThread, SnapThreads, PutStop, JoinWorker, JoinedAll, ForgetThreads, StopTo
  <2> QED BY <1>5, <2>2, <2>3, <2>4, <2>5, <2>6, <2>7, <2>8, <2>9, <2>10 DEF NewCall, Returning
<1> QED BY <1>1, <1>2, <1>3, <1>4, <1>5 DEF Next

\* Every step keeps the invariant.
LEMMA DrainedStep == ASSUME Graceful, DInv, [Next]_vars PROVE DInv'
<1>1. NoReset
  BY DEF Graceful, NoReset
<1>2. CInv'
  BY <1>1, CountStep DEF DInv
<1>3. /\ ~accepting => ~accepting'
      /\ ~accepting /\ outstanding = 0 => outstanding' = 0
      /\ closed' => closed \/ \E c \in Callers : pc[c] = "down.close"
  BY StaysDrained DEF DInv
<1>4. \A c \in Callers : Path(c)
  BY Descent
<1>5. Drained'
  BY <1>3, <1>4 DEF DInv, Drained, Path
<1> QED BY <1>2, <1>5 DEF DInv

\* Without forced shutdowns and resets: shutdown() closes the queue with
\* every accepted task recorded, whoever submits, cancels and runs meanwhile,
\* timeouts and failing initializers included.
THEOREM ClosedIsDone ==
  ASSUME Graceful
  PROVE  Spec => []ClosedMeansDone
<1>1. Init => DInv
  BY CountInit DEF Init, DInv, Drained
<1>2. DInv /\ [Next]_vars => DInv'
  BY DrainedStep
<1>3. DInv => ClosedMeansDone
  BY DEF DInv, Drained, ClosedMeansDone
<1> QED BY <1>1, <1>2, <1>3, PTL DEF Spec

-----------------------------------------------------------------------------
(* The number of worker threads.                                            *)

\* What the options ask for.
Limit == IF FixedWorkers = 0 THEN AutoLimit ELSE FixedWorkers

\* Caller s alone submits, starts, runs and shuts down; the others cancel
\* tasks and clear results.
Alone(s) == \A c \in Callers \ {s} : Mine[c] = {} /\ May[c] \subseteq {"cancel", "clear"}

\* Inside _stop_workers.
StopPoint == {"stop", "signal", "joining", "purge", "restore", "forget"}
Bystander(c) == pc[c] \in {"idle", "cancel", "miss", "hit"} /\ sub[c] \notin {"spawn", "starting"} \cup StopPoint

\* A queue whose workers are being stopped is halted or has nothing left to
\* do, so that nobody starts another; they are all waited for, and dead when
\* they are forgotten.
Stopping(s) ==
  /\ pc[s] = "down.stop" => halt \/ sub[s] = "halt"
  /\ pc[s] = "down.close" => halt
  /\ sub[s] \in StopPoint => pc[s] = "down.close" \/ (pc[s] = "run.end" /\ outstanding = 0)
  /\ sub[s] \in {"signal", "joining"} => \A w \in Workers : Working(w) => w \in snap[s]
  /\ sub[s] \in {"purge", "restore", "forget"} => \A w \in Workers : ~Working(w)

\* No more workers than the limit are registered, and one at work is.
Few ==
  /\ Cardinality(threads) <= Limit
  /\ \A w \in Workers : Working(w) => w \in threads
HInv(s) == CInv /\ Few /\ (\A c \in Callers \ {s} : Bystander(c)) /\ Stopping(s)

\* The engine never asks for more than the limit.
LEMMA TargetBounded ==
  ASSUME IInv, NEW q \in SUBSET Tasks
  PROVE  TargetWorkers(q) \in Nat /\ TargetWorkers(q) <= Limit
<1>1. Cardinality(q) \in Nat /\ Cardinality(active) \in Nat /\ stops \in Nat
  BY SetsAssumption, FS_Subset, FS_CardinalityType DEF IInv, TypeOK, TasksOK
<1> DEFINE n == Cardinality(q) + stops + Cardinality(active)
<1>2. n \in Nat
  BY <1>1
<1> QED BY <1>2, QueueAssumption DEF TargetWorkers, Limit

\* The threads a spawn adds, ranked among the free identities, fit in what is
\* missing.
LEMMA MissingBounded ==
  ASSUME IInv, Cardinality(threads) <= Limit, NEW q \in SUBSET Tasks
  PROVE  /\ Missing(q) \subseteq Workers
         /\ Cardinality(threads \cup Missing(q)) <= Limit
<1> DEFINE T == TargetWorkers(q)
           n == Cardinality(threads)
           M == Missing(q)
           rank(w) == Cardinality({v \in Free : v < w})
<1>1. IsFiniteSet(Workers) /\ Workers \subseteq Nat /\ Free \subseteq Workers /\ threads \subseteq Workers
  BY SetsAssumption DEF Free, IInv, TypeOK, PoolOK
<1>2. IsFiniteSet(threads) /\ n \in Nat /\ T \in Nat /\ T <= Limit
  BY <1>1, FS_Subset, FS_CardinalityType, TargetBounded
<1>3. M \subseteq Free /\ \A w \in M : rank(w) + n < T
  BY DEF Missing
<1>4. \A w \in Workers : IsFiniteSet({v \in Free : v < w}) /\ rank(w) \in Nat
  <2> SUFFICES ASSUME NEW w \in Workers PROVE IsFiniteSet({v \in Free : v < w}) /\ rank(w) \in Nat
    OBVIOUS
  <2>1. {v \in Free : v < w} \in SUBSET Workers
    BY <1>1
  <2> QED BY <1>1, <2>1, FS_Subset, FS_CardinalityType
<1>5. \A w, v \in Free : w < v => rank(w) < rank(v)
  <2> SUFFICES ASSUME NEW w \in Free, NEW v \in Free, w < v PROVE rank(w) < rank(v)
    OBVIOUS
  <2> DEFINE A == {x \in Free : x < w}  B == {x \in Free : x < v}
  <2>1. w \in Nat /\ v \in Nat /\ \A x \in Free : x \in Nat
    BY <1>1
  <2>2. A \cup {w} \in SUBSET B /\ w \notin A
    <3>1. \A x \in Free : x < w => x < v
      BY <2>1
    <3>2. ~(w < w)
      BY <2>1
    <3> QED BY <3>1, <3>2
  <2>3. IsFiniteSet(A) /\ IsFiniteSet(B) /\ Cardinality(A) \in Nat /\ Cardinality(B) \in Nat
    BY <1>1, <1>4
  <2> HIDE DEF A, B
  <2>4. Cardinality(A \cup {w}) = Cardinality(A) + 1
    BY <2>2, <2>3, FS_AddElement
  <2>5. Cardinality(A \cup {w}) <= Cardinality(B)
    BY <2>2, <2>3, FS_Subset
  <2>6. Cardinality(A) < Cardinality(B)
    BY <2>3, <2>4, <2>5
  <2> QED BY <2>6 DEF A, B
<1>6. CASE M = {}
  <2>1. threads \cup M = threads
    BY <1>6
  <2> QED BY <1>6, <2>1
<1>7. CASE M # {}
  <2> HIDE DEF T, n, M, rank
  <2>0. \A w \in M : w \in Workers /\ rank(w) \in Nat /\ rank(w) + n < T
    BY <1>1, <1>3, <1>4
  <2>1. n < T
    BY <1>2, <1>7, <2>0
  <2> DEFINE f == [w \in M |-> rank(w)]
  <2>2. f \in [M -> 0 .. T - n - 1]
    <3>1. \A w \in M : rank(w) \in 0 .. T - n - 1
      BY <1>2, <2>0
    <3> QED BY <3>1
  <2>3. \A a, b \in M : f[a] = f[b] => a = b
    <3> SUFFICES ASSUME NEW a \in M, NEW b \in M, rank(a) = rank(b) PROVE a = b
      OBVIOUS
    <3>1. a \in Free /\ b \in Free /\ a \in Nat /\ b \in Nat /\ rank(a) \in Nat
      BY <1>1, <1>3, <1>4
    <3>2. ~(a < b) /\ ~(b < a)
      BY <1>5, <3>1
    <3> QED BY <3>1, <3>2
  <2>4. f \in Injection(M, 0 .. T - n - 1)
    BY <2>2, <2>3 DEF Injection, IsInjective
  <2>5. IsFiniteSet(0 .. T - n - 1) /\ Cardinality(0 .. T - n - 1) = T - n
    BY <1>2, <2>1, FS_Interval
  <2>6. IsFiniteSet(M) /\ Cardinality(M) <= T - n
    BY <2>4, <2>5, FS_Injection
  <2>7. /\ Cardinality(threads \cup M) = Cardinality(threads) + Cardinality(M) - Cardinality(threads \cap M)
        /\ Cardinality(M) \in Nat /\ Cardinality(threads \cap M) \in Nat
    BY <1>2, <2>6, FS_Union, FS_Intersection, FS_CardinalityType
  <2>9. Cardinality(threads) = n /\ M = Missing(q)
    BY DEF n, M
  <2>8. Limit \in Nat
    BY QueueAssumption DEF Limit
  <2>10. Cardinality(threads \cup M) <= Limit
    BY <1>2, <2>6, <2>7, <2>8, <2>9
  <2> QED BY <1>1, <1>3, <2>9, <2>10
<1> QED BY <1>1, <1>3, <1>6, <1>7

\* A step of the pool that starts and forgets nobody.
Shrinks ==
  /\ threads' \subseteq threads
  /\ \A w \in Workers : Working(w)' => Working(w) /\ (w \in threads => w \in threads')

\* A worker's own step: it goes on, or deregisters itself as it ends.
LEMMA WorkerShrinks ==
  ASSUME IInv, NEW w \in Workers, WorkerStep(w)
  PROVE  Shrinks
<1>0. wpc \in [Workers -> WorkerPoint]
  BY DEF IInv, TypeOK, PoolOK
<1>1. \A v \in Workers \ {w} : wpc'[v] = wpc[v]
  BY <1>0, OutcomeStep DEF WorkerStep, WorkerInit, WorkerInitFails, Get, GetStop, Enter, Register, Attempt, Retry,
     Delay, Release, Exit, Leave, Move
<1>2. CASE WorkerInitFails(w) \/ Exit(w)
  BY <1>0, <1>1, <1>2 DEF WorkerInitFails, Exit, Move, Shrinks, Working
<1>3. CASE Skip(w) \/ Cancelled(w) \/ Succeed(w) \/ Fail(w)
  <2>1. threads' = threads /\ Working(w)
    BY <1>3, OutcomeStep DEF Working, Carrying
  <2> QED BY <1>1, <2>1 DEF Shrinks, Working
<1>4. CASE ~(WorkerInitFails(w) \/ Exit(w) \/ Skip(w) \/ Cancelled(w) \/ Succeed(w) \/ Fail(w))
  <2>1. threads' = threads
    BY <1>4 DEF WorkerStep, WorkerInit, Get, GetStop, Enter, Register, Attempt, Retry, Delay, Release, Leave
  <2>2. Working(w)' => Working(w)
    BY <1>0, <1>4 DEF WorkerStep, WorkerInit, Get, GetStop, Enter, Register, Attempt, Retry, Delay, Release, Leave,
       Move, Working
  <2> QED BY <1>1, <2>1, <2>2 DEF Shrinks, Working
<1> QED BY <1>2, <1>3, <1>4

\* Threads are added by a spawn or a task that comes due, and forgotten at
\* the end of _stop_workers.
LEMMA PoolStep ==
  ASSUME IInv, [Next]_vars
  PROVE  Shrinks \/ TimerFire \/ \E c \in Callers : Spawn(c) \/ ForgetThreads(c)
<1>1. wpc \in [Workers -> WorkerPoint] /\ threads \subseteq Workers
  BY DEF IInv, TypeOK, PoolOK
<1>2. ASSUME UNCHANGED <<threads, wpc>> PROVE Shrinks
  BY <1>2 DEF Shrinks, Working
<1>3. ASSUME NEW th \in Th, ThreadStep(th) PROVE UNCHANGED <<threads, wpc>>
  BY <1>3 DEF ThreadStep, Publish, AbortHalt, CutLater, DrainTask, DrainStop, DrainEmpty, PutBackTask, PutBackStop,
     PutBackEnd, Drop, DropEnd, SnapActive, Interrupt, AbortEnd, SweepTo
<1>4. ASSUME NEW w \in Workers, WorkerStep(w) PROVE Shrinks
  BY <1>4, WorkerShrinks
<1>5. ASSUME NEW c \in Callers, NewCall(c) \/ Returning(c) \/ RunTimeout(c), ~Spawn(c),
   ~ForgetThreads(c) PROVE Shrinks
  <2>1. CASE StartThread(c)
    <3>1. PICK w \in toStart[c] : wpc' = [wpc EXCEPT ![w] = "init"]
      BY <2>1 DEF StartThread
    <3>2. w \in Workers /\ wpc[w] = "reg"
      BY <3>1 DEF IInv, Starting, TypeOK, MethodsOK, Th
    <3>3. threads' = threads
      BY <2>1 DEF StartThread
    <3> QED BY <1>1, <3>1, <3>2, <3>3 DEF Shrinks, Working
  <2>2. CASE ~StartThread(c)
    <3>1. CASE Submit(c) \/ Resubmit(c)
      BY <1>2, <3>1, SubmitStep DEF WaitForRoom, Admit
    <3>2. CASE ~(Submit(c) \/ Resubmit(c))
      BY <1>2, <1>5, <2>2, <3>2 DEF NewCall, Returning, RunTimeout, Start, Join, Run, Shutdown, Cancel, CancelTask,
         Reset,
       ClearResults, SnapThreads, PutStop, JoinWorker, JoinRaises, JoinedAll, StopTo, JoinStart, RunStart,
       StartRefused, Park, JoinReturn, RunIdle, RunDrained, RunEnd, DownPeek, DownStart, Refuse, DownDrained,
       DownHalt, DownStop, Close, CancelReturn, ResetDrained, ResetClear, GotoIdle, Goto
    <3> QED BY <3>1, <3>2
  <2> QED BY <2>1, <2>2
<1>6. CASE TimerStep \/ UNCHANGED vars
  BY <1>2, <1>6 DEF TimerStep, TimerLeave, TimerEnd
<1> QED BY <1>2, <1>3, <1>4, <1>5, <1>6 DEF Next

\* A bystander cancels a task or clears results.
LEMMA BystanderStep ==
  ASSUME NEW s \in Callers, Alone(s), NEW c \in Callers \ {s}, Bystander(c),
         NewCall(c) \/ Returning(c) \/ RunTimeout(c)
  PROVE  Cancel(c) \/ CancelTask(c) \/ ClearResults(c) \/ CancelReturn(c)
<1>1. pc[c] \in {"idle", "cancel", "miss", "hit"} /\ sub[c] \notin {"spawn", "starting"} \cup StopPoint
  BY DEF Bystander
<1>2. Mine[c] = {} /\ \A o \in May[c] : o \in {"cancel", "clear"}
  BY DEF Alone
<1>3. ~RunTimeout(c)
  BY <1>1 DEF RunTimeout
<1>4. ~(Submit(c) \/ Start(c) \/ Join(c) \/ Run(c) \/ Shutdown(c) \/ Reset(c))
  BY <1>2 DEF Submit, Start, Join, Run, Shutdown, Reset, Call
<1>5. ~(Spawn(c) \/ StartThread(c) \/ SnapThreads(c) \/ PutStop(c) \/ JoinWorker(c) \/ JoinRaises(c) \/ JoinedAll(c)
        \/ ForgetThreads(c))
  BY <1>1 DEF Spawn, StartThread, SnapThreads, PutStop, JoinWorker, JoinRaises, JoinedAll, ForgetThreads, StopTo,
     StopPoint
<1>6. ~(\/ Resubmit(c) \/ JoinStart(c) \/ RunStart(c) \/ StartRefused(c) \/ Park(c) \/ JoinReturn(c) \/ RunIdle(c)
        \/ RunDrained(c) \/ RunEnd(c))
  BY <1>1 DEF Resubmit, JoinStart, RunStart, StartRefused, Park, JoinReturn, RunIdle, RunDrained, RunEnd, GotoIdle,
     Goto, At
<1>7. ~(DownPeek(c) \/ DownStart(c) \/ Refuse(c) \/ DownDrained(c) \/ DownHalt(c) \/ DownStop(c) \/ Close(c)
        \/ ResetDrained(c) \/ ResetClear(c))
  BY <1>1 DEF DownPeek, DownStart, Refuse, DownDrained, DownHalt, DownStop, Close, ResetDrained, ResetClear, GotoIdle,
     Goto, At
<1> QED BY <1>3, <1>4, <1>5, <1>6, <1>7 DEF NewCall, Returning

\* What a sweep or a publication does to control points and flags.
LEMMA ThreadControl ==
  ASSUME IInv, NEW th \in Th, ThreadStep(th)
  PROVE  /\ UNCHANGED <<threads, wpc, snap>> /\ (halt => halt') /\ (outstanding' = outstanding \/ pub[th] # NULL)
         /\ \A c \in Callers : pc'[c] = pc[c] \/ (c = th /\ pc[c] = "miss" /\ pc'[c] = "hit")
         /\ \A u \in Th \ {th} : sub'[u] = sub[u]
         /\ \/ sub'[th] = sub[th]
            \/ sub'[th] \notin {"spawn", "starting"} \cup StopPoint /\ (sub[th] = "halt" => halt')
            \/ sub[th] \in {"purge", "restore"} /\ sub'[th] \in {"restore", "forget"}
<1>1. sub \in [Th -> MethodPoint] /\ pc \in [Callers -> CallerPoint]
  BY DEF IInv, TypeOK, MethodsOK, CallingOK
<1>2. /\ UNCHANGED <<threads, wpc, snap>> /\ (halt => halt') /\ (outstanding' = outstanding \/ pub[th] # NULL)
      /\ \A c \in Callers : pc'[c] = pc[c] \/ (c = th /\ pc[c] = "miss" /\ pc'[c] = "hit")
  BY <1>1 DEF ThreadStep, Publish, AbortHalt, CutLater, DrainTask, DrainStop, DrainEmpty, PutBackTask, PutBackStop,
     PutBackEnd, Drop, DropEnd, SnapActive, Interrupt, AbortEnd, SweepTo
<1>3. CASE UNCHANGED sub
  BY <1>2, <1>3
<1>4. CASE Publish(th) \/ AbortHalt(th)
  BY <1>1, <1>2, <1>4 DEF Publish, AbortHalt, SweepTo, StopPoint
<1>5. CASE CutLater(th) \/ SnapActive(th) \/ AbortEnd(th) \/ DrainEmpty(th)
  BY <1>1, <1>2, <1>5 DEF CutLater, SnapActive, AbortEnd, DrainEmpty, SweepTo, StopPoint
<1>6. CASE PutBackEnd(th)
  <2>1. PICK to : /\ sub[th] \in {"put", "restore"} /\ sub' = [sub EXCEPT ![th] = to]
                  /\ to \in {"rec2", "none"} \/ (to = "forget" /\ sub[th] = "restore")
    BY <1>6 DEF PutBackEnd, SweepTo
  <2> QED BY <1>1, <1>2, <2>1 DEF StopPoint
<1>7. CASE DropEnd(th)
  <2>1. PICK to \in {"drain", "none", "snap"} : sub[th] \in {"rec1", "rec2"} /\ sub' = [sub EXCEPT ![th] = to]
    BY <1>7 DEF DropEnd, SweepTo
  <2> QED BY <1>1, <1>2, <2>1 DEF StopPoint
<1>8. CASE DrainTask(th) \/ DrainStop(th) \/ PutBackTask(th) \/ PutBackStop(th) \/ Drop(th) \/ Interrupt(th)
  BY <1>3, <1>8 DEF DrainTask, DrainStop, PutBackTask, PutBackStop, Drop, Interrupt
<1> QED BY <1>4, <1>5, <1>6, <1>7, <1>8 DEF ThreadStep

\* While the workers are being stopped no task that comes due starts another.
LEMMA TimerQuiet ==
  ASSUME CInv, NEW s \in Callers, Stopping(s), sub[s] \in StopPoint, TimerFire
  PROVE  Shrinks
<1>1. PICK t \in later :
        LET due == {t} \ Final
            new == IF due = {} THEN {} ELSE Missing(ready \cup due)
        IN threads' = threads \cup new /\ wpc' = [w \in Workers |-> IF w \in new THEN "init" ELSE wpc[w]]
  BY DEF TimerFire
<1>2. t \in Live
  BY DEF CInv, IInv, OneOwner, Somewhere, TypeOK, TasksOK
<1>3. outstanding # 0
  <2>1. Unpublished # {}
    BY <1>2 DEF Unpublished
  <2> QED BY <2>1, UnpublishedFinite, FS_EmptySet DEF Accounting, CInv
<1>4. \A q : Missing(q) = {}
  BY <1>3 DEF Stopping, Missing, MaySpawn
<1>5. threads' = threads /\ \A w \in Workers : wpc'[w] = wpc[w]
  BY <1>1, <1>4 DEF CInv, IInv, TypeOK, PoolOK
<1> QED BY <1>5 DEF Shrinks, Working

\* The step leaves s where it is.
Steady(s) ==
  /\ pc'[s] = pc[s] /\ sub'[s] = sub[s] /\ snap'[s] = snap[s]
  /\ halt => halt'
  /\ outstanding = 0 => outstanding' = 0

\* So its workers stay waited for, or dead.
LEMMA SteadyStopping ==
  ASSUME NEW s \in Callers, Stopping(s), Steady(s), sub[s] \in StopPoint => Shrinks
  PROVE  Stopping(s)'
BY DEF Stopping, Steady, Shrinks, StopPoint

\* The steps of workers, of the timer thread, of bystanders, and the sweeps of all of these.
LEMMA OthersSteady ==
  ASSUME CInv, NEW s \in Callers,
         \/ \E th \in Th \ {s} : ThreadStep(th)
         \/ \E w \in Workers : WorkerStep(w)
         \/ \E c \in Callers \ {s} : Cancel(c) \/ CancelTask(c) \/ ClearResults(c) \/ CancelReturn(c)
         \/ TimerStep \/ UNCHANGED vars
  PROVE  Steady(s)
<1>1. /\ sub \in [Th -> MethodPoint] /\ pc \in [Callers -> CallerPoint] /\ snap \in [Th -> SUBSET Workers]
      /\ s \in Th /\ \A w \in Workers : w # s
  BY SetsAssumption DEF CInv, IInv, TypeOK, MethodsOK, CallingOK, Th
<1>2. ASSUME NEW th \in Th \ {s}, ThreadStep(th) PROVE Steady(s)
  BY <1>1, <1>2, ThreadControl, PublisherOwed DEF Steady, CInv
<1>3. ASSUME NEW w \in Workers, WorkerStep(w) PROVE Steady(s)
  <2>1. CASE Skip(w) \/ Cancelled(w) \/ Succeed(w) \/ Fail(w)
    BY <2>1, OutcomeStep DEF Steady, CInv
  <2>2. CASE ~(Skip(w) \/ Cancelled(w) \/ Succeed(w) \/ Fail(w))
    BY <1>1, <1>3, <2>2 DEF WorkerStep, WorkerInit, WorkerInitFails, Get, GetStop, Enter, Register, Attempt, Retry,
       Delay, Release, Exit, Leave, Move, Steady
  <2> QED BY <2>1, <2>2
<1>4. ASSUME NEW c \in Callers \ {s}, Cancel(c) \/ CancelTask(c) \/ ClearResults(c) \/ CancelReturn(c) PROVE Steady(s)
  <2>1. UNCHANGED <<halt, outstanding, snap>>
    BY <1>4 DEF Cancel, CancelTask, ClearResults, CancelReturn
  <2>2. pc'[s] = pc[s] /\ sub'[s] = sub[s]
    BY <1>1, <1>4 DEF Cancel, CancelTask, ClearResults, CancelReturn, Call, IntoSweep
  <2> QED BY <2>1, <2>2 DEF Steady
<1>5. CASE TimerStep \/ UNCHANGED vars
  BY <1>5 DEF TimerStep, TimerFire, TimerLeave, TimerEnd, Steady
<1> QED BY <1>2, <1>3, <1>4, <1>5

\* The sweeps s itself is inside of.
LEMMA OwnSweep ==
  ASSUME CInv, NEW s \in Callers, Stopping(s), ThreadStep(s)
  PROVE  Stopping(s)'
<1>1. s \in Th /\ IInv
  BY DEF Th, CInv
<1>2. /\ UNCHANGED <<threads, wpc, snap>> /\ (halt => halt') /\ (outstanding = 0 => outstanding' = 0)
      /\ pc'[s] = pc[s] \/ (pc[s] = "miss" /\ pc'[s] = "hit")
      /\ \/ sub'[s] = sub[s]
         \/ sub'[s] \notin {"spawn", "starting"} \cup StopPoint /\ (sub[s] = "halt" => halt')
         \/ sub[s] \in {"purge", "restore"} /\ sub'[s] \in {"restore", "forget"}
  BY <1>1, ThreadControl, PublisherOwed
<1> QED BY <1>2 DEF Stopping, StopPoint, Working

\* The calls of s: it is in _stop_workers only with the queue halted or
\* nothing outstanding, waits for all that are registered, and forgets none
\* that lives.
LEMMA OwnCall ==
  ASSUME CInv, Few, NEW s \in Callers, Stopping(s), NewCall(s) \/ Returning(s) \/ RunTimeout(s)
  PROVE  Stopping(s)'
<1>0. /\ sub \in [Th -> MethodPoint] /\ pc \in [Callers -> CallerPoint] /\ snap \in [Th -> SUBSET Workers]
      /\ wpc \in [Workers -> WorkerPoint] /\ s \in Th
  BY DEF CInv, IInv, TypeOK, MethodsOK, CallingOK, PoolOK, Th
\* Far from _stop_workers.
<1>1. ASSUME pc'[s] \notin {"down.stop", "down.close"}, sub'[s] \notin StopPoint PROVE Stopping(s)'
  BY <1>1 DEF Stopping, StopPoint
<1>2. CASE Submit(s) \/ Resubmit(s)
  <2>1. pc'[s] \in {"idle", "full"} /\ sub'[s] \in {"none", "spawn", sub[s]} /\ sub[s] = "none"
    BY <1>0, <1>2, SubmitStep DEF WaitForRoom, Admit, Resting, CInv
  <2> QED BY <1>1, <2>1 DEF StopPoint
<1>3. CASE Start(s) \/ Join(s) \/ Run(s) \/ Shutdown(s) \/ Cancel(s) \/ CancelTask(s) \/ Reset(s) \/ ClearResults(s)
  <2>1. pc'[s] \in {"idle", "join", "join.start", "run.start", "down.peek", "force.refuse", "cancel", "miss", "reset.drain"}
    BY <1>0, <1>3 DEF Start, Join, Run, Shutdown, Cancel, CancelTask, Reset, ClearResults, Call
  <2>2. sub'[s] \in {"none", "spawn", "rec2", "drain", "halt"}
    BY <1>0, <1>3 DEF Start, Join, Run, Shutdown, Cancel, CancelTask, Reset, ClearResults, Call, At, Resting,
       StartSection, Into, IntoSweep
  <2> QED BY <1>1, <2>1, <2>2 DEF StopPoint
<1>4. CASE \/ JoinStart(s) \/ RunStart(s) \/ StartRefused(s) \/ JoinReturn(s) \/ RunTimeout(s) \/ RunEnd(s)
           \/ DownPeek(s) \/ DownStart(s) \/ DownDrained(s) \/ Close(s) \/ CancelReturn(s)
  <2>1. pc'[s] \in {"join", "run.wait", "run.end", "idle", "run.drain", "down.start", "down.refuse", "down.halt"}
    BY <1>0, <1>4 DEF JoinStart, RunStart, StartRefused, JoinReturn, RunTimeout, RunEnd, DownPeek, DownStart,
       DownDrained, Close, CancelReturn, GotoIdle, Goto
  <2>2. sub'[s] \in {"none", "spawn", "halt"}
    BY <1>0, <1>4 DEF JoinStart, RunStart, StartRefused, JoinReturn, RunTimeout, RunEnd, DownPeek, DownStart,
       DownDrained, Close, CancelReturn, GotoIdle, Goto, At, Resting, StartSection, Into, IntoSweep
  <2> QED BY <1>1, <2>1, <2>2 DEF StopPoint
<1>5. CASE Park(s)
  <2>1. pc' = pc /\ sub' = sub /\ pc[s] \in {"join", "run.drain", "down.drain", "run.wait"} /\ sub[s] = "none"
    <3>1. pc[s] \notin {"reset.drain"}
      BY DEF CInv, NotResetting
    <3> QED BY <1>0, <1>5, <3>1 DEF Park, Goto, At, Resting
  <2> QED BY <1>1, <2>1 DEF StopPoint
<1>6. CASE ResetDrained(s) \/ ResetClear(s)
  BY <1>6 DEF ResetDrained, ResetClear, GotoIdle, Goto, At, CInv, NotResetting
<1>7. CASE Spawn(s) \/ StartThread(s)
  <2>1. sub[s] \in {"spawn", "starting"} /\ sub'[s] \in {"none", "starting"} /\ pc' = pc /\ halt' = halt
    BY <1>0, <1>7 DEF Spawn, StartThread
  <2> QED BY <2>1 DEF Stopping, StopPoint
<1>8. CASE RunIdle(s) \/ RunDrained(s)
  <2>1. pc'[s] = "run.end" /\ (sub'[s] = "none" \/ (sub'[s] = "stop" /\ outstanding' = 0))
    BY <1>0, <1>8 DEF RunIdle, RunDrained, GotoIdle, Goto, At, Resting, Into
  <2> QED BY <2>1 DEF Stopping, StopPoint
<1>9. CASE Refuse(s)
  <2>1. \/ pc'[s] = "down.drain" /\ sub'[s] = "none"
        \/ pc'[s] = "down.stop" /\ sub'[s] = "halt"
    BY <1>0, <1>9 DEF Refuse, Goto, At, Resting, IntoSweep
  <2> QED BY <2>1 DEF Stopping, StopPoint
<1>10. CASE DownHalt(s)
  <2>1. pc'[s] = "down.stop" /\ sub'[s] = "none" /\ halt'
    BY <1>0, <1>10 DEF DownHalt, Goto, At, Resting
  <2> QED BY <2>1 DEF Stopping, StopPoint
<1>11. CASE DownStop(s)
  <2>1. pc[s] = "down.stop" /\ sub[s] = "none" /\ pc'[s] = "down.close" /\ sub'[s] = "stop" /\ halt' = halt
    BY <1>0, <1>11 DEF DownStop, Goto, At, Resting, Into
  <2> QED BY <2>1 DEF Stopping, StopPoint
<1>12. CASE SnapThreads(s)
  <2>1. /\ sub[s] = "stop" /\ sub'[s] \in {"joining", "signal"} /\ snap'[s] = threads
        /\ UNCHANGED <<pc, halt, outstanding, wpc>>
    BY <1>0, <1>12 DEF SnapThreads, StopTo
  <2> QED BY <2>1 DEF Stopping, StopPoint, Few, Working
<1>13. CASE PutStop(s)
  <2>1. /\ sub[s] = "signal" /\ sub'[s] \in {"joining", "signal"}
        /\ UNCHANGED <<pc, halt, outstanding, wpc, snap>>
    BY <1>0, <1>13 DEF PutStop, StopTo
  <2> QED BY <2>1 DEF Stopping, StopPoint, Working
<1>14. CASE JoinWorker(s)
  <2>1. PICK w \in snap[s] : wpc[w] = "dead" /\ snap' = [snap EXCEPT ![s] = @ \ {w}]
    BY <1>14 DEF JoinWorker
  <2>2. sub[s] = "joining" /\ sub'[s] = "joining" /\ UNCHANGED <<pc, halt, outstanding, wpc>>
    BY <1>0, <1>14 DEF JoinWorker, StopTo
  <2>3. snap'[s] = snap[s] \ {w}
    BY <1>0, <2>1
  <2> QED BY <2>1, <2>2, <2>3 DEF Stopping, StopPoint, Working
<1>15. CASE JoinRaises(s)
  <2>1. sub'[s] = "none" /\ pc'[s] \in {"run.end", "idle"}
    BY <1>0, <1>15 DEF JoinRaises, StopTo
  <2> QED BY <1>1, <2>1 DEF StopPoint
<1>16. CASE JoinedAll(s)
  <2>1. sub[s] = "joining" /\ sub'[s] = "purge" /\ snap[s] = {} /\ UNCHANGED <<pc, halt, outstanding, wpc>>
    BY <1>0, <1>16 DEF JoinedAll, StopTo
  <2> QED BY <2>1 DEF Stopping, StopPoint, Working
<1>17. CASE ForgetThreads(s)
  <2>1. sub[s] = "forget" /\ sub'[s] = "none" /\ UNCHANGED <<pc, halt>>
    BY <1>0, <1>17 DEF ForgetThreads, StopTo
  <2> QED BY <2>1 DEF Stopping, StopPoint
<1> QED BY <1>2, <1>3, <1>4, <1>5, <1>6, <1>7, <1>8, <1>9, <1>10, <1>11, <1>12, <1>13, <1>14, <1>15, <1>16, <1>17
        DEF NewCall, Returning

\* A bystander stays one.
LEMMA StaysBystander ==
  ASSUME CInv, NEW s \in Callers, Alone(s), \A d \in Callers \ {s} : Bystander(d), NEW c \in Callers \ {s},
  [Next]_vars PROVE  Bystander(c)'
<1>0. /\ sub \in [Th -> MethodPoint] /\ pc \in [Callers -> CallerPoint]
      /\ c \in Th /\ IInv /\ \A w \in Workers : w # c
  BY SetsAssumption DEF CInv, IInv, TypeOK, MethodsOK, CallingOK, Th
<1>1. Bystander(c)
  OBVIOUS
<1>2. ASSUME pc'[c] = pc[c], sub'[c] = sub[c] PROVE Bystander(c)'
  BY <1>1, <1>2 DEF Bystander
<1>3. ASSUME NEW th \in Th, ThreadStep(th) PROVE Bystander(c)'
  BY <1>0, <1>1, <1>3, ThreadControl DEF Bystander, StopPoint
<1>4. CASE (\E w \in Workers : WorkerStep(w)) \/ TimerStep \/ UNCHANGED vars
  <2>1. Steady(c)
    BY <1>4, OthersSteady
  <2> QED BY <1>2, <2>1 DEF Steady
<1>5. ASSUME NEW d \in Callers, NewCall(d) \/ Returning(d) \/ RunTimeout(d) PROVE Bystander(c)'
  <2>1. CASE d = c
    <3>1. CASE Cancel(c) \/ CancelTask(c)
      BY <1>0, <1>1, <3>1 DEF Cancel, CancelTask, Call, IntoSweep, Bystander, StopPoint
    <3>2. CASE ClearResults(c) \/ CancelReturn(c)
      BY <1>0, <1>1, <3>2 DEF ClearResults, CancelReturn, Call, IntoSweep, Bystander, StopPoint
    <3> QED BY <1>1, <1>5, <2>1, <3>1, <3>2, BystanderStep
  <2>2. CASE d # c
    <3>1. pc'[c] = pc[c] /\ sub'[c] = sub[c]
      BY <1>0, <1>5, <2>2, CallLocal
    <3> QED BY <1>2, <3>1
  <2> QED BY <2>1, <2>2
<1> QED BY <1>3, <1>4, <1>5 DEF Next

\* Every step keeps the limit.
LEMMA LimitStep ==
  ASSUME NoReset, NEW s \in Callers, Alone(s), HInv(s), [Next]_vars
  PROVE  HInv(s)'
<1>0. CInv /\ IInv /\ Few /\ (\A c \in Callers \ {s} : Bystander(c)) /\ Stopping(s)
  BY DEF HInv, CInv
<1>1. CInv'
  BY <1>0, CountStep
<1>2. \A c \in Callers \ {s} : Bystander(c)'
  BY <1>0, StaysBystander
<1>3. Few'
  <2>1. threads \subseteq Workers /\ IsFiniteSet(Workers) /\ ready \subseteq Tasks /\ later \subseteq Tasks
    BY <1>0, SetsAssumption DEF IInv, TypeOK, PoolOK, TasksOK
  <2>2. CASE Shrinks
    <3>1. IsFiniteSet(threads) /\ threads' \in SUBSET threads
      BY <2>1, <2>2, FS_Subset DEF Shrinks
    <3>2. Cardinality(threads') <= Cardinality(threads) /\ Cardinality(threads) \in Nat /\ Cardinality(threads') \in Nat
      BY <3>1, FS_Subset, FS_CardinalityType
    <3>3. Cardinality(threads) <= Limit /\ Limit \in Nat
      BY <1>0, QueueAssumption DEF Few, Limit
    <3>4. Cardinality(threads') <= Limit
      BY <3>2, <3>3
    <3> QED BY <1>0, <2>2, <3>4 DEF Few, Shrinks, Limit
  <2>3. ASSUME NEW q \in SUBSET Tasks, NEW point, threads' = threads \cup Missing(q), point \notin {"dead", "exit",
     "leave"},
               \A w \in Workers : wpc'[w] = IF w \in Missing(q) THEN point ELSE wpc[w]
        PROVE  Few'
    <3>1. Cardinality(threads \cup Missing(q)) <= Limit
      BY <1>0, MissingBounded DEF Few
    <3>2. Cardinality(threads') <= Limit
      BY <2>3, <3>1
    <3> QED BY <1>0, <2>3, <3>2 DEF Few, Working, Limit
  <2>4. CASE TimerFire
    <3>1. PICK t \in later :
            LET due == {t} \ Final
                new == IF due = {} THEN {} ELSE Missing(ready \cup due)
            IN threads' = threads \cup new /\ wpc' = [w \in Workers |-> IF w \in new THEN "init" ELSE wpc[w]]
      BY <2>4 DEF TimerFire
    <3>2. CASE {t} \ Final = {}
      <4>1. threads' = threads /\ \A w \in Workers : wpc'[w] = wpc[w]
        BY <3>1, <3>2
      <4> QED BY <2>2, <4>1 DEF Shrinks, Working
    <3>3. CASE {t} \ Final # {}
      <4> DEFINE q == ready \cup ({t} \ Final)
      <4>1. q \in SUBSET Tasks
        BY <2>1, <3>1
      <4>2. threads' = threads \cup Missing(q) /\ \A w \in Workers : wpc'[w] = IF w \in Missing(q) THEN "init" ELSE wpc[w]
        BY <3>1, <3>3
      <4> HIDE DEF q
      <4> QED BY <2>3, <4>1, <4>2
    <3> QED BY <3>2, <3>3
  <2>5. ASSUME NEW c \in Callers, Spawn(c) PROVE Few'
    <3>1. threads' = threads \cup Missing(ready) /\ \A w \in Workers : wpc'[w] = IF w \in Missing(ready) THEN "reg" ELSE wpc[w]
      BY <2>5 DEF Spawn
    <3> QED BY <2>1, <2>3, <3>1
  <2>6. ASSUME NEW c \in Callers, ForgetThreads(c) PROVE Few'
    <3>1. sub[c] = "forget" /\ threads' = {} /\ wpc' = wpc
      BY <2>6 DEF ForgetThreads, StopTo
    <3>2. c = s
      BY <1>0, <3>1 DEF Bystander, StopPoint
    <3>3. \A w \in Workers : ~Working(w)'
      BY <1>0, <3>1, <3>2 DEF Stopping, Working
    <3>4. Cardinality(threads') <= Limit
      BY <3>1, FS_EmptySet, QueueAssumption DEF Limit
    <3> QED BY <3>3, <3>4 DEF Few, Limit
  <2> QED BY <1>0, <2>2, <2>4, <2>5, <2>6, PoolStep
<1>4. Stopping(s)'
  <2>1. CASE ThreadStep(s)
    BY <1>0, <2>1, OwnSweep
  <2>2. CASE NewCall(s) \/ Returning(s) \/ RunTimeout(s)
    BY <1>0, <2>2, OwnCall
  <2>3. ASSUME NEW c \in Callers \ {s}, NewCall(c) \/ Returning(c) \/ RunTimeout(c) PROVE Stopping(s)'
    <3>1. Cancel(c) \/ CancelTask(c) \/ ClearResults(c) \/ CancelReturn(c)
      BY <1>0, <2>3, BystanderStep
    <3>2. Steady(s) /\ UNCHANGED <<threads, wpc>>
      BY <1>0, <3>1, OthersSteady DEF Cancel, CancelTask, ClearResults, CancelReturn
    <3> QED BY <1>0, <3>2, SteadyStopping DEF Shrinks, Working
  <2>4. CASE \/ (\E th \in Th \ {s} : ThreadStep(th)) \/ (\E w \in Workers : WorkerStep(w)) \/ TimerStep
             \/ UNCHANGED vars
    <3>1. Steady(s)
      BY <1>0, <2>4, OthersSteady
    <3>2. Shrinks \/ TimerFire
      <4>1. ASSUME UNCHANGED <<threads, wpc>> PROVE Shrinks
        BY <4>1 DEF Shrinks, Working
      <4> QED BY <1>0, <2>4, <4>1, WorkerShrinks, ThreadControl DEF TimerStep, TimerLeave, TimerEnd
    <3> QED BY <1>0, <3>1, <3>2, TimerQuiet, SteadyStopping
  <2> QED BY <2>1, <2>2, <2>3, <2>4 DEF Next
<1> QED BY <1>1, <1>2, <1>3, <1>4 DEF HInv

\* It holds before the first call.
LEMMA LimitInit ==
  ASSUME Init, NEW s \in Callers
  PROVE  HInv(s)
<1>1. CInv
  BY CountInit
<1>2. Few
  <2>1. threads = {} /\ \A w \in Workers : ~Working(w)
    BY DEF Init, Working
  <2> QED BY <2>1, FS_EmptySet, QueueAssumption DEF Few, Limit
<1>3. (\A c \in Callers \ {s} : Bystander(c)) /\ Stopping(s)
  BY DEF Init, Bystander, Stopping, StopPoint, Th
<1> QED BY <1>1, <1>2, <1>3 DEF HInv

\* Where one thread submits, starts, runs and shuts down, and others cancel
\* and clear results, there are never more worker threads than the limit: no
\* start, submission or task that comes due adds one to those being stopped,
\* and a worker that is forgotten is dead.
THEOREM WorkersLimited ==
  ASSUME NoReset, NEW s \in Callers, Alone(s)
  PROVE  Spec => []WorkerLimit
<1>1. Init => HInv(s)
  BY LimitInit
<1>2. HInv(s) /\ [Next]_vars => HInv(s)'
  BY LimitStep
<1>3. HInv(s) => WorkerLimit
  <2> SUFFICES ASSUME HInv(s) PROVE WorkerLimit
    OBVIOUS
  <2>1. threads \cup {w \in Workers : Working(w)} = threads
    BY DEF HInv, Few
  <2> QED BY <2>1 DEF HInv, Few, Limit, WorkerLimit
<1> QED BY <1>1, <1>2, <1>3, PTL DEF Spec

-----------------------------------------------------------------------------
(* The stop handshake.                                                      *)

\* Those _stop_workers waits for that still need a sentinel.
Awaited(s) == {w \in snap[s] : Working(w)}

\* There is a sentinel, queued, set aside or yet to be put, for each of them.
\* No worker is inside _stop_workers.
Signalled(s) ==
  /\ IsFiniteSet(HeldStops) /\ \A w \in Workers : sub[w] \notin StopPoint
  /\ sub[s] \in {"signal", "joining"} => Cardinality(Awaited(s)) <= StopsAround
SInv(s) == HInv(s) /\ Signalled(s)

\* The sentinels in hand, one by one.
LEMMA HeldIs == \A x : x \in HeldStops <=> \E th \in Th : \E i \in 1 .. handStops[th] : x = <<th, i>>
BY DEF HeldStops

\* One more in hand, or one less.
LEMMA OneMoreHeld ==
  ASSUME handStops \in [Th -> Nat], IsFiniteSet(HeldStops), NEW th \in Th,
         handStops' = [handStops EXCEPT ![th] = handStops[th] + 1]
  PROVE  IsFiniteSet(HeldStops') /\ Cardinality(HeldStops') = Cardinality(HeldStops) + 1
<1> DEFINE new == <<th, handStops[th] + 1>>
<1>1. \A x : x \in HeldStops' <=> \E u \in Th : \E i \in 1 .. handStops'[u] : x = <<u, i>>
  BY DEF HeldStops
<1>2. \A u \in Th : handStops[u] \in Nat /\ handStops'[u] = IF u = th THEN handStops[u] + 1 ELSE handStops[u]
  OBVIOUS
<1>3. \A u \in Th : \A i : i \in 1 .. handStops'[u] <=> i \in 1 .. handStops[u] \/ (u = th /\ i = handStops[th] + 1)
  BY <1>2
<1>4. \A x : x \in HeldStops' <=> x \in HeldStops \/ x = new
  BY <1>1, <1>3, HeldIs
<1>5. HeldStops' = HeldStops \cup {new}
  BY <1>4
<1>6. new \notin HeldStops
  BY <1>2, HeldIs
<1> QED BY <1>5, <1>6, FS_AddElement

LEMMA OneLessHeld ==
  ASSUME handStops \in [Th -> Nat], IsFiniteSet(HeldStops), NEW th \in Th, handStops[th] > 0,
         handStops' = [handStops EXCEPT ![th] = handStops[th] - 1]
  PROVE  IsFiniteSet(HeldStops') /\ Cardinality(HeldStops') = Cardinality(HeldStops) - 1
<1> DEFINE last == <<th, handStops[th]>>
<1>1. \A x : x \in HeldStops' <=> \E u \in Th : \E i \in 1 .. handStops'[u] : x = <<u, i>>
  BY DEF HeldStops
<1>2. \A u \in Th : handStops[u] \in Nat /\ handStops'[u] = IF u = th THEN handStops[u] - 1 ELSE handStops[u]
  OBVIOUS
<1>3. \A u \in Th : \A i : i \in 1 .. handStops'[u] <=> i \in 1 .. handStops[u] /\ ~(u = th /\ i = handStops[th])
  BY <1>2
<1>4. \A x : x \in HeldStops' <=> x \in HeldStops /\ x # last
  BY <1>1, <1>3, HeldIs
<1>5. HeldStops' = HeldStops \ {last}
  BY <1>4
<1>6. last \in HeldStops
  BY <1>2, HeldIs
<1> QED BY <1>5, <1>6, FS_RemoveElement

\* n sentinels to be put by s.
LEMMA HeldBySnap ==
  ASSUME handStops \in [Th -> Nat], IsFiniteSet(HeldStops), NEW s \in Th, NEW n \in Nat,
         handStops' = [handStops EXCEPT ![s] = n]
  PROVE  IsFiniteSet(HeldStops') /\ n <= Cardinality(HeldStops')
<1> DEFINE f == [i \in 1 .. n |-> <<s, i>>]
           P == {<<s, i>> : i \in 1 .. n}
<1>1. IsFiniteSet(1 .. n) /\ Cardinality(1 .. n) = n
  BY FS_Interval
<1>2. f \in Surjection(1 .. n, P) /\ f \in Injection(1 .. n, P)
  <2>1. f \in [1 .. n -> P] /\ \A i \in 1 .. n : f[i] = <<s, i>>
    OBVIOUS
  <2>2. \A a, b \in 1 .. n : f[a] = f[b] => a = b
    BY <2>1
  <2>3. \A x \in P : \E i \in 1 .. n : f[i] = x
    BY <2>1
  <2> HIDE DEF f, P
  <2>4. DOMAIN f = 1 .. n
    BY <2>1
  <2> QED BY <2>1, <2>2, <2>3, <2>4 DEF Surjection, Injection, IsInjective
<1>3. IsFiniteSet(P) /\ Cardinality(P) = n
  <2> HIDE DEF f, P
  <2> QED BY <1>1, <1>2, FS_Surjection
<1>4. \A x : x \in HeldStops' <=> \E u \in Th : \E i \in 1 .. handStops'[u] : x = <<u, i>>
  BY DEF HeldStops
<1>5. P \in SUBSET HeldStops' /\ HeldStops' \in SUBSET (HeldStops \cup P)
  BY <1>4, HeldIs
<1>6. IsFiniteSet(HeldStops \cup P)
  BY <1>3, FS_Union
<1>7. IsFiniteSet(HeldStops')
  BY <1>5, <1>6, FS_Subset
<1> HIDE DEF P
<1>8. Cardinality(P) <= Cardinality(HeldStops')
  BY <1>5, <1>7, FS_Subset
<1> QED BY <1>3, <1>7, <1>8

\* Sentinels move as a worker takes one, a sweep sets one aside or puts it
\* back, and _stop_workers counts out and puts its own.
LEMMA StopMoves ==
  ASSUME IInv, [Next]_vars
  PROVE  \/ UNCHANGED <<stops, handStops>>
         \/ \E w \in Workers : GetStop(w)
         \/ \E th \in Th : DrainStop(th) \/ PutBackStop(th)
         \/ \E c \in Callers : SnapThreads(c) \/ PutStop(c)
<1>1. ASSUME NEW th \in Th, ThreadStep(th), ~DrainStop(th), ~PutBackStop(th) PROVE UNCHANGED <<stops, handStops>>
  BY <1>1 DEF ThreadStep, Publish, AbortHalt, CutLater, DrainTask, DrainEmpty, PutBackTask, PutBackEnd, Drop, DropEnd,
     SnapActive, Interrupt, AbortEnd, SweepTo
<1>2. ASSUME NEW w \in Workers, WorkerStep(w), ~GetStop(w) PROVE UNCHANGED <<stops, handStops>>
  BY <1>2, OutcomeStep DEF WorkerStep, WorkerInit, WorkerInitFails, Get, Enter, Register, Attempt, Retry, Delay,
     Release, Exit, Leave, Move
<1>3. ASSUME NEW c \in Callers, NewCall(c) \/ Returning(c) \/ RunTimeout(c), ~SnapThreads(c), ~PutStop(c)
      PROVE  UNCHANGED <<stops, handStops>>
  <2>1. CASE Submit(c) \/ Resubmit(c)
    BY <2>1, SubmitStep DEF WaitForRoom, Admit
  <2>2. CASE ~(Submit(c) \/ Resubmit(c))
    BY <1>3, <2>2 DEF NewCall, Returning, RunTimeout, Start, Join, Run, Shutdown, Cancel, CancelTask, Reset,
       ClearResults, Spawn, StartThread, JoinWorker, JoinRaises, JoinedAll, ForgetThreads, JoinStart, RunStart,
       StartRefused, Park, JoinReturn, RunIdle, RunDrained, RunEnd, DownPeek, DownStart, Refuse, DownDrained,
       DownHalt, DownStop, Close, CancelReturn, ResetDrained, ResetClear, GotoIdle, Goto
  <2> QED BY <2>1, <2>2
<1>4. CASE TimerStep \/ UNCHANGED vars
  BY <1>4 DEF TimerStep, TimerFire, TimerLeave, TimerEnd
<1> QED BY <1>1, <1>2, <1>3, <1>4 DEF Next

\* s enters the joins with its snapshot, and waits for fewer ever after.
LEMMA SnapshotShrinks ==
  ASSUME CInv, NEW s \in Callers, Alone(s), \A c \in Callers \ {s} : Bystander(c), [Next]_vars,
         sub'[s] \in {"signal", "joining"}
  PROVE  SnapThreads(s) \/ (sub[s] \in {"signal", "joining"} /\ snap'[s] \subseteq snap[s])
<1>0. s \in Th /\ IInv /\ sub \in [Th -> MethodPoint] /\ snap \in [Th -> SUBSET Workers]
  BY DEF Th, CInv, IInv, TypeOK, MethodsOK
<1>1. CASE Steady(s)
  BY <1>1 DEF Steady
<1>2. CASE ThreadStep(s)
  BY <1>0, <1>2, ThreadControl DEF StopPoint
<1>3. CASE NewCall(s) \/ Returning(s) \/ RunTimeout(s)
  <2>1. CASE PutStop(s) \/ JoinWorker(s)
    BY <1>0, <2>1 DEF PutStop, JoinWorker, StopTo
  <2>2. CASE Submit(s) \/ Resubmit(s)
    <3>1. sub'[s] \in {"none", "spawn", sub[s]} /\ sub[s] = "none"
      BY <1>0, <2>2, SubmitStep DEF WaitForRoom, Admit, Resting
    <3> QED BY <3>1
  <2>3. CASE Start(s) \/ Join(s) \/ Run(s) \/ Shutdown(s) \/ Cancel(s) \/ CancelTask(s) \/ Reset(s) \/ ClearResults(s)
    <3>1. sub'[s] \in {"none", "spawn", "rec2", "drain", "halt"}
      BY <1>0, <2>3 DEF Start, Join, Run, Shutdown, Cancel, CancelTask, Reset, ClearResults, Call, At, Resting,
         StartSection, Into, IntoSweep
    <3> QED BY <3>1
  <2>4. CASE \/ JoinStart(s) \/ RunStart(s) \/ StartRefused(s) \/ JoinReturn(s) \/ RunTimeout(s) \/ RunEnd(s)
             \/ DownPeek(s) \/ DownStart(s) \/ DownDrained(s) \/ Close(s) \/ CancelReturn(s) \/ Park(s)
             \/ ResetDrained(s) \/ ResetClear(s) \/ RunIdle(s) \/ RunDrained(s) \/ Refuse(s) \/ DownHalt(s)
             \/ DownStop(s)
    <3>1. sub'[s] \in {"none", "spawn", "halt", "stop", "purge"}
      BY <1>0, <2>4 DEF JoinStart, RunStart, StartRefused, JoinReturn, RunTimeout, RunEnd, DownPeek, DownStart,
         DownDrained, Close, CancelReturn, Park, ResetDrained, ResetClear, RunIdle, RunDrained, Refuse, DownHalt,
         DownStop, GotoIdle, Goto, At, Resting, StartSection, Into, IntoSweep
    <3> QED BY <3>1
  <2>5. CASE Spawn(s) \/ StartThread(s) \/ JoinRaises(s) \/ JoinedAll(s) \/ ForgetThreads(s)
    BY <1>0, <2>5 DEF Spawn, StartThread, JoinRaises, JoinedAll, ForgetThreads, StopTo
  <2> QED BY <1>3, <2>1, <2>2, <2>3, <2>4, <2>5 DEF NewCall, Returning
<1>4. ASSUME NEW c \in Callers \ {s}, NewCall(c) \/ Returning(c) \/ RunTimeout(c) PROVE Steady(s)
  BY <1>4, BystanderStep, OthersSteady
<1>5. CASE (\E th \in Th \ {s} : ThreadStep(th)) \/ (\E w \in Workers : WorkerStep(w)) \/ TimerStep \/ UNCHANGED vars
  BY <1>1, <1>5, OthersSteady
<1> QED BY <1>1, <1>2, <1>3, <1>4, <1>5 DEF Next

\* Nobody joins the ranks of those still awaited.
LEMMA AwaitedShrinks ==
  ASSUME CInv, NEW s \in Callers, Alone(s), \A c \in Callers \ {s} : Bystander(c), Stopping(s), [Next]_vars,
         sub[s] \in {"signal", "joining"}, snap'[s] \subseteq snap[s]
  PROVE  Awaited(s)' \subseteq Awaited(s)
<1>1. \A c \in Callers : ~Spawn(c) /\ ~ForgetThreads(c)
  BY DEF Bystander, StopPoint, Spawn, ForgetThreads, StopTo
<1>2. Shrinks
  BY <1>1, PoolStep, TimerQuiet DEF CInv, StopPoint
<1>3. snap[s] \subseteq Workers
  BY DEF CInv, IInv, TypeOK, MethodsOK, Th
<1> QED BY <1>2, <1>3 DEF Shrinks, Awaited

\* No worker ever is inside _stop_workers.
LEMMA WorkersAside ==
  ASSUME IInv, \A w \in Workers : sub[w] \notin StopPoint, [Next]_vars
  PROVE  \A w \in Workers : sub'[w] \notin StopPoint
<1>0. /\ sub \in [Th -> MethodPoint] /\ Workers \subseteq Th /\ \A w \in Workers : w \notin Callers
  BY SetsAssumption DEF IInv, TypeOK, MethodsOK, Th
<1>1. ASSUME NEW th \in Th, ThreadStep(th) PROVE \A w \in Workers : sub'[w] \notin StopPoint
  BY <1>0, <1>1, ThreadControl DEF StopPoint
<1>2. ASSUME NEW v \in Workers, WorkerStep(v) PROVE sub' = sub \/ sub' = [sub EXCEPT ![v] = "halt"]
  <2>1. CASE Skip(v) \/ Cancelled(v) \/ Succeed(v) \/ Fail(v)
    BY <2>1, OutcomeStep
  <2>2. CASE ~(Skip(v) \/ Cancelled(v) \/ Succeed(v) \/ Fail(v))
    BY <1>2, <2>2 DEF WorkerStep, WorkerInit, WorkerInitFails, Get, GetStop, Enter, Register, Attempt, Retry, Delay,
       Release, Exit, Leave, Move
  <2> QED BY <2>1, <2>2
<1>3. ASSUME NEW c \in Callers, NewCall(c) \/ Returning(c) \/ RunTimeout(c) PROVE \A w \in Workers : sub'[w] = sub[w]
  BY <1>0, <1>3, CallLocal
<1>4. CASE TimerStep \/ UNCHANGED vars
  BY <1>4 DEF TimerStep, TimerFire, TimerLeave, TimerEnd
<1> QED BY <1>0, <1>1, <1>2, <1>3, <1>4 DEF Next, StopPoint

\* Every step keeps the handshake.
LEMMA SignalledStep ==
  ASSUME NoReset, NEW s \in Callers, Alone(s), SInv(s), [Next]_vars
  PROVE  SInv(s)'
<1>0. /\ CInv /\ IInv /\ HInv(s) /\ Few /\ (\A c \in Callers \ {s} : Bystander(c)) /\ Stopping(s)
      /\ handStops \in [Th -> Nat] /\ snap \in [Th -> SUBSET Workers] /\ wpc \in [Workers -> WorkerPoint] /\ s \in Th
      /\ stops \in Nat /\ IsFiniteSet(HeldStops) /\ \A w \in Workers : sub[w] \notin StopPoint
  BY DEF SInv, Signalled, HInv, CInv, IInv, TypeOK, MethodsOK, TasksOK, PoolOK, Th
<1>1. HInv(s)'
  BY <1>0, LimitStep
<1>2. \A w \in Workers : sub'[w] \notin StopPoint
  BY <1>0, WorkersAside
<1> DEFINE Going == sub'[s] \in {"signal", "joining"}
           n == Cardinality(Awaited(s))
           m == Cardinality(Awaited(s)')
           h == Cardinality(HeldStops)
           k == Cardinality(HeldStops')
\* What is to be shown of the sentinels.
<1>3. ASSUME IsFiniteSet(HeldStops'), Going => m <= stops' + k PROVE SInv(s)'
  BY <1>1, <1>2, <1>3 DEF SInv, Signalled, StopsAround, Awaited
<1>4. IsFiniteSet(Awaited(s)) /\ n \in Nat /\ h \in Nat
  <2>1. Awaited(s) \in SUBSET Workers
    BY <1>0 DEF Awaited
  <2> QED BY <1>0, <2>1, SetsAssumption, FS_Subset, FS_CardinalityType
<1>5. sub[s] \in {"signal", "joining"} => n <= stops + h
  BY DEF SInv, Signalled, StopsAround, Awaited
<1>6. ASSUME Going, ~SnapThreads(s)
      PROVE  sub[s] \in {"signal",
      "joining"} /\ n <= stops + h /\ Awaited(s)' \in SUBSET Awaited(s) /\ m \in Nat /\ m <= n
  <2>1. sub[s] \in {"signal", "joining"} /\ snap'[s] \subseteq snap[s]
    BY <1>0, <1>6, SnapshotShrinks
  <2>2. Awaited(s)' \in SUBSET Awaited(s)
    BY <1>0, <2>1, AwaitedShrinks
  <2>3. IsFiniteSet(Awaited(s)') /\ m <= n
    BY <1>4, <2>2, FS_Subset
  <2> QED BY <1>5, <2>1, <2>2, <2>3, FS_CardinalityType
<1>7. stops' \in Nat
  BY <1>1 DEF HInv, CInv, IInv, TypeOK, TasksOK
<1> HIDE DEF n, m, h, k
<1>8. CASE SnapThreads(s)
  <2>1. snap'[s] = threads /\ wpc' = wpc
    BY <1>0, <1>8 DEF SnapThreads, StopTo
  <2> DEFINE t == Cardinality(threads)
  <2>2. IsFiniteSet(threads) /\ t \in Nat
    BY <1>0, SetsAssumption, FS_Subset, FS_CardinalityType DEF IInv, TypeOK, PoolOK
  <2>3. IsFiniteSet(HeldStops') /\ t <= k /\ k \in Nat
    <3>1. handStops' = [handStops EXCEPT ![s] = Cardinality(threads)]
      BY <1>8 DEF SnapThreads
    <3> QED BY <1>0, <2>2, <3>1, HeldBySnap, FS_CardinalityType DEF k
  <2>4. Awaited(s)' \in SUBSET threads
    BY <2>1 DEF Awaited
  <2>5. m <= t /\ m \in Nat
    BY <2>2, <2>4, FS_Subset, FS_CardinalityType DEF m
  <2> HIDE DEF t
  <2>6. t \in Nat /\ k \in Nat /\ m \in Nat /\ m <= t /\ t <= k
    BY <2>2, <2>3, <2>5
  <2>8. \A i \in Nat : m <= i + k
    BY <2>6
  <2>9. m <= stops' + k
    BY <1>7, <2>8
  <2> QED BY <1>3, <2>3, <2>9
<1>9. CASE UNCHANGED <<stops, handStops>> /\ ~SnapThreads(s)
  <2>1. HeldStops' = HeldStops
    BY <1>9 DEF HeldStops
  <2>2. IsFiniteSet(HeldStops') /\ k = h
    BY <1>0, <2>1 DEF k, h
  <2>3. Going => m <= stops' + k
    BY <1>0, <1>4, <1>6, <1>9, <2>2
  <2> QED BY <1>3, <2>2, <2>3
<1>10. ASSUME NEW w \in Workers, GetStop(w), ~SnapThreads(s) PROVE SInv(s)'
  <2>1. /\ stops' = stops - 1 /\ handStops' = handStops /\ wpc[w] = "get" /\ wpc' = [wpc EXCEPT ![w] = "exit"]
    BY <1>10 DEF GetStop, Move
  <2>2. HeldStops' = HeldStops
    BY <2>1 DEF HeldStops
  <2>3. IsFiniteSet(HeldStops') /\ k = h
    BY <1>0, <2>2 DEF k, h
  <2>4. ASSUME Going PROVE m <= stops' + k
    <3>1. w \in Awaited(s) /\ w \notin Awaited(s)'
      BY <1>0, <1>6, <1>10, <2>1, <2>4 DEF Awaited, Stopping, Working
    <3>2. Awaited(s)' \in SUBSET (Awaited(s) \ {w})
      BY <1>6, <1>10, <2>4, <3>1
    <3>3. IsFiniteSet(Awaited(s) \ {w}) /\ Cardinality(Awaited(s) \ {w}) = n - 1
      BY <1>4, <3>1, FS_RemoveElement DEF n
    <3>4. m <= n - 1
      BY <3>2, <3>3, FS_Subset DEF m
    <3> QED BY <1>0, <1>4, <1>6, <1>10, <2>1, <2>3, <2>4, <3>4
  <2> QED BY <1>3, <2>3, <2>4
<1>11. ASSUME NEW th \in Th, DrainStop(th), ~SnapThreads(s) PROVE SInv(s)'
  <2>1. stops' = stops - 1 /\ sub' = sub
    BY <1>11 DEF DrainStop
  <2>2. CASE sub[th] = "drain"
    <3>1. handStops' = [handStops EXCEPT ![th] = handStops[th] + 1]
      BY <1>11, <2>2 DEF DrainStop
    <3>2. IsFiniteSet(HeldStops') /\ k = h + 1
      BY <1>0, <3>1, OneMoreHeld DEF k, h
    <3>3. Going => m <= stops' + k
      BY <1>0, <1>4, <1>6, <1>11, <2>1, <3>2
    <3> QED BY <1>3, <3>2, <3>3
  <2>3. CASE sub[th] = "purge"
    <3>1. handStops' = handStops
      BY <1>0, <1>11, <2>3 DEF DrainStop
    <3>2. IsFiniteSet(HeldStops')
      BY <1>0, <3>1 DEF HeldStops
    <3>3. th = s
      BY <1>0, <2>3 DEF Bystander, StopPoint, Th
    <3>4. ~Going
      BY <2>1, <2>3, <3>3
    <3> QED BY <1>3, <3>2, <3>4
  <2> QED BY <1>11, <2>2, <2>3 DEF DrainStop
<1>12. ASSUME NEW th \in Th, PutBackStop(th) \/ (PutStop(th) /\ th \in Callers), ~SnapThreads(s) PROVE SInv(s)'
  <2>1. stops' = stops + 1 /\ handStops[th] > 0 /\ handStops' = [handStops EXCEPT ![th] = handStops[th] - 1]
    BY <1>12 DEF PutBackStop, PutStop
  <2>2. IsFiniteSet(HeldStops') /\ k = h - 1
    BY <1>0, <2>1, OneLessHeld DEF k, h
  <2>3. Going => m <= stops' + k
    BY <1>0, <1>4, <1>6, <1>12, <2>1, <2>2
  <2> QED BY <1>3, <2>2, <2>3
<1>13. \A c \in Callers : SnapThreads(c) => c = s
  BY <1>0 DEF Bystander, StopPoint, SnapThreads, StopTo
<1> QED BY <1>0, <1>8, <1>9, <1>10, <1>11, <1>12, <1>13, StopMoves DEF Th

\* Where one thread submits, starts, runs and shuts down, and others cancel
\* and clear results: no sweep, halt, failing worker or cancel that drains the
\* queue meanwhile costs a worker that is waited for its sentinel.
THEOREM HandshakeKept ==
  ASSUME NoReset, NEW s \in Callers, Alone(s)
  PROVE  Spec => []StopHandshake
<1>1. Init => SInv(s)
  <2> SUFFICES ASSUME Init PROVE SInv(s)
    OBVIOUS
  <2>1. HInv(s)
    BY LimitInit
  <2>2. HeldStops = {}
    BY DEF Init, HeldStops
  <2>3. IsFiniteSet(HeldStops)
    BY <2>2, FS_EmptySet
  <2> QED BY <2>1, <2>3 DEF Init, SInv, Signalled, StopPoint, Th
<1>2. SInv(s) /\ [Next]_vars => SInv(s)'
  BY SignalledStep
<1>3. SInv(s) => StopHandshake
  <2> SUFFICES ASSUME SInv(s), NEW c \in Callers, sub[c] = "joining"
               PROVE  Cardinality({w \in snap[c] : Working(w)}) <= StopsAround
    BY DEF StopHandshake
  <2>1. c = s
    BY DEF SInv, HInv, Bystander, StopPoint
  <2> QED BY <2>1 DEF SInv, Signalled, Awaited
<1> QED BY <1>1, <1>2, <1>3, PTL DEF Spec
=============================================================================
