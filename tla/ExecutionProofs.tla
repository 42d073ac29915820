-------------------------- MODULE ExecutionProofs --------------------------
(***************************************************************************)
(* What holds of an executing ThreadQueue or ProcessQueue for any number   *)
(* of workers, tasks and retries, whatever the callables do and however    *)
(* cancellations and aborts fall among the workers' steps.                 *)
(*                                                                         *)
(* The inductive invariant IInv has a part for each question: the types,   *)
(* where a worker stands and with which task (Control), which subprocess   *)
(* belongs to whom (Slots), what its pipes hold (Pipes), how far an        *)
(* interrupt has come when a worker goes to sleep (Reach) and where the    *)
(* client's callbacks are (Once). Each is preserved by every step; what    *)
(* the steps do to a part is said once, by a few classes of steps: a       *)
(* worker Goes, Takes, Starts or Leaves, an interrupting thread Turns,     *)
(* a worker Spawns or Reaps, and all the rest happens Elsewhere.           *)
(***************************************************************************)
EXTENDS Execution, FiniteSetTheorems, SequenceTheorems, TLAPS

USE DEF workerVars, handleVars, clientVars, threadVars, procVars

-----------------------------------------------------------------------------
(* The types, in the parts of TypeOK, and where every worker stands. *)

WKType == wk \in [Workers -> [pc : WorkerPoints, task : Tasks \cup {NULL}, out : Endings \cup {NULL}]]
ABRec == [pc : AbortPoints, kill : BOOLEAN, swept : SUBSET Tasks,
          todo : SUBSET Tasks, cur : Tasks \cup {NULL}]
ABType == ab \in [Threads -> ABRec]
CtlType == ctl \in [Tasks -> [cancelled : BOOLEAN, wake : Nat, slot : Workers \cup {NULL}]]
CoreType == active \subseteq Tasks /\ {halt, locked} \subseteq BOOLEAN /\ asks \in 0 .. Budget
HandleType ==
  /\ result \in [Tasks -> Verdicts \cup {NULL}] /\ callbacks \subseteq Tasks
  /\ invoking \in [Threads -> SUBSET Tasks] /\ doneQ \in Seq(Tasks) /\ got \in Seq(Tasks)
  /\ client \in {"iter", "group", "done", "timeout"} /\ step \in 1 .. Len(Order) + 1
  /\ client = "group" => step <= Len(Order)
ThreadType ==
  /\ sidecar \in [Attempts -> {"none", "run", "boxed", "dead"}]
  /\ box \in [Attempts -> Endings \cup {NULL}] /\ event \in [Attempts -> BOOLEAN]
  /\ late \in [Workers -> BOOLEAN]
ProcType ==
  /\ slot \in [Workers -> Attempts \cup {NULL}]
  /\ proc \in [Attempts -> [st : {"none", "up", "dying", "leaving", "dead"},
                            jobs : Seq(Attempts), replies : Seq(Tag)]]

\* The points of a worker inside ThreadQueue._execute and ProcessQueue._execute.
ThreadPoints == {"wired", "box", "flag", "alive", "clock", "wait"}
ProcessPoints == {"ensure", "publish", "recheck", "send", "await", "reaped"}

\* Where worker w stands: with a task exactly between get() and the end of
\* _attempts, a task no longer in the ready queue, an attempt counted before
\* it executes, a retry only while one is left; and an abort of its own only
\* at the end of _record.
Placed(w) ==
     /\ (wk[w].task = NULL) <=> (wk[w].pc \in {"get","close","gone"})
     /\ wk[w].task \notin ready
     /\ wk[w].pc \in {"register","check","start","delay"} => attempts[wk[w].task] <= Retries[wk[w].task]
     /\ wk[w].pc \in {"execute"} \cup ThreadPoints \cup ProcessPoints => attempts[wk[w].task] >= 1
     /\ wk[w].pc \in ThreadPoints => kind = "thread"
     /\ wk[w].pc \in ProcessPoints => kind = "process"
     /\ ab[w].pc # "off" => wk[w].pc = "pop"

\* All workers, with no task in two hands, no attempt of a queued task, and
\* no step of an interrupt without the task it is meant for.
Control ==
 /\ attempts \in [Tasks -> Nat]
 /\ \A t \in Tasks : attempts[t] <= Retries[t] + 1
 /\ ready \subseteq Tasks
 /\ \A w \in Workers : Placed(w)
 /\ \A w, v \in Workers : wk[w].task = wk[v].task /\ wk[w].task # NULL => w = v
 /\ \A t \in ready : attempts[t] = 0
 /\ \A th \in Threads : ab[th].pc \in {"wake", "strike"} => ab[th].cur # NULL

\* From where to where a worker goes: in the loop, and in its two executors.
Edge(p, q) ==
  \/ p = "register" /\ q = "check"
  \/ p = "check" /\ q \in {"start", "outcome"}
  \/ p = "outcome" /\ q \in {"leave", "delay", "record"}
  \/ p = "delay" /\ q \in {"check", "outcome"}
  \/ p = "record" /\ q = "count"
  \/ p = "count" /\ q = "pop"
  \/ p = "get" /\ q = "close"
  \/ p = "close" /\ q = "gone"
ThreadEdge(p, q) ==
  \/ p = "execute" /\ q = "wired"
  \/ p = "wired" /\ q \in {"box", "outcome"}
  \/ p = "box" /\ q \in {"flag", "outcome"}
  \/ p = "flag" /\ q \in {"alive", "outcome"}
  \/ p = "alive" /\ q \in {"clock", "outcome"}
  \/ p = "clock" /\ q \in {"wait", "outcome"}
  \/ p = "wait" /\ q = "box"
ProcessEdge(p, q) ==
  \/ p = "execute" /\ q \in {"ensure", "outcome"}
  \/ p = "ensure" /\ q = "publish"
  \/ p = "publish" /\ q = "recheck"
  \/ p = "recheck" /\ q \in {"send", "outcome"}
  \/ p = "send" /\ q \in {"await", "outcome"}
  \/ p = "await" /\ q \in {"reaped", "outcome"}
  \/ p = "reaped" /\ q = "outcome"

\* What a step does to Control: worker w goes on with its task, takes one,
\* starts an attempt or is done with its task; thread th takes a step of a
\* cancel() or an abort.
OthersStay(w) == \A v \in Workers \ {w} : wk'[v] = wk[v]
Goes(w) ==
  /\ OthersStay(w) /\ wk'[w].task = wk[w].task
  /\ UNCHANGED <<ready, attempts, kind>>
  /\ \/ Edge(wk[w].pc, wk'[w].pc)
     \/ kind = "thread" /\ ThreadEdge(wk[w].pc, wk'[w].pc)
     \/ kind = "process" /\ ProcessEdge(wk[w].pc, wk'[w].pc)
  /\ wk'[w].pc = "delay" => attempts[wk[w].task] <= Retries[wk[w].task]
Takes(w) ==
  /\ OthersStay(w) /\ wk[w].pc = "get" /\ wk'[w].pc \in {"register", "record"}
  /\ wk'[w].task \in ready /\ ready' = ready \ {wk'[w].task} /\ UNCHANGED <<attempts, ab, kind>>
Starts(w) ==
  /\ OthersStay(w) /\ wk[w].pc = "start" /\ wk'[w].pc = "execute" /\ wk'[w].task = wk[w].task
  /\ attempts' = [attempts EXCEPT ![wk[w].task] = @ + 1] /\ UNCHANGED <<ready, ab, kind>>
Leaves(w) ==
  /\ OthersStay(w) /\ wk[w].pc \in {"pop", "leave"} /\ wk'[w].pc \in {"get", "close"}
        /\ wk'[w].task = NULL
  /\ ab[w].pc = "off" /\ UNCHANGED <<ready, attempts, ab, kind>>
Turns(th) ==
  /\ th = Boss \/ ab[th].pc # "off"
  /\ \A x \in Threads \ {th} : ab'[x] = ab[x]
  /\ ab'[th].pc \in {"wake", "strike"} => ab'[th].cur # NULL
  /\ ready' \subseteq ready /\ UNCHANGED <<wk, attempts, kind>>

-----------------------------------------------------------------------------
(* Which actions touch what. *)

\* Handles, callbacks and the client's queue change only in _mark_finished
\* (_record and the record of a swept task), in the loop over the callbacks
\* taken and in the client (handle.py, group.py).
LEMMA HandleFrame ==
  ASSUME [Next]_vars
  PROVE \/ UNCHANGED handleVars
        \/ \E w \in Workers : Record(w)
        \/ \E th \in Threads : Publish(th) \/ InvokeCallback(th)
        \/ ClientNext
<1>1. ASSUME NEW w \in Workers, Works(w) PROVE Record(w) \/ UNCHANGED handleVars
  BY <1>1 DEF Works, WorkerStep, ThreadStep, ProcessStep,
    Take, Register, Check, Start, Outcome, Delay, Count, Pop, Stop, Close,
    Wire, Launch, LookInBox, LookAtFlag, LookAtThread, LookAtClock, WakeUp, Expire,
    Begin, Ensure, PublishSlot, Recheck, Send, Receive, Bereaved, Explain, TimeOut
<1>2. ASSUME NEW th \in Threads, Interferes(th)
      PROVE Publish(th) \/ InvokeCallback(th) \/ UNCHANGED handleVars
  BY <1>2 DEF Interferes, AbortStep, Sweep, Dropped, Snapshot, Flag, Wake, Strike
<1>3. ASSUME NEW a \in Attempts, Carries(a) PROVE UNCHANGED handleVars
  BY <1>3 DEF Carries, SidecarStep, Box, SetWake, Reply, Perish, Crash
<1>4. Asking => UNCHANGED handleVars
  BY DEF Asking, BossAsks, Cancel, Abort
<1> QED BY <1>1, <1>2, <1>3, <1>4 DEF Next, Waiting, vars

\* A control block changes only as an executor leaves its wake event or its
\* slot and as interrupt() sets cancel_ev (sync.py: _Ctl).
LEMMA CtlFrame ==
  ASSUME [Next]_vars
  PROVE \/ UNCHANGED ctl
        \/ \E w \in Workers : Wire(w) \/ PublishSlot(w)
        \/ \E th \in Threads : Flag(th)
<1>1. ASSUME NEW w \in Workers, Works(w) PROVE Wire(w) \/ PublishSlot(w) \/ UNCHANGED ctl
  BY <1>1 DEF Works, WorkerStep, ThreadStep, ProcessStep,
    Take, Register, Check, Start, Outcome, Delay, Record, Count, Pop, Stop, Close,
    Launch, LookInBox, LookAtFlag, LookAtThread, LookAtClock, WakeUp, Expire,
    Begin, Ensure, Recheck, Send, Receive, Bereaved, Explain, TimeOut
<1>2. ASSUME NEW th \in Threads, Interferes(th) PROVE Flag(th) \/ UNCHANGED ctl
  BY <1>2 DEF Interferes, AbortStep, Sweep, Publish, Dropped, Snapshot, Wake, Strike
<1>3. ASSUME NEW a \in Attempts, Carries(a) PROVE UNCHANGED ctl
  BY <1>3 DEF Carries, SidecarStep, Box, SetWake, Reply, Perish, Crash
<1>4. Asking => UNCHANGED ctl
  BY DEF Asking, BossAsks, Cancel, Abort
<1> QED BY <1>1, <1>2, <1>3, <1>4 DEF Next, Waiting, vars

\* Sidecars, boxes and wake events change only in _execute's first steps and
\* its wait, in the sidecar and in interrupt() (threadqueue.py).
LEMMA ThreadFrame ==
  ASSUME [Next]_vars
  PROVE \/ UNCHANGED threadVars
        \/ \E w \in Workers : Wire(w) \/ Launch(w) \/ Expire(w)
        \/ \E th \in Threads : Wake(th)
        \/ \E a \in Attempts : SidecarStep(a)
BY DEF vars, Next, Works, WorkerStep, ThreadStep, ProcessStep, Interferes, AbortStep,
    Carries, Asking, BossAsks, Waiting,
    LookInBox, LookAtFlag, LookAtThread, LookAtClock, WakeUp

\* Slots, subprocesses and pipes change only in the steps of _execute that
\* spawn, send, receive and reap, as a worker closes, in interrupt() and in
\* the subprocess (processqueue.py).
LEMMA SlotFrame ==
  ASSUME [Next]_vars
  PROVE \/ UNCHANGED procVars
        \/ \E w \in Workers : Ensure(w) \/ Recheck(w) \/ Send(w) \/ Receive(w)
                                \/ Bereaved(w) \/ TimeOut(w) \/ Close(w)
        \/ \E th \in Threads : Strike(th)
        \/ \E a \in Attempts : Reply(a) \/ Perish(a) \/ Crash(a)
BY DEF vars, Next, Works, WorkerStep, ThreadStep, ProcessStep, Interferes, AbortStep,
    Carries, SidecarStep, Asking, BossAsks, Waiting,
    Begin, PublishSlot, Explain

\* An attempt is a task and a number up to its last retry.
LEMMA Attempt ==
  /\ \A a \in Attempts : a[1] \in Tasks /\ a[2] \in 1 .. Retries[a[1]] + 1 /\ a = <<a[1], a[2]>>
  /\ \A t \in Tasks, n \in Nat : n \in 1 .. Retries[t] + 1 =>
       <<t, n>> \in Attempts /\ <<t, n>>[1] = t /\ <<t, n>>[2] = n
BY WorkerAssumption DEF Attempts

-----------------------------------------------------------------------------
(* Every step keeps the types. *)

\* The locals of cancel() and _abort_tasks keep their types (sync.py).
LEMMA AbortTyped ==
  ASSUME WKType, ABType, CoreType, ready \subseteq Tasks, [Next]_vars
  PROVE  ABType'
<1> USE WorkerAssumption DEF ABType, ABRec, AtRest, AbortPoints
<1>1. ASSUME NEW w \in Workers, Works(w) PROVE ABType'
  <2>1. CASE Count(w)
    BY <2>1 DEF Count
  <2>2. CASE UNCHANGED ab
    BY <2>2
  <2> QED
    BY <1>1, <2>1, <2>2 DEF Works, WorkerStep, ThreadStep, ProcessStep,
    Take, Register, Check, Start, Outcome, Delay, Record, Pop, Stop, Close,
    Wire, Launch, LookInBox, LookAtFlag, LookAtThread, LookAtClock, WakeUp, Expire,
    Begin, Ensure, PublishSlot, Recheck, Send, Receive, Bereaved, Explain, TimeOut
<1>2. ASSUME NEW th \in Threads, Sweep(th) PROVE ABType'
  BY <1>2 DEF Sweep
<1>3. ASSUME NEW th \in Threads, Publish(th) PROVE ABType'
  BY <1>3 DEF Publish
<1>4. ASSUME NEW th \in Threads, Dropped(th) PROVE ABType'
  BY <1>4 DEF Dropped
<1>5. ASSUME NEW th \in Threads, Snapshot(th) PROVE ABType'
  BY <1>5 DEF Snapshot, CoreType
<1>6. ASSUME NEW th \in Threads, Flag(th) PROVE ABType'
  BY <1>6 DEF Flag
<1>7. ASSUME NEW th \in Threads, Wake(th) PROVE ABType'
  BY <1>7 DEF Wake, Woken
<1>8. ASSUME NEW th \in Threads, Strike(th) PROVE ABType'
  BY <1>8 DEF Strike, Struck
<1>9. ASSUME NEW t, Cancel(t) PROVE ABType'
  <2>1. t \in Tasks /\ Boss \in Threads
    BY <1>9 DEF Cancel
  <2>2. /\ AtRest \in ABRec
        /\ [AtRest EXCEPT !.pc = "flag", !.todo = {t}] \in ABRec
        /\ [AtRest EXCEPT !.pc = "drop", !.swept = {t}] \in ABRec
    BY <2>1
  <2>3. PICK r \in ABRec : ab' = [ab EXCEPT ![Boss] = r]
    BY <1>9, <2>2 DEF Cancel
  <2> QED
    BY <2>1, <2>3
<1>10. ASSUME NEW how, Abort(how) PROVE ABType'
  BY <1>10 DEF Abort
<1>11. ASSUME NEW a \in Attempts, Carries(a) PROVE UNCHANGED ab
  BY <1>11 DEF Carries, SidecarStep, Box, SetWake, Reply, Perish, Crash
<1>12. ASSUME NEW th \in Threads, InvokeCallback(th), UNCHANGED workerVars PROVE UNCHANGED ab
  BY <1>12
<1>13. CASE UNCHANGED ab
  BY <1>13
<1> QED
  BY <1>1, <1>2, <1>3, <1>4, <1>5, <1>6, <1>7, <1>8, <1>9, <1>10, <1>11, <1>12, <1>13
  DEF Next, Interferes, AbortStep, Asking, BossAsks, Waiting, vars

\* The locals of a worker keep their types (sync.py: _worker, _attempts, and
\* the two _execute): an outcome comes from the box, the pipe or a constant.
LEMMA WorkerTyped ==
  ASSUME WKType, ThreadType, ProcType, ready \subseteq Tasks, NEW w \in Workers, Works(w)
  PROVE  WKType'
<1>0. ASSUME NEW out \in Endings, End(w, out) PROVE WKType'
  BY <1>0, ZenonT(30) DEF WKType, End, WorkerPoints
<1> USE DEF WKType, WorkerPoints, Endings, Failures, Goto, End, Unwind
<1>1. CASE Take(w)
  BY <1>1 DEF Take
<1>2. CASE Start(w)
  BY <1>2 DEF Start
<1>3. CASE Pop(w)
  BY <1>3 DEF Pop
<1>4. CASE Register(w)
  BY <1>4 DEF Register
<1>5. CASE Check(w)
  BY <1>5 DEF Check
<1>6. CASE Outcome(w)
  BY <1>6 DEF Outcome
<1>7. CASE Delay(w)
  BY <1>7 DEF Delay
<1>8. CASE Record(w)
  BY <1>8 DEF Record
<1>9. CASE Count(w)
  BY <1>9 DEF Count
<1>10. CASE Stop(w)
  BY <1>10 DEF Stop
<1>11. CASE Close(w)
  BY <1>11 DEF Close
<1>12. CASE Wire(w)
  BY <1>12 DEF Wire
<1>13. CASE Launch(w)
  BY <1>13 DEF Launch
<1>14. CASE LookInBox(w)
  BY <1>14 DEF LookInBox
<1>15. CASE LookAtFlag(w)
  BY <1>15 DEF LookAtFlag
<1>16. CASE LookAtThread(w)
  BY <1>16 DEF LookAtThread
<1>17. CASE LookAtClock(w)
  BY <1>17 DEF LookAtClock
<1>18. CASE WakeUp(w)
  BY <1>18 DEF WakeUp
<1>19. CASE Expire(w)
  BY <1>19 DEF Expire
<1>20. CASE Begin(w)
  BY <1>20 DEF Begin
<1>21. CASE Ensure(w)
  BY <1>21 DEF Ensure
<1>22. CASE PublishSlot(w)
  BY <1>22 DEF PublishSlot
<1>23. CASE Recheck(w)
  BY <1>23 DEF Recheck
<1>24. CASE Send(w)
  BY <1>24 DEF Send
<1>25. CASE Receive(w)
  BY <1>25 DEF Receive
<1>26. CASE Bereaved(w)
  BY <1>26 DEF Bereaved
<1>27. CASE Explain(w)
  <2>1. End(w, "cancelled") \/ End(w, "died")
    BY <1>27 DEF Explain
  <2> QED
    BY <1>0, <2>1
<1>28. CASE TimeOut(w)
  <2>1. End(w, "timeout")
    BY <1>28 DEF TimeOut
  <2> QED
    BY <1>0, <2>1
<1> QED BY <1>1, <1>2, <1>3, <1>4, <1>5, <1>6, <1>7, <1>8, <1>9, <1>10, <1>11, <1>12, <1>13, <1>14,
   <1>15, <1>16, <1>17, <1>18, <1>19, <1>20, <1>21, <1>22, <1>23, <1>24, <1>25, <1>26, <1>27, <1>28,
   Works(w) DEF Works, WorkerStep, ThreadStep, ProcessStep

\* Results, callbacks and the client's position keep their types; a client
\* that waits for its group in order has a handle left to wait for.
LEMMA HandleStep == HandleType /\ [Next]_vars => HandleType'
<1> SUFFICES ASSUME HandleType, [Next]_vars PROVE HandleType'
  OBVIOUS
<1> USE HandlesAssumption DEF HandleType, Verdicts
<1>1. ASSUME NEW th \in Threads, NEW t, NEW v \in Verdicts, MarkFinished(th, t, v) PROVE HandleType'
  BY <1>1 DEF MarkFinished
<1>2. ASSUME NEW w \in Workers, Record(w) PROVE HandleType'
  BY <1>1, <1>2, WorkerAssumption DEF Record, Verdict
<1>3. ASSUME NEW th \in Threads, Publish(th) PROVE HandleType'
  BY <1>1, <1>3 DEF Publish
<1>4. ASSUME NEW th \in Threads, InvokeCallback(th) PROVE HandleType'
  BY <1>4 DEF InvokeCallback
<1>5. Order \in Seq(Tasks) /\ Len(Order) \in Nat /\ \A i \in 1 .. Len(Order) : Order[i] \in Tasks
  OBVIOUS
<1>6. AddDoneCallback => HandleType'
  <2> SUFFICES ASSUME AddDoneCallback PROVE HandleType'
    OBVIOUS
  <2>1. step \in 1 .. Len(Order) /\ Order[step] \in Tasks
    BY <1>5 DEF AddDoneCallback, Registering
  <2>2. doneQ' = doneQ \/ doneQ' = Append(doneQ, Order[step])
    BY DEF AddDoneCallback
  <2>3. doneQ' \in Seq(Tasks)
    <3>1. Append(doneQ, Order[step]) \in Seq(Tasks)
      BY <2>1
    <3> QED
      BY <2>2, <3>1
  <2>4. callbacks' \subseteq Tasks
    BY <2>1 DEF AddDoneCallback
  <2> QED
    BY <1>5, <2>1, <2>3, <2>4 DEF AddDoneCallback, Registering
<1>7. Yield => HandleType'
  BY DEF Yield
<1>8. WaitHandle => HandleType'
  BY <1>5 DEF WaitHandle
<1>9. GiveUp => HandleType'
  BY DEF GiveUp
<1>10. CASE UNCHANGED handleVars
  BY <1>10
<1> QED
  BY <1>2, <1>3, <1>4, <1>6, <1>7, <1>8, <1>9, <1>10, HandleFrame DEF ClientNext

\* Sidecars, boxes, wake events and deadlines keep their types.
LEMMA ThreadTyped == ThreadType /\ [Next]_vars => ThreadType'
<1> SUFFICES ASSUME ThreadType, [Next]_vars PROVE ThreadType'
  OBVIOUS
<1> USE DEF ThreadType
<1>1. ASSUME NEW w \in Workers, Wire(w) \/ Launch(w) \/ Expire(w) PROVE ThreadType'
  BY <1>1 DEF Wire, Launch, Expire
<1>2. ASSUME NEW th \in Threads, Wake(th) PROVE ThreadType'
  BY <1>2 DEF Wake
<1>3. ASSUME NEW a \in Attempts, SidecarStep(a) PROVE ThreadType'
  BY <1>3 DEF SidecarStep, Box, SetWake, Endings, Failures
<1>4. CASE UNCHANGED threadVars
  BY <1>4
<1> QED
  BY <1>1, <1>2, <1>3, <1>4, ThreadFrame

\* Control blocks keep their types.
LEMMA CtlTyped == CtlType /\ WKType /\ attempts \in [Tasks -> Nat] /\ [Next]_vars => CtlType'
<1> SUFFICES ASSUME CtlType, WKType, attempts \in [Tasks -> Nat], [Next]_vars PROVE CtlType'
  OBVIOUS
<1> USE DEF CtlType
<1>1. ASSUME NEW w \in Workers, Wire(w) PROVE CtlType'
  <2>1. ctl' = ctl \/ (wk[w].task \in Tasks /\ attempts[wk[w].task] \in Nat)
    BY <1>1 DEF Wire
  <2> QED
    BY <1>1, <2>1 DEF Wire
<1>2. ASSUME NEW w \in Workers, PublishSlot(w) PROVE CtlType'
  BY <1>2 DEF PublishSlot
<1>3. ASSUME NEW th \in Threads, Flag(th) PROVE CtlType'
  BY <1>3, ZenonT(30) DEF Flag
<1>4. CASE UNCHANGED ctl
  BY <1>4
<1> QED
  BY <1>1, <1>2, <1>3, <1>4, CtlFrame

\* A subprocess with its pipes, and the process a becoming p: with a job more,
\* with its first job replied to, with its first reply read, or dead.
Proc == [st : {"none", "up", "dying", "leaving", "dead"}, jobs : Seq(Attempts), replies : Seq(Tag)]
Becomes(a, p) == proc' = [proc EXCEPT ![a] = p]
Sent(a, job) == [st |-> proc[a].st, jobs |-> Append(proc[a].jobs, job), replies |-> proc[a].replies]
Replied(a, k) == [st |-> proc[a].st, jobs |-> Tail(proc[a].jobs),
                  replies |-> Append(proc[a].replies, [of |-> Head(proc[a].jobs), kind |-> k])]
Read(a) == [st |-> proc[a].st, jobs |-> proc[a].jobs, replies |-> Tail(proc[a].replies)]
Killed(a) == [st |-> "dead", jobs |-> <<>>, replies |-> proc[a].replies]

\* What the steps of processqueue.py make of an attempt's subprocess, field by
\* field: a reply moves the job from one pipe to the other, death empties the
\* request pipe and leaves the replies to be read.
LEMMA ProcMoves ==
  ASSUME ProcType, NEW a \in Attempts
  PROVE  /\ proc[a] \in Proc
         /\ proc[a] = [st |-> proc[a].st, jobs |-> proc[a].jobs, replies |-> proc[a].replies]
         /\ Reply(a) => \E k \in {"value", "error", "exit", "garbled"} : Becomes(a, Replied(a, k))
         /\ Perish(a) \/ Crash(a) => Becomes(a, Killed(a))
         /\ \A w \in Workers : Send(w) /\ slot[w] = a => proc' = proc \/ Becomes(a, Sent(a, Current(w)))
         /\ \A w \in Workers : Receive(w) /\ slot[w] = a => Reap(w) \/ Becomes(a, Read(a))
<1> USE DEF Becomes, Sent, Replied, Read, Killed
<1>1. proc[a] \in Proc
  BY DEF ProcType, Proc
<1>2. proc[a] = [st |-> proc[a].st, jobs |-> proc[a].jobs, replies |-> proc[a].replies]
  BY <1>1 DEF Proc
<1>3. ASSUME Reply(a) PROVE \E k \in {"value", "error", "exit", "garbled"} : Becomes(a, Replied(a, k))
  BY <1>3 DEF Reply, Running
<1>4. ASSUME Perish(a) \/ Crash(a) PROVE Becomes(a, Killed(a))
  BY <1>2, <1>4 DEF Perish, Crash
<1>5. ASSUME NEW w \in Workers, Send(w), slot[w] = a
      PROVE proc' = proc \/ Becomes(a, Sent(a, Current(w)))
  BY <1>2, <1>5 DEF Send
<1>6. ASSUME NEW w \in Workers, Receive(w), slot[w] = a PROVE Reap(w) \/ Becomes(a, Read(a))
  BY <1>2, <1>6 DEF Receive
<1> QED
  BY <1>1, <1>2, <1>3, <1>4, <1>5, <1>6

\* Slots, subprocesses and pipes keep their types, provided that a worker
\* about to spawn, send or receive has an attempt and a subprocess to do it.
LEMMA ProcTyped ==
  ASSUME ProcType, [Next]_vars,
    \A w \in Workers : wk[w].pc \in {"ensure", "send", "await"} => Current(w) \in Attempts,
    \A w \in Workers : wk[w].pc \in {"send", "await"} => slot[w] \in Attempts
  PROVE  ProcType'
<1> USE DEF ProcType
<1>0. ASSUME NEW a \in Attempts, NEW p \in Proc, Becomes(a, p), slot' = slot PROVE ProcType'
  BY <1>0 DEF Becomes, Proc
<1>1. ASSUME NEW w \in Workers, Reap(w) PROVE ProcType'
  BY <1>1, EmptySeq DEF Reap, Idle
<1>2. ASSUME NEW w \in Workers, Ensure(w) PROVE ProcType'
  <2>1. Current(w) \in Attempts
    BY <1>2 DEF Ensure, At
  <2>2. Idle("up") \in Proc
    BY DEF Idle, Proc
  <2>3. [Idle("leaving") EXCEPT !.replies = <<[of |-> NULL, kind |-> "error"]>>] \in Proc
    <3> DEFINE x == [of |-> NULL, kind |-> "error"]
    <3>1. x \in Tag
      BY DEF Tag
    <3>2. [Idle("leaving") EXCEPT !.replies = <<x>>] = [st |-> "leaving", jobs |-> <<>>, replies |-> <<x>>]
      BY DEF Idle
    <3> HIDE DEF x
    <3>3. <<x>> \in Seq(Tag)
      BY <3>1
    <3>4. [st |-> "leaving", jobs |-> <<>>, replies |-> <<x>>] \in Proc
      BY <3>3 DEF Proc
    <3> QED
      BY <3>2, <3>4 DEF x
  <2>4. CASE slot' = [slot EXCEPT ![w] = Current(w)] /\ proc' = [proc EXCEPT ![Current(w)] = Idle("up")]
    BY <2>1, <2>2, <2>4 DEF Proc
  <2>5. CASE slot' = [slot EXCEPT ![w] = Current(w)] /\ proc' = [proc EXCEPT ![Current(w)] =
                                 [Idle("leaving") EXCEPT !.replies = <<[of |-> NULL, kind |-> "error"]>>]]
    BY <2>1, <2>3, <2>5 DEF Proc
  <2>6. CASE UNCHANGED procVars
    BY <2>6
  <2> QED
    BY <1>2, <2>4, <2>5, <2>6 DEF Ensure
<1>3. ASSUME NEW w \in Workers, Recheck(w) PROVE ProcType'
  BY <1>1, <1>3 DEF Recheck
<1>4. ASSUME NEW w \in Workers, Send(w) PROVE ProcType'
  <2>1. Current(w) \in Attempts /\ slot[w] \in Attempts
    BY <1>4 DEF Send, At
  <2>2. proc[slot[w]] \in Proc
    BY <2>1, ProcMoves
  <2>3. Sent(slot[w], Current(w)) \in Proc
    BY <2>1, <2>2 DEF Proc, Sent
  <2>4. slot' = slot
    BY <1>4 DEF Send
  <2> QED
    BY <1>0, <1>4, <2>1, <2>3, <2>4, ProcMoves
<1>5. ASSUME NEW w \in Workers, Receive(w) PROVE ProcType'
  <2>1. slot[w] \in Attempts /\ proc[slot[w]].replies # <<>>
    BY <1>5 DEF Receive, At
  <2>2. proc[slot[w]] \in Proc
    BY <2>1, ProcMoves
  <2>3. Read(slot[w]) \in Proc
    BY <2>1, <2>2 DEF Proc, Read
  <2>4. Reap(w) \/ slot' = slot
    BY <1>5 DEF Receive
  <2> QED
    BY <1>0, <1>1, <1>5, <2>1, <2>3, <2>4, ProcMoves
<1>6. ASSUME NEW w \in Workers, Bereaved(w) \/ TimeOut(w) \/ Close(w) PROVE ProcType'
  BY <1>1, <1>6 DEF Bereaved, TimeOut, Close
<1>7. ASSUME NEW th \in Threads, Strike(th) PROVE ProcType'
  BY <1>7 DEF Strike, Terminated
<1>8. ASSUME NEW a \in Attempts, Reply(a) PROVE ProcType'
  <2>1. proc[a] \in Proc /\ proc[a].jobs # <<>> /\ slot' = slot
    BY <1>8, ProcMoves DEF Reply
  <2>2. \A k \in {"value", "error", "exit", "garbled"} : [of |-> Head(proc[a].jobs), kind |-> k] \in Tag
    BY <2>1 DEF Proc, Tag
  <2>3. \A k \in {"value", "error", "exit", "garbled"} :
          Replied(a, k) \in Proc
    BY <2>1, <2>2 DEF Proc, Replied
  <2> QED
    BY <1>0, <1>8, <2>1, <2>3, ProcMoves
<1>9. ASSUME NEW a \in Attempts, Perish(a) \/ Crash(a) PROVE ProcType'
  <2>1. slot' = slot
    BY <1>9 DEF Perish, Crash
  <2>2. Killed(a) \in Proc
    BY ProcMoves DEF Proc, Killed
  <2> QED
    BY <1>0, <1>9, <2>1, <2>2, ProcMoves
<1>10. CASE UNCHANGED procVars
  BY <1>10
<1> QED
  BY <1>2, <1>3, <1>4, <1>5, <1>6, <1>7, <1>8, <1>9, <1>10, SlotFrame

\* The active table, the flags and the requests left keep their types.
LEMMA CoreTyped ==
  ASSUME CoreType, WKType, [Next]_vars,
         \A w \in Workers : wk[w].pc = "register" => wk[w].task \in Tasks
  PROVE  CoreType'
<1> USE WorkerAssumption DEF CoreType
<1>1. ASSUME NEW w \in Workers, Works(w) PROVE CoreType'
  <2>1. CASE Register(w)
    BY <2>1 DEF Register, At
  <2>2. CASE Count(w)
    BY <2>2 DEF Count
  <2>3. CASE Pop(w)
    BY <2>3 DEF Pop
  <2>4. CASE UNCHANGED <<active, halt, locked, asks>>
    BY <2>4
  <2> QED
    BY <1>1, <2>1, <2>2, <2>3, <2>4 DEF Works, WorkerStep, ThreadStep, ProcessStep,
    Take, Check, Start, Outcome, Delay, Record, Stop, Close,
    Wire, Launch, LookInBox, LookAtFlag, LookAtThread, LookAtClock, WakeUp, Expire,
    Begin, Ensure, PublishSlot, Recheck, Send, Receive, Bereaved, Explain, TimeOut
<1>2. ASSUME NEW th \in Threads, Interferes(th) PROVE CoreType'
  BY <1>2 DEF Interferes, AbortStep, Sweep, Publish, Dropped, Snapshot, Flag, Wake, Strike, Struck
<1>3. ASSUME NEW a \in Attempts, Carries(a) PROVE CoreType'
  BY <1>3 DEF Carries, SidecarStep, Box, SetWake, Reply, Perish, Crash
<1>4. Asking => CoreType'
  <2>1. ASSUME NEW t, Cancel(t) PROVE CoreType'
    BY <2>1 DEF Cancel, Ask
  <2>2. ASSUME NEW how, Abort(how) PROVE CoreType'
    BY <2>2 DEF Abort, Ask
  <2> QED
    BY <2>1, <2>2 DEF Asking, BossAsks
<1> QED
  BY <1>1, <1>2, <1>3, <1>4 DEF Next, Waiting, vars

-----------------------------------------------------------------------------
(* Control: where the workers stand. *)

\* Every step of a worker goes on with the same task along an edge of its
\* loop, takes a task, starts an attempt or leaves its task; only the end of
\* _record makes it abort others (sync.py: _record with fail_first).
LEMMA WorkerMoves ==
  ASSUME WKType, ABType, NEW w \in Workers, Works(w)
  PROVE  \/ Goes(w) /\ (ab' = ab \/ (wk'[w].pc = "pop" /\ ab' = [ab EXCEPT ![w].pc = "sweep"]))
         \/ Takes(w) \/ Starts(w) \/ Leaves(w)
<1> USE WorkerAssumption DEF WKType, ABType, ABRec, OthersStay, At, Goto, End, Unwind, Goes, Edge
<1>1. ASSUME Take(w), UNCHANGED <<kind, threadVars, procVars>> PROVE Takes(w)
  BY <1>1 DEF Take, Takes
<1>2. ASSUME Start(w), UNCHANGED <<kind, threadVars, procVars>> PROVE Starts(w)
  BY <1>2 DEF Start, Starts
<1>3. ASSUME Pop(w), UNCHANGED <<kind, threadVars, procVars>> PROVE Leaves(w)
  BY <1>3 DEF Pop, Leaves
<1>4. ASSUME Register(w), UNCHANGED <<kind, threadVars, procVars>> PROVE Goes(w) /\ ab' = ab
  BY <1>4 DEF Register
<1>5. ASSUME Check(w), UNCHANGED <<kind, threadVars, procVars>> PROVE Goes(w) /\ ab' = ab
  BY <1>5 DEF Check
<1>6. ASSUME Outcome(w), UNCHANGED <<kind, threadVars, procVars>> PROVE Goes(w) /\ ab' = ab
  BY <1>6 DEF Outcome, Retriable
<1>7. ASSUME Delay(w), UNCHANGED <<kind, threadVars, procVars>> PROVE Goes(w) /\ ab' = ab
  BY <1>7 DEF Delay
<1>8. ASSUME Record(w), UNCHANGED <<kind, threadVars, procVars>> PROVE Goes(w) /\ ab' = ab
  BY <1>8 DEF Record
<1>9. ASSUME Count(w), UNCHANGED <<kind, threadVars, procVars>>
      PROVE Goes(w) /\ (ab' = ab \/ (wk'[w].pc = "pop" /\ ab' = [ab EXCEPT ![w].pc = "sweep"]))
  BY <1>9 DEF Count
<1>10. ASSUME Stop(w), UNCHANGED <<kind, threadVars, procVars>> PROVE Goes(w) /\ ab' = ab
  BY <1>10 DEF Stop
<1>11. ASSUME Close(w), UNCHANGED <<kind, threadVars>> PROVE Goes(w) /\ ab' = ab
  BY <1>11 DEF Close
<1>12. ASSUME Wire(w), kind = "thread", UNCHANGED <<kind, procVars>> PROVE Goes(w) /\ ab' = ab
  BY <1>12 DEF Wire, ThreadEdge
<1>13. ASSUME Launch(w), kind = "thread", UNCHANGED <<kind, procVars>> PROVE Goes(w) /\ ab' = ab
  BY <1>13 DEF Launch, ThreadEdge
<1>14. ASSUME LookInBox(w), kind = "thread", UNCHANGED <<kind, procVars>> PROVE Goes(w) /\ ab' = ab
  BY <1>14 DEF LookInBox, ThreadEdge
<1>15. ASSUME LookAtFlag(w), kind = "thread", UNCHANGED <<kind, procVars>> PROVE Goes(w) /\ ab' = ab
  BY <1>15 DEF LookAtFlag, ThreadEdge
<1>16. ASSUME LookAtThread(w), kind = "thread", UNCHANGED <<kind, procVars>> PROVE Goes(w) /\ ab' = ab
  BY <1>16 DEF LookAtThread, ThreadEdge
<1>17. ASSUME LookAtClock(w), kind = "thread", UNCHANGED <<kind, procVars>> PROVE Goes(w) /\ ab' = ab
  BY <1>17 DEF LookAtClock, ThreadEdge
<1>18. ASSUME WakeUp(w), kind = "thread", UNCHANGED <<kind, procVars>> PROVE Goes(w) /\ ab' = ab
  BY <1>18 DEF WakeUp, ThreadEdge
<1>19. ASSUME Expire(w), kind = "thread", UNCHANGED <<kind, procVars>> PROVE Goes(w) /\ ab' = ab
  BY <1>19 DEF Expire, ThreadEdge
<1>20. ASSUME Begin(w), kind = "process", UNCHANGED <<kind, threadVars>> PROVE Goes(w) /\ ab' = ab
  BY <1>20 DEF Begin, ProcessEdge
<1>21. ASSUME Ensure(w), kind = "process", UNCHANGED <<kind, threadVars>> PROVE Goes(w) /\ ab' = ab
  BY <1>21 DEF Ensure, ProcessEdge
<1>22. ASSUME PublishSlot(w), kind = "process", UNCHANGED <<kind, threadVars>> PROVE Goes(w) /\ ab' = ab
  BY <1>22 DEF PublishSlot, ProcessEdge
<1>23. ASSUME Recheck(w), kind = "process", UNCHANGED <<kind, threadVars>> PROVE Goes(w) /\ ab' = ab
  BY <1>23 DEF Recheck, ProcessEdge
<1>24. ASSUME Send(w), kind = "process", UNCHANGED <<kind, threadVars>> PROVE Goes(w) /\ ab' = ab
  BY <1>24 DEF Send, ProcessEdge
<1>25. ASSUME Receive(w), kind = "process", UNCHANGED <<kind, threadVars>> PROVE Goes(w) /\ ab' = ab
  BY <1>25 DEF Receive, ProcessEdge
<1>26. ASSUME Bereaved(w), kind = "process", UNCHANGED <<kind, threadVars>> PROVE Goes(w) /\ ab' = ab
  BY <1>26 DEF Bereaved, ProcessEdge
<1>27. ASSUME Explain(w), kind = "process", UNCHANGED <<kind, threadVars>> PROVE Goes(w) /\ ab' = ab
  BY <1>27 DEF Explain, ProcessEdge
<1>28. ASSUME TimeOut(w), kind = "process", UNCHANGED <<kind, threadVars>> PROVE Goes(w) /\ ab' = ab
  BY <1>28 DEF TimeOut, ProcessEdge
<1> QED BY <1>1, <1>2, <1>3, <1>4, <1>5, <1>6, <1>7, <1>8, <1>9, <1>10, <1>11, <1>12, <1>13, <1>14,
   <1>15, <1>16, <1>17, <1>18, <1>19, <1>20, <1>21, <1>22, <1>23, <1>24, <1>25, <1>26, <1>27, <1>28
   DEF Works, WorkerStep, ThreadStep, ProcessStep

\* A thread inside a cancel() or an abort leaves the workers alone and only
\* removes tasks from the ready queue; or it invokes callbacks.
LEMMA AbortMoves ==
  ASSUME ABType, NEW th \in Threads, Interferes(th),
    ab[th].pc \in {"wake", "strike"} => ab[th].cur # NULL
  PROVE  Turns(th) \/ UNCHANGED <<wk, ready, attempts, kind, ab>>
<1> USE HandlesAssumption DEF ABType, ABRec, Turns, AtRest, Woken, Struck
<1>1. ASSUME Sweep(th), UNCHANGED <<kind, threadVars, procVars>> PROVE Turns(th)
  BY <1>1 DEF Sweep
<1>2. ASSUME Publish(th), UNCHANGED <<kind, threadVars, procVars>> PROVE Turns(th)
  BY <1>2 DEF Publish
<1>3. ASSUME Dropped(th), UNCHANGED <<kind, threadVars, procVars>> PROVE Turns(th)
  BY <1>3 DEF Dropped
<1>4. ASSUME Snapshot(th), UNCHANGED <<kind, threadVars, procVars>> PROVE Turns(th)
  BY <1>4 DEF Snapshot
<1>5. ASSUME Flag(th), UNCHANGED <<kind, threadVars, procVars>> PROVE Turns(th)
  BY <1>5 DEF Flag
<1>6. ASSUME Wake(th), UNCHANGED <<kind, procVars>> PROVE Turns(th)
  BY <1>6 DEF Wake
<1>7. ASSUME Strike(th), UNCHANGED <<kind, threadVars>> PROVE Turns(th)
  BY <1>7 DEF Strike
<1>8. ASSUME InvokeCallback(th), UNCHANGED <<kind, workerVars, threadVars, procVars>>
      PROVE UNCHANGED <<wk, ready, attempts, kind, ab>>
  BY <1>8
<1> QED BY <1>1, <1>2, <1>3, <1>4, <1>5, <1>6, <1>7, <1>8 DEF Interferes, AbortStep

\* Every step keeps the workers in their places: a task is in one worker's
\* hands, with an attempt that was counted and does not exceed its retries
\* (sync.py: _attempts).
LEMMA ControlStep == WKType /\ ABType /\ Control /\ [Next]_vars => Control'
<1> SUFFICES ASSUME WKType, ABType, Control, [Next]_vars PROVE Control'
  OBVIOUS
<1> USE HandlesAssumption, WorkerAssumption DEF WKType, ABType, ABRec, Control
<1>1. ASSUME NEW w \in Workers, Works(w) PROVE Control'
  <2>1. CASE Goes(w) /\ (ab' = ab \/ (wk'[w].pc = "pop" /\ ab' = [ab EXCEPT ![w].pc = "sweep"]))
    <3>1. Placed(w)'
      BY <2>1 DEF Goes, Placed, Edge, ThreadEdge, ProcessEdge, ThreadPoints, ProcessPoints
    <3>2. \A v \in Workers \ {w} : Placed(v)'
      BY <2>1 DEF Goes, OthersStay, Placed
    <3>3. \A v \in Workers : wk'[v].task = wk[v].task
      BY <2>1 DEF Goes, OthersStay
    <3>4. \A th \in Threads : ab'[th].pc \in {"wake", "strike"} => ab'[th].cur # NULL
      <4>1. CASE ab' = ab
        BY <4>1
      <4>2. CASE ab' = [ab EXCEPT ![w].pc = "sweep"]
        BY <4>2
      <4> QED
        BY <2>1, <4>1, <4>2
    <3> QED
      BY <2>1, <3>1, <3>2, <3>3, <3>4 DEF Goes
  <2>2. CASE Takes(w)
    <3>1. \A v \in Workers \ {w} : Placed(v)'
      BY <2>2 DEF Takes, OthersStay, Placed
    <3> DEFINE t == wk'[w].task
    <3>2. t \in Tasks /\ t # NULL /\ attempts[t] <= Retries[t]
      BY <2>2 DEF Takes
    <3>3. ab[w].pc = "off"
      BY <2>2 DEF Takes, Placed
    <3>4. Placed(w)'
      BY <2>2, <3>2, <3>3 DEF Takes, Placed, ThreadPoints, ProcessPoints
    <3>5. \A v \in Workers : wk[v].task # t
      BY <2>2 DEF Takes, Placed
    <3>6. \A v \in Workers \ {w} : wk'[v].task = wk[v].task
      BY <2>2 DEF Takes, OthersStay
    <3>7. \A u, v \in Workers : wk'[u].task = wk'[v].task /\ wk'[u].task # NULL => u = v
      BY <3>5, <3>6, ZenonT(30)
    <3> QED
      BY <2>2, <3>1, <3>4, <3>7 DEF Takes
  <2>3. CASE Starts(w)
    <3>1. wk[w].task \in Tasks /\ attempts[wk[w].task] <= Retries[wk[w].task]
      BY <2>3 DEF Starts, Placed
    <3>2. \A v \in Workers \ {w} : wk[v].task # wk[w].task
      BY <3>1
    <3>3. \A v \in Workers \ {w} : Placed(v)'
      BY <2>3, <3>1, <3>2 DEF Starts, OthersStay, Placed
    <3>4. Placed(w)'
      BY <2>3, <3>1 DEF Starts, Placed, ThreadPoints, ProcessPoints
    <3>5. \A v \in Workers : wk'[v].task = wk[v].task
      BY <2>3 DEF Starts, OthersStay
    <3>6. wk[w].task \notin ready
      BY DEF Placed
    <3>7. (\A t \in Tasks : attempts[t] <= Retries[t] + 1)' /\ (\A t \in ready : attempts[t] = 0)'
      BY <2>3, <3>1, <3>6 DEF Starts
    <3>8. attempts' \in [Tasks -> Nat]
      BY <2>3, <3>1 DEF Starts
    <3> QED
      BY <2>3, <3>3, <3>4, <3>5, <3>7, <3>8 DEF Starts
  <2>4. CASE Leaves(w)
    <3>1. \A v \in Workers \ {w} : Placed(v)'
      BY <2>4 DEF Leaves, OthersStay, Placed
    <3>2. Placed(w)'
      BY <2>4 DEF Leaves, Placed, ThreadPoints, ProcessPoints
    <3>3. wk'[w].task = NULL /\ \A v \in Workers \ {w} : wk'[v].task = wk[v].task
      BY <2>4 DEF Leaves, OthersStay
    <3>4. \A u, v \in Workers : wk'[u].task = wk'[v].task /\ wk'[u].task # NULL => u = v
      BY <3>3
    <3> QED
      BY <2>4, <3>1, <3>2, <3>4 DEF Leaves
  <2> QED
    BY <1>1, <2>1, <2>2, <2>3, <2>4, WorkerMoves
<1>2. ASSUME NEW th \in Threads, Turns(th) PROVE Control'
  <2>1. \A w \in Workers : ab'[w].pc # "off" => wk[w].pc = "pop"
    <3> SUFFICES ASSUME NEW w \in Workers PROVE ab'[w].pc # "off" => wk[w].pc = "pop"
      OBVIOUS
    <3>1. Placed(w) /\ w \in Threads /\ w # Boss
      OBVIOUS
    <3>2. CASE w = th
      BY <1>2, <3>1, <3>2 DEF Turns, Placed
    <3>3. CASE w # th
      BY <1>2, <3>1, <3>3 DEF Turns, Placed
    <3> QED
      BY <3>2, <3>3
  <2>2. ASSUME NEW w \in Workers PROVE Placed(w)'
    BY <1>2, <2>1 DEF Turns, Placed
  <2> QED
    BY <1>2, <2>2 DEF Turns
<1>3. CASE UNCHANGED <<wk, ready, attempts, kind, ab>>
  BY <1>3 DEF Placed
<1>4. ASSUME NEW a \in Attempts, Carries(a) PROVE UNCHANGED <<wk, ready, attempts, kind, ab>>
  BY <1>4 DEF Carries, SidecarStep, Box, SetWake, Reply, Perish, Crash
<1>5. Asking => Turns(Boss)
  <2>1. ASSUME NEW t, Cancel(t), UNCHANGED kind PROVE Turns(Boss)
    BY <2>1 DEF Cancel, Ask, Turns, AtRest
  <2>2. ASSUME NEW how, Abort(how), UNCHANGED kind PROVE Turns(Boss)
    BY <2>2 DEF Abort, Ask, Turns, AtRest
  <2> QED
    BY <2>1, <2>2 DEF Asking, BossAsks
<1> QED
  BY <1>1, <1>2, <1>3, <1>4, <1>5, AbortMoves DEF Next, Waiting, vars

-----------------------------------------------------------------------------
(* Slots: which subprocess belongs to whom. *)

\* Worker w has a subprocess from spawning to the reply, and none when gone;
\* the attempt it is about to execute has spawned none yet.
SlotOf(w) ==
  /\ wk[w].pc \in {"publish", "recheck", "send", "await"} => slot[w] # NULL
  /\ wk[w].pc = "gone" => slot[w] = NULL
  /\ slot[w] # NULL => proc[slot[w]].st # "none"
  /\ wk[w].pc \in {"execute", "ensure"} => proc[Current(w)].st = "none"

\* No two workers share a subprocess, one that lives is in a slot, and only
\* attempts that were started have spawned one.
Slots ==
  /\ \A w \in Workers : SlotOf(w)
  /\ \A w, v \in Workers : slot[w] = slot[v] /\ slot[w] # NULL => w = v
  /\ \A a \in Attempts : Alive(a) => \E w \in Workers : slot[w] = a
  /\ \A a \in Attempts : proc[a].st # "none" => a[1] \notin ready /\ a[2] <= attempts[a[1]]

\* An attempt's process changes and goes on, or ends.
Alters(a) ==
  /\ slot' = slot /\ \A b \in Attempts \ {a} : proc'[b] = proc[b]
  /\ proc[a].st # "none" /\ proc'[a].st # "none" /\ (Alive(a)' => Alive(a))
  /\ proc'[a].st = "up" => proc[a].st = "up"

\* Worker w spawns a subprocess for its attempt, or reaps the one it has.
Spawns(w) ==
  /\ wk[w].pc = "ensure" /\ wk'[w].pc = "publish"
  /\ slot[w] # NULL => ~Alive(slot[w])
  /\ slot' = [slot EXCEPT ![w] = Current(w)]
  /\ \A b \in Attempts \ {Current(w)} : proc'[b] = proc[b]
  /\ proc'[Current(w)].st \in {"up", "leaving"} /\ proc'[Current(w)].jobs = <<>>
  /\ \/ proc'[Current(w)].replies = <<>>
     \/ proc'[Current(w)].st = "leaving" /\ \E r \in Tag : proc'[Current(w)].replies = <<r>>
           /\ r.of = NULL
Reaps(w) ==
  /\ slot' = [slot EXCEPT ![w] = NULL]
  /\ \A b \in Attempts : IF b = slot[w] THEN proc'[b].st = "dead" ELSE proc'[b] = proc[b]

\* A worker leaves the processes alone, which it never does as it awaits a
\* reply or goes, or spawns, reaps, sends its attempt or reads a reply
\* (processqueue.py: _execute, _Slot).
LEMMA WorkerProcs ==
  ASSUME WKType, ProcType, NEW w \in Workers, Works(w),
         wk[w].pc = "ensure" => Current(w) \in Attempts,
         wk[w].pc \in {"send", "await"} => slot[w] \in Attempts
  PROVE  \/ /\ UNCHANGED procVars /\ wk'[w].pc # "gone" /\ wk[w].pc # "await"
            /\ wk'[w].pc = "publish" => slot[w] # NULL /\ Alive(slot[w])
         \/ Spawns(w)
         \/ Reaps(w) /\ wk'[w].pc \in {"outcome", "reaped", "gone"}
         \/ Send(w) /\ wk'[w].pc = "await" /\ Serving(slot[w])
               /\ Becomes(slot[w], Sent(slot[w], Current(w))) /\ slot' = slot
         \/ Receive(w) /\ Becomes(slot[w], Read(slot[w])) /\ slot' = slot
<1> DEFINE Goal ==
         \/ /\ UNCHANGED procVars /\ wk'[w].pc # "gone" /\ wk[w].pc # "await"
            /\ wk'[w].pc = "publish" => slot[w] # NULL /\ Alive(slot[w])
         \/ Spawns(w)
         \/ Reaps(w) /\ wk'[w].pc \in {"outcome", "reaped", "gone"}
         \/ Send(w) /\ wk'[w].pc = "await" /\ Serving(slot[w])
               /\ Becomes(slot[w], Sent(slot[w], Current(w))) /\ slot' = slot
         \/ Receive(w) /\ Becomes(slot[w], Read(slot[w])) /\ slot' = slot
<1> USE DEF WKType, At, Goto, End, Unwind
<1>1. Reap(w) => Reaps(w)
  BY InitAssumption DEF Reap, Reaps, ProcType, Idle
<1>2. CASE Ensure(w)
  <2>1. CASE slot[w] # NULL /\ Alive(slot[w])
    BY <1>2, <2>1 DEF Ensure
  <2>2. CASE slot' = [slot EXCEPT ![w] = Current(w)] /\ proc' = [proc EXCEPT ![Current(w)] = Idle("up")]
    BY <1>2, <2>1, <2>2 DEF Ensure, Spawns, ProcType, Idle
  <2>3. CASE slot' = [slot EXCEPT ![w] = Current(w)] /\ proc' = [proc EXCEPT ![Current(w)] =
                                 [Idle("leaving") EXCEPT !.replies = <<[of |-> NULL, kind |-> "error"]>>]]
    BY <1>2, <2>1, <2>3 DEF Ensure, Spawns, ProcType, Idle, Tag
  <2> QED
    BY <1>2, <2>1, <2>2, <2>3 DEF Ensure
<1>3. CASE Recheck(w)
  BY <1>1, <1>3 DEF Recheck
<1>4. CASE Send(w)
  <2>1. CASE UNCHANGED procVars
    BY <1>4, <2>1 DEF Send
  <2>2. CASE Serving(slot[w]) /\ ~UNCHANGED procVars
    <3>1. slot' = slot /\ slot[w] \in Attempts /\ wk'[w].pc = "await"
      BY <1>4, <2>2 DEF Send
    <3> QED
      BY <1>4, <2>2, <3>1, ProcMoves
  <2> QED
    BY <1>4, <2>1, <2>2 DEF Send
<1>5. CASE Receive(w)
  <2>1. CASE Reap(w) /\ Goto(w, "reaped")
    BY <1>1, <2>1
  <2>2. CASE slot' = slot
    BY <1>1, <1>5, <2>1, <2>2, ProcMoves, ZenonT(30) DEF Receive
  <2> QED
    BY <1>5, <2>1, <2>2 DEF Receive
<1>6. CASE Bereaved(w)
  BY <1>1, <1>6 DEF Bereaved
<1>7. CASE TimeOut(w)
  BY <1>1, <1>7 DEF TimeOut
<1>8. CASE Close(w)
  BY <1>1, <1>8 DEF Close
<1>9. CASE WorkerStep(w) /\ UNCHANGED procVars
  BY <1>9 DEF WorkerStep, Take, Register, Check, Start, Outcome, Delay, Record, Count, Pop, Stop
<1>10. CASE (ThreadStep(w) \/ Expire(w)) /\ UNCHANGED procVars
  BY <1>10 DEF ThreadStep, Wire, Launch, LookInBox, LookAtFlag, LookAtThread, LookAtClock, WakeUp,
     Expire
<1>11. CASE Begin(w) \/ PublishSlot(w) \/ Explain(w)
  BY <1>11 DEF Begin, PublishSlot, Explain
<1> HIDE DEF Goal
<1> QED
  BY <1>2, <1>3, <1>4, <1>5, <1>6, <1>7, <1>8, <1>9, <1>10, <1>11 DEF Works, ProcessStep

\* All that is no worker's step: it leaves the workers alone, and at most one
\* process a is signalled, ends or replies.
Elsewhere(a) ==
  /\ UNCHANGED <<wk, attempts>> /\ ready' \subseteq ready
  /\ \/ UNCHANGED procVars
     \/ /\ a \in Attempts /\ Alters(a)
        /\ \/ proc[a].st = "up" /\ proc'[a].jobs = proc[a].jobs /\ proc'[a].replies = proc[a].replies
           \/ proc'[a].st = "dead" /\ proc'[a].jobs = <<>> /\ proc'[a].replies = proc[a].replies
           \/ /\ Serving(a) /\ proc[a].jobs # <<>> /\ proc'[a].st = proc[a].st
                    /\ proc'[a].jobs = Tail(proc[a].jobs)
              /\ \E r \in Tag : r.of = Head(proc[a].jobs)
                    /\ proc'[a].replies = Append(proc[a].replies, r)

\* Whatever interrupts, user code, the application and the client do to the
\* processes is one of the three things of Elsewhere.
LEMMA Around ==
  ASSUME ABType, ProcType, Control, [Next]_vars, \A w \in Workers : ~Works(w),
         \A t \in Tasks : ctl[t].slot \in Workers \cup {NULL}
  PROVE  \E a \in Attempts \cup {NULL} : Elsewhere(a)
<1>1. ASSUME NEW th \in Threads, Strike(th)
      PROVE /\ UNCHANGED <<wk, ready, attempts>>
            /\ \E a \in Attempts \cup {NULL} :
                 \/ UNCHANGED procVars
                 \/ /\ a \in Attempts /\ Alters(a) /\ proc[a].st = "up"
                    /\ proc'[a].jobs = proc[a].jobs /\ proc'[a].replies = proc[a].replies
  <2> DEFINE v == ctl[ab[th].cur].slot
  <2>1. UNCHANGED <<wk, ready, attempts>>
    BY <1>1 DEF Strike
  <2>2. \/ UNCHANGED procVars
        \/ /\ v # NULL /\ slot[v] # NULL /\ slot' = slot
           /\ proc[slot[v]].st = "up" /\ proc' = [proc EXCEPT ![slot[v]].st = "dying"]
    BY <1>1 DEF Strike, Terminated
  <2>3. v \in Workers \cup {NULL}
    BY <1>1 DEF Control, Strike, ABType, ABRec
  <2>4. ASSUME NEW a \in Attempts, slot' = slot, proc[a].st = "up",
               proc' = [proc EXCEPT ![a].st = "dying"]
        PROVE Alters(a) /\ proc'[a].jobs = proc[a].jobs /\ proc'[a].replies = proc[a].replies
    BY <2>4 DEF Alters, ProcType, Alive, Serving
  <2> QED
    BY <2>1, <2>2, <2>3, <2>4 DEF ProcType
<1>2. ASSUME NEW th \in Threads, Interferes(th) PROVE \E a \in Attempts \cup {NULL} : Elsewhere(a)
  <2>1. UNCHANGED <<wk, attempts>> /\ ready' \subseteq ready
    BY <1>2, AbortMoves DEF Control, Turns
  <2>2. UNCHANGED procVars \/ Strike(th)
    BY <1>2 DEF Interferes, Wake
  <2> QED
    BY <1>1, <2>1, <2>2 DEF Elsewhere
<1>3. ASSUME NEW a \in Attempts, Carries(a) PROVE Elsewhere(a)
  <2>1. CASE SidecarStep(a) /\ UNCHANGED procVars
    BY <2>1 DEF SidecarStep, Box, SetWake, Elsewhere
  <2>2. CASE Reply(a)
    <3>1. PICK k \in {"value", "error", "exit", "garbled"} : Becomes(a, Replied(a, k))
      BY <2>2, ProcMoves
    <3>2. proc[a] \in Proc
      BY ProcMoves
    <3>3. [of |-> Head(proc[a].jobs), kind |-> k] \in Tag
      BY <2>2, <3>2 DEF Tag, Reply, Proc
    <3>4. Alters(a)
      BY <2>2, <3>1 DEF Alters, Reply, Replied, Becomes, ProcType, Alive, Serving
    <3>5. proc'[a].st = proc[a].st /\ proc'[a].jobs = Tail(proc[a].jobs)
             /\ proc'[a].replies = Append(proc[a].replies, [of |-> Head(proc[a].jobs), kind |-> k])
      BY <3>1 DEF Becomes, Replied, ProcType
    <3> QED
      BY <2>2, <3>3, <3>4, <3>5 DEF Elsewhere, Reply
  <2>3. CASE Perish(a) \/ Crash(a)
    <3>1. Becomes(a, Killed(a))
      BY <2>3, ProcMoves
    <3> QED
      BY <2>3, <3>1 DEF Elsewhere, Alters, Perish, Crash, Killed, Becomes, ProcType, Alive, Serving
  <2> QED
    BY <1>3, <2>1, <2>2, <2>3 DEF Carries
<1>4. Asking \/ Waiting \/ UNCHANGED vars => Elsewhere(NULL)
  <2>1. Asking => Elsewhere(NULL)
    BY DEF Asking, BossAsks, Cancel, Abort, Elsewhere
  <2> QED
    BY <2>1 DEF Waiting, vars, Elsewhere
<1> QED
  BY <1>2, <1>3, <1>4 DEF Next

\* The slot of a worker that keeps still, next to a process that does not
\* come into being.
LEMMA SlotKept ==
  ASSUME NEW v \in Workers, SlotOf(v), wk'[v] = wk[v], slot'[v] = slot[v],
         slot[v] # NULL => proc'[slot[v]].st # "none",
         wk[v].pc \in {"execute", "ensure"} => Current(v)' = Current(v)
            /\ proc'[Current(v)].st = proc[Current(v)].st
  PROVE  SlotOf(v)'
BY DEF SlotOf

\* A worker inside _execute has a started attempt in hand, and a subprocess
\* once it has ensured one.
LEMMA InHandIs ==
  ASSUME WKType, ProcType, Control, Slots, NEW w \in Workers
  PROVE  /\ wk[w].pc \in {"execute"} \cup ThreadPoints \cup ProcessPoints =>
              /\ wk[w].task \in Tasks /\ Current(w) \in Attempts
              /\ Current(w)[1] = wk[w].task /\ Current(w)[2] = attempts[wk[w].task]
         /\ wk[w].pc \in {"publish", "recheck", "send", "await"} => slot[w] \in Attempts
<1>1. Placed(w) /\ SlotOf(w)
  BY DEF Control, Slots
<1>2. CASE wk[w].pc \in {"execute"} \cup ThreadPoints \cup ProcessPoints
  <2>1. wk[w].task \in Tasks /\ attempts[wk[w].task] \in 1 .. Retries[wk[w].task] + 1
    BY <1>1, <1>2, WorkerAssumption DEF Placed, WKType, Control, ThreadPoints, ProcessPoints
  <2> QED
    BY <1>1, <2>1, Attempt DEF Current, SlotOf, ProcType, Control
<1> QED
  BY <1>2 DEF ProcessPoints

\* Every step keeps the subprocesses owned: a new one takes the place of a
\* dead one in the slot of the worker that spawns it, a reaped one is dead
\* (processqueue.py:128-200).
LEMMA SlotsStep ==
  ASSUME WKType, ABType, ProcType, Control, Slots, [Next]_vars, WKType',
         \A t \in Tasks : ctl[t].slot \in Workers \cup {NULL}
  PROVE  Slots'
<1> USE WorkerAssumption, InitAssumption, HandlesAssumption
<1>1. ASSUME NEW w \in Workers
      PROVE  /\ wk[w].pc \in {"execute"} \cup ProcessPoints =>
                  /\ wk[w].task \in Tasks /\ Current(w) \in Attempts
                  /\ Current(w)[1] = wk[w].task /\ Current(w)[2] = attempts[wk[w].task]
             /\ wk[w].pc \in {"publish", "recheck", "send", "await"} => slot[w] \in Attempts
  BY InHandIs
<1>2. ASSUME NEW w \in Workers, Works(w) PROVE Slots'
  <2> USE DEF Slots
  <2>0. Goes(w) \/ Takes(w) \/ Starts(w) \/ Leaves(w)
    BY <1>2, WorkerMoves
  <2>1. CASE UNCHANGED procVars /\ wk'[w].pc # "gone"
           /\ (wk'[w].pc = "publish" => slot[w] # NULL /\ Alive(slot[w]))
    <3>1. CASE Goes(w)
      <4>1. SlotOf(w)'
        <5>1. wk'[w].pc \in {"recheck", "send", "await"} => wk[w].pc \in {"publish", "recheck", "send"}
          BY <3>1 DEF Goes, Edge, ThreadEdge, ProcessEdge
        <5>2. wk'[w].pc \in {"execute", "ensure"} => wk[w].pc = "execute" /\ Current(w)' = Current(w)
          BY <3>1 DEF Goes, Edge, ThreadEdge, ProcessEdge, Current
        <5> QED
          BY <2>1, <5>1, <5>2 DEF SlotOf
      <4>2. \A v \in Workers \ {w} : SlotOf(v)'
        BY <2>1, <3>1, ZenonT(30) DEF Goes, OthersStay, SlotOf, Current
      <4> QED
        BY <2>1, <3>1, <4>1, <4>2 DEF Goes, Alive, Serving
    <3>2. CASE Takes(w) \/ Leaves(w)
      <4>1. SlotOf(w)'
        BY <2>1, <3>2 DEF Takes, Leaves, SlotOf, Current
      <4>2. \A v \in Workers \ {w} : SlotOf(v)'
        <5> SUFFICES ASSUME NEW v \in Workers \ {w} PROVE SlotOf(v)'
          OBVIOUS
        <5>1. wk'[v] = wk[v] /\ Current(v)' = Current(v)
          BY <3>2 DEF Takes, Leaves, OthersStay, Current
        <5> QED
          BY <2>1, <5>1, SlotKept DEF SlotOf
      <4> QED
        BY <2>1, <3>2, <4>1, <4>2 DEF Takes, Leaves, Alive, Serving
    <3>3. CASE Starts(w)
      <4> DEFINE t == wk[w].task
      <4>1. t \in Tasks /\ attempts[t] \in Nat /\ attempts[t] <= Retries[t]
        BY <3>3 DEF Control, Placed, Starts, WKType
      <4>2. attempts'[t] = attempts[t] + 1
        BY <3>3, <4>1 DEF Starts, Control
      <4>3. Current(w)' = <<t, attempts[t] + 1>>
        BY <3>3, <4>2 DEF Starts, Current
      <4>4. Current(w)' \in Attempts /\ Current(w)'[1] = t /\ Current(w)'[2] = attempts[t] + 1
        BY <4>1, <4>3, Attempt, SMTT(30)
      <4>5. proc[Current(w)'].st = "none"
        BY <4>1, <4>4
      <4>6. SlotOf(w)'
        BY <2>1, <3>3, <4>5 DEF Starts, SlotOf
      <4>7. \A v \in Workers \ {w} : SlotOf(v)'
        <5> SUFFICES ASSUME NEW v \in Workers \ {w} PROVE SlotOf(v)'
          OBVIOUS
        <5>1. wk'[v] = wk[v] /\ wk[v].task # t
          BY <3>3, <4>1 DEF Starts, OthersStay, Control
        <5>2. wk[v].pc \in {"execute", "ensure"} => Current(v)' = Current(v)
          BY <1>1, <3>3, <5>1 DEF Starts, Current, ProcessPoints, Control
        <5> QED
          BY <2>1, <5>1, <5>2 DEF SlotOf
      <4>8. \A a \in Attempts : proc[a].st # "none" => a[2] <= attempts'[a[1]]
        <5> SUFFICES ASSUME NEW a \in Attempts, proc[a].st # "none" PROVE a[2] <= attempts'[a[1]]
          OBVIOUS
        <5>1. a[1] \in Tasks /\ a[2] \in Nat /\ a[2] <= attempts[a[1]]
          BY Attempt
        <5>2. attempts[a[1]] \in Nat /\ attempts'[a[1]] >= attempts[a[1]]
          BY <3>3, <4>1, <4>2, <5>1, SMTT(30) DEF Starts, Control
        <5>3. attempts[a[1]] \in Nat /\ attempts'[a[1]] \in Int
          BY <3>3, <4>1, <4>2, <5>1, SMTT(30) DEF Starts, Control
        <5> QED
          BY <5>1, <5>2, <5>3
      <4> QED
        BY <2>1, <3>3, <4>6, <4>7, <4>8 DEF Starts, Alive, Serving
    <3> QED
      BY <2>0, <3>1, <3>2, <3>3
  <2>2. CASE Spawns(w)
    <3> DEFINE c == Current(w)
    <3>1. Goes(w) /\ c \in Attempts /\ c[1] = wk[w].task /\ c[2] = attempts[c[1]]
             /\ wk[w].task \in Tasks
      BY <1>1, <2>0, <2>2 DEF Spawns, Takes, Starts, Leaves, ProcessPoints
    <3>2. proc[c].st = "none" /\ wk[w].task \notin ready
      BY <2>2 DEF Spawns, SlotOf, Control, Placed
    <3>3. slot'[w] = c /\ c # NULL /\ \A v \in Workers \ {w} : slot'[v] = slot[v] /\ slot[v] # c
      BY <2>2, <3>1, <3>2 DEF Spawns, ProcType, SlotOf
    <3>4. SlotOf(w)'
      BY <2>2, <3>3 DEF Spawns, SlotOf
    <3>5. \A v \in Workers \ {w} : SlotOf(v)'
      <4> SUFFICES ASSUME NEW v \in Workers \ {w} PROVE SlotOf(v)'
        OBVIOUS
      <4>1. wk'[v] = wk[v] /\ attempts' = attempts
        BY <3>1 DEF Goes, OthersStay
      <4>2. wk[v].pc \in {"execute", "ensure"} => Current(v) # c /\ Current(v) \in Attempts
        BY <1>1, <3>1 DEF Control, ProcessPoints
      <4>3. Current(v)' = Current(v)
        BY <4>1 DEF Current
      <4>4. slot[v] # NULL => proc'[slot[v]] = proc[slot[v]] /\ proc[slot[v]].st # "none"
        BY <2>2, <3>3 DEF Spawns, ProcType, SlotOf
      <4> QED
        BY <2>2, <3>3, <4>1, <4>2, <4>3, <4>4, SlotKept DEF Spawns
    <3>6. \A a \in Attempts : Alive(a)' => \E v \in Workers : slot'[v] = a
      <4> SUFFICES ASSUME NEW a \in Attempts, Alive(a)', a # c PROVE \E v \in Workers : slot'[v] = a
        BY <3>3
      <4>1. Alive(a)
        BY <2>2 DEF Spawns, Alive, Serving
      <4>2. PICK v \in Workers : slot[v] = a
        BY <4>1
      <4> QED
        BY <2>2, <3>3, <4>1, <4>2 DEF Spawns
    <3>7. \A a \in Attempts : proc'[a].st # "none" => a[1] \notin ready' /\ a[2] <= attempts'[a[1]]
      <4> SUFFICES ASSUME NEW a \in Attempts, proc'[a].st # "none"
          PROVE a[1] \notin ready' /\ a[2] <= attempts'[a[1]]
        OBVIOUS
      <4>1. ready' = ready /\ attempts' = attempts
        BY <3>1 DEF Goes
      <4>2. CASE a = c
        <5>1. attempts[c[1]] \in Nat
          BY <3>1 DEF Control
        <5> QED
          BY <3>1, <3>2, <4>1, <4>2, <5>1
      <4>3. CASE a # c
        BY <2>2, <4>1, <4>3 DEF Spawns
      <4> QED
        BY <4>2, <4>3
    <3>8. \A u, v \in Workers : slot'[u] = slot'[v] /\ slot'[u] # NULL => u = v
      BY <3>3
    <3> QED
      BY <3>4, <3>5, <3>6, <3>7, <3>8
  <2>3. CASE Reaps(w) /\ wk'[w].pc \in {"outcome", "reaped", "gone"}
    <3>1. Goes(w)
      BY <2>0, <2>3 DEF Takes, Starts, Leaves
    <3>2. slot'[w] = NULL /\ \A v \in Workers \ {w} : slot'[v] = slot[v]
             /\ (slot[v] # NULL => slot[v] # slot[w])
      BY <2>3 DEF Reaps, ProcType
    <3>3. SlotOf(w)'
      BY <2>3, <3>2 DEF SlotOf
    <3>4. \A v \in Workers \ {w} : SlotOf(v)'
      <4> SUFFICES ASSUME NEW v \in Workers \ {w} PROVE SlotOf(v)'
        OBVIOUS
      <4>1. wk'[v] = wk[v] /\ attempts' = attempts
        BY <3>1 DEF Goes, OthersStay
      <4>2. wk[v].pc \in {"execute", "ensure"} => Current(v) \in Attempts
               /\ proc[Current(v)].st = "none"
        BY <1>1 DEF SlotOf, ProcessPoints
      <4>3. wk[v].pc \in {"execute", "ensure"} => proc'[Current(v)] = proc[Current(v)]
        BY <2>3, <4>2 DEF Reaps, SlotOf
      <4>4. Current(v)' = Current(v)
        BY <4>1 DEF Current
      <4>5. slot[v] # NULL => proc'[slot[v]] = proc[slot[v]] /\ proc[slot[v]].st # "none"
        BY <2>3, <3>2 DEF Reaps, ProcType, SlotOf
      <4> QED
        BY <3>2, <4>1, <4>3, <4>4, <4>5, SlotKept
    <3>5. \A a \in Attempts : Alive(a)' => \E v \in Workers : slot'[v] = a
      <4> SUFFICES ASSUME NEW a \in Attempts, Alive(a)' PROVE \E v \in Workers : slot'[v] = a
        OBVIOUS
      <4>1. Alive(a) /\ a # slot[w]
        BY <2>3 DEF Reaps, Alive, Serving
      <4>2. PICK v \in Workers : slot[v] = a
        BY <4>1
      <4> QED
        BY <3>2, <4>1, <4>2
    <3>6. \A a \in Attempts : proc'[a].st # "none" => a[1] \notin ready' /\ a[2] <= attempts'[a[1]]
      <4> SUFFICES ASSUME NEW a \in Attempts, proc'[a].st # "none"
          PROVE a[1] \notin ready' /\ a[2] <= attempts'[a[1]]
        OBVIOUS
      <4>1. ready' = ready /\ attempts' = attempts
        BY <3>1 DEF Goes
      <4>2. proc[a].st # "none"
        BY <2>3 DEF Reaps, SlotOf
      <4> QED
        BY <4>1, <4>2
    <3> QED
      BY <3>2, <3>3, <3>4, <3>5, <3>6, SMTT(30)
  <2>4. ASSUME NEW p \in Proc, Becomes(slot[w], p), slot' = slot, p.st = proc[slot[w]].st,
               wk[w].pc \in {"send", "await"}, wk'[w].pc \in {"await", "outcome"}
        PROVE Slots'
    <3>1. Goes(w) /\ slot[w] \in Attempts
      BY <1>1, <2>0, <2>4 DEF Takes, Starts, Leaves
    <3>2. \A a \in Attempts : proc'[a].st = proc[a].st
      BY <2>4, <3>1 DEF Becomes, ProcType
    <3>3. SlotOf(w)'
      BY <2>4, <3>1, <3>2 DEF SlotOf
    <3>4. \A v \in Workers \ {w} : SlotOf(v)'
      <4> SUFFICES ASSUME NEW v \in Workers \ {w} PROVE SlotOf(v)'
        OBVIOUS
      <4>1. wk'[v] = wk[v] /\ Current(v)' = Current(v)
        BY <3>1 DEF Goes, OthersStay, Current
      <4>2. (slot[v] # NULL => slot[v] \in Attempts)
               /\ (wk[v].pc \in {"execute", "ensure"} => Current(v) \in Attempts)
        BY <1>1 DEF ProcType, ProcessPoints
      <4>3. SlotOf(v) /\ (slot[v] # NULL => proc[slot[v]].st # "none")
        BY DEF SlotOf
      <4> QED
        BY <2>4, <3>2, <4>1, <4>2, <4>3, SlotKept
    <3> QED
      BY <2>4, <3>1, <3>2, <3>3, <3>4, ZenonT(30) DEF Goes, Alive, Serving
  <2>5. CASE Send(w) /\ Becomes(slot[w], Sent(slot[w], Current(w))) /\ slot' = slot
    <3>1. wk[w].pc = "send" /\ wk'[w].pc \in {"await", "outcome"} /\ slot[w] \in Attempts
             /\ Current(w) \in Attempts
      BY <1>1, <2>5 DEF Send, At, Goto, End, WKType, ProcessPoints
    <3> DEFINE p == Sent(slot[w], Current(w))
    <3>2. proc[slot[w]] \in Proc
      BY <3>1, ProcMoves
    <3>3. p \in Proc /\ p.st = proc[slot[w]].st
      BY <3>1, <3>2 DEF Proc, Sent
    <3> QED
      BY <2>4, <2>5, <3>1, <3>3
  <2>6. CASE Receive(w) /\ Becomes(slot[w], Read(slot[w])) /\ slot' = slot
    <3>1. wk[w].pc = "await" /\ slot[w] \in Attempts /\ proc[slot[w]].replies # <<>>
      BY <1>1, <2>6 DEF Receive, At
    <3> DEFINE p == Read(slot[w])
    <3>2. proc[slot[w]] \in Proc
      BY <3>1, ProcMoves
    <3>3. p \in Proc /\ p.st = proc[slot[w]].st
      BY <3>1, <3>2 DEF Proc, Read
    <3>4. wk'[w].pc = "outcome"
      BY <2>6, <3>1 DEF Receive, End, Goto, Reap, WKType, ProcType
    <3> QED
      BY <2>4, <2>6, <3>1, <3>3, <3>4
  <2> QED
    BY <1>1, <1>2, <2>1, <2>2, <2>3, <2>5, <2>6, WorkerProcs DEF ProcessPoints
<1>3. ASSUME NEW a \in Attempts \cup {NULL}, Elsewhere(a) PROVE Slots'
  <2> USE DEF Slots
  <2>1. CASE UNCHANGED procVars
    BY <1>3, <2>1 DEF Elsewhere, SlotOf, Current, Alive, Serving
  <2>2. CASE Alters(a) /\ a \in Attempts
    <3>1. \A b \in Attempts : /\ (proc'[b].st = "none") <=> (proc[b].st = "none")
                              /\ Alive(b)' => Alive(b)
      BY <2>2 DEF Alters, Alive, Serving
    <3>2. \A w \in Workers : SlotOf(w)'
      <4> SUFFICES ASSUME NEW w \in Workers PROVE SlotOf(w)'
        OBVIOUS
      <4>1. wk' = wk /\ Current(w)' = Current(w) /\ slot' = slot
        BY <1>3, <2>2 DEF Elsewhere, Alters, Current
      <4>2. (slot[w] # NULL => slot[w] \in Attempts)
               /\ (wk[w].pc \in {"execute", "ensure"} => Current(w) \in Attempts)
        BY <1>1 DEF ProcType, ProcessPoints
      <4> QED
        BY <3>1, <4>1, <4>2 DEF SlotOf
    <3> QED
      BY <1>3, <2>2, <3>1, <3>2 DEF Elsewhere, Alters
  <2> QED
    BY <1>3, <2>1, <2>2 DEF Elsewhere
<1> QED
  BY <1>2, <1>3, Around

-----------------------------------------------------------------------------
(* Pipes: what a subprocess that is kept from task to task still holds. *)

\* What process p may hold while it is in the slot of a worker at point pc
\* with attempt current: at most the one job or the one reply of the attempt
\* awaited, or the report of a failed initializer.
Orderly(p, pc, current) ==
  /\ p.jobs = <<>> \/ (pc = "await" /\ p.jobs = <<current>> /\ p.replies = <<>>)
  /\ \/ p.replies = <<>>
     \/ \E r \in Tag : /\ p.replies = <<r>>
                       /\ \/ r.of = NULL /\ p.st \in {"leaving", "dead"}
                          \/ pc = "await" /\ r.of = current

\* The pipes of w's subprocess, and of all that are in a slot.
PipeOf(w) == Orderly(proc[slot[w]], wk[w].pc, Current(w))
Pipes == \A w \in Workers : slot[w] # NULL => PipeOf(w)

\* Every step keeps the pipes orderly: an attempt is sent to a process whose
\* pipes hold nothing of another, because whoever does not wait for the reply
\* to the end reaps the process (processqueue.py:333).
LEMMA PipesStep ==
  ASSUME WKType, ABType, ProcType, Control, Slots, Pipes, [Next]_vars, WKType', ProcType',
         \A t \in Tasks : ctl[t].slot \in Workers \cup {NULL}
  PROVE  Pipes'
<1> USE InitAssumption
\* A worker that keeps still, with its process.
<1>1. ASSUME NEW v \in Workers, wk'[v] = wk[v], slot'[v] = slot[v],
        wk[v].task # NULL => attempts'[wk[v].task] = attempts[wk[v].task],
        slot[v] # NULL => proc'[slot[v]] = proc[slot[v]]
      PROVE slot'[v] # NULL => PipeOf(v)'
  <2> SUFFICES ASSUME slot[v] # NULL PROVE PipeOf(v)'
    BY <1>1
  <2>1. PipeOf(v) /\ Placed(v)
    BY DEF Pipes, Control
  <2>2. wk[v].pc = "await" => Current(v)' = Current(v)
    BY <1>1, <2>1 DEF Placed, Current
  <2> QED
    BY <1>1, <2>1, <2>2 DEF PipeOf, Orderly
\* A worker that awaits nothing: its process has nothing for it.
<1>2. ASSUME NEW w \in Workers, wk[w].pc # "await", slot'[w] = slot[w], slot[w] # NULL =>
         proc'[slot[w]] = proc[slot[w]]
      PROVE slot'[w] # NULL => PipeOf(w)'
  BY <1>2 DEF Pipes, PipeOf, Orderly
<1>3. ASSUME NEW w \in Workers, Works(w) PROVE Pipes'
  <2>1. \A v \in Workers \ {w} : wk'[v] = wk[v]
           /\ (wk[v].task # NULL => attempts'[wk[v].task] = attempts[wk[v].task])
    BY <1>3, WorkerMoves DEF Goes, Takes, Starts, Leaves, OthersStay, Control, WKType
  <2>2. CASE UNCHANGED procVars /\ wk[w].pc # "await"
    <3>1. \A v \in Workers \ {w} : slot'[v] # NULL => PipeOf(v)'
      BY <1>1, <2>1, <2>2
    <3>2. slot'[w] # NULL => PipeOf(w)'
      BY <1>2, <2>2
    <3> QED
      BY <3>1, <3>2 DEF Pipes
  <2>3. CASE Spawns(w)
    <3> DEFINE c == Current(w)
    <3>1. c \in Attempts /\ proc[c].st = "none"
      BY <2>3, InHandIs DEF Spawns, ProcessPoints, Slots, SlotOf
    <3>2. slot'[w] = c /\ \A v \in Workers \ {w} : slot'[v] = slot[v] /\ (slot[v] # NULL => slot[v] # c)
      BY <2>3, <3>1 DEF Spawns, ProcType, Slots, SlotOf
    <3>3. PipeOf(w)'
      BY <2>3, <3>1, <3>2 DEF Spawns, PipeOf, Orderly
    <3>4. \A v \in Workers \ {w} : slot[v] # NULL => proc'[slot[v]] = proc[slot[v]]
      BY <2>3, <3>1, <3>2 DEF Spawns, ProcType
    <3>5. \A v \in Workers \ {w} : slot'[v] # NULL => PipeOf(v)'
      BY <1>1, <2>1, <3>2, <3>4
    <3> QED
      BY <3>3, <3>5 DEF Pipes
  <2>4. CASE Reaps(w)
    <3>1. slot'[w] = NULL /\ \A v \in Workers \ {w} : slot'[v] = slot[v]
             /\ (slot[v] # NULL => slot[v] # slot[w])
      BY <2>4 DEF Reaps, ProcType, Slots
    <3>2. \A v \in Workers \ {w} : slot[v] # NULL => proc'[slot[v]] = proc[slot[v]]
      BY <2>4, <3>1 DEF Reaps, ProcType
    <3>3. \A v \in Workers \ {w} : slot'[v] # NULL => PipeOf(v)'
      BY <1>1, <2>1, <3>1, <3>2
    <3> QED
      BY <3>1, <3>3 DEF Pipes
  <2>5. ASSUME NEW p, Becomes(slot[w], p), slot' = slot, slot[w] \in Attempts,
               Orderly(p, wk'[w].pc, Current(w)')
        PROVE Pipes'
    <3>1. \A v \in Workers \ {w} : slot[v] # NULL => slot[v] # slot[w]
      BY <2>5 DEF Slots
    <3>2. \A v \in Workers \ {w} : slot[v] # NULL => proc'[slot[v]] = proc[slot[v]]
      BY <2>5, <3>1 DEF Becomes, ProcType
    <3>3. \A v \in Workers \ {w} : slot'[v] # NULL => PipeOf(v)'
      BY <1>1, <2>1, <2>5, <3>2
    <3>4. proc'[slot[w]] = p
      BY <2>5 DEF Becomes, ProcType
    <3>5. PipeOf(w)'
      BY <2>5, <3>4 DEF PipeOf
    <3> QED
      BY <3>3, <3>5 DEF Pipes
  <2>6. CASE Send(w) /\ wk'[w].pc = "await" /\ Serving(slot[w])
           /\ Becomes(slot[w], Sent(slot[w], Current(w))) /\ slot' = slot
    <3> DEFINE p == Sent(slot[w], Current(w))
    <3>1. wk[w].pc = "send" /\ slot[w] \in Attempts /\ slot[w] # NULL /\ Current(w) \in Attempts
      BY <2>6, InHandIs DEF Send, At, ProcessPoints
    <3>2. proc[slot[w]].jobs = <<>> /\ proc[slot[w]].replies = <<>>
      BY <2>6, <3>1 DEF Pipes, PipeOf, Orderly, Serving
    <3>4. wk'[w].pc = "await" /\ Current(w)' = Current(w)
      BY <2>6 DEF Send, Goto, End, WKType, Current
    <3>5. p.jobs = <<Current(w)>> /\ p.replies = <<>>
      BY <3>1, <3>2 DEF Sent
    <3>6. Orderly(p, wk'[w].pc, Current(w)')
      BY <3>4, <3>5 DEF PipeOf, Orderly
    <3> QED
      BY <2>5, <2>6, <3>1, <3>6
  <2>7. CASE Receive(w) /\ Becomes(slot[w], Read(slot[w])) /\ slot' = slot
    <3> DEFINE p == Read(slot[w])
    <3>1. wk[w].pc = "await" /\ slot[w] \in Attempts /\ slot[w] # NULL /\ proc[slot[w]].replies # <<>>
      BY <2>7, InHandIs DEF Receive, At
    <3>2. PICK r \in Tag : proc[slot[w]].replies = <<r>>
      BY <3>1 DEF Pipes, PipeOf, Orderly
    <3>3. proc[slot[w]].jobs = <<>>
      BY <3>1 DEF Pipes, PipeOf, Orderly
    <3>4. p.jobs = <<>> /\ p.replies = <<>>
      BY <3>2, <3>3 DEF Read
    <3>5. Orderly(p, wk'[w].pc, Current(w)')
      BY <3>4 DEF PipeOf, Orderly
    <3> QED
      BY <2>5, <2>7, <3>1, <3>5
  <2> QED
    BY <1>3, <2>2, <2>3, <2>4, <2>6, <2>7, WorkerProcs, InHandIs DEF ProcessPoints
<1>4. ASSUME NEW a \in Attempts \cup {NULL}, Elsewhere(a) PROVE Pipes'
  <2>1. \A v \in Workers : wk'[v] = wk[v] /\ Current(v)' = Current(v)
           /\ (wk[v].task # NULL => attempts'[wk[v].task] = attempts[wk[v].task])
    BY <1>4 DEF Elsewhere, Current
  <2>2. CASE UNCHANGED procVars
    BY <1>1, <2>1, <2>2 DEF Pipes
  <2>3. ASSUME a \in Attempts, Alters(a), \A w \in Workers : slot[w] = a => PipeOf(w)' PROVE Pipes'
    <3> SUFFICES ASSUME NEW v \in Workers, slot'[v] # NULL PROVE PipeOf(v)'
      BY DEF Pipes
    <3>1. slot' = slot
      BY <2>3 DEF Alters
    <3>2. CASE slot[v] = a
      BY <2>3, <3>1, <3>2
    <3>3. CASE slot[v] # a
      BY <1>1, <2>1, <2>3, <3>1, <3>3 DEF Alters, ProcType
    <3> QED
      BY <3>2, <3>3
  <2>4. CASE a \in Attempts /\ Alters(a) /\ proc[a].st = "up" /\ proc'[a].jobs = proc[a].jobs
           /\ proc'[a].replies = proc[a].replies
    <3>1. ASSUME NEW w \in Workers, slot[w] = a PROVE PipeOf(w)'
      <4>1. Orderly(proc[a], wk[w].pc, Current(w)) /\ slot'[w] = a
        BY <2>4, <3>1, InitAssumption DEF Pipes, PipeOf, Alters
      <4>2. Orderly(proc'[a], wk[w].pc, Current(w))
        BY <2>4, <4>1 DEF Orderly
      <4> QED
        BY <2>1, <4>1, <4>2 DEF PipeOf
    <3> QED
      BY <2>3, <2>4, <3>1
  <2>5. CASE a \in Attempts /\ Alters(a) /\ proc'[a].st = "dead" /\ proc'[a].jobs = <<>>
           /\ proc'[a].replies = proc[a].replies
    <3>1. ASSUME NEW w \in Workers, slot[w] = a PROVE PipeOf(w)'
      <4>1. Orderly(proc[a], wk[w].pc, Current(w)) /\ slot'[w] = a
        BY <2>5, <3>1, InitAssumption DEF Pipes, PipeOf, Alters
      <4>2. Orderly(proc'[a], wk[w].pc, Current(w))
        BY <2>5, <4>1 DEF Orderly
      <4> QED
        BY <2>1, <4>1, <4>2 DEF PipeOf
    <3> QED
      BY <2>3, <2>5, <3>1
  <2>6. ASSUME NEW r \in Tag, a \in Attempts, Alters(a), proc[a].jobs # <<>>,
               proc'[a].jobs = Tail(proc[a].jobs),
            r.of = Head(proc[a].jobs), proc'[a].replies = Append(proc[a].replies, r) PROVE Pipes'
    <3>1. ASSUME NEW w \in Workers, slot[w] = a PROVE PipeOf(w)'
      <4>1. wk[w].pc = "await" /\ proc[a].jobs = <<Current(w)>> /\ proc[a].replies = <<>>
        BY <2>6, <3>1 DEF Pipes, PipeOf, Orderly
      <4>2. proc'[a].jobs = <<>> /\ proc'[a].replies = <<r>> /\ r.of = Current(w)
        BY <2>6, <4>1
      <4>3. Orderly(proc'[a], wk[w].pc, Current(w)) /\ slot'[w] = a
        BY <2>6, <3>1, <4>1, <4>2 DEF Orderly, Alters
      <4> QED
        BY <2>1, <4>3 DEF PipeOf
    <3> QED
      BY <2>3, <2>6, <3>1
  <2> QED
    BY <1>4, <2>2, <2>4, <2>5, <2>6 DEF Elsewhere
<1> QED
  BY <1>3, <1>4, Around

-----------------------------------------------------------------------------
(* Reach: how far an interrupt has come as a worker goes to sleep. *)

\* An interrupt of t has its executor's two steps, or at least the last, to go.
Waking(t) == \E th \in Threads : ab[th].pc = "wake" /\ ab[th].cur = t
Striking(t) == \E th \in Threads : ab[th].pc \in {"wake", "strike"} /\ ab[th].cur = t

\* A step takes no interrupt of t further.
Still(t) == (Waking(t) => Waking(t)') /\ (Striking(t) => Striking(t)')

\* The wake event and the slot in the control block are those of the attempt
\* the worker is about to wait for; and if the flag is up, which the worker
\* has looked at before, either the event is set (the process signalled) or
\* the interrupt is still to do it.
Reached(w) ==
  LET t == wk[w].task IN
  /\ wk[w].pc \in ThreadPoints => ctl[t].wake = attempts[t]
  /\ wk[w].pc \in ThreadPoints \ {"wired"} /\ ctl[t].cancelled => event[Current(w)] \/ Waking(t)
  /\ wk[w].pc \in {"recheck", "send", "await"} => ctl[t].slot = w
  /\ wk[w].pc \in {"send", "await"} /\ ctl[t].cancelled =>
       proc[slot[w]].st # "up" \/ Striking(t)
Reach == \A w \in Workers : Reached(w)

\* Reached survives a step that changes nothing the worker relies on.
LEMMA ReachKept ==
  ASSUME NEW w \in Workers, NEW t, t = wk[w].task, Reached(w), wk'[w] = wk[w],
         wk[w].task # NULL => attempts'[wk[w].task] = attempts[wk[w].task]
            /\ ctl'[wk[w].task] = ctl[wk[w].task],
         wk[w].pc \in ThreadPoints \cup ProcessPoints => wk[w].task # NULL,
         wk[w].pc \in ThreadPoints /\ event[Current(w)] => event'[Current(w)],
         wk[w].pc \in {"send", "await"} /\ proc'[slot'[w]].st = "up" => proc[slot[w]].st = "up",
         Still(t)
  PROVE  Reached(w)'
<1>1. CASE wk[w].pc \in ThreadPoints \cup ProcessPoints
  <2>1. Current(w)' = Current(w) /\ ctl'[t] = ctl[t] /\ attempts'[t] = attempts[t]
    BY <1>1 DEF Current
  <2>2. (wk[w].pc \in ThreadPoints => ctl[t].wake = attempts[t])'
    BY <2>1 DEF Reached
  <2>3. (wk[w].pc \in ThreadPoints \ {"wired"} /\ ctl[t].cancelled => event[Current(w)] \/ Waking(t))'
    BY <2>1 DEF Reached, Still, Waking
  <2>4. (wk[w].pc \in {"recheck", "send", "await"} => ctl[t].slot = w)'
    BY <2>1 DEF Reached
  <2>5. (wk[w].pc \in {"send", "await"} /\ ctl[t].cancelled =>
       proc[slot[w]].st # "up" \/ Striking(t))'
    BY <2>1 DEF Reached, Still, Striking
  <2> QED
    BY <1>1, <2>1, <2>2, <2>3, <2>4, <2>5 DEF Reached, Waking, Striking
<1> QED
  BY <1>1 DEF Reached, ThreadPoints, ProcessPoints

\* A step of one thread leaves the interrupts of the others where they are.
LEMMA StillKept ==
  ASSUME NEW th \in Threads, ab[th].pc \notin {"wake", "strike"},
         \A x \in Threads \ {th} : ab'[x] = ab[x],
         NEW t
  PROVE  Still(t)
BY DEF Still, Waking, Striking

\* How a worker comes to where Reached says something: by leaving its wake
\* event or slot, by looking at cancel_ev after it, by sending, or by going
\* round the loop of looks (threadqueue.py:118, processqueue.py:319).
LEMMA WorkerReach ==
  ASSUME WKType, CtlType, NEW w \in Workers, Works(w)
  PROVE  /\ event' = event
         /\ ctl' = ctl \/ Wire(w) \/ PublishSlot(w)
         /\ \A t \in Tasks : t # wk[w].task => ctl'[t] = ctl[t]
         /\ \/ wk'[w].pc \notin ThreadPoints \cup {"recheck", "send", "await"}
            \/ Wire(w)
            \/ Launch(w) /\ ~Cancelled(w) /\ ctl' = ctl
            \/ wk[w].pc \in ThreadPoints \ {"wired"} /\ wk'[w].pc \in ThreadPoints \ {"wired"}
                  /\ ctl' = ctl
            \/ PublishSlot(w)
            \/ Recheck(w) /\ ~Cancelled(w) /\ ctl' = ctl
            \/ Send(w) /\ ctl' = ctl
<1> USE DEF WKType, At, Goto, End, Unwind, ThreadPoints
<1>1. CASE WorkerStep(w) /\ UNCHANGED <<threadVars, procVars>>
  BY <1>1 DEF WorkerStep, Take, Register, Check, Start, Outcome, Delay, Record, Count, Pop, Stop
<1>2. CASE Wire(w)
  BY <1>2 DEF Wire, CtlType
<1>3. CASE Launch(w)
  BY <1>3 DEF Launch
<1>4. CASE LookInBox(w) \/ LookAtFlag(w)
  BY <1>4 DEF LookInBox, LookAtFlag
<1>5. CASE LookAtThread(w) \/ LookAtClock(w)
  BY <1>5 DEF LookAtThread, LookAtClock
<1>6. CASE WakeUp(w) \/ Expire(w)
  BY <1>6 DEF WakeUp, Expire
<1>7. CASE PublishSlot(w) /\ UNCHANGED threadVars
  BY <1>7 DEF PublishSlot, CtlType
<1>8. CASE Recheck(w) /\ UNCHANGED threadVars
  BY <1>8 DEF Recheck
<1>9. CASE Send(w) /\ UNCHANGED threadVars
  BY <1>9 DEF Send
<1>10. CASE (Begin(w) \/ Ensure(w) \/ Explain(w)) /\ UNCHANGED threadVars
  BY <1>10 DEF Begin, Ensure, Explain
<1>11. CASE (Receive(w) \/ Bereaved(w)) /\ UNCHANGED threadVars
  BY <1>11 DEF Receive, Bereaved
<1>12. CASE (Close(w) \/ TimeOut(w)) /\ UNCHANGED threadVars
  BY <1>12 DEF Close, TimeOut
<1> QED
  BY <1>1, <1>2, <1>3, <1>4, <1>5, <1>6, <1>7, <1>8, <1>9, <1>10, <1>11, <1>12 DEF Works, ThreadStep,
     ProcessStep

\* Every step keeps Reach. The flag goes up first, and the worker looks at it
\* after it has published what interrupt() needs: so whichever comes first,
\* the interrupt finds the event or the slot, or the worker finds the flag.
LEMMA ReachStep ==
  ASSUME WKType, ABType, CtlType, ThreadType, ProcType, Control, Slots, Reach, [Next]_vars,
         WKType', ABType', ProcType'
  PROVE  Reach'
<1> USE InitAssumption, WorkerAssumption
<1>0. ASSUME NEW w \in Workers
      PROVE  /\ Reached(w) /\ Placed(w) /\ (slot[w] # NULL => slot[w] \in Attempts)
             /\ wk[w].pc \in ThreadPoints \cup ProcessPoints => wk[w].task # NULL
                   /\ wk[w].task \in Tasks /\ Current(w) \in Attempts
             /\ wk[w].pc \in {"recheck", "send", "await"} => slot[w] \in Attempts
  <2>1. Placed(w) /\ Reached(w)
    BY DEF Control, Reach
  <2> QED
    BY <2>1, InHandIs DEF ProcType, Placed, ThreadPoints, ProcessPoints
<1>1. ASSUME NEW w \in Workers, Works(w) PROVE Reach'
  <2>0. Goes(w) \/ Takes(w) \/ Starts(w) \/ Leaves(w)
    BY <1>1, WorkerMoves
  <2>1. ASSUME NEW t PROVE Still(t)
    <3>1. ab' = ab \/ (ab[w].pc = "off" /\ \A x \in Threads \ {w} : ab'[x] = ab[x])
      BY <1>0, <1>1, WorkerMoves DEF Takes, Starts, Leaves, Placed, Goes, Edge, ThreadEdge, ProcessEdge,
         ABType
    <3> QED
      BY <3>1, StillKept DEF Still, Waking, Striking
  <2>2. ASSUME NEW v \in Workers \ {w} PROVE Reached(v)'
    <3>1. wk'[v] = wk[v]
             /\ (wk[v].task # NULL => /\ wk[v].task # wk[w].task /\ wk[v].task \in Tasks
                                     /\ attempts'[wk[v].task] = attempts[wk[v].task])
      BY <2>0 DEF Goes, Takes, Starts, Leaves, OthersStay, Control, WKType
    <3>2. wk[v].pc \in {"send", "await"} /\ proc'[slot'[v]].st = "up" => proc[slot[v]].st = "up"
      <4> SUFFICES ASSUME wk[v].pc \in {"send", "await"}
          PROVE slot'[v] = slot[v] /\ proc'[slot[v]].st = proc[slot[v]].st
        BY <1>0
      <4>1. slot[v] \in Attempts /\ slot[v] # NULL /\ slot[w] # slot[v] /\ proc[slot[v]].st # "none"
        BY <1>0 DEF Slots, SlotOf
      <4>2. CASE UNCHANGED procVars
        BY <4>2
      <4>3. CASE Spawns(w)
        <5>1. Current(w) \in Attempts /\ proc[Current(w)].st = "none"
          BY <4>3, InHandIs DEF Spawns, ProcessPoints, Slots, SlotOf
        <5> QED
          BY <4>1, <4>3, <5>1 DEF Spawns, ProcType
      <4>4. CASE Reaps(w)
        BY <4>1, <4>4 DEF Reaps, ProcType
      <4>5. ASSUME NEW p, Becomes(slot[w], p), slot' = slot
            PROVE slot'[v] = slot[v] /\ proc'[slot[v]].st = proc[slot[v]].st
        BY <4>1, <4>5 DEF Becomes, ProcType
      <4> QED
        BY <1>1, <4>2, <4>3, <4>4, <4>5, WorkerProcs, InHandIs DEF ProcessPoints
    <3>3. event' = event /\ (wk[v].task # NULL => ctl'[wk[v].task] = ctl[wk[v].task])
      BY <1>1, <3>1, WorkerReach
    <3> QED
      BY <1>0, <2>1, <3>1, <3>2, <3>3, ReachKept
  <2>3. Reached(w)'
    <3> DEFINE t == wk[w].task
    <3>1. CASE wk'[w].pc \notin ThreadPoints \cup {"recheck", "send", "await"}
      BY <3>1 DEF Reached
    <3>2. CASE Wire(w)
      <4>1. wk'[w].pc = "wired" /\ wk'[w].task = t /\ attempts' = attempts
               /\ ctl' = [ctl EXCEPT ![t].wake = attempts[t]]
        BY <3>2 DEF Wire, Goto, WKType
      <4>2. t \in Tasks
        BY <3>2, InHandIs DEF Wire, At
      <4> QED
        BY <4>1, <4>2 DEF Reached, CtlType
    <3>3. CASE Launch(w) /\ ~Cancelled(w) /\ ctl' = ctl
      <4>1. wk[w].pc = "wired" /\ wk'[w].pc \in {"box"} /\ wk'[w].task = t /\ attempts' = attempts
        BY <3>3 DEF Launch, At, Goto, WKType
      <4> QED
        BY <1>0, <3>3, <4>1 DEF Reached, Cancelled, ThreadPoints
    <3>4. CASE wk[w].pc \in ThreadPoints \ {"wired"} /\ wk'[w].pc \in ThreadPoints \ {"wired"}
             /\ ctl' = ctl
      <4>1. Goes(w) /\ event' = event
        BY <1>1, <2>0, <3>4, WorkerReach DEF Takes, Starts, Leaves, ThreadPoints
      <4>2. wk'[w].task = t /\ attempts' = attempts /\ Current(w)' = Current(w)
        BY <4>1 DEF Goes, Current
      <4>3. ctl[t].wake = attempts[t] /\ (ctl[t].cancelled => event[Current(w)] \/ Waking(t))
        BY <1>0, <3>4 DEF Reached
      <4>4. PICK u : u = t /\ Still(u)
        BY <2>1
      <4>5. (ctl[t].cancelled => event[Current(w)] \/ Waking(t))'
        BY <3>4, <4>1, <4>2, <4>3, <4>4 DEF Still, Waking
      <4> QED
        BY <3>4, <4>2, <4>3, <4>5 DEF Reached, ThreadPoints
    <3>5. CASE PublishSlot(w)
      <4>1. wk'[w].pc = "recheck" /\ wk'[w].task = t /\ ctl' = [ctl EXCEPT ![t].slot = w]
        BY <3>5 DEF PublishSlot, Goto, WKType
      <4>2. t \in Tasks
        BY <3>5, InHandIs DEF PublishSlot, At, ProcessPoints
      <4> QED
        BY <4>1, <4>2 DEF Reached, CtlType, ThreadPoints
    <3>6. CASE Recheck(w) /\ ~Cancelled(w) /\ ctl' = ctl
      <4>1. wk[w].pc = "recheck" /\ wk'[w].pc = "send" /\ wk'[w].task = t
        BY <3>6 DEF Recheck, At, Goto, WKType
      <4> QED
        BY <1>0, <3>6, <4>1 DEF Reached, Cancelled, ThreadPoints
    <3>7. CASE Send(w) /\ ctl' = ctl
      <4>1. wk[w].pc = "send" /\ wk'[w].pc \in {"await", "outcome"} /\ wk'[w].task = t /\ slot' = slot
               /\ slot[w] \in Attempts
        BY <1>0, <3>7 DEF Send, At, Goto, End, WKType
      <4>2. proc'[slot[w]].st = proc[slot[w]].st
        BY <3>7, <4>1 DEF Send, ProcType
      <4>3. ctl[t].slot = w /\ (ctl[t].cancelled => proc[slot[w]].st # "up" \/ Striking(t))
        BY <1>0, <4>1 DEF Reached
      <4>4. PICK u : u = t /\ Still(u)
        BY <2>1
      <4>5. (ctl[t].cancelled => proc[slot[w]].st # "up" \/ Striking(t))'
        BY <3>7, <4>1, <4>2, <4>3, <4>4 DEF Still, Striking
      <4> QED
        BY <3>7, <4>1, <4>3, <4>5 DEF Reached, ThreadPoints
    <3> QED
      BY <1>1, <3>1, <3>2, <3>3, <3>4, <3>5, <3>6, <3>7, WorkerReach
  <2> QED
    BY <2>2, <2>3 DEF Reach
<1>2. ASSUME UNCHANGED <<wk, attempts, ctl>>, \A a \in Attempts : event[a] => event'[a],
             \A a \in Attempts : proc'[a].st = "up" => proc[a].st = "up", slot' = slot,
             \A t : Still(t)
      PROVE Reach'
  <2> SUFFICES ASSUME NEW w \in Workers PROVE Reached(w)'
    BY DEF Reach
  <2>1. Reached(w) /\ wk'[w] = wk[w]
    BY <1>0, <1>2
  <2>2. wk[w].task # NULL => attempts'[wk[w].task] = attempts[wk[w].task]
           /\ ctl'[wk[w].task] = ctl[wk[w].task]
    BY <1>2
  <2>3. wk[w].pc \in ThreadPoints \cup ProcessPoints => wk[w].task # NULL
    BY <1>0
  <2>4. wk[w].pc \in ThreadPoints /\ event[Current(w)] => event'[Current(w)]
    BY <1>0, <1>2
  <2>5. wk[w].pc \in {"send", "await"} /\ proc'[slot'[w]].st = "up" => proc[slot[w]].st = "up"
    BY <1>0, <1>2
  <2> QED
    BY <1>2, <2>1, <2>2, <2>3, <2>4, <2>5, ReachKept
<1>3. ASSUME NEW th \in Threads, Flag(th), UNCHANGED <<kind, threadVars, procVars>> PROVE Reach'
  <2>1. PICK t \in ab[th].todo : ctl' = [ctl EXCEPT ![t].cancelled = TRUE]
           /\ ab' = [ab EXCEPT ![th].pc = "wake", ![th].cur = t, ![th].todo = @ \ {t}]
    BY <1>3 DEF Flag
  <2>2. t \in Tasks /\ ab'[th].pc = "wake" /\ ab'[th].cur = t
           /\ \A x \in Threads \ {th} : ab'[x] = ab[x]
    BY <2>1 DEF ABType, ABRec
  <2>3. UNCHANGED <<wk, attempts, event, slot, proc>> /\ ab[th].pc = "flag"
    BY <1>3 DEF Flag
  <2>4. Waking(t)' /\ Striking(t)'
    BY <2>2 DEF Still, Waking, Striking
  <2>5. \A u : Still(u)
    BY <2>2, <2>3, StillKept
  <2> SUFFICES ASSUME NEW w \in Workers PROVE Reached(w)'
    BY DEF Reach
  <2>6. CASE wk[w].task = t
    <3>1. ctl'[t].wake = ctl[t].wake /\ ctl'[t].slot = ctl[t].slot
      BY <2>1, <2>2 DEF CtlType
    <3> QED
      BY <1>0, <2>3, <2>4, <2>6, <3>1 DEF Reached
  <2>7. CASE wk[w].task # t
    <3>1. wk[w].task # NULL => ctl'[wk[w].task] = ctl[wk[w].task]
      BY <2>1, <2>2, <2>7 DEF CtlType, WKType
    <3> QED
      BY <1>0, <2>3, <2>5, <3>1, ReachKept
  <2> QED
    BY <2>6, <2>7
<1>4. ASSUME NEW th \in Threads, Wake(th), UNCHANGED <<kind, procVars>> PROVE Reach'
  <2> DEFINE t == ab[th].cur
  <2>1. t \in Tasks /\ ab[th].pc = "wake" /\ ab' = [ab EXCEPT ![th].pc = "strike"]
    BY <1>4 DEF Wake, Woken, Control, ABType, ABRec
  <2>2. ab'[th].pc = "strike" /\ ab'[th].cur = t /\ \A x \in Threads \ {th} : ab'[x] = ab[x]
    BY <2>1 DEF ABType, ABRec
  <2>3. UNCHANGED <<wk, attempts, ctl, slot, proc>>
    BY <1>4 DEF Wake
  <2>4. \A a \in Attempts : event[a] => event'[a]
    BY <1>4 DEF Wake, ThreadType
  <2>5. \A u : Striking(u) => Striking(u)'
    BY <2>1, <2>2 DEF Still, Waking, Striking
  <2>6. \A u : u # t /\ Waking(u) => Waking(u)'
    BY <2>1, <2>2 DEF Still, Waking, Striking
  <2> SUFFICES ASSUME NEW w \in Workers PROVE Reached(w)'
    BY DEF Reach
  <2>7. CASE wk[w].task # t
    <3>1. wk[w].pc \in ThreadPoints /\ event[Current(w)] => event'[Current(w)]
      BY <1>0, <2>4
    <3>2. \A u : u = wk[w].task => Still(u)
      BY <2>5, <2>6, <2>7 DEF Still
    <3> QED
      BY <1>0, <2>3, <3>1, <3>2, ReachKept
  <2>8. CASE wk[w].task = t
    <3>1. wk[w].pc \in ThreadPoints => event'[Current(w)]
      <4> SUFFICES ASSUME wk[w].pc \in ThreadPoints PROVE event'[Current(w)]
        OBVIOUS
      <4>1. ctl[t].wake = attempts[t] /\ attempts[t] >= 1 /\ attempts[t] \in Nat
        BY <1>0, <2>1, <2>8 DEF Reached, Placed, Control, ThreadPoints
      <4>2. Current(w) = <<t, ctl[t].wake>> /\ Current(w) \in Attempts
        BY <1>0, <2>8, <4>1 DEF Current
      <4>3. event' = [event EXCEPT ![Current(w)] = TRUE]
        BY <1>4, <4>1, <4>2 DEF Wake
      <4> QED
        BY <4>2, <4>3 DEF ThreadType
    <3>2. Current(w)' = Current(w)
      BY <2>3 DEF Current
    <3> QED
      BY <1>0, <2>3, <2>5, <2>8, <3>1, <3>2 DEF Reached
  <2> QED
    BY <2>7, <2>8
<1>5. ASSUME NEW th \in Threads, Strike(th), UNCHANGED <<kind, threadVars>> PROVE Reach'
  <2> DEFINE t == ab[th].cur  v == ctl[t].slot
  <2>1. t \in Tasks /\ ab[th].pc = "strike" /\ v \in Workers \cup {NULL}
    BY <1>5 DEF Strike, Control, ABType, ABRec, CtlType
  <2>2. \A x \in Threads \ {th} : ab'[x] = ab[x]
    BY <1>5 DEF Strike, Struck, ABType
  <2>3. UNCHANGED <<wk, attempts, ctl, event, slot>>
    BY <1>5 DEF Strike
  <2>4. \A a \in Attempts : proc'[a].st = "up" => proc[a].st = "up"
    BY <1>5 DEF Strike, Terminated, ProcType
  <2>5. ASSUME v # NULL, slot[v] # NULL PROVE proc'[slot[v]].st # "up"
    <3>1. slot[v] \in Attempts /\ proc' = Terminated(v)
      BY <1>5, <2>1, <2>5 DEF Strike, ProcType
    <3>2. CASE proc[slot[v]].st = "up"
      <4>1. PICK a \in Attempts : a = slot[v]
        BY <3>1
      <4>2. proc' = [proc EXCEPT ![a].st = "dying"]
        BY <2>5, <3>1, <3>2, <4>1 DEF Terminated
      <4>3. proc'[a].st = "dying"
        BY <4>2 DEF ProcType
      <4> QED
        BY <4>1, <4>3
    <3> QED
      BY <2>5, <3>1, <3>2 DEF Terminated
  <2>6. \A u : Waking(u) => Waking(u)'
    BY <2>1, <2>2 DEF Still, Waking, Striking
  <2>7. \A u : u # t /\ Striking(u) => Striking(u)'
    BY <2>1, <2>2 DEF Still, Waking, Striking
  <2> SUFFICES ASSUME NEW w \in Workers PROVE Reached(w)'
    BY DEF Reach
  <2>8. CASE wk[w].task # t
    <3>1. wk[w].pc \in {"send", "await"} /\ proc'[slot'[w]].st = "up" => proc[slot[w]].st = "up"
      BY <1>0, <2>3, <2>4
    <3>2. \A u : u = wk[w].task => Still(u)
      BY <2>6, <2>7, <2>8 DEF Still
    <3> QED
      BY <1>0, <2>3, <3>1, <3>2, ReachKept
  <2>9. CASE wk[w].task = t
    <3>1. wk[w].pc \in {"send", "await"} => proc'[slot[w]].st # "up"
      <4> SUFFICES ASSUME wk[w].pc \in {"send", "await"} PROVE proc'[slot[w]].st # "up"
        OBVIOUS
      <4>1. ctl[t].slot = w /\ slot[w] \in Attempts /\ w # NULL /\ slot[w] # NULL
        BY <1>0, <2>9, HandlesAssumption DEF Reached
      <4> QED
        BY <2>5, <4>1
    <3>2. Current(w)' = Current(w)
      BY <2>3 DEF Current
    <3> QED
      BY <1>0, <2>3, <2>6, <2>9, <3>1, <3>2 DEF Reached
  <2> QED
    BY <2>8, <2>9
<1>6. ASSUME NEW th \in Threads, AbortStep(th), ~Flag(th), UNCHANGED <<kind, threadVars, procVars>>
      PROVE Reach'
  <2>1. ab[th].pc \notin {"wake", "strike"}
    BY <1>6 DEF AbortStep, Sweep, Publish, Dropped, Snapshot
  <2>2. \A x \in Threads \ {th} : ab'[x] = ab[x]
    BY <1>6 DEF AbortStep, Sweep, Publish, Dropped, Snapshot, ABType
  <2>3. UNCHANGED <<wk, attempts, ctl>>
    BY <1>6 DEF AbortStep, Sweep, Publish, Dropped, Snapshot
  <2> QED
    BY <1>2, <1>6, <2>1, <2>2, <2>3, StillKept
<1>7. CASE Asking
  <2>1. ab[Boss].pc = "off" /\ UNCHANGED <<wk, attempts, ctl, threadVars, procVars>>
           /\ \A x \in Threads \ {Boss} : ab'[x] = ab[x]
    BY <1>7 DEF Asking, BossAsks, Cancel, Abort, Ask, ABType
  <2> QED
    BY <1>2, <2>1, StillKept
<1>8. ASSUME NEW a \in Attempts, Carries(a) PROVE Reach'
  <2>1. UNCHANGED <<wk, attempts, ctl, ab, slot>>
    BY <1>8 DEF Carries, SidecarStep, Box, SetWake, Reply, Perish, Crash
  <2>2. \A b \in Attempts : event[b] => event'[b]
    BY <1>8 DEF Carries, SidecarStep, Box, SetWake, ThreadType
  <2>3. \A b \in Attempts : proc'[b].st = "up" => proc[b].st = "up"
    <3>1. CASE Reply(a)
      <4>1. PICK k \in {"value", "error", "exit", "garbled"} : Becomes(a, Replied(a, k))
        BY <3>1, ProcMoves
      <4> QED
        BY <4>1 DEF Becomes, Replied, ProcType
    <3>2. CASE Perish(a) \/ Crash(a)
      <4>1. Becomes(a, Killed(a))
        BY <3>2, ProcMoves
      <4> QED
        BY <4>1 DEF Becomes, Killed, ProcType
    <3>3. CASE UNCHANGED proc
      BY <3>3
    <3> QED
      BY <1>8, <3>1, <3>2, <3>3 DEF Carries
  <2> QED
    BY <1>2, <2>1, <2>2, <2>3 DEF Still, Waking, Striking
<1>9. CASE UNCHANGED <<workerVars, threadVars, procVars>>
  BY <1>2, <1>9 DEF Still, Waking, Striking
<1> QED
  BY <1>1, <1>3, <1>4, <1>5, <1>6, <1>7, <1>8, <1>9 DEF Next, Interferes, Waiting, vars

-----------------------------------------------------------------------------
(* Once: where the callbacks of the client's handles are. *)

\* Task t is in the sequence s, and at most once.
Has(s, t) == \E n \in DOMAIN s : s[n] = t
Single(s, t) == \A m, n \in DOMAIN s : s[m] = t /\ s[n] = t => m = n

\* The client has come to t's handle, and a thread has taken its callback.
Registered(t) == \E i \in DOMAIN Order : i < step /\ Order[i] = t
Taken(t) == \E th \in Threads : t \in invoking[th]

\* The callback of t is in at most one of the four places and once there, and
\* in one of them exactly when the client has registered.
OnceOf(t) ==
  /\ t \in callbacks => ~Taken(t) /\ ~Has(doneQ, t) /\ ~Has(got, t)
  /\ Taken(t) => ~Has(doneQ, t) /\ ~Has(got, t)
  /\ Has(doneQ, t) => ~Has(got, t)
  /\ \A x, y \in Threads : t \in invoking[x] /\ t \in invoking[y] => x = y
  /\ Single(doneQ, t) /\ Single(got, t)
  /\ Registered(t) <=> t \in callbacks \/ Taken(t) \/ Has(doneQ, t) \/ Has(got, t)
Once == \A t \in Tasks : OnceOf(t)

\* What Append does to the two.
LEMMA Appended ==
  ASSUME NEW S, NEW s \in Seq(S), NEW x \in S, NEW t
  PROVE  /\ Has(Append(s, x), t) <=> Has(s, t) \/ t = x
         /\ Single(s, t) /\ ~(Has(s, t) /\ t = x) => Single(Append(s, x), t)
<1>1. DOMAIN Append(s, x) = 1 .. Len(s) + 1 /\ DOMAIN s = 1 .. Len(s) /\ Len(s) \in Nat
  OBVIOUS
<1>2. Append(s, x)[Len(s) + 1] = x /\ \A n \in 1 .. Len(s) : Append(s, x)[n] = s[n]
  BY AppendProperties
<1>3. \A n \in 1 .. Len(s) + 1 : n \in 1 .. Len(s) \/ n = Len(s) + 1
  BY <1>1
<1>4. Len(s) + 1 \in 1 .. Len(s) + 1 /\ \A n \in 1 .. Len(s) : n \in 1 .. Len(s) + 1
  BY <1>1
<1> QED
  BY <1>1, <1>2, <1>3, <1>4 DEF Has, Single

\* What taking the first does to the two.
LEMMA Behead ==
  ASSUME NEW S, NEW s \in Seq(S), s # <<>>, NEW t
  PROVE  /\ Single(s, t) => Single(Tail(s), t)
         /\ Has(s, Head(s)) /\ Head(s) \in S /\ Tail(s) \in Seq(S)
         /\ Single(s, Head(s)) => (Has(Tail(s), t) <=> Has(s, t) /\ t # Head(s))
<1>1. Len(s) \in Nat /\ Len(s) >= 1 /\ DOMAIN s = 1 .. Len(s) /\ DOMAIN Tail(s) = 1 .. Len(s) - 1
         /\ Head(s) = s[1]
  OBVIOUS
<1>2. \A n \in 1 .. Len(s) - 1 : Tail(s)[n] = s[n + 1] /\ n + 1 \in 1 .. Len(s)
  BY <1>1
<1>3. \A n \in 1 .. Len(s) : n = 1 \/ (n - 1 \in 1 .. Len(s) - 1 /\ Tail(s)[n - 1] = s[n])
  BY <1>1, <1>2
<1>4. Single(s, t) => Single(Tail(s), t)
  BY <1>1, <1>2 DEF Single
<1>5. Has(s, Head(s)) /\ Head(s) \in S /\ Tail(s) \in Seq(S)
  BY <1>1 DEF Has
<1>6. ASSUME Single(s, Head(s)) PROVE Has(Tail(s), t) <=> Has(s, t) /\ t # Head(s)
  <2>1. ASSUME Has(Tail(s), t) PROVE Has(s, t) /\ t # Head(s)
    <3>1. PICK n \in 1 .. Len(s) - 1 : Tail(s)[n] = t
      BY <1>1, <2>1 DEF Has
    <3>2. n + 1 \in DOMAIN s /\ s[n + 1] = t /\ n + 1 # 1 /\ 1 \in DOMAIN s
      BY <1>1, <1>2, <3>1
    <3> QED
      BY <1>1, <1>6, <3>2 DEF Has, Single
  <2>2. ASSUME Has(s, t), t # Head(s) PROVE Has(Tail(s), t)
    BY <1>1, <1>3, <2>2 DEF Has
  <2> QED
    BY <2>1, <2>2
<1> QED
  BY <1>4, <1>5, <1>6

\* Every step keeps a registered callback in one place: _mark_finished takes
\* it from the handle, the thread that took it puts it in the queue, the
\* client receives it, and a handle that is already final goes into the queue
\* at once (handle.py:157, 189; group.py:48).
LEMMA OnceStep == HandleType /\ Once /\ [Next]_vars => Once'
<1> SUFFICES ASSUME HandleType, Once, [Next]_vars PROVE Once'
  OBVIOUS
<1> SUFFICES ASSUME NEW t \in Tasks PROVE OnceOf(t)'
  BY DEF Once
<1>0. OnceOf(t)
  BY DEF Once
<1>1. ASSUME NEW th \in Threads, NEW u, NEW v, MarkFinished(th, u, v) PROVE OnceOf(t)'
  <2>1. UNCHANGED <<doneQ, step, got>> /\ callbacks' = callbacks \ {u}
    BY <1>1 DEF MarkFinished
  <2>2. invoking' = [invoking EXCEPT ![th] = @ \cup (callbacks \cap {u})]
           /\ invoking \in [Threads -> SUBSET Tasks]
    BY <1>1 DEF MarkFinished, HandleType
  <2>3. CASE t # u \/ t \notin callbacks
    <3>1. (t \in callbacks' <=> t \in callbacks)
             /\ \A x \in Threads : t \in invoking'[x] <=> t \in invoking[x]
      BY <2>1, <2>2, <2>3
    <3> QED
      BY <1>0, <2>1, <3>1 DEF OnceOf, Taken, Registered
  <2>4. CASE t = u /\ t \in callbacks
    <3>1. t \notin callbacks' /\ t \in invoking'[th]
             /\ \A x \in Threads \ {th} : t \in invoking'[x] <=> t \in invoking[x]
      BY <2>1, <2>2, <2>4
    <3>2. \A x \in Threads : t \notin invoking[x]
      BY <1>0, <2>4 DEF OnceOf, Taken
    <3> QED
      BY <1>0, <2>1, <2>4, <3>1, <3>2 DEF OnceOf, Taken, Registered
  <2> QED
    BY <2>3, <2>4
<1>2. ASSUME NEW th \in Threads, InvokeCallback(th) PROVE OnceOf(t)'
  <2>1. PICK u \in invoking[th] : doneQ' = Append(doneQ, u)
           /\ invoking' = [invoking EXCEPT ![th] = @ \ {u}]
    BY <1>2 DEF InvokeCallback
  <2>2. UNCHANGED <<callbacks, step, got>> /\ u \in Tasks /\ doneQ \in Seq(Tasks)
           /\ invoking \in [Threads -> SUBSET Tasks]
    BY <1>2 DEF InvokeCallback, HandleType
  <2>3. /\ Has(doneQ', t) <=> Has(doneQ, t) \/ t = u
        /\ Single(doneQ, t) /\ ~(Has(doneQ, t) /\ t = u) => Single(doneQ', t)
    BY <2>1, <2>2, Appended
  <2>4. CASE t # u
    <3>1. \A x \in Threads : t \in invoking'[x] <=> t \in invoking[x]
      BY <2>1, <2>2, <2>4
    <3> QED
      BY <1>0, <2>2, <2>3, <2>4, <3>1 DEF OnceOf, Taken, Registered
  <2>5. CASE t = u
    <3>1. Taken(t) /\ \A x \in Threads : t \notin invoking'[x]
      BY <1>0, <2>1, <2>2, <2>5 DEF OnceOf, Taken
    <3> QED
      BY <1>0, <2>2, <2>3, <2>5, <3>1 DEF OnceOf, Taken, Registered
  <2> QED
    BY <2>4, <2>5
<1>3. ASSUME step \in DOMAIN Order, step' = step + 1
      PROVE (Registered(t)' <=> Registered(t) \/ t = Order[step]) /\ ~Registered(Order[step])
  <2>1. DOMAIN Order = 1 .. Len(Order) /\ Len(Order) \in Nat /\ step \in Int
    BY <1>3, HandlesAssumption
  <2>2. \A i \in DOMAIN Order : i < step' <=> i < step \/ i = step
    BY <1>3, <2>1
  <2>3. \A i, j \in DOMAIN Order : Order[i] = Order[j] => i = j
    BY HandlesAssumption
  <2>4. ~(step < step)
    BY <2>1
  <2> QED
    BY <1>3, <2>2, <2>3, <2>4 DEF Registered
<1>4. step \in Nat /\ Len(Order) \in Nat
         /\ (step <= Len(Order) => step \in DOMAIN Order /\ Order[step] \in Tasks)
  BY HandlesAssumption DEF HandleType
<1>5. CASE AddDoneCallback
  <2>1. step \in DOMAIN Order /\ Order[step] \in Tasks /\ step' = step + 1
           /\ UNCHANGED <<invoking, got>>
    BY <1>4, <1>5 DEF AddDoneCallback, Registering
  <2>2. OnceOf(Order[step])
    BY <2>1 DEF Once
  <2>3. CASE doneQ' = Append(doneQ, Order[step]) /\ UNCHANGED callbacks
    <3>1. /\ Has(doneQ', t) <=> Has(doneQ, t) \/ t = Order[step]
          /\ Single(doneQ, t) /\ ~(Has(doneQ, t) /\ t = Order[step]) => Single(doneQ', t)
      BY <2>1, <2>3, Appended DEF HandleType
    <3> QED
      BY <1>0, <1>3, <2>1, <2>2, <2>3, <3>1 DEF OnceOf, Taken
  <2>4. CASE callbacks' = callbacks \cup {Order[step]} /\ UNCHANGED doneQ
    BY <1>0, <1>3, <2>1, <2>2, <2>4 DEF OnceOf, Taken
  <2> QED
    BY <1>5, <2>3, <2>4 DEF AddDoneCallback
<1>6. CASE Yield
  <2> DEFINE u == Head(doneQ)
  <2>1. doneQ # <<>> /\ doneQ \in Seq(Tasks) /\ got \in Seq(Tasks)
           /\ UNCHANGED <<callbacks, invoking, step>>
    BY <1>6 DEF Yield, HandleType
  <2>2. got' = Append(got, u) /\ doneQ' = Tail(doneQ)
    BY <1>6 DEF Yield
  <2>3. u \in Tasks /\ Has(doneQ, u)
    BY <2>1, Behead
  <2>4. OnceOf(u)
    BY <2>3 DEF Once
  <2>5. /\ Single(doneQ, t) => Single(doneQ', t)
        /\ Has(doneQ', t) <=> Has(doneQ, t) /\ t # u
    BY <2>1, <2>2, <2>4, Behead DEF OnceOf
  <2>6. /\ Has(got', t) <=> Has(got, t) \/ t = u
        /\ Single(got, t) /\ ~(Has(got, t) /\ t = u) => Single(got', t)
    BY <2>1, <2>2, <2>3, Appended
  <2> HIDE DEF u
  <2> QED
    BY <1>0, <2>1, <2>3, <2>4, <2>5, <2>6 DEF OnceOf, Taken, Registered
<1>7. CASE WaitHandle
  <2>1. step \in DOMAIN Order /\ Order[step] \in Tasks /\ step' = step + 1
           /\ UNCHANGED <<callbacks, invoking, doneQ>>
    BY <1>4, <1>7 DEF WaitHandle, HandleType
  <2>2. OnceOf(Order[step])
    BY <2>1 DEF Once
  <2>3. /\ Has(got', t) <=> Has(got, t) \/ t = Order[step]
        /\ Single(got, t) /\ ~(Has(got, t) /\ t = Order[step]) => Single(got', t)
    BY <1>7, <2>1, Appended DEF WaitHandle, HandleType
  <2> QED
    BY <1>0, <1>3, <2>1, <2>2, <2>3 DEF OnceOf, Taken
<1>8. CASE GiveUp \/ UNCHANGED handleVars
  <2>1. UNCHANGED <<callbacks, invoking, doneQ, step, got>>
    BY <1>8 DEF GiveUp
  <2> QED
    BY <1>0, <2>1 DEF OnceOf, Taken, Registered
<1> QED
  BY <1>1, <1>2, <1>5, <1>6, <1>7, <1>8, HandleFrame, WorkerAssumption DEF Record, Publish, ClientNext

\* One place in the sense of Once is one element of Places.
LEMMA OnceIsHandlesOnce == HandleType /\ Once => HandlesOnce
<1> SUFFICES ASSUME HandleType, Once, NEW i \in DOMAIN Order
             PROVE Cardinality(Places(Order[i])) = (IF i < step THEN 1 ELSE 0)
  BY DEF HandlesOnce
<1> DEFINE t == Order[i]
<1>1. t \in Tasks /\ (Registered(t) <=> i < step)
  BY HandlesAssumption DEF Registered
<1>2. OnceOf(t)
  BY <1>1 DEF Once
<1>3. \A p : p \in Places(t) <=>
              \/ p = <<"pending", t>> /\ t \in callbacks
              \/ \E th \in Threads : t \in invoking[th] /\ p = <<"taken", th>>
              \/ \E n \in DOMAIN doneQ : doneQ[n] = t /\ p = <<"queued", n>>
              \/ \E n \in DOMAIN got : got[n] = t /\ p = <<"received", n>>
  <2> DEFINE pending == {"pending"} \X (callbacks \cap {t})
             taken == {"taken"} \X {th \in Threads : t \in invoking[th]}
             queued == {"queued"} \X {n \in DOMAIN doneQ : doneQ[n] = t}
             received == {"received"} \X {n \in DOMAIN got : got[n] = t}
  <2> SUFFICES ASSUME NEW p
               PROVE p \in Places(t) <=>
                       \/ p = <<"pending", t>> /\ t \in callbacks
                       \/ \E th \in Threads : t \in invoking[th] /\ p = <<"taken", th>>
                       \/ \E n \in DOMAIN doneQ : doneQ[n] = t /\ p = <<"queued", n>>
                       \/ \E n \in DOMAIN got : got[n] = t /\ p = <<"received", n>>
    OBVIOUS
  <2>1. p \in pending <=> p = <<"pending", t>> /\ t \in callbacks
    OBVIOUS
  <2>2. p \in taken <=> \E th \in Threads : t \in invoking[th] /\ p = <<"taken", th>>
    OBVIOUS
  <2>3. p \in queued <=> \E n \in DOMAIN doneQ : doneQ[n] = t /\ p = <<"queued", n>>
    OBVIOUS
  <2>4. p \in received <=> \E n \in DOMAIN got : got[n] = t /\ p = <<"received", n>>
    OBVIOUS
  <2>5. p \in Places(t) <=> p \in pending \/ p \in taken \/ p \in queued \/ p \in received
    BY DEF Places
  <2> HIDE DEF pending, taken, queued, received
  <2> QED
    BY <2>1, <2>2, <2>3, <2>4, <2>5
<1> HIDE DEF t
<1>4. CASE ~Registered(t)
  <2>1. Places(t) = {}
    BY <1>2, <1>3, <1>4 DEF OnceOf, Taken, Has
  <2> QED
    BY <1>1, <1>4, <2>1, FS_EmptySet DEF t
<1>5. ASSUME NEW p, Places(t) = {p}, i < step
      PROVE Cardinality(Places(Order[i])) = (IF i < step THEN 1 ELSE 0)
  BY <1>5, FS_Singleton DEF t
<1>6. CASE Registered(t)
  <2>1. CASE t \in callbacks
    <3>1. Places(t) = {<<"pending", t>>}
      BY <1>2, <1>3, <2>1 DEF OnceOf, Taken, Has
    <3> QED
      BY <1>1, <1>5, <1>6, <3>1
  <2>2. CASE Taken(t)
    <3>1. PICK th \in Threads : t \in invoking[th]
      BY <2>2 DEF Taken
    <3>2. Places(t) = {<<"taken", th>>}
      BY <1>2, <1>3, <2>2, <3>1 DEF OnceOf, Has
    <3> QED
      BY <1>1, <1>5, <1>6, <3>2
  <2>3. CASE Has(doneQ, t)
    <3>1. PICK n \in DOMAIN doneQ : doneQ[n] = t
      BY <2>3 DEF Has
    <3>2. \A m \in DOMAIN doneQ : doneQ[m] = t => m = n
      BY <1>2, <3>1 DEF OnceOf, Single
    <3>3. t \notin callbacks /\ (\A th \in Threads : t \notin invoking[th])
             /\ \A m \in DOMAIN got : got[m] # t
      BY <1>2, <2>3 DEF OnceOf, Taken, Has
    <3>4. \A p : p \in Places(t) => p = <<"queued", n>>
      BY <1>3, <3>2, <3>3
    <3>5. <<"queued", n>> \in Places(t)
      BY <3>1 DEF Places
    <3>6. Places(t) = {<<"queued", n>>}
      BY <3>4, <3>5
    <3> QED
      BY <1>1, <1>5, <1>6, <3>6
  <2>4. CASE Has(got, t)
    <3>1. PICK n \in DOMAIN got : got[n] = t
      BY <2>4 DEF Has
    <3>2. \A m \in DOMAIN got : got[m] = t => m = n
      BY <1>2, <3>1 DEF OnceOf, Single
    <3>3. t \notin callbacks /\ (\A th \in Threads : t \notin invoking[th])
             /\ \A m \in DOMAIN doneQ : doneQ[m] # t
      BY <1>2, <2>4 DEF OnceOf, Taken, Has
    <3>4. \A p : p \in Places(t) => p = <<"received", n>>
      BY <1>3, <3>2, <3>3
    <3>5. <<"received", n>> \in Places(t)
      BY <3>1 DEF Places
    <3>6. Places(t) = {<<"received", n>>}
      BY <3>4, <3>5
    <3> QED
      BY <1>1, <1>5, <1>6, <3>6
  <2> QED
    BY <1>2, <1>6, <2>1, <2>2, <2>3, <2>4 DEF OnceOf
<1> QED
  BY <1>4, <1>6

-----------------------------------------------------------------------------
(* The invariant and what follows from it. *)

\* The inductive invariant.
Types == kind \in Kinds /\ HandleType /\ CoreType /\ CtlType /\ WKType /\ ABType /\ ThreadType
   /\ ProcType
IInv == Types /\ Control /\ Slots /\ Pipes /\ Reach /\ Once

\* It holds before the first worker has taken a task.
LEMMA InitHolds == Init => IInv
<1> SUFFICES ASSUME Init PROVE IInv
  OBVIOUS
<1> USE HandlesAssumption, WorkerAssumption, InitAssumption
<1>1. kind \in Kinds /\ HandleType
  <2>1. Len(Order) \in Nat /\ Len(Order) >= 1
    OBVIOUS
  <2>2. client \in {"iter", "group"} /\ step = 1
    BY DEF Init, HandlesInit
  <2> QED
    BY <2>1, <2>2 DEF Init, HandlesInit, HandleType
<1>2. CoreType /\ CtlType
  <2>1. asks \in 0 .. Budget
    BY DEF Init, WorkerInit
  <2>2. CtlType
    BY DEF Init, WorkerInit, CtlType
  <2>3. active = {} /\ halt = FALSE /\ locked = FALSE
    BY DEF Init, WorkerInit
  <2> QED
    BY <2>1, <2>2, <2>3 DEF CoreType
<1>3. WKType /\ ABType
  BY DEF Init, WorkerInit, WKType, ABType, ABRec, AtRest, WorkerPoints, AbortPoints
<1>4. ThreadType
  BY DEF Init, ThreadInit, ThreadType
<1>5. ProcType
  BY DEF Init, ProcessInit, ProcType, Idle
<1>6. Control
  BY DEF Init, WorkerInit, Control, Placed, AtRest, ThreadPoints, ProcessPoints
<1>7. Slots
  BY DEF Init, ProcessInit, WorkerInit, Slots, SlotOf, Alive, Serving, Idle
<1>8. Pipes /\ Reach
  BY DEF Init, ProcessInit, WorkerInit, Pipes, Reach, Reached, ThreadPoints
<1>9. Once
  <2>1. \A i \in DOMAIN Order : ~(i < 1)
    OBVIOUS
  <2>2. DOMAIN <<>> = {}
    OBVIOUS
  <2> QED
    BY <2>1, <2>2 DEF Init, HandlesInit, Once, OnceOf, Has, Single, Taken, Registered
<1> QED
  BY <1>1, <1>2, <1>3, <1>4, <1>5, <1>6, <1>7, <1>8, <1>9 DEF IInv, Types

\* Every step keeps it.
LEMMA Invariant == IInv /\ [Next]_vars => IInv'
<1> SUFFICES ASSUME IInv, [Next]_vars PROVE IInv'
  OBVIOUS
<1> USE DEF IInv, Types
<1>1. ready \subseteq Tasks /\ attempts \in [Tasks -> Nat]
  BY DEF Control
<1>2. WKType'
  <2>1. CASE \E w \in Workers : Works(w)
    BY <1>1, <2>1, WorkerTyped
  <2>2. CASE UNCHANGED wk
    BY <2>2 DEF WKType
  <2> QED
    BY <2>1, <2>2 DEF Next, vars, Interferes, AbortStep, Sweep, Publish, Dropped, Snapshot, Flag, Wake,
       Strike,
       Carries, SidecarStep, Box, SetWake, Reply, Perish, Crash, Asking, BossAsks, Cancel, Abort, Waiting
<1>3. ABType'
  BY <1>1, AbortTyped
<1>4. CtlType'
  BY <1>1, CtlTyped
<1>5. CoreType'
  <2>1. \A w \in Workers : wk[w].pc = "register" => wk[w].task \in Tasks
    BY DEF Control, Placed, WKType
  <2> QED
    BY <2>1, CoreTyped
<1>6. HandleType' /\ ThreadType' /\ kind' \in Kinds
  <2>1. kind' = kind
    BY DEF Next, vars, Works, Interferes, Carries, Asking, Waiting
  <2> QED
    BY <2>1, HandleStep, ThreadTyped
<1>7. \A t \in Tasks : ctl[t].slot \in Workers \cup {NULL}
  BY DEF CtlType
<1>8. \A w \in Workers : wk[w].pc \in {"ensure", "send", "await"} => Current(w) \in Attempts
  BY InHandIs DEF ProcessPoints
<1>9. ProcType'
  <2>1. \A w \in Workers : wk[w].pc \in {"send", "await"} => slot[w] \in Attempts
    BY InHandIs
  <2>2. ProcType
    OBVIOUS
  <2> QED
    BY ONLY <1>8, <2>1, <2>2, ProcTyped, [Next]_vars
<1>10. Control'
  BY ControlStep
<1>11. Slots'
  BY <1>2, <1>7, SlotsStep
<1>12. Pipes'
  BY <1>2, <1>7, <1>9, PipesStep
<1>13. Reach'
  BY <1>2, <1>3, <1>9, ReachStep
<1>14. Once'
  BY OnceStep
<1> QED
  BY <1>2, <1>3, <1>4, <1>5, <1>6, <1>9, <1>10, <1>11, <1>12, <1>13, <1>14

\* So it always holds.
LEMMA Inductive == Spec => []IInv
BY InitHolds, Invariant, PTL DEF Spec

\* Every local of the threads and every object they share has its type: no
\* attempt beyond the retries, no outcome that _attempts has no handler for.
THEOREM TypeCorrect == Spec => []TypeOK
<1>1. IInv => TypeOK
  <2> SUFFICES ASSUME IInv PROVE TypeOK
    OBVIOUS
  <2>1. \A t \in Tasks : attempts[t] \in 0 .. Retries[t] + 1
    <3> SUFFICES ASSUME NEW t \in Tasks PROVE attempts[t] \in 0 .. Retries[t] + 1
      OBVIOUS
    <3>1. attempts[t] \in Nat /\ attempts[t] <= Retries[t] + 1
      BY DEF IInv, Control
    <3>2. Retries[t] \in Nat
      BY WorkerAssumption
    <3> QED
      BY <3>1, <3>2
  <2>2. ready \subseteq Tasks
    BY DEF IInv, Control
  <2> QED
    BY <2>1, <2>2 DEF TypeOK, IInv, Types, HandleType, CoreType, CtlType, WKType, ABType, ABRec,
       ThreadType, ProcType
<1> QED
  BY <1>1, Inductive, PTL

\* No interrupt is lost, for any number of workers and interrupting threads:
\* a worker asleep on an attempt that was cancelled has its wake event set, or
\* its process signalled or replied (sync.py:42, threadqueue.py:118,
\* processqueue.py:319).
THEOREM InterruptsReach == Spec => []InterruptReaches
<1>1. IInv => InterruptReaches
  <2> SUFFICES ASSUME IInv, NEW w \in Workers, wk[w].task # NULL, ctl[wk[w].task].cancelled,
                      \A th \in Threads : ab[th].cur # wk[w].task
               PROVE /\ At(w, "wait") => event[Current(w)]
                     /\ At(w, "await") => proc[slot[w]].st # "up" \/ proc[slot[w]].replies # <<>>
    BY DEF InterruptReaches
  <2>1. Reached(w) /\ ~Waking(wk[w].task) /\ ~Striking(wk[w].task)
    BY DEF IInv, Reach, Waking, Striking
  <2> QED
    BY <2>1 DEF Reached, At, ThreadPoints
<1> QED
  BY <1>1, Inductive, PTL

\* What a worker receives was sent for the attempt it awaits, or reports the
\* initializer, however many tasks the subprocess has served before
\* (processqueue.py:333).
THEOREM RepliesOwn == Spec => []OwnReply
<1>1. IInv => OwnReply
  <2> SUFFICES ASSUME IInv, NEW w \in Workers, At(w, "await"), NEW i \in DOMAIN proc[slot[w]].replies
               PROVE proc[slot[w]].replies[i].of \in {NULL, Current(w)}
    BY DEF OwnReply
  <2>1. slot[w] # NULL
    BY DEF IInv, Slots, SlotOf, At
  <2>2. PipeOf(w)
    BY <2>1 DEF IInv, Pipes
  <2>3. PICK r \in Tag : proc[slot[w]].replies = <<r>> /\ (r.of = NULL \/ r.of = Current(w))
    BY <2>2 DEF PipeOf, Orderly
  <2> QED
    BY <2>3
<1> QED
  BY <1>1, Inductive, PTL

\* A subprocess that lives is in the slot of a worker that is not gone, and
\* runs nothing but the attempt its worker awaits (processqueue.py:128-200).
THEOREM ProcessesOwned == Spec => []ProcessOwned
<1>1. IInv => ProcessOwned
  <2> SUFFICES ASSUME IInv, NEW a \in Attempts, Alive(a)
               PROVE \E w \in Workers :
                        /\ slot[w] = a /\ ~At(w, "gone")
                        /\ proc[a].jobs # <<>> => At(w, "await") /\ proc[a].jobs = <<Current(w)>>
    BY DEF ProcessOwned
  <2>1. PICK w \in Workers : slot[w] = a
    BY DEF IInv, Slots
  <2>2. slot[w] # NULL
    BY <2>1, InitAssumption
  <2>3. SlotOf(w) /\ PipeOf(w)
    BY <2>2 DEF IInv, Slots, Pipes
  <2> QED
    BY <2>1, <2>2, <2>3 DEF SlotOf, PipeOf, Orderly, At
<1> QED
  BY <1>1, Inductive, PTL

\* A handle the client has registered on is in exactly one place and comes
\* once, whatever order results, registrations and the client's steps take
\* (handle.py:157, 189; group.py:48).
THEOREM HandlesComeOnce == Spec => []HandlesOnce
<1>1. IInv => HandlesOnce
  BY OnceIsHandlesOnce DEF IInv, Types
<1> QED
  BY <1>1, Inductive, PTL
=============================================================================
