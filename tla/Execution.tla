----------------------------- MODULE Execution -----------------------------
(***************************************************************************)
(* Workers, executor, interrupts and waiting clients together: a           *)
(* ThreadQueue or a ProcessQueue executing its tasks while an application  *)
(* thread cancels, aborts and stops and another waits for the handles.     *)
(***************************************************************************)
EXTENDS ThreadExec, ProcessSlot, FiniteSets

Kinds == {"thread", "process"}

CONSTANT Setups  \* which queues to examine, each with which way to wait

ASSUME SetupsAssumption == Setups \subseteq Kinds \X Ways

VARIABLE kind   \* the queue's class

vars == <<kind, workerVars, handleVars, threadVars, procVars>>

Init == 
  /\ HandlesInit /\ WorkerInit /\ ThreadInit /\ ProcessInit
  /\ kind \in Kinds /\ <<kind, client>> \in Setups

\* What a worker's thread does. At its end it runs the code for both queues
\* and finds no subprocess to close in a ThreadQueue.
Works(w) ==
  \/ WorkerStep(w) /\ UNCHANGED <<kind, threadVars, procVars>>
  \/ Close(w) /\ UNCHANGED <<kind, threadVars>>
  \/ kind = "thread" /\ (ThreadStep(w) \/ Expire(w)) /\ UNCHANGED <<kind, procVars>>
  \/ kind = "process" /\ (ProcessStep(w) \/ TimeOut(w)) /\ UNCHANGED <<kind, threadVars>>

\* What any thread does inside a cancel(), an abort or the end of a _record;
\* interrupt() wakes and strikes, and finds one of the two to be None.
Interferes(th) ==
  \/ AbortStep(th) /\ UNCHANGED <<kind, threadVars, procVars>>
  \/ InvokeCallback(th) /\ UNCHANGED <<kind, workerVars, threadVars, procVars>>
  \/ Wake(th) /\ UNCHANGED <<kind, procVars>>
  \/ Strike(th) /\ UNCHANGED <<kind, threadVars>>

\* What user code, its sidecar or its subprocess does.
Carries(a) ==
  \/ SidecarStep(a) /\ UNCHANGED <<kind, procVars>>
  \/ (Reply(a) \/ Perish(a) \/ Crash(a)) /\ UNCHANGED <<kind, threadVars>>

Asking == BossAsks /\ UNCHANGED <<kind, threadVars, procVars>>
Waiting == ClientNext /\ UNCHANGED <<kind, workerVars, threadVars, procVars>>

Next ==
  \/ \E w \in Workers : Works(w)
  \/ \E th \in Threads : Interferes(th)
  \/ \E a \in Attempts : Carries(a)
  \/ Asking
  \/ Waiting

Spec == Init /\ [][Next]_vars

\* Some thread that can go on does, a deadline passes, a callable that does
\* not loop ends, a signalled process ends. Nobody has to ask for anything,
\* crash or lose patience. Every run is finite, so that fairness of the whole
\* is fairness of each.
Progress ==
  \/ \E w \in Workers : Works(w)
  \/ \E th \in Threads : Interferes(th)
  \/ \E a \in Attempts :
       \/ (SetWake(a) \/ (Box(a) /\ "loop" \notin Acts[a[1]])) /\ UNCHANGED <<kind, procVars>>
       \/ (Perish(a) \/ (Reply(a) /\ "loop" \notin Acts[Running(a)[1]])) /\ UNCHANGED <<kind, threadVars>>
  \/ (AddDoneCallback \/ Yield \/ WaitHandle) /\ UNCHANGED <<kind, workerVars, threadVars, procVars>>

FairSpec == Spec /\ WF_vars(Progress)

-----------------------------------------------------------------------------
Tag == [of : Attempts \cup {NULL}, kind : {"value", "error", "exit", "garbled"}]

\* Every variable has its type (the locals of the threads and the objects they share).
TypeOK ==
  /\ kind \in Kinds
  /\ result \in [Tasks -> Verdicts \cup {NULL}] /\ callbacks \subseteq Tasks
  /\ invoking \in [Threads -> SUBSET Tasks] /\ doneQ \in Seq(Tasks) /\ got \in Seq(Tasks)
  /\ client \in {"iter", "group", "done", "timeout"} /\ step \in 1 .. Len(Order) + 1
  /\ ready \subseteq Tasks /\ active \subseteq Tasks /\ {halt, locked} \subseteq BOOLEAN
  /\ (\A t \in Tasks : attempts[t] \in 0 .. Retries[t] + 1) /\ asks \in 0 .. Budget
  /\ ctl \in [Tasks -> [cancelled : BOOLEAN, wake : Nat, slot : Workers \cup {NULL}]]
  /\ wk \in [Workers -> [pc : WorkerPoints, task : Tasks \cup {NULL}, out : Endings \cup {NULL}]]
  /\ ab \in [Threads -> [pc : AbortPoints, kill : BOOLEAN, swept : SUBSET Tasks,
                         todo : SUBSET Tasks, cur : Tasks \cup {NULL}]]
  /\ sidecar \in [Attempts -> {"none", "run", "boxed", "dead"}]
  /\ box \in [Attempts -> Endings \cup {NULL}] /\ event \in [Attempts -> BOOLEAN]
  /\ late \in [Workers -> BOOLEAN]
  /\ slot \in [Workers -> Attempts \cup {NULL}]
  /\ proc \in [Attempts -> [st : {"none", "up", "dying", "leaving", "dead"},
                            jobs : Seq(Attempts), replies : Seq(Tag)]]

\* No interrupt is lost (sync.py:42, threadqueue.py:118, processqueue.py:319):
\* once interrupt() has returned, a worker asleep on the attempt it was meant
\* for has something that wakes it, however interrupt() fell among the steps
\* that publish the wake event or the slot.
InterruptReaches ==
  \A w \in Workers :
    LET t == wk[w].task IN
    t # NULL /\ ctl[t].cancelled /\ (\A th \in Threads : ab[th].cur # t) =>
      /\ At(w, "wait") => event[Current(w)]
      /\ At(w, "await") => proc[slot[w]].st # "up" \/ proc[slot[w]].replies # <<>>

\* What the worker is about to receive was sent for the attempt it awaits, or
\* reports the initializer: a subprocess is kept from task to task, and no
\* late reply of a timed-out, cancelled or dead attempt is left in its pipe
\* (processqueue.py:333).
OwnReply ==
  \A w \in Workers :
    At(w, "await") =>
      \A i \in DOMAIN proc[slot[w]].replies : proc[slot[w]].replies[i].of \in {NULL, Current(w)}

\* No subprocess outlives its use (processqueue.py:128-200): one that lives is
\* the one in the slot of a live worker, and one that runs a callable runs
\* the attempt its worker awaits; a timed-out or finished task has none.
ProcessOwned ==
  \A a \in Attempts : Alive(a) =>
    \E w \in Workers :
      /\ slot[w] = a /\ ~At(w, "gone")
      /\ proc[a].jobs # <<>> => At(w, "await") /\ proc[a].jobs = <<Current(w)>>

\* Each handle comes once (handle.py:157, 189; group.py:48): the callback of a
\* handle the client has registered on is in exactly one place, pending, taken
\* by the thread that finished the task, in the queue, or received.
Places(t) ==
  {"pending"} \X (callbacks \cap {t}) \cup {"taken"} \X {th \in Threads : t \in invoking[th]}
  \cup {"queued"} \X {n \in DOMAIN doneQ : doneQ[n] = t}
  \cup {"received"} \X {n \in DOMAIN got : got[n] = t}
HandlesOnce ==
  \A i \in DOMAIN Order : Cardinality(Places(Order[i])) = (IF i < step THEN 1 ELSE 0)

\* A task a worker has taken ends (sync.py:493), whatever raced what, once its
\* callable is bound to end: it never loops, has a deadline, is cancelled, or
\* has come to its end in the last attempt. Only a worker on its way out,
\* killed by an exit, leaves its task without a result.
InHand(t) == \E w \in Workers : wk[w].task = t
LastIsOver(t) == LET last == Retries[t] + 1 IN attempts[t] = last /\ box[<<t, last>>] # NULL
MustEnd(t) == "loop" \notin Acts[t] \/ t \in Timed \/ ctl[t].cancelled \/ LastIsOver(t)
Ended(t) == Done(t) \/ \E w \in Workers : At(w, "leave") /\ wk[w].task = t
AttemptsEnd == \A t \in Tasks : (InHand(t) /\ MustEnd(t)) ~> Ended(t)

\* A client whose handles are all final gets them all, or has given up before.
ClientServed ==
  (\A i \in DOMAIN Order : Done(Order[i])) ~> (client \in {"done", "timeout"})

\* options.py:19: a must_complete task survives a fail_first abort and a time
\* limit. So it is not reported dead unless its own callable ends its process.
MustCompleteSurvives ==
  \A w \in Workers :
    At(w, "outcome") /\ wk[w].out = "died" /\ wk[w].task \in MustComplete =>
      \/ Acts[wk[w].task] \cap {"crash", "garbled"} # {}
      \/ ctl[wk[w].task].cancelled
=============================================================================
