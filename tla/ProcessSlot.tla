---------------------------- MODULE ProcessSlot ----------------------------
(***************************************************************************)
(* ProcessQueue._execute, _Slot and _pool_main (src/osiiso/processqueue.py): *)
(* each worker keeps a subprocess and a pipe in its slot and ships one     *)
(* attempt at a time. terminate() only sends a signal: the subprocess is   *)
(* alive until the system has ended it, and it may be called by any thread *)
(* that holds a control block, whatever the worker is doing by then.       *)
(***************************************************************************)
EXTENDS Worker

CONSTANT InitMayFail  \* tasks for which a subprocess is spawned whose initializer may raise

ASSUME InitAssumption == InitMayFail \subseteq Tasks /\ NULL \notin Attempts

VARIABLES
  slot,  \* worker -> the attempt that spawned its subprocess, NULL for none
  proc   \* attempt -> the subprocess it spawned

procVars == <<slot, proc>>

\* st: "none", "up", "dying" (signalled), "leaving" (its initializer has
\* failed: it serves nothing) or "dead".
\* jobs: the attempts in the request pipe, the first being run; replies: what
\* is in the reply pipe, [of, kind]. Both pipes belong to the process: dropping
\* the slot's conn makes them unreachable.
Idle(st) == [st |-> st, jobs |-> <<>>, replies |-> <<>>]
Running(a) == Head(proc[a].jobs)
Serving(a) == proc[a].st \in {"up", "dying"}
Alive(a) == Serving(a) \/ proc[a].st = "leaving"

ProcessInit ==
  /\ slot = [w \in Workers |-> NULL] /\ proc = [a \in Attempts |-> Idle("none")]

\* p.terminate() on whatever the slot holds now.
Terminated(w) ==
  IF slot[w] = NULL \/ proc[slot[w]].st # "up" THEN proc ELSE [proc EXCEPT ![slot[w]].st = "dying"]
\* reap(), or terminate() and reap(): join, kill if it lingers, drop the pipe.
Reap(w) ==
  /\ slot' = [slot EXCEPT ![w] = NULL]
  /\ proc' = IF slot[w] = NULL THEN proc ELSE [proc EXCEPT ![slot[w]] = Idle("dead")]

Begin(w) ==
  /\ At(w, "execute")
  /\ IF Cancelled(w) THEN Unwind(w) ELSE Goto(w, "ensure")
  /\ UNCHANGED <<ready, active, halt, locked, attempts, ctl, ab, asks, handleVars, procVars>>

\* ensure(): keep a live subprocess, signalled or not; else spawn one, whose
\* initializer may fail: it then reports and leaves without serving a task.
Ensure(w) ==
  /\ At(w, "ensure") /\ Goto(w, "publish")
  /\ IF slot[w] # NULL /\ Alive(slot[w]) THEN UNCHANGED procVars
     ELSE /\ slot' = [slot EXCEPT ![w] = Current(w)]
          /\ \/ proc' = [proc EXCEPT ![Current(w)] = Idle("up")]
             \/ wk[w].task \in InitMayFail /\ proc' = [proc EXCEPT ![Current(w)] =
                                 [Idle("leaving") EXCEPT !.replies = <<[of |-> NULL, kind |-> "error"]>>]]
  /\ UNCHANGED <<ready, active, halt, locked, attempts, ctl, ab, asks, handleVars>>

\* ctl.slot = slot
PublishSlot(w) ==
  /\ At(w, "publish") /\ Goto(w, "recheck")
  /\ ctl' = [ctl EXCEPT ![wk[w].task].slot = w]
  /\ UNCHANGED <<ready, active, halt, locked, attempts, ab, asks, handleVars, procVars>>

\* Mutant: does not look at cancel_ev again.
RecheckTrusting(w) ==
  /\ At(w, "recheck") /\ Goto(w, "send")
  /\ UNCHANGED <<ready, active, halt, locked, attempts, ctl, ab, asks, handleVars, procVars>>

Recheck(w) ==
  /\ At(w, "recheck")
  /\ IF Cancelled(w) THEN Unwind(w) /\ Reap(w) ELSE Goto(w, "send") /\ UNCHANGED procVars
  /\ UNCHANGED <<ready, active, halt, locked, attempts, ctl, ab, asks, handleVars>>

\* conn.send: raises if the callable does not pickle or nobody is left to read.
Send(w) ==
  /\ At(w, "send")
  /\ \/ /\ Acts[wk[w].task] # {"unsendable"}
        /\ Goto(w, "await")
        /\ proc' = IF Serving(slot[w]) THEN [proc EXCEPT ![slot[w]].jobs = Append(@, Current(w))] ELSE proc
     \/ /\ "unsendable" \in Acts[wk[w].task] \/ proc[slot[w]].st \in {"leaving", "dead"}
        /\ End(w, "error") /\ UNCHANGED proc
  /\ UNCHANGED <<ready, active, halt, locked, attempts, ctl, ab, asks, handleVars, slot>>

\* A reply is looked for before the sentinel.
Receive(w) ==
  /\ At(w, "await")
  /\ proc[slot[w]].replies # <<>>
  /\ LET reply == Head(proc[slot[w]].replies) IN
       IF reply.kind = "garbled" THEN Goto(w, "reaped") /\ Reap(w)
       ELSE End(w, reply.kind) /\ proc' = [proc EXCEPT ![slot[w]].replies = Tail(@)] /\ UNCHANGED slot
  /\ UNCHANGED <<ready, active, halt, locked, attempts, ctl, ab, asks, handleVars>>

\* The sentinel, or the end of the pipe.
Bereaved(w) ==
  /\ At(w, "await") /\ proc[slot[w]].st = "dead" /\ proc[slot[w]].replies = <<>>
  /\ Goto(w, "reaped") /\ Reap(w)
  /\ UNCHANGED <<ready, active, halt, locked, attempts, ctl, ab, asks, handleVars>>

Explain(w) ==
  /\ At(w, "reaped") /\ End(w, IF Cancelled(w) THEN "cancelled" ELSE "died")
  /\ UNCHANGED <<ready, active, halt, locked, attempts, ctl, ab, asks, handleVars, procVars>>

\* Mutant: leaves the subprocess and its pipe to the next attempt.
TimeOutLeaving(w) ==
  /\ At(w, "await") /\ wk[w].task \in Timed
  /\ proc[slot[w]].replies = <<>> /\ proc[slot[w]].st # "dead"
  /\ End(w, "timeout")
  /\ UNCHANGED <<ready, active, halt, locked, attempts, ctl, ab, asks, handleVars, procVars>>

TimeOut(w) ==
  /\ At(w, "await") /\ wk[w].task \in Timed
  /\ proc[slot[w]].replies = <<>> /\ proc[slot[w]].st # "dead"
  /\ End(w, "timeout") /\ Reap(w)
  /\ UNCHANGED <<ready, active, halt, locked, attempts, ctl, ab, asks, handleVars>>

\* Mutant: drops the pipe and does not wait for the subprocess.
CloseQuietly(w) ==
  /\ At(w, "close") /\ Goto(w, "gone") /\ slot' = [slot EXCEPT ![w] = NULL]
  /\ UNCHANGED <<ready, active, halt, locked, attempts, ctl, ab, asks, handleVars, proc>>

\* _close_worker_ctx as the worker ends.
Close(w) ==
  /\ At(w, "close") /\ Goto(w, "gone") /\ Reap(w)
  /\ UNCHANGED <<ready, active, halt, locked, attempts, ctl, ab, asks, handleVars>>

-----------------------------------------------------------------------------
(* The subprocess. *)

Reply(a) ==
  /\ Serving(a) /\ proc[a].jobs # <<>>
  /\ \E kind \in Acts[Running(a)[1]] \cap {"value", "error", "exit", "garbled"} :
       proc' = [proc EXCEPT ![a] = [st |-> @.st, jobs |-> Tail(@.jobs),
                                    replies |-> Append(@.replies, [of |-> Running(a), kind |-> kind])]]
  /\ UNCHANGED <<workerVars, handleVars, slot>>

\* The system ends a signalled process; user code may end its own.
Perish(a) ==
  /\ proc[a].st \in {"dying", "leaving"}
  /\ proc' = [proc EXCEPT ![a].st = "dead", ![a].jobs = <<>>]
  /\ UNCHANGED <<workerVars, handleVars, slot>>

Crash(a) ==
  /\ proc[a].st = "up" /\ proc[a].jobs # <<>> /\ "crash" \in Acts[Running(a)[1]]
  /\ proc' = [proc EXCEPT ![a].st = "dead", ![a].jobs = <<>>]
  /\ UNCHANGED <<workerVars, handleVars, slot>>

\* _Ctl.interrupt, last step: self.slot.terminate() if an executor has left one.
Strike(th) ==
  /\ ab[th].pc = "strike" /\ Struck(th)
  /\ LET v == ctl[ab[th].cur].slot IN proc' = IF v = NULL THEN proc ELSE Terminated(v)
  /\ UNCHANGED <<ready, active, halt, attempts, ctl, wk, asks, handleVars, slot>>

ProcessStep(w) ==
  \/ Begin(w) \/ Ensure(w) \/ PublishSlot(w) \/ Recheck(w) \/ Send(w) \/ Receive(w)
  \/ Bereaved(w) \/ Explain(w) \/ Close(w)
=============================================================================
