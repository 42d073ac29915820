----------------------------- MODULE ThreadExec -----------------------------
(***************************************************************************)
(* ThreadQueue._execute (src/osiiso/threadqueue.py): one sidecar thread    *)
(* per attempt runs the callable; the worker looks at the box, the cancel  *)
(* event, the sidecar and the clock, one after the other, and sleeps on a  *)
(* wake event made for the attempt.                                        *)
(***************************************************************************)
EXTENDS Worker

VARIABLES
  sidecar,  \* attempt -> its thread: "none", "run", "boxed", "dead"
  box,      \* attempt -> how the callable ended, NULL while the box is empty
  event,    \* attempt -> its wake event is set
  late      \* worker -> the deadline of its attempt has passed

threadVars == <<sidecar, box, event, late>>

ThreadInit ==
  /\ sidecar = [a \in Attempts |-> "none"] /\ box = [a \in Attempts |-> NULL]
  /\ event = [a \in Attempts |-> FALSE] /\ late = [w \in Workers |-> FALSE]

\* wake = Event(); ctl.wake = wake
Wire(w) ==
  /\ At(w, "execute") /\ Goto(w, "wired")
  /\ ctl' = [ctl EXCEPT ![wk[w].task].wake = attempts[wk[w].task]]
  /\ late' = [late EXCEPT ![w] = FALSE]
  /\ UNCHANGED <<ready, active, halt, locked, attempts, ab, asks, handleVars, sidecar, box, event>>

Launch(w) ==
  /\ At(w, "wired")
  /\ IF Cancelled(w) THEN Unwind(w) /\ UNCHANGED sidecar
     ELSE Goto(w, "box") /\ sidecar' = [sidecar EXCEPT ![Current(w)] = "run"]
  /\ UNCHANGED <<ready, active, halt, locked, attempts, ctl, ab, asks, handleVars, box, event, late>>

\* The four looks of the loop, each on its own.
LookInBox(w) ==
  /\ At(w, "box")
  /\ IF box[Current(w)] # NULL THEN End(w, box[Current(w)]) ELSE Goto(w, "flag")
  /\ UNCHANGED <<ready, active, halt, locked, attempts, ctl, ab, asks, handleVars, threadVars>>

LookAtFlag(w) ==
  /\ At(w, "flag")
  /\ IF Cancelled(w) THEN Unwind(w) ELSE Goto(w, "alive")
  /\ UNCHANGED <<ready, active, halt, locked, attempts, ctl, ab, asks, handleVars, threadVars>>

LookAtThread(w) ==
  /\ At(w, "alive")
  /\ IF sidecar[Current(w)] = "dead" THEN End(w, "died") ELSE Goto(w, "clock")
  /\ UNCHANGED <<ready, active, halt, locked, attempts, ctl, ab, asks, handleVars, threadVars>>

LookAtClock(w) ==
  /\ At(w, "clock")
  /\ IF late[w] THEN End(w, "timeout") ELSE Goto(w, "wait")
  /\ UNCHANGED <<ready, active, halt, locked, attempts, ctl, ab, asks, handleVars, threadVars>>

\* wake.wait(remaining): the event is set, or the deadline passes.
WakeUp(w) ==
  /\ At(w, "wait") /\ event[Current(w)] /\ Goto(w, "box")
  /\ UNCHANGED <<ready, active, halt, locked, attempts, ctl, ab, asks, handleVars, threadVars>>

Expire(w) ==
  /\ At(w, "wait") /\ wk[w].task \in Timed
  /\ late' = [late EXCEPT ![w] = TRUE] /\ Goto(w, "box")
  /\ UNCHANGED <<ready, active, halt, locked, attempts, ctl, ab, asks, handleVars, sidecar, box, event>>

\* The sidecar: box.append, then wake.set, its last act. It goes on when the
\* worker has abandoned it.
Box(a) ==
  /\ sidecar[a] = "run"
  /\ \E out \in Acts[a[1]] \cap {"value", "error", "exit"} : box' = [box EXCEPT ![a] = out]
  /\ sidecar' = [sidecar EXCEPT ![a] = "boxed"]
  /\ UNCHANGED <<workerVars, handleVars, event, late>>

\* Mutant: wakes the worker before the outcome is in the box, and so not at all.
SetWakeEarly(a) ==
  /\ sidecar[a] = "boxed" /\ sidecar' = [sidecar EXCEPT ![a] = "dead"]
  /\ UNCHANGED <<workerVars, handleVars, box, event, late>>

SetWake(a) ==
  /\ sidecar[a] = "boxed"
  /\ event' = [event EXCEPT ![a] = TRUE] /\ sidecar' = [sidecar EXCEPT ![a] = "dead"]
  /\ UNCHANGED <<workerVars, handleVars, box, late>>

\* _Ctl.interrupt, second step: self.wake.set() if an executor has left one.
Wake(th) ==
  /\ ab[th].pc = "wake" /\ Woken(th)
  /\ LET t == ab[th].cur IN
       event' = IF ctl[t].wake = 0 THEN event ELSE [event EXCEPT ![<<t, ctl[t].wake>>] = TRUE]
  /\ UNCHANGED <<ready, active, halt, locked, attempts, ctl, wk, asks, handleVars, sidecar, box, late>>

ThreadStep(w) ==
  \/ Wire(w) \/ Launch(w) \/ LookInBox(w) \/ LookAtFlag(w) \/ LookAtThread(w)
  \/ LookAtClock(w) \/ WakeUp(w)

SidecarStep(a) == Box(a) \/ SetWake(a)
=============================================================================
