------------------------------ MODULE Handles ------------------------------
(***************************************************************************)
(* Handles of a sync queue seen from both ends (src/osiiso/handle.py,      *)
(* group.py): the thread that finishes a task publishes the result under   *)
(* the handle's lock and then invokes the callbacks it took; an            *)
(* application thread meanwhile waits for a group of handles, in order     *)
(* (SyncTaskGroup.wait) or as they finish (iter_completed).                *)
(***************************************************************************)
EXTENDS Naturals, Sequences

CONSTANTS
  Tasks,      \* the tasks, and their handles
  Threads,    \* the threads that may finish a task
  NULL,
  Order,      \* the client's handles, without repetitions (of none, it returns at once)
  Ways,       \* how the client may wait: subset of {"group", "iter"}
  Patience    \* the client's timeout may expire

ASSUME HandlesAssumption ==
  /\ Order \in Seq(Tasks) \ {<<>>} /\ \A i, j \in DOMAIN Order : Order[i] = Order[j] => i = j
  /\ NULL \notin Tasks \cup Threads
  /\ Ways \subseteq {"group", "iter"} /\ Patience \in BOOLEAN

VARIABLES
  result,     \* handle._result (its status), NULL before the end
  callbacks,  \* handles holding the client's done_q.put in _callbacks
  invoking,   \* thread -> handles whose callbacks it has taken and not called
  doneQ,      \* iter_completed: done_q
  client,     \* the way the client waits, "done" or "timeout" at its end
  step,       \* the client's position in Order
  got         \* what the client has received, in order

clientVars == <<client, step, got>>
handleVars == <<result, callbacks, invoking, doneQ, clientVars>>

Verdicts == {"succeeded", "failed", "cancelled"}
Done(t) == result[t] # NULL

HandlesInit ==
  /\ result = [t \in Tasks |-> NULL] /\ callbacks = {}
  /\ invoking = [th \in Threads |-> {}] /\ doneQ = <<>>
  /\ client \in Ways /\ step = 1 /\ got = <<>>

\* Mutant: clears the callbacks without keeping them.
MarkFinishedSilently(th, t, verdict) ==
  /\ result' = IF Done(t) THEN result ELSE [result EXCEPT ![t] = verdict]
  /\ callbacks' = callbacks \ {t}
  /\ UNCHANGED <<invoking, doneQ, clientVars>>

\* _mark_finished under the handle's lock: the first result stands, and the
\* callbacks change hands. Waiters are woken by the same step.
MarkFinished(th, t, verdict) ==
  /\ result' = IF Done(t) THEN result ELSE [result EXCEPT ![t] = verdict]
  /\ callbacks' = callbacks \ {t}
  /\ invoking' = [invoking EXCEPT ![th] = @ \cup (callbacks \cap {t})]
  /\ UNCHANGED <<doneQ, clientVars>>

\* The loop over the callbacks taken, after the lock is released.
InvokeCallback(th) ==
  /\ \E t \in invoking[th] :
       /\ doneQ' = Append(doneQ, t)
       /\ invoking' = [invoking EXCEPT ![th] = @ \ {t}]
  /\ UNCHANGED <<result, callbacks, clientVars>>

-----------------------------------------------------------------------------
(* iter_completed: register on every handle, then take one entry per handle. *)

Registering == client = "iter" /\ step <= Len(Order)

\* Mutant: tells a late client nothing.
AddDoneCallbackLate ==
  /\ Registering
  /\ callbacks' = IF Done(Order[step]) THEN callbacks ELSE callbacks \cup {Order[step]}
  /\ step' = step + 1
  /\ UNCHANGED <<result, invoking, doneQ, client, got>>

AddDoneCallback ==
  /\ Registering
  /\ IF Done(Order[step])
       THEN doneQ' = Append(doneQ, Order[step]) /\ UNCHANGED callbacks
       ELSE callbacks' = callbacks \cup {Order[step]} /\ UNCHANGED doneQ
  /\ step' = step + 1
  /\ UNCHANGED <<result, invoking, client, got>>

Yield ==
  /\ client = "iter" /\ step > Len(Order) /\ doneQ # <<>>
  /\ got' = Append(got, Head(doneQ)) /\ doneQ' = Tail(doneQ)
  /\ client' = IF Len(got) + 1 = Len(Order) THEN "done" ELSE client
  /\ UNCHANGED <<result, callbacks, invoking, step>>

\* SyncTaskGroup.wait: wait for each handle in submission order.
WaitHandle ==
  /\ client = "group" /\ Done(Order[step])
  /\ got' = Append(got, Order[step]) /\ step' = step + 1
  /\ client' = IF step = Len(Order) THEN "done" ELSE client
  /\ UNCHANGED <<result, callbacks, invoking, doneQ>>

\* The shared time budget runs out while the client sleeps.
GiveUp ==
  /\ Patience
  /\ \/ client = "iter" /\ step > Len(Order) /\ doneQ = <<>>
     \/ client = "group" /\ ~Done(Order[step])
  /\ client' = "timeout"
  /\ UNCHANGED <<result, callbacks, invoking, doneQ, step, got>>

ClientNext == AddDoneCallback \/ Yield \/ WaitHandle \/ GiveUp
=============================================================================
