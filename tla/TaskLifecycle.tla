--------------------------- MODULE TaskLifecycle ---------------------------
(***************************************************************************)
(* What every osiiso queue promises about a submitted task, whatever runs  *)
(* it: the states a handle goes through, the number of attempts, and one   *)
(* entry in the queue's results, appended after the handle is final.       *)
(***************************************************************************)
EXTENDS Naturals, Sequences

CONSTANTS Tasks, Retries

VARIABLES
  st,        \* handle.status, "new" before the submission
  attempts,  \* handle.attempts
  owed,      \* tasks accepted whose result is not yet in results
  results    \* the queue's results

vars == <<st, attempts, owed, results>>

Outcomes == {"succeeded", "failed", "cancelled"}

Init ==
  /\ st = [t \in Tasks |-> "new"] /\ attempts = [t \in Tasks |-> 0]
  /\ owed = {} /\ results = <<>>

Accept(t) ==
  /\ st[t] = "new"
  /\ st' = [st EXCEPT ![t] = "pending"] /\ owed' = owed \cup {t}
  /\ UNCHANGED <<attempts, results>>

Begin(t) ==
  /\ st[t] \in {"pending", "retrying"} /\ attempts[t] <= Retries[t]
  /\ st' = [st EXCEPT ![t] = "running"] /\ attempts' = [attempts EXCEPT ![t] = @ + 1]
  /\ UNCHANGED <<owed, results>>

Again(t) ==
  /\ st[t] = "running"
  /\ st' = [st EXCEPT ![t] = "retrying"]
  /\ UNCHANGED <<attempts, owed, results>>

\* Only an attempt succeeds or fails; a cancellation ends any live task.
Finish(t) ==
  /\ \/ st[t] = "running" /\ \E o \in Outcomes : st' = [st EXCEPT ![t] = o]
     \/ st[t] \in {"pending", "retrying"} /\ st' = [st EXCEPT ![t] = "cancelled"]
  /\ UNCHANGED <<attempts, owed, results>>

Record(t) ==
  /\ t \in owed /\ st[t] \in Outcomes
  /\ owed' = owed \ {t} /\ results' = Append(results, t)
  /\ UNCHANGED <<st, attempts>>

Forget == results' = <<>> /\ UNCHANGED <<st, attempts, owed>>

Next == Forget \/ \E t \in Tasks : Accept(t) \/ Begin(t) \/ Again(t) \/ Finish(t) \/ Record(t)

Spec == Init /\ [][Next]_vars
=============================================================================
