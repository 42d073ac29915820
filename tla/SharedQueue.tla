---------------------------- MODULE SharedQueue ----------------------------
(***************************************************************************)
(* What other threads see of an asyncio queue (src/osiiso/sharedqueue.py,  *)
(* handle.py): producers hand their submissions to the queue's loop and    *)
(* block, polling, for the answer; coroutines of any loop await a handle   *)
(* that the queue's loop finishes. What the queue does on its own loop is  *)
(* the subject of AsyncQueue: here it accepts a task or not, finishes it,  *)
(* and shuts down once every task it has accepted is final.                *)
(***************************************************************************)
EXTENDS Naturals, Sequences, FiniteSets

CONSTANTS
  Tasks,      \* submissions, each by a producer thread of its own
  Waiters,    \* coroutines that await a handle
  For,        \* For[w]: the task whose handle w awaits
  Where,      \* Where[w]: the loop w runs on
  Loops,
  Home,       \* the queue's loop
  NULL

ASSUME SharedAssumption ==
  /\ For \in [Waiters -> Tasks] /\ Where \in [Waiters -> Loops] /\ Home \in Loops
  /\ NULL \notin Tasks \cup Waiters /\ Tasks \cap Waiters = {}

VARIABLES
  phase,      \* loop -> "running", "draining" (asyncio.run cleans up) or "closed"
  queue,      \* loop -> the callbacks its thread is to run, in order
  busy,       \* loop -> the task it is finishing or the coroutine in the middle of wait(), NULL
  accepting,  \* the queue's _accepting
  accepted,   \* tasks the queue has taken
  result,     \* tasks whose handle is final
  prod,       \* task -> where its producer is in _marshal, or its answer
  fut,        \* task -> the future of its _commit
  wait,       \* waiter -> where it is in TaskHandle.wait, or how it ended
  future,     \* waiter -> its asyncio future
  waiters,    \* handle._waiters
  resolved,   \* what _finish_unlocked still has to wake
  crossed     \* history: tasks committed after their producer's last look at fut

producerVars == <<prod, fut, accepting, accepted, crossed>>
waiterVars == <<wait, future, waiters, resolved, result>>
vars == <<phase, queue, busy, producerVars, waiterVars>>

Answers == {"handle", "refused", "timeout", "closed"}

Init ==
  /\ phase = [l \in Loops |-> "running"] /\ queue = [l \in Loops |-> <<>>]
  /\ busy = [l \in Loops |-> NULL]
  /\ accepting = TRUE /\ accepted = {} /\ crossed = {}
  /\ prod = [t \in Tasks |-> "start"] /\ fut = [t \in Tasks |-> "pending"]
  /\ result = {} /\ resolved = {} /\ waiters = {}
  /\ wait = [w \in Waiters |-> "start"] /\ future = [w \in Waiters |-> "pending"]

Open(l) == phase[l] # "closed"
Free(l) == Open(l) /\ busy[l] = NULL
Post(l, callback) == queue' = [queue EXCEPT ![l] = Append(@, callback)]
Produce(t, pc) == prod' = [prod EXCEPT ![t] = pc]

-----------------------------------------------------------------------------
(* A producer's thread in _marshal. *)

\* A loop that is not running at this moment has been shut down: the call is
\* made here and the queue refuses it.
Marshal(t) ==
  /\ prod[t] = "start"
  /\ \/ phase[Home] # "closed" /\ Produce(t, "post")
     \/ phase[Home] # "running" /\ Produce(t, "refused")
  /\ UNCHANGED <<phase, queue, busy, fut, accepting, accepted, crossed, waiterVars>>

\* Mutant: posts to whatever loop is there.
PostCommitBlind(t) ==
  /\ prod[t] = "post" /\ Post(Home, t) /\ Produce(t, "ask")
  /\ UNCHANGED <<phase, busy, fut, accepting, accepted, crossed, waiterVars>>

\* call_soon_threadsafe(_commit), which raises once the loop is closed
PostCommit(t) ==
  /\ prod[t] = "post"
  /\ IF Open(Home) THEN Post(Home, t) /\ Produce(t, "ask")
     ELSE Produce(t, "closed") /\ UNCHANGED queue
  /\ UNCHANGED <<phase, busy, fut, accepting, accepted, crossed, waiterVars>>

\* fut.result(timeout=1.0) returns, raises what _commit caught, or expires.
Result(t) ==
  /\ prod[t] = "ask"
  /\ Produce(t, IF fut[t] = "pending" THEN "expired" ELSE fut[t])
  /\ UNCHANGED <<phase, queue, busy, fut, accepting, accepted, crossed, waiterVars>>

\* After a timeout: fut.done() re-raises it, then loop.is_closed().
LookAtFuture(t) ==
  /\ prod[t] = "expired"
  /\ Produce(t, IF fut[t] = "pending" THEN "pending" ELSE "timeout")
  /\ UNCHANGED <<phase, queue, busy, fut, accepting, accepted, crossed, waiterVars>>

\* Mutants: polls without looking at the loop, or once only.
LookAtLoopNever(t) ==
  /\ prod[t] = "pending" /\ Produce(t, "ask")
  /\ UNCHANGED <<phase, queue, busy, fut, accepting, accepted, crossed, waiterVars>>
LookAtLoopOnce(t) ==
  /\ prod[t] = "pending" /\ Produce(t, "closed")
  /\ UNCHANGED <<phase, queue, busy, fut, accepting, accepted, crossed, waiterVars>>

LookAtLoop(t) ==
  /\ prod[t] = "pending"
  /\ Produce(t, IF Open(Home) THEN "ask" ELSE "closed")
  /\ UNCHANGED <<phase, queue, busy, fut, accepting, accepted, crossed, waiterVars>>

-----------------------------------------------------------------------------
(* The loops. *)

\* _commit on the queue's loop.
Commit ==
  /\ Free(Home) /\ queue[Home] # <<>>
  /\ LET t == Head(queue[Home]) IN
       /\ t \in Tasks
       /\ queue' = [queue EXCEPT ![Home] = Tail(@)]
       /\ fut' = [fut EXCEPT ![t] = IF accepting THEN "handle" ELSE "refused"]
       /\ accepted' = IF accepting THEN accepted \cup {t} ELSE accepted
       /\ crossed' = IF prod[t] \in {"expired", "pending"} THEN crossed \cup {t} ELSE crossed
  /\ UNCHANGED <<phase, busy, prod, accepting, waiterVars>>

\* _resolve on the loop of the waiter.
Resolve(l) ==
  /\ Free(l) /\ queue[l] # <<>>
  /\ LET who == Head(queue[l]) IN
       /\ who \in Waiters
       /\ queue' = [queue EXCEPT ![l] = Tail(@)]
       /\ future' = [future EXCEPT ![who] = IF @ = "pending" THEN "set" ELSE @]
  /\ UNCHANGED <<phase, busy, producerVars, wait, waiters, resolved, result>>

\* shutdown(), then asyncio.run leaves its main coroutine.
Shutdown ==
  /\ Free(Home) /\ accepting /\ accepting' = FALSE
  /\ UNCHANGED <<phase, queue, busy, prod, fut, accepted, crossed, waiterVars>>

\* The queue's loop stops after its shutdown has seen every task final, any
\* other when it likes.
Drain(l) ==
  /\ phase[l] = "running" /\ busy[l] = NULL
  /\ l = Home => ~accepting /\ accepted \subseteq result
  /\ phase' = [phase EXCEPT ![l] = "draining"]
  /\ UNCHANGED <<queue, busy, producerVars, waiterVars>>

\* loop.close() drops what is still to run.
Close(l) ==
  /\ phase[l] = "draining" /\ busy[l] = NULL
  /\ phase' = [phase EXCEPT ![l] = "closed"] /\ queue' = [queue EXCEPT ![l] = <<>>]
  /\ UNCHANGED <<busy, producerVars, waiterVars>>

-----------------------------------------------------------------------------
(* _mark_finished on the queue's loop: the lock section, then one waiter     *)
(* after the other on its own loop.                                          *)

Finish(t) ==
  /\ Free(Home) /\ t \in accepted \ result
  /\ result' = result \cup {t}
  /\ LET mine == {w \in waiters : For[w] = t} IN
       /\ resolved' = {<<w, "look">> : w \in mine} /\ waiters' = waiters \ mine
       /\ busy' = [busy EXCEPT ![Home] = IF mine = {} THEN NULL ELSE t]
  /\ UNCHANGED <<phase, queue, producerVars, wait, future>>

\* The snapshot's entry is dealt with; the last one frees the loop.
Handled(entry) ==
  /\ resolved' = resolved \ {entry}
  /\ busy' = IF resolved = {entry} THEN [busy EXCEPT ![Home] = NULL] ELSE busy

\* w.done() or loop.is_closed()
LookAtWaiter(w) ==
  /\ <<w, "look">> \in resolved
  /\ IF future[w] # "pending" \/ ~Open(Where[w]) THEN Handled(<<w, "look">>)
     ELSE resolved' = (resolved \ {<<w, "look">>}) \cup {<<w, "wake">>} /\ UNCHANGED busy
  /\ UNCHANGED <<phase, queue, producerVars, wait, future, waiters, result>>

\* call_soon_threadsafe(_resolve): the loop may have closed since.
WakeWaiter(w) ==
  /\ <<w, "wake">> \in resolved /\ Handled(<<w, "wake">>)
  /\ IF Open(Where[w]) THEN Post(Where[w], w) ELSE UNCHANGED queue
  /\ UNCHANGED <<phase, producerVars, wait, future, waiters, result>>

-----------------------------------------------------------------------------
(* A coroutine in TaskHandle.wait. *)

\* The first look at the result, without the lock.
BeginWait(w) ==
  /\ wait[w] = "start" /\ prod[For[w]] = "handle" /\ Free(Where[w])
  /\ IF For[w] \in result THEN wait' = [wait EXCEPT ![w] = "returned"] /\ UNCHANGED busy
     ELSE wait' = [wait EXCEPT ![w] = "lock"] /\ busy' = [busy EXCEPT ![Where[w]] = w]
  /\ UNCHANGED <<phase, queue, producerVars, future, waiters, resolved, result>>

\* Mutant: trusts the first look.
EnlistTrusting(w) ==
  /\ wait[w] = "lock" /\ busy' = [busy EXCEPT ![Where[w]] = NULL]
  /\ wait' = [wait EXCEPT ![w] = "asleep"] /\ waiters' = waiters \cup {w}
  /\ UNCHANGED <<phase, queue, producerVars, future, resolved, result>>

\* The second look, with it.
Enlist(w) ==
  /\ wait[w] = "lock" /\ busy' = [busy EXCEPT ![Where[w]] = NULL]
  /\ IF For[w] \in result THEN wait' = [wait EXCEPT ![w] = "returned"] /\ UNCHANGED waiters
     ELSE wait' = [wait EXCEPT ![w] = "asleep"] /\ waiters' = waiters \cup {w}
  /\ UNCHANGED <<phase, queue, producerVars, future, resolved, result>>

\* The coroutine is cancelled (wait_for, a draining loop).
CancelWait(w) ==
  /\ wait[w] = "asleep" /\ Free(Where[w]) /\ future[w] = "pending"
  /\ future' = [future EXCEPT ![w] = "cancelled"]
  /\ UNCHANGED <<phase, queue, busy, producerVars, wait, waiters, resolved, result>>

EndWait(w) ==
  /\ wait[w] = "asleep" /\ Free(Where[w]) /\ future[w] # "pending"
  /\ wait' = [wait EXCEPT ![w] = IF future[w] = "set" THEN "returned" ELSE "cancelled"]
  /\ waiters' = waiters \ {w}
  /\ UNCHANGED <<phase, queue, busy, producerVars, future, resolved, result>>

-----------------------------------------------------------------------------
ProducerStep(t) == Marshal(t) \/ PostCommit(t) \/ Result(t) \/ LookAtFuture(t) \/ LookAtLoop(t)
WaiterStep(w) == LookAtWaiter(w) \/ WakeWaiter(w) \/ BeginWait(w) \/ Enlist(w) \/ EndWait(w)

\* What a loop goes on to do as long as it runs.
LoopStep ==
  \/ Commit
  \/ \E l \in Loops : Resolve(l)
  \/ \E t \in Tasks : Finish(t)
  \/ \E w \in Waiters : WaiterStep(w)

Next ==
  \/ LoopStep
  \/ \E t \in Tasks : ProducerStep(t)
  \/ Shutdown
  \/ \E l \in Loops : Drain(l) \/ Close(l)
  \/ \E w \in Waiters : CancelWait(w)

Spec == Init /\ [][Next]_vars

\* Threads are scheduled, and a loop that is not closed runs what is queued
\* on it. Nobody has to shut down, close a loop or cancel a waiter.
FairSpec == Spec /\ WF_vars(LoopStep) /\ \A t \in Tasks : WF_vars(ProducerStep(t))

-----------------------------------------------------------------------------
\* Every variable has its type, and a closed loop keeps no callback, so that
\* nothing is ever queued where it cannot run.
TypeOK ==
  /\ phase \in [Loops -> {"running", "draining", "closed"}]
  /\ queue \in [Loops -> Seq(Tasks \cup Waiters)] /\ \A l \in Loops : queue[l] # <<>> => Open(l)
  /\ busy \in [Loops -> Tasks \cup Waiters \cup {NULL}]
  /\ accepting \in BOOLEAN /\ crossed \subseteq Tasks /\ result \subseteq accepted /\ accepted \subseteq Tasks
  /\ prod \in [Tasks -> {"start", "post", "ask", "expired", "pending"} \cup Answers]
  /\ fut \in [Tasks -> {"pending", "handle", "refused"}]
  /\ wait \in [Waiters -> {"start", "lock", "asleep", "returned", "cancelled"}]
  /\ future \in [Waiters -> {"pending", "set", "cancelled"}]
  /\ waiters \subseteq Waiters /\ resolved \subseteq Waiters \X {"look", "wake"}

\* A producer is told what became of its task (sharedqueue.py:92-102): one
\* that has its handle has its task accepted, and one that is told that the
\* queue is closed, or that it timed out, has not, unless the loop ran the
\* submission after the producer's last look at the future.
HonestAnswer ==
  \A t \in Tasks :
    /\ prod[t] = "handle" => t \in accepted
    /\ prod[t] \in Answers \ {"handle"} /\ t \in accepted => t \in crossed

\* No waiter is forgotten (handle.py:246-275), whatever loop it runs on and
\* wherever the finishing thread meets it between its two looks: asleep on a
\* handle that is not final, it is registered; on one that is, its wake-up is
\* on its way, unless its loop is closed.
WaiterReached ==
  \A w \in Waiters :
    wait[w] = "asleep" /\ future[w] = "pending" /\ Open(Where[w]) =>
      IF For[w] \notin result THEN w \in waiters
      ELSE \/ \E todo \in {"look", "wake"} : <<w, todo>> \in resolved
           \/ \E i \in DOMAIN queue[Where[w]] : queue[Where[w]][i] = w

\* Every producer is answered, though the loop may close over its submission,
\* and every waiter's wait ends, unless its own loop is closed under it.
EveryoneReturns ==
  /\ \A t \in Tasks : <>(prod[t] \in Answers)
  /\ \A w \in Waiters :
       wait[w] = "asleep" ~> (wait[w] \in {"returned", "cancelled"} \/ ~Open(Where[w]))
=============================================================================
