------------------------- MODULE SharedQueueProofs -------------------------
(***************************************************************************)
(* Proofs about SharedQueue, for any producers, waiters and loops: its     *)
(* type invariant, that producers are answered truly, and that no waiter   *)
(* is forgotten.                                                           *)
(***************************************************************************)
EXTENDS SharedQueue, TLAPS

\* A loop's thread is taken while it deals with a snapshot, and while one of
\* its coroutines is between its two looks at a handle.
Taken ==
  /\ resolved # {} => busy[Home] \in Tasks
  /\ \A w \in Waiters : wait[w] = "lock" => busy[Where[w]] = w

\* A submission that is on the loop is there once, and its producer waits.
Queued ==
  \A t \in Tasks :
    /\ \A i \in DOMAIN queue[Home] :
         queue[Home][i] = t => fut[t] = "pending" /\ prod[t] \in {"ask", "expired", "pending"}
    /\ \A i, j \in DOMAIN queue[Home] : queue[Home][i] = t /\ queue[Home][j] = t => i = j

\* The future says what became of the task, and so does what the producer
\* goes on to, unless the submission has crossed its decision.
Told ==
  \A t \in Tasks :
    /\ t \in accepted <=> fut[t] = "handle"
    /\ prod[t] \in {"start", "post"} => fut[t] = "pending"
    /\ prod[t] = "handle" => fut[t] = "handle"
    /\ prod[t] \in {"expired", "pending", "timeout", "closed", "refused"} /\ t \in accepted => t \in crossed

\* The inductive invariant.
IInv == TypeOK /\ Taken /\ Queued /\ Told /\ WaiterReached

LEMMA Initially == Init => IInv
<1> SUFFICES ASSUME Init PROVE IInv
  OBVIOUS
<1> USE SharedAssumption
<1>1. TypeOK
  BY DEF Init, TypeOK, Answers, Open
<1>2. Taken /\ Queued /\ Told /\ WaiterReached
  BY DEF Init, Taken, Queued, Told, WaiterReached, Answers
<1> QED BY <1>1, <1>2 DEF IInv

\* What Append and Tail do to the positions of a sequence.
LEMMA Appended ==
  ASSUME NEW S, NEW s \in Seq(S), NEW e \in S
  PROVE  /\ Append(s, e) \in Seq(S) /\ Append(s, e) # <<>>
         /\ Len(s) \in Nat /\ DOMAIN s = 1 .. Len(s) /\ DOMAIN Append(s, e) = 1 .. Len(s) + 1
         /\ \A i \in DOMAIN s : Append(s, e)[i] = s[i]
         /\ Append(s, e)[Len(s) + 1] = e
  OBVIOUS

LEMMA Tailed ==
  ASSUME NEW S, NEW s \in Seq(S), s # <<>>
  PROVE  /\ Tail(s) \in Seq(S) /\ Head(s) = s[1] /\ Head(s) \in S /\ 1 \in DOMAIN s
         /\ Len(s) \in Nat /\ DOMAIN s = 1 .. Len(s) /\ DOMAIN Tail(s) = 1 .. Len(s) - 1
         /\ \A i \in DOMAIN Tail(s) : i + 1 \in DOMAIN s /\ Tail(s)[i] = s[i + 1]
         /\ \A i \in DOMAIN s : i # 1 => i - 1 \in DOMAIN Tail(s) /\ Tail(s)[i - 1] = s[i]
  OBVIOUS

\* What posting a callback to an open loop does to the queues.
LEMMA Posted ==
  ASSUME TypeOK, NEW l \in Loops, NEW e \in Tasks \cup Waiters, Open(l), phase' = phase, Post(l, e)
  PROVE  /\ queue' \in [Loops -> Seq(Tasks \cup Waiters)]
         /\ \A k \in Loops : queue'[k] # <<>> => Open(k)'
         /\ \A k \in Loops : k # l => queue'[k] = queue[k]
         /\ Len(queue[l]) \in Nat /\ DOMAIN queue[l] = 1 .. Len(queue[l])
         /\ DOMAIN queue'[l] = 1 .. Len(queue[l]) + 1
         /\ \A i \in DOMAIN queue[l] : queue'[l][i] = queue[l][i]
         /\ queue'[l][Len(queue[l]) + 1] = e
<1>1. queue[l] \in Seq(Tasks \cup Waiters) /\ queue'[l] = Append(queue[l], e)
      /\ \A k \in Loops : k # l => queue'[k] = queue[k]
  BY DEF TypeOK, Post
<1>2. queue' \in [Loops -> Seq(Tasks \cup Waiters)]
  BY <1>1, Appended DEF TypeOK, Post
<1>3. \A k \in Loops : queue'[k] # <<>> => Open(k)'
  BY <1>1 DEF TypeOK, Open
<1> QED BY <1>1, <1>2, <1>3, Appended

LEMMA Typing == TypeOK /\ [Next]_vars => TypeOK'
<1> SUFFICES ASSUME TypeOK, [Next]_vars PROVE TypeOK'
  OBVIOUS
<1> USE SharedAssumption
<1>1. ASSUME NEW t \in Tasks, Marshal(t) PROVE TypeOK'
  BY <1>1 DEF Marshal, Produce, producerVars, waiterVars, TypeOK, Answers, Open
<1>2. ASSUME NEW t \in Tasks, PostCommit(t) PROVE TypeOK'
  <2>1. CASE Open(Home)
    BY <1>2, <2>1, Posted DEF PostCommit, Produce, producerVars, waiterVars, TypeOK, Answers
  <2>2. CASE ~Open(Home)
    BY <1>2, <2>2 DEF PostCommit, Produce, producerVars, waiterVars, TypeOK, Answers, Open
  <2> QED BY <2>1, <2>2
<1>3. ASSUME NEW t \in Tasks, Result(t) PROVE TypeOK'
  BY <1>3 DEF Result, Produce, producerVars, waiterVars, TypeOK, Answers, Open
<1>4. ASSUME NEW t \in Tasks, LookAtFuture(t) PROVE TypeOK'
  BY <1>4 DEF LookAtFuture, Produce, producerVars, waiterVars, TypeOK, Answers, Open
<1>5. ASSUME NEW t \in Tasks, LookAtLoop(t) PROVE TypeOK'
  BY <1>5 DEF LookAtLoop, Produce, producerVars, waiterVars, TypeOK, Answers, Open
<1>6. ASSUME Commit PROVE TypeOK'
  BY <1>6 DEF Commit, Free, producerVars, waiterVars, TypeOK, Answers, Open
<1>7. ASSUME NEW l \in Loops, Resolve(l) PROVE TypeOK'
  BY <1>7 DEF Resolve, Free, producerVars, waiterVars, TypeOK, Answers, Open
<1>8. ASSUME NEW t \in Tasks, Finish(t) PROVE TypeOK'
  BY <1>8 DEF Finish, Free, producerVars, waiterVars, TypeOK, Answers, Open
<1>9. ASSUME NEW w \in Waiters, LookAtWaiter(w) PROVE TypeOK'
  <2>1. resolved' \subseteq Waiters \X {"look", "wake"}
    BY <1>9 DEF LookAtWaiter, Handled, TypeOK
  <2>2. busy' \in [Loops -> Tasks \cup Waiters \cup {NULL}]
    BY <1>9 DEF LookAtWaiter, Handled, TypeOK
  <2> QED BY <1>9, <2>1, <2>2 DEF LookAtWaiter, producerVars, TypeOK, Open
<1>10. ASSUME NEW w \in Waiters, WakeWaiter(w) PROVE TypeOK'
  <2>1. resolved' \subseteq Waiters \X {"look", "wake"}
    BY <1>10 DEF WakeWaiter, Handled, TypeOK
  <2>2. busy' \in [Loops -> Tasks \cup Waiters \cup {NULL}]
    BY <1>10 DEF WakeWaiter, Handled, TypeOK
  <2>3. /\ queue' \in [Loops -> Seq(Tasks \cup Waiters)]
        /\ \A l \in Loops : queue'[l] # <<>> => Open(l)'
    <3>1. CASE Open(Where[w])
      BY <1>10, <3>1, Posted DEF WakeWaiter
    <3>2. CASE ~Open(Where[w])
      BY <1>10, <3>2 DEF WakeWaiter, TypeOK, Open
    <3> QED BY <3>1, <3>2
  <2> QED BY <1>10, <2>1, <2>2, <2>3 DEF WakeWaiter, producerVars, TypeOK
<1>11. ASSUME NEW w \in Waiters, BeginWait(w) PROVE TypeOK'
  <2>1. wait' \in [Waiters -> {"start", "lock", "asleep", "returned", "cancelled"}]
    BY <1>11 DEF BeginWait, TypeOK
  <2>2. busy' = busy \/ busy' = [busy EXCEPT ![Where[w]] = w]
    BY <1>11 DEF BeginWait
  <2>3. busy' \in [Loops -> Tasks \cup Waiters \cup {NULL}]
    BY <2>2 DEF TypeOK
  <2> QED BY <1>11, <2>1, <2>3 DEF BeginWait, producerVars, TypeOK, Open
<1>12. ASSUME NEW w \in Waiters, Enlist(w) PROVE TypeOK'
  <2>1. wait' \in [Waiters -> {"start", "lock", "asleep", "returned", "cancelled"}]
    BY <1>12 DEF Enlist, TypeOK
  <2>2. busy' \in [Loops -> Tasks \cup Waiters \cup {NULL}] /\ waiters' \subseteq Waiters
    BY <1>12 DEF Enlist, TypeOK
  <2> QED BY <1>12, <2>1, <2>2 DEF Enlist, producerVars, TypeOK, Open
<1>13. ASSUME NEW w \in Waiters, EndWait(w) PROVE TypeOK'
  BY <1>13 DEF EndWait, Free, producerVars, waiterVars, TypeOK, Answers, Open
<1>14. ASSUME Shutdown PROVE TypeOK'
  BY <1>14 DEF Shutdown, Free, producerVars, waiterVars, TypeOK, Answers, Open
<1>15. ASSUME NEW l \in Loops, Drain(l) PROVE TypeOK'
  BY <1>15 DEF Drain, producerVars, waiterVars, TypeOK, Answers, Open
<1>16. ASSUME NEW l \in Loops, Close(l) PROVE TypeOK'
  BY <1>16 DEF Close, producerVars, waiterVars, TypeOK, Answers, Open
<1>17. ASSUME NEW w \in Waiters, CancelWait(w) PROVE TypeOK'
  BY <1>17 DEF CancelWait, Free, producerVars, waiterVars, TypeOK, Answers, Open
<1>18. CASE UNCHANGED vars
  BY <1>18 DEF vars, producerVars, waiterVars, TypeOK, Answers, Open
<1> QED
  BY <1>1, <1>2, <1>3, <1>4, <1>5, <1>6, <1>7, <1>8, <1>9, <1>10, <1>11, <1>12, <1>13, <1>14, <1>15, <1>16, <1>17, <1>18 DEF Next, LoopStep, ProducerStep, WaiterStep

LEMMA TakenKept == TypeOK /\ Taken /\ [Next]_vars => Taken'
<1> SUFFICES ASSUME TypeOK /\ Taken, [Next]_vars PROVE Taken'
  OBVIOUS
<1> USE SharedAssumption
<1>1. ASSUME NEW t \in Tasks, Marshal(t) PROVE Taken'
  BY <1>1 DEF Marshal, Produce, producerVars, waiterVars, TypeOK, Answers, Open, Taken
<1>2. ASSUME NEW t \in Tasks, PostCommit(t) PROVE Taken'
  BY <1>2 DEF PostCommit, Produce, Post, producerVars, waiterVars, TypeOK, Answers, Open, Taken
<1>3. ASSUME NEW t \in Tasks, Result(t) PROVE Taken'
  BY <1>3 DEF Result, Produce, producerVars, waiterVars, TypeOK, Answers, Open, Taken
<1>4. ASSUME NEW t \in Tasks, LookAtFuture(t) PROVE Taken'
  BY <1>4 DEF LookAtFuture, Produce, producerVars, waiterVars, TypeOK, Answers, Open, Taken
<1>5. ASSUME NEW t \in Tasks, LookAtLoop(t) PROVE Taken'
  BY <1>5 DEF LookAtLoop, Produce, producerVars, waiterVars, TypeOK, Answers, Open, Taken
<1>6. ASSUME Commit PROVE Taken'
  BY <1>6 DEF Commit, Free, producerVars, waiterVars, TypeOK, Answers, Open, Taken
<1>7. ASSUME NEW l \in Loops, Resolve(l) PROVE Taken'
  BY <1>7 DEF Resolve, Free, producerVars, waiterVars, TypeOK, Answers, Open, Taken
<1>8. ASSUME NEW t \in Tasks, Finish(t) PROVE Taken'
  BY <1>8 DEF Finish, Free, producerVars, waiterVars, TypeOK, Answers, Open, Taken
<1>9. ASSUME NEW w \in Waiters, LookAtWaiter(w) PROVE Taken'
  BY <1>9 DEF LookAtWaiter, Handled, producerVars, waiterVars, TypeOK, Answers, Open, Taken
<1>10. ASSUME NEW w \in Waiters, WakeWaiter(w) PROVE Taken'
  BY <1>10 DEF WakeWaiter, Handled, Post, producerVars, waiterVars, TypeOK, Answers, Open, Taken
<1>11. ASSUME NEW w \in Waiters, BeginWait(w) PROVE Taken'
  <2>1. CASE For[w] \in result
    BY <1>11, <2>1 DEF BeginWait, TypeOK, Taken, waiterVars
  <2>2. CASE For[w] \notin result
    <3>1. busy' = [busy EXCEPT ![Where[w]] = w] /\ wait' = [wait EXCEPT ![w] = "lock"] /\ resolved' = resolved
          /\ busy[Where[w]] = NULL
      BY <1>11, <2>2 DEF BeginWait, Free
    <3>2. resolved' # {} => busy'[Home] \in Tasks
      BY <3>1 DEF TypeOK, Taken
    <3>3. ASSUME NEW x \in Waiters, wait'[x] = "lock" PROVE busy'[Where[x]] = x
      BY <3>1, <3>3 DEF TypeOK, Taken
    <3> QED BY <3>2, <3>3 DEF Taken
  <2> QED BY <2>1, <2>2
<1>12. ASSUME NEW w \in Waiters, Enlist(w) PROVE Taken'
  BY <1>12 DEF Enlist, producerVars, waiterVars, TypeOK, Answers, Open, Taken
<1>13. ASSUME NEW w \in Waiters, EndWait(w) PROVE Taken'
  BY <1>13 DEF EndWait, Free, producerVars, waiterVars, TypeOK, Answers, Open, Taken
<1>14. ASSUME Shutdown PROVE Taken'
  BY <1>14 DEF Shutdown, Free, producerVars, waiterVars, TypeOK, Answers, Open, Taken
<1>15. ASSUME NEW l \in Loops, Drain(l) PROVE Taken'
  BY <1>15 DEF Drain, producerVars, waiterVars, TypeOK, Answers, Open, Taken
<1>16. ASSUME NEW l \in Loops, Close(l) PROVE Taken'
  BY <1>16 DEF Close, producerVars, waiterVars, TypeOK, Answers, Open, Taken
<1>17. ASSUME NEW w \in Waiters, CancelWait(w) PROVE Taken'
  BY <1>17 DEF CancelWait, Free, producerVars, waiterVars, TypeOK, Answers, Open, Taken
<1>18. CASE UNCHANGED vars
  BY <1>18 DEF vars, producerVars, waiterVars, TypeOK, Answers, Open, Taken
<1> QED
  BY <1>1, <1>2, <1>3, <1>4, <1>5, <1>6, <1>7, <1>8, <1>9, <1>10, <1>11, <1>12, <1>13, <1>14, <1>15, <1>16, <1>17, <1>18 DEF Next, LoopStep, ProducerStep, WaiterStep

LEMMA ToldKept == TypeOK /\ Queued /\ Told /\ [Next]_vars => Queued' /\ Told'
<1> SUFFICES ASSUME TypeOK /\ Queued /\ Told, [Next]_vars PROVE Queued' /\ Told'
  OBVIOUS
<1> USE SharedAssumption
<1>1. ASSUME NEW t \in Tasks, Marshal(t) PROVE Queued' /\ Told'
  <2>1. fut' = fut /\ queue' = queue /\ accepted' = accepted /\ crossed' = crossed /\ fut[t] = "pending"
        /\ prod[t] = "start" /\ prod' \in {[prod EXCEPT ![t] = "post"], [prod EXCEPT ![t] = "refused"]}
    BY <1>1 DEF Marshal, Produce, TypeOK, Told
  <2>2. Queued'
    BY <2>1 DEF Queued, TypeOK
  <2>3. Told'
    BY <2>1 DEF Told, TypeOK, Answers
  <2> QED BY <2>2, <2>3
<1>2. ASSUME NEW t \in Tasks, PostCommit(t) PROVE Queued' /\ Told'
  <2>1. CASE ~Open(Home)
    BY <1>2, <2>1 DEF PostCommit, Produce, producerVars, waiterVars, TypeOK, Answers, Queued, Told
  <2>2. CASE Open(Home)
    <3>1. prod[t] = "post" /\ prod' = [prod EXCEPT ![t] = "ask"] /\ fut' = fut /\ accepted' = accepted
          /\ crossed' = crossed /\ fut[t] = "pending"
      BY <1>2, <2>2 DEF PostCommit, Produce, Told
    <3>2. \A i \in DOMAIN queue[Home] : queue[Home][i] # t
      BY <3>1 DEF Queued
    <3>3. /\ Len(queue[Home]) \in Nat /\ DOMAIN queue[Home] = 1 .. Len(queue[Home])
          /\ DOMAIN queue'[Home] = 1 .. Len(queue[Home]) + 1
          /\ \A i \in DOMAIN queue[Home] : queue'[Home][i] = queue[Home][i]
          /\ queue'[Home][Len(queue[Home]) + 1] = t
      BY <1>2, <2>2, Posted DEF PostCommit
    <3>4. Queued'
      <4> SUFFICES ASSUME NEW u \in Tasks
                   PROVE  /\ \A i \in DOMAIN queue'[Home] : queue'[Home][i] = u =>
                               fut'[u] = "pending" /\ prod'[u] \in {"ask", "expired", "pending"}
                          /\ \A i, j \in DOMAIN queue'[Home] : queue'[Home][i] = u /\ queue'[Home][j] = u => i = j
        BY DEF Queued
      <4>1. \A i \in DOMAIN queue'[Home] : queue'[Home][i] = u <=>
              (i \in DOMAIN queue[Home] /\ queue[Home][i] = u) \/ (i = Len(queue[Home]) + 1 /\ u = t)
        BY <3>3
      <4>2. CASE u = t
        <5>1. \A i \in DOMAIN queue'[Home] : queue'[Home][i] = t => i = Len(queue[Home]) + 1
          BY <3>2, <4>1, <4>2
        <5>2. fut'[t] = "pending" /\ prod'[t] = "ask"
          BY <3>1 DEF TypeOK
        <5> QED BY <4>2, <5>1, <5>2
      <4>3. CASE u # t
        <5>1. fut'[u] = fut[u] /\ prod'[u] = prod[u]
          BY <3>1, <4>3 DEF TypeOK
        <5> QED BY <4>1, <4>3, <5>1 DEF Queued
      <4> QED BY <4>2, <4>3
    <3>5. Told'
      BY <3>1 DEF Told, TypeOK
    <3> QED BY <3>4, <3>5
  <2> QED BY <2>1, <2>2
<1>3. ASSUME NEW t \in Tasks, Result(t) PROVE Queued' /\ Told'
  BY <1>3 DEF Result, Produce, producerVars, waiterVars, TypeOK, Answers, Open, Queued, Told
<1>4. ASSUME NEW t \in Tasks, LookAtFuture(t) PROVE Queued' /\ Told'
  BY <1>4 DEF LookAtFuture, Produce, producerVars, waiterVars, TypeOK, Answers, Open, Queued, Told
<1>5. ASSUME NEW t \in Tasks, LookAtLoop(t) PROVE Queued' /\ Told'
  BY <1>5 DEF LookAtLoop, Produce, producerVars, waiterVars, TypeOK, Answers, Open, Queued, Told
<1>6. ASSUME Commit PROVE Queued' /\ Told'
  BY <1>6 DEF Commit, Free, producerVars, waiterVars, TypeOK, Answers, Open, Queued, Told
<1>7. ASSUME NEW l \in Loops, Resolve(l) PROVE Queued' /\ Told'
  BY <1>7 DEF Resolve, Free, producerVars, waiterVars, TypeOK, Answers, Open, Queued, Told
<1>8. ASSUME NEW t \in Tasks, Finish(t) PROVE Queued' /\ Told'
  BY <1>8 DEF Finish, Free, producerVars, waiterVars, TypeOK, Answers, Open, Queued, Told
<1>9. ASSUME NEW w \in Waiters, LookAtWaiter(w) PROVE Queued' /\ Told'
  BY <1>9 DEF LookAtWaiter, Handled, producerVars, waiterVars, TypeOK, Answers, Open, Queued, Told
<1>10. ASSUME NEW w \in Waiters, WakeWaiter(w) PROVE Queued' /\ Told'
  <2>1. fut' = fut /\ accepted' = accepted /\ crossed' = crossed /\ prod' = prod
    BY <1>10 DEF WakeWaiter, producerVars
  <2>2. Told'
    BY <2>1 DEF Told
  <2> SUFFICES ASSUME NEW u \in Tasks
               PROVE  /\ \A i \in DOMAIN queue'[Home] : queue'[Home][i] = u =>
                           fut'[u] = "pending" /\ prod'[u] \in {"ask", "expired", "pending"}
                      /\ \A i, j \in DOMAIN queue'[Home] : queue'[Home][i] = u /\ queue'[Home][j] = u => i = j
    BY <2>2 DEF Queued
  <2>3. CASE queue'[Home] = queue[Home]
    BY <2>1, <2>3 DEF Queued
  <2>4. CASE queue'[Home] # queue[Home]
    <3>1. Open(Home) /\ Where[w] = Home /\ Post(Home, w)
      BY <1>10, <2>4 DEF WakeWaiter, Post, TypeOK
    <3>2. /\ Len(queue[Home]) \in Nat /\ DOMAIN queue[Home] = 1 .. Len(queue[Home])
          /\ DOMAIN queue'[Home] = 1 .. Len(queue[Home]) + 1
          /\ \A i \in DOMAIN queue[Home] : queue'[Home][i] = queue[Home][i]
          /\ queue'[Home][Len(queue[Home]) + 1] = w
      BY <1>10, <3>1, Posted DEF WakeWaiter
    <3>3. \A i \in DOMAIN queue'[Home] : queue'[Home][i] = u =>
            i \in DOMAIN queue[Home] /\ queue[Home][i] = u
      BY <3>2
    <3> QED BY <2>1, <3>3 DEF Queued
  <2> QED BY <2>3, <2>4
<1>11. ASSUME NEW w \in Waiters, BeginWait(w) PROVE Queued' /\ Told'
  BY <1>11 DEF BeginWait, Free, producerVars, waiterVars, TypeOK, Answers, Open, Queued, Told
<1>12. ASSUME NEW w \in Waiters, Enlist(w) PROVE Queued' /\ Told'
  BY <1>12 DEF Enlist, producerVars, waiterVars, TypeOK, Answers, Open, Queued, Told
<1>13. ASSUME NEW w \in Waiters, EndWait(w) PROVE Queued' /\ Told'
  BY <1>13 DEF EndWait, Free, producerVars, waiterVars, TypeOK, Answers, Open, Queued, Told
<1>14. ASSUME Shutdown PROVE Queued' /\ Told'
  BY <1>14 DEF Shutdown, Free, producerVars, waiterVars, TypeOK, Answers, Open, Queued, Told
<1>15. ASSUME NEW l \in Loops, Drain(l) PROVE Queued' /\ Told'
  BY <1>15 DEF Drain, producerVars, waiterVars, TypeOK, Answers, Open, Queued, Told
<1>16. ASSUME NEW l \in Loops, Close(l) PROVE Queued' /\ Told'
  BY <1>16 DEF Close, producerVars, waiterVars, TypeOK, Answers, Open, Queued, Told
<1>17. ASSUME NEW w \in Waiters, CancelWait(w) PROVE Queued' /\ Told'
  BY <1>17 DEF CancelWait, Free, producerVars, waiterVars, TypeOK, Answers, Open, Queued, Told
<1>18. CASE UNCHANGED vars
  BY <1>18 DEF vars, producerVars, waiterVars, TypeOK, Answers, Open, Queued, Told
<1> QED
  BY <1>1, <1>2, <1>3, <1>4, <1>5, <1>6, <1>7, <1>8, <1>9, <1>10, <1>11, <1>12, <1>13, <1>14, <1>15, <1>16, <1>17, <1>18 DEF Next, LoopStep, ProducerStep, WaiterStep

LEMMA ReachedKept == TypeOK /\ Taken /\ WaiterReached /\ [Next]_vars => WaiterReached'
<1> SUFFICES ASSUME TypeOK /\ Taken /\ WaiterReached, [Next]_vars PROVE WaiterReached'
  OBVIOUS
<1> USE SharedAssumption
<1>1. ASSUME NEW t \in Tasks, Marshal(t) PROVE WaiterReached'
  BY <1>1 DEF Marshal, Produce, producerVars, waiterVars, TypeOK, Answers, Open, Taken, WaiterReached
<1>2. ASSUME NEW t \in Tasks, PostCommit(t) PROVE WaiterReached'
  <2>1. /\ wait' = wait /\ future' = future /\ waiters' = waiters /\ resolved' = resolved
        /\ result' = result /\ phase' = phase
    BY <1>2 DEF PostCommit, waiterVars
  <2>2. \A l \in Loops : \A i \in DOMAIN queue[l] : i \in DOMAIN queue'[l] /\ queue'[l][i] = queue[l][i]
    <3>1. CASE Open(Home)
      <4>1. Post(Home, t) /\ phase' = phase /\ t \in Tasks \cup Waiters /\ Home \in Loops
        BY <1>2, <3>1 DEF PostCommit
      <4>2. /\ \A l \in Loops : l # Home => queue'[l] = queue[l]
            /\ Len(queue[Home]) \in Nat /\ DOMAIN queue[Home] = 1 .. Len(queue[Home])
            /\ DOMAIN queue'[Home] = 1 .. Len(queue[Home]) + 1
            /\ \A i \in DOMAIN queue[Home] : queue'[Home][i] = queue[Home][i]
        BY <3>1, <4>1, Posted
      <4>3. \A i \in DOMAIN queue[Home] : i \in DOMAIN queue'[Home]
        BY <4>2
      <4> QED BY <4>2, <4>3
    <3>2. CASE ~Open(Home)
      BY <1>2, <3>2 DEF PostCommit
    <3> QED BY <3>1, <3>2
  <2> QED BY <2>1, <2>2 DEF WaiterReached, Open
<1>3. ASSUME NEW t \in Tasks, Result(t) PROVE WaiterReached'
  BY <1>3 DEF Result, Produce, producerVars, waiterVars, TypeOK, Answers, Open, Taken, WaiterReached
<1>4. ASSUME NEW t \in Tasks, LookAtFuture(t) PROVE WaiterReached'
  BY <1>4 DEF LookAtFuture, Produce, producerVars, waiterVars, TypeOK, Answers, Open, Taken, WaiterReached
<1>5. ASSUME NEW t \in Tasks, LookAtLoop(t) PROVE WaiterReached'
  BY <1>5 DEF LookAtLoop, Produce, producerVars, waiterVars, TypeOK, Answers, Open, Taken, WaiterReached
<1>6. ASSUME Commit PROVE WaiterReached'
  <2> SUFFICES ASSUME NEW x \in Waiters, wait'[x] = "asleep", future'[x] = "pending", Open(Where[x])'
               PROVE  IF For[x] \notin result' THEN x \in waiters'
                      ELSE \/ \E todo \in {"look", "wake"} : <<x, todo>> \in resolved'
                           \/ \E i \in DOMAIN queue'[Where[x]] : queue'[Where[x]][i] = x
    BY DEF WaiterReached
  <2>1. PICK t \in Tasks : t = Head(queue[Home]) /\ queue[Home] # <<>> /\ queue' = [queue EXCEPT ![Home] = Tail(@)]
    BY <1>6 DEF Commit
  <2>2. UNCHANGED <<wait, future, waiters, resolved, result, phase>>
    BY <1>6 DEF Commit, waiterVars
  <2>3. ASSUME NEW i \in DOMAIN queue[Where[x]], queue[Where[x]][i] = x
        PROVE  \E j \in DOMAIN queue'[Where[x]] : queue'[Where[x]][j] = x
    <3>1. CASE Where[x] # Home
      BY <2>1, <2>3, <3>1 DEF TypeOK
    <3>2. CASE Where[x] = Home
      <4>1. queue[Home] \in Seq(Tasks \cup Waiters) /\ queue'[Home] = Tail(queue[Home])
        BY <2>1 DEF TypeOK
      <4>2. i # 1
        BY <2>1, <2>3, <3>2, <4>1, Tailed
      <4>3. i \in DOMAIN queue[Home] /\ queue[Home][i] = x
        BY <2>3, <3>2
      <4>4. i - 1 \in DOMAIN Tail(queue[Home]) /\ Tail(queue[Home])[i - 1] = x
        BY <2>1, <4>1, <4>2, <4>3, Tailed
      <4> QED BY <3>2, <4>1, <4>4
    <3> QED BY <3>1, <3>2
  <2> QED BY <2>2, <2>3 DEF WaiterReached, Open
<1>7. ASSUME NEW l \in Loops, Resolve(l) PROVE WaiterReached'
  <2> SUFFICES ASSUME NEW x \in Waiters, wait'[x] = "asleep", future'[x] = "pending", Open(Where[x])'
               PROVE  IF For[x] \notin result' THEN x \in waiters'
                      ELSE \/ \E todo \in {"look", "wake"} : <<x, todo>> \in resolved'
                           \/ \E i \in DOMAIN queue'[Where[x]] : queue'[Where[x]][i] = x
    BY DEF WaiterReached
  <2>1. PICK who \in Waiters : /\ who = Head(queue[l]) /\ queue[l] # <<>> /\ queue' = [queue EXCEPT ![l] = Tail(@)]
                               /\ future' = [future EXCEPT ![who] = IF @ = "pending" THEN "set" ELSE @]
    BY <1>7 DEF Resolve
  <2>2. UNCHANGED <<wait, waiters, resolved, result, phase>>
    BY <1>7 DEF Resolve
  <2>3. x # who /\ future[x] = "pending"
    BY <2>1 DEF TypeOK
  <2>4. ASSUME NEW i \in DOMAIN queue[Where[x]], queue[Where[x]][i] = x
        PROVE  \E j \in DOMAIN queue'[Where[x]] : queue'[Where[x]][j] = x
    <3>1. CASE Where[x] # l
      BY <2>1, <2>4, <3>1 DEF TypeOK
    <3>2. CASE Where[x] = l
      <4>1. queue[l] \in Seq(Tasks \cup Waiters) /\ queue'[l] = Tail(queue[l])
        BY <2>1 DEF TypeOK
      <4>2. i # 1
        BY <2>1, <2>3, <2>4, <3>2, <4>1, Tailed
      <4>3. i \in DOMAIN queue[l] /\ queue[l][i] = x
        BY <2>4, <3>2
      <4>4. i - 1 \in DOMAIN Tail(queue[l]) /\ Tail(queue[l])[i - 1] = x
        BY <2>1, <4>1, <4>2, <4>3, Tailed
      <4> QED BY <3>2, <4>1, <4>4
    <3> QED BY <3>1, <3>2
  <2> QED BY <2>2, <2>3, <2>4 DEF WaiterReached, Open
<1>8. ASSUME NEW t \in Tasks, Finish(t) PROVE WaiterReached'
  <2> SUFFICES ASSUME NEW x \in Waiters, wait'[x] = "asleep", future'[x] = "pending", Open(Where[x])'
               PROVE  IF For[x] \notin result' THEN x \in waiters'
                      ELSE \/ \E todo \in {"look", "wake"} : <<x, todo>> \in resolved'
                           \/ \E i \in DOMAIN queue'[Where[x]] : queue'[Where[x]][i] = x
    BY DEF WaiterReached
  <2>1. /\ resolved' = {<<y, "look">> : y \in {y \in waiters : For[y] = t}}
        /\ waiters' = waiters \ {y \in waiters : For[y] = t}
        /\ result' = result \cup {t} /\ t \notin result /\ busy[Home] = NULL
    BY <1>8 DEF Finish, Free
  <2>2. UNCHANGED <<wait, future, queue, phase>>
    BY <1>8 DEF Finish
  <2>3. resolved = {}
    BY <2>1 DEF Taken
  <2>4. CASE For[x] = t
    BY <2>1, <2>2, <2>4 DEF WaiterReached, Open
  <2>5. CASE For[x] # t
    BY <2>1, <2>2, <2>3, <2>5 DEF WaiterReached, Open
  <2> QED BY <2>4, <2>5
<1>9. ASSUME NEW w \in Waiters, LookAtWaiter(w) PROVE WaiterReached'
  BY <1>9 DEF LookAtWaiter, Handled, producerVars, waiterVars, TypeOK, Answers, Open, Taken, WaiterReached
<1>10. ASSUME NEW w \in Waiters, WakeWaiter(w) PROVE WaiterReached'
  <2> SUFFICES ASSUME NEW x \in Waiters, wait'[x] = "asleep", future'[x] = "pending", Open(Where[x])'
               PROVE  IF For[x] \notin result' THEN x \in waiters'
                      ELSE \/ \E todo \in {"look", "wake"} : <<x, todo>> \in resolved'
                           \/ \E i \in DOMAIN queue'[Where[x]] : queue'[Where[x]][i] = x
    BY DEF WaiterReached
  <2>1. UNCHANGED <<wait, future, waiters, result, phase>> /\ resolved' = resolved \ {<<w, "wake">>}
    BY <1>10 DEF WakeWaiter, Handled
  <2>2. CASE ~Open(Where[w])
    BY <1>10, <2>1, <2>2 DEF WakeWaiter, WaiterReached, Open
  <2>3. CASE Open(Where[w])
    <3>1. /\ \A k \in Loops : k # Where[w] => queue'[k] = queue[k]
          /\ Len(queue[Where[w]]) + 1 \in DOMAIN queue'[Where[w]]
          /\ queue'[Where[w]][Len(queue[Where[w]]) + 1] = w
          /\ \A i \in DOMAIN queue[Where[w]] : i \in DOMAIN queue'[Where[w]] /\ queue'[Where[w]][i] = queue[Where[w]][i]
      BY <1>10, <2>3, Posted DEF WakeWaiter
    <3>2. CASE For[x] \notin result
      BY <2>1, <3>2 DEF WaiterReached, Open
    <3>3. CASE For[x] \in result /\ x = w
      BY <2>1, <3>1, <3>3
    <3>4. CASE For[x] \in result /\ x # w
      BY <2>1, <3>1, <3>4 DEF WaiterReached, Open
    <3> QED BY <3>2, <3>3, <3>4
  <2> QED BY <2>2, <2>3
<1>11. ASSUME NEW w \in Waiters, BeginWait(w) PROVE WaiterReached'
  BY <1>11 DEF BeginWait, Free, producerVars, waiterVars, TypeOK, Answers, Open, Taken, WaiterReached
<1>12. ASSUME NEW w \in Waiters, Enlist(w) PROVE WaiterReached'
  BY <1>12 DEF Enlist, producerVars, waiterVars, TypeOK, Answers, Open, Taken, WaiterReached
<1>13. ASSUME NEW w \in Waiters, EndWait(w) PROVE WaiterReached'
  BY <1>13 DEF EndWait, Free, producerVars, waiterVars, TypeOK, Answers, Open, Taken, WaiterReached
<1>14. ASSUME Shutdown PROVE WaiterReached'
  BY <1>14 DEF Shutdown, Free, producerVars, waiterVars, TypeOK, Answers, Open, Taken, WaiterReached
<1>15. ASSUME NEW l \in Loops, Drain(l) PROVE WaiterReached'
  BY <1>15 DEF Drain, producerVars, waiterVars, TypeOK, Answers, Open, Taken, WaiterReached
<1>16. ASSUME NEW l \in Loops, Close(l) PROVE WaiterReached'
  BY <1>16 DEF Close, producerVars, waiterVars, TypeOK, Answers, Open, Taken, WaiterReached
<1>17. ASSUME NEW w \in Waiters, CancelWait(w) PROVE WaiterReached'
  BY <1>17 DEF CancelWait, Free, producerVars, waiterVars, TypeOK, Answers, Open, Taken, WaiterReached
<1>18. CASE UNCHANGED vars
  BY <1>18 DEF vars, producerVars, waiterVars, TypeOK, Answers, Open, Taken, WaiterReached
<1> QED
  BY <1>1, <1>2, <1>3, <1>4, <1>5, <1>6, <1>7, <1>8, <1>9, <1>10, <1>11, <1>12, <1>13, <1>14, <1>15, <1>16, <1>17, <1>18 DEF Next, LoopStep, ProducerStep, WaiterStep

-----------------------------------------------------------------------------
\* The inductive invariant holds in every reachable state.
THEOREM Invariance == Spec => []IInv
<1>1. IInv /\ [Next]_vars => IInv'
  BY Typing, TakenKept, ToldKept, ReachedKept DEF IInv
<1> QED BY Initially, <1>1, PTL DEF Spec

\* Every variable has its type, and nothing is queued on a closed loop
\* (sharedqueue.py:91, handle.py:267).
THEOREM TypeCorrect == Spec => []TypeOK
<1>1. IInv => TypeOK
  BY DEF IInv
<1> QED BY <1>1, Invariance, PTL

\* Producers are told what became of their submissions (sharedqueue.py:92-102).
THEOREM AnswersHonest == Spec => []HonestAnswer
<1>1. IInv => HonestAnswer
  BY DEF IInv, Told, HonestAnswer, Answers
<1> QED BY <1>1, Invariance, PTL

\* No waiter is forgotten, whatever loop closes when (handle.py:246-275).
THEOREM EveryWaiterReached == Spec => []WaiterReached
<1>1. IInv => WaiterReached
  BY DEF IInv
<1> QED BY <1>1, Invariance, PTL
=============================================================================
