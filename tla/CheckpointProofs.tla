-------------------------- MODULE CheckpointProofs --------------------------
(***************************************************************************)
(* Safety of the checkpointed fan-out, for any inputs, any pool of workers *)
(* and any number of passes: IInv is inductive, and OnlySuccesses and      *)
(* RecordedAtReturn follow from it. One lemma shows each action to keep    *)
(* IInv, with a step for each of its parts. The second part shows that     *)
(* Excused, kept with IInv, is inductive, and AtLeastOnce follows.         *)
(***************************************************************************)
EXTENDS Checkpoint, FiniteSetTheorems, TLAPS

\* What run() counts is finite.
LEMMA Finite == IsFiniteSet(Queued) /\ IsFiniteSet(Busy)
BY FS_Subset, KeysAssumption, ThreadsAssumption DEF Queued, Busy

\* At most one key of the plan is next.
LEMMA NextIsOne == ASSUME NEW j \in Keys, NEW k \in Keys, Next1(j), Next1(k) PROVE j = k
<1>1. j \in Nat /\ k \in Nat BY KeysAssumption
<1>2. j <= k /\ k <= j BY DEF Next1
<1> QED BY <1>1, <1>2

\* A step that neither queues, takes nor publishes keeps the counter right.
LEMMA SameCount ==
  ASSUME pc # "down" => Counted, pc # "down", Queued' = Queued, Busy' = Busy, outstanding' = outstanding
  PROVE  Counted'
BY DEF Counted

\* Neither does one that makes the counter follow the queued tasks or the
\* busy workers.
LEMMA CountMoves ==
  ASSUME Counted, outstanding \in Int, NEW k, NEW w,
         \/ Queued' = Queued \cup {k} /\ k \notin Queued /\ Busy' = Busy /\ outstanding' = outstanding + 1
         \/ Queued' = Queued \ {k} /\ k \in Queued /\ Busy' = Busy /\ outstanding' = outstanding - 1
         \/ Queued' = Queued \ {k} /\ k \in Queued /\ Busy' = Busy \cup {w} /\ w \notin Busy /\ outstanding' = outstanding
         \/ Queued' = Queued /\ Busy' = Busy \ {w} /\ w \in Busy /\ outstanding' = outstanding - 1
  PROVE  Counted' /\ outstanding' \in Nat
<1>1. /\ Cardinality(Queued) \in Nat /\ Cardinality(Busy) \in Nat
      /\ k \notin Queued => Cardinality(Queued \cup {k}) = Cardinality(Queued) + 1
      /\ k \in Queued => Cardinality(Queued \ {k}) = Cardinality(Queued) - 1 /\ Cardinality(Queued \ {k}) \in Nat
      /\ w \notin Busy => Cardinality(Busy \cup {w}) = Cardinality(Busy) + 1
      /\ w \in Busy => Cardinality(Busy \ {w}) = Cardinality(Busy) - 1 /\ Cardinality(Busy \ {w}) \in Nat
  BY Finite, FS_CardinalityType, FS_AddElement, FS_RemoveElement, FS_Subset
<1>2. outstanding = Cardinality(Queued) + Cardinality(Busy) BY DEF Counted
<1>3. CASE Queued' = Queued \cup {k} /\ k \notin Queued /\ Busy' = Busy /\ outstanding' = outstanding + 1
  BY <1>1, <1>2, <1>3 DEF Counted
<1>4. CASE Queued' = Queued \ {k} /\ k \in Queued /\ Busy' = Busy /\ outstanding' = outstanding - 1
  BY <1>1, <1>2, <1>4 DEF Counted
<1>5. CASE Queued' = Queued \ {k} /\ k \in Queued /\ Busy' = Busy \cup {w} /\ w \notin Busy /\ outstanding' = outstanding
  BY <1>1, <1>2, <1>5 DEF Counted
<1>6. CASE Queued' = Queued /\ Busy' = Busy \ {w} /\ w \in Busy /\ outstanding' = outstanding - 1
  BY <1>1, <1>2, <1>6 DEF Counted
<1> QED BY <1>3, <1>4, <1>5, <1>6

\* Nothing outstanding: no task queued, no worker before its publication.
LEMMA NothingOutstanding == ASSUME Counted, outstanding = 0 PROVE Queued = {} /\ Busy = {}
<1>1. Cardinality(Queued) \in Nat /\ Cardinality(Busy) \in Nat BY Finite, FS_CardinalityType
<1>2. Cardinality(Queued) = 0 /\ Cardinality(Busy) = 0 BY <1>1 DEF Counted
<1> QED BY <1>2, Finite, FS_EmptySet

-----------------------------------------------------------------------------

LEMMA InitHolds == Init => IInv
<1> USE KeysAssumption, ThreadsAssumption, StoreAssumption
<1> SUFFICES ASSUME Init PROVE IInv OBVIOUS
<1>1. open \in BOOLEAN /\ meddled \in BOOLEAN BY DEF Init
<1>2. TypeOK BY <1>1 DEF Init, TypeOK, Threads
<1> QED BY <1>2 DEF Init, IInv, OnlySuccesses, Submission, Callbacks, Recording, Threads, Final

LEMMA OpenStep == ASSUME IInv, Open PROVE IInv'
<1> USE KeysAssumption, ThreadsAssumption, StoreAssumption
<1> USE DEF IInv, Open, Fresh, process
<1>1. TypeOK'
  <2>1. (open \in BOOLEAN /\ meddled \in BOOLEAN)' BY DEF TypeOK
  <2> QED BY <2>1 DEF TypeOK, Threads
<1>2. OnlySuccesses' BY DEF TypeOK, OnlySuccesses, Submission, Callbacks, Threads, Final
<1>3. Submission' BY NextIsOne DEF TypeOK, OnlySuccesses, Submission, Next1, Threads, Final
<1>4. Callbacks' BY DEF TypeOK, Callbacks, Submission, Threads, Final
<1>5. Recording' BY DEF TypeOK, Submission, Callbacks, Recording, InWindow, Next1, Queued, Busy, Threads, Final
<1>6. Counted'
  <2>1. Queued' = {} /\ Busy' = {} BY DEF TypeOK, Queued, Busy
  <2> QED BY <2>1, FS_EmptySet DEF Counted
<1> QED BY <1>1, <1>2, <1>3, <1>4, <1>5, <1>6

LEMMA LookupStep == ASSUME IInv, Lookup PROVE IInv'
<1> USE KeysAssumption, ThreadsAssumption, StoreAssumption
<1> USE DEF IInv, Lookup, At, process
<1>1. TypeOK'
  <2>1. (open \in BOOLEAN /\ meddled \in BOOLEAN)' BY DEF TypeOK
  <2>2. (hits \in [Keys -> 0..Passes])' BY DEF TypeOK
  <2>3. (todo \subseteq Keys)' BY DEF TypeOK
  <2>4. (cb \in [Threads -> Keys \cup {NULL}])' BY DEF TypeOK
  <2> QED BY <2>1, <2>2, <2>3, <2>4 DEF TypeOK, Threads
<1>2. OnlySuccesses' BY DEF TypeOK, OnlySuccesses, Submission, Callbacks, Threads, Final
<1>3. Submission'
  <2>1. \A k \in Keys : hits'[k] # 0 => hits'[k] = db[k] \/ hits'[k] = hits[k] BY DEF TypeOK
  <2>2. \A k \in Keys : db[k] \in Nat /\ hits[k] \in Nat BY DEF TypeOK
  <2>3. \A k \in Keys : hits'[k] # 0 => <<k, hits'[k]>> \in won /\ hits'[k] < pass BY <2>1, <2>2 DEF OnlySuccesses, Submission
  <2>4. \A k \in Keys : st[k] = "new" BY DEF Submission
  <2> QED BY <2>3, <2>4 DEF Submission, TypeOK
<1>4. Callbacks' BY DEF TypeOK, Callbacks, Submission, Threads, Final
<1>5. Recording' BY DEF TypeOK, Submission, Callbacks, Recording, InWindow, Next1, Queued, Busy, Threads, Final
<1>6. pc' # "down" => Counted'
  <2>1. Queued' = Queued /\ Busy' = Busy BY DEF TypeOK, Queued, Busy
  <2> QED BY <2>1, SameCount
<1> QED BY <1>1, <1>2, <1>3, <1>4, <1>5, <1>6

LEMMA RestoreStep == ASSUME IInv, Restore PROVE IInv'
<1> USE KeysAssumption, ThreadsAssumption, StoreAssumption
<1> USE DEF IInv, Restore, At, process
<1>1. TypeOK'
  <2>1. (open \in BOOLEAN /\ meddled \in BOOLEAN)' BY DEF TypeOK
  <2> QED BY <2>1 DEF TypeOK, Threads
<1>2. OnlySuccesses'
  <2>1. PICK k \in todo : hits[k] # 0 /\ st' = [st EXCEPT ![k] = "restored"] OBVIOUS
  <2> QED BY <2>1 DEF TypeOK, OnlySuccesses, Submission
<1>3. Submission' BY NextIsOne DEF TypeOK, OnlySuccesses, Submission, Next1, Threads, Final
<1>4. Callbacks' BY DEF TypeOK, Callbacks, Submission, Threads, Final
<1>5. Recording' BY DEF TypeOK, Submission, Callbacks, Recording, InWindow, Next1, Queued, Busy, Threads, Final
<1>6. pc' # "down" => Counted'
  <2>1. PICK k \in todo : st' = [st EXCEPT ![k] = "restored"] OBVIOUS
  <2>2. Queued' = Queued /\ Busy' = Busy BY <2>1 DEF TypeOK, Queued, Busy, Submission
  <2> QED BY <2>2, SameCount
<1> QED BY <1>1, <1>2, <1>3, <1>4, <1>5, <1>6

LEMMA EnqueueStep == ASSUME IInv, Enqueue PROVE IInv'
<1> USE KeysAssumption, ThreadsAssumption, StoreAssumption
<1> USE DEF IInv, Enqueue, At, process
<1>1. TypeOK'
  <2>1. (open \in BOOLEAN /\ meddled \in BOOLEAN)' BY DEF TypeOK
  <2> QED BY <2>1 DEF TypeOK, Threads
<1>2. OnlySuccesses'
  <2>1. PICK k \in todo : st' = [st EXCEPT ![k] = "pending"] OBVIOUS
  <2> QED BY <2>1 DEF TypeOK, OnlySuccesses
<1>3. Submission' BY NextIsOne DEF TypeOK, OnlySuccesses, Submission, Next1, Threads, Final
<1>4. Callbacks' BY DEF TypeOK, Callbacks, Submission, Threads, Final
<1>5. Recording' BY DEF TypeOK, Submission, Callbacks, Recording, InWindow, Next1, Queued, Busy, Threads, Final
<1>6. pc' # "down" => Counted'
  <2>1. PICK k \in todo : Next1(k) /\ st' = [st EXCEPT ![k] = "pending"] OBVIOUS
  <2>2. Queued' = Queued \cup {k} /\ k \notin Queued /\ Busy' = Busy BY <2>1 DEF TypeOK, Queued, Busy, Submission
  <2> QED BY <2>2, CountMoves DEF TypeOK
<1> QED BY <1>1, <1>2, <1>3, <1>4, <1>5, <1>6

LEMMA WatchStep == ASSUME IInv, Watch PROVE IInv'
<1> USE KeysAssumption, ThreadsAssumption, StoreAssumption
<1> USE DEF IInv, Watch, AddCallback, At, process
<1>1. TypeOK'
  <2>1. (open \in BOOLEAN /\ meddled \in BOOLEAN)' BY DEF TypeOK
  <2> QED BY <2>1 DEF TypeOK, Threads
<1>2. OnlySuccesses' BY DEF TypeOK, OnlySuccesses, Submission, Callbacks, Threads, Final
<1>3. Submission' BY NextIsOne DEF TypeOK, OnlySuccesses, Submission, Next1, Threads, Final
<1>4. Callbacks' BY DEF TypeOK, Callbacks, Submission, Threads, Final
<1>5. Recording' BY DEF TypeOK, Submission, Callbacks, Recording, InWindow, Next1, Queued, Busy, Threads, Final
<1>6. pc' # "down" => Counted'
  <2>1. Queued' = Queued /\ Busy' = Busy BY DEF TypeOK, Queued, Busy
  <2> QED BY <2>1, SameCount
<1> QED BY <1>1, <1>2, <1>3, <1>4, <1>5, <1>6

LEMMA SubmittedStep == ASSUME IInv, Submitted PROVE IInv'
<1> USE KeysAssumption, ThreadsAssumption, StoreAssumption
<1> USE DEF IInv, Submitted, At, process
<1>1. TypeOK'
  <2>1. (open \in BOOLEAN /\ meddled \in BOOLEAN)' BY DEF TypeOK
  <2> QED BY <2>1 DEF TypeOK, Threads
<1>2. OnlySuccesses' BY DEF TypeOK, OnlySuccesses, Submission, Callbacks, Threads, Final
<1>3. Submission' BY NextIsOne DEF TypeOK, OnlySuccesses, Submission, Next1, Threads, Final
<1>4. Callbacks' BY DEF TypeOK, Callbacks, Submission, Threads, Final
<1>5. Recording' BY DEF TypeOK, Submission, Callbacks, Recording, InWindow, Next1, Queued, Busy, Threads, Final
<1>6. pc' # "down" => Counted'
  <2>1. Queued' = Queued /\ Busy' = Busy BY DEF TypeOK, Queued, Busy
  <2> QED BY <2>1, SameCount
<1> QED BY <1>1, <1>2, <1>3, <1>4, <1>5, <1>6

LEMMA RaiseStep == ASSUME IInv, Raise PROVE IInv'
<1> USE KeysAssumption, ThreadsAssumption, StoreAssumption
<1> USE DEF IInv, Raise, At, process
<1>1. TypeOK'
  <2>1. (open \in BOOLEAN /\ meddled \in BOOLEAN)' BY DEF TypeOK
  <2> QED BY <2>1 DEF TypeOK, Threads
<1>2. OnlySuccesses' BY DEF TypeOK, OnlySuccesses, Submission, Callbacks, Threads, Final
<1>3. Submission' BY NextIsOne DEF TypeOK, OnlySuccesses, Submission, Next1, Threads, Final
<1>4. Callbacks' BY DEF TypeOK, Callbacks, Submission, Threads, Final
<1>5. Recording' BY DEF TypeOK, Submission, Callbacks, Recording, InWindow, Next1, Queued, Busy, Threads, Final
<1>6. pc' # "down" => Counted'
  <2>1. Queued' = Queued /\ Busy' = Busy BY DEF TypeOK, Queued, Busy
  <2> QED BY <2>1, SameCount
<1> QED BY <1>1, <1>2, <1>3, <1>4, <1>5, <1>6

LEMMA DrainedStep == ASSUME IInv, Drained PROVE IInv'
<1> USE KeysAssumption, ThreadsAssumption, StoreAssumption
<1> USE DEF IInv, Drained, At, process
<1>1. TypeOK'
  <2>1. (open \in BOOLEAN /\ meddled \in BOOLEAN)' BY DEF TypeOK
  <2> QED BY <2>1 DEF TypeOK, Threads
<1>2. OnlySuccesses' BY DEF TypeOK, OnlySuccesses, Submission, Callbacks, Threads, Final
<1>3. Submission' BY NextIsOne DEF TypeOK, OnlySuccesses, Submission, Next1, Threads, Final
<1>4. Callbacks' BY DEF TypeOK, Callbacks, Submission, Threads, Final
<1>5. Recording'
  <2>1. Queued = {} /\ Busy = {} BY NothingOutstanding
  <2>2. cb[Main] = NULL OBVIOUS
  <2>3. Queued' = {} /\ Busy' = {} BY <2>1 DEF Queued, Busy
  <2>4. \A th \in Threads : cb[th] = NULL BY <2>1, <2>2 DEF Callbacks, Busy, Threads
  <2>5. \A k \in Keys : ~InWindow(k) BY <2>4 DEF InWindow, TypeOK
  <2> QED BY <2>2, <2>3, <2>5 DEF Recording
<1>6. pc' # "down" => Counted'
  <2>1. Queued' = Queued /\ Busy' = Busy BY DEF TypeOK, Queued, Busy
  <2> QED BY <2>1, SameCount
<1> QED BY <1>1, <1>2, <1>3, <1>4, <1>5, <1>6

LEMMA CloseStep == ASSUME IInv, Close PROVE IInv'
<1> USE KeysAssumption, ThreadsAssumption, StoreAssumption
<1> USE DEF IInv, Close, At, process
<1>1. TypeOK'
  <2>1. (open \in BOOLEAN /\ meddled \in BOOLEAN)' BY DEF TypeOK
  <2> QED BY <2>1 DEF TypeOK, Threads
<1>2. OnlySuccesses' BY DEF TypeOK, OnlySuccesses, Submission, Callbacks, Threads, Final
<1>3. Submission' BY NextIsOne DEF TypeOK, OnlySuccesses, Submission, Next1, Threads, Final
<1>4. Callbacks' BY DEF TypeOK, Callbacks, Submission, Threads, Final
<1>5. Recording' BY DEF TypeOK, Submission, Callbacks, Recording, InWindow, Next1, Queued, Busy, Threads, Final
<1>6. pc' # "down" => Counted' OBVIOUS
<1> QED BY <1>1, <1>2, <1>3, <1>4, <1>5, <1>6

LEMMA TakeStep == ASSUME NEW w \in Workers, IInv, Take(w) PROVE IInv'
<1> USE KeysAssumption, ThreadsAssumption, StoreAssumption
<1> USE DEF IInv, Take, process
<1>1. TypeOK'
  <2>1. (open \in BOOLEAN /\ meddled \in BOOLEAN)' BY DEF TypeOK
  <2> QED BY <2>1 DEF TypeOK, Threads
<1>2. OnlySuccesses'
  <2>1. PICK k \in Keys : st' = [st EXCEPT ![k] = "running"] OBVIOUS
  <2> QED BY <2>1 DEF TypeOK, OnlySuccesses
<1>3. Submission' BY NextIsOne DEF TypeOK, OnlySuccesses, Submission, Next1, Threads, Final
<1>4. Callbacks' BY DEF TypeOK, Callbacks, Submission, Threads, Final
<1>5. Recording' BY DEF TypeOK, Submission, Callbacks, Recording, InWindow, Next1, Queued, Busy, Threads, Final
<1>6. pc' # "down" => Counted'
  <2>1. PICK k \in Keys : st[k] = "pending" /\ st' = [st EXCEPT ![k] = "running"] /\ cur' = [cur EXCEPT ![w] = k] OBVIOUS
  <2>2. Queued' = Queued \ {k} /\ k \in Queued /\ Busy' = Busy \cup {w} /\ w \notin Busy BY <2>1 DEF TypeOK, Queued, Busy
  <2> QED BY <2>2, CountMoves DEF TypeOK
<1> QED BY <1>1, <1>2, <1>3, <1>4, <1>5, <1>6

LEMMA FinishStep == ASSUME NEW w \in Workers, IInv, Finish(w) PROVE IInv'
<1> USE KeysAssumption, ThreadsAssumption, StoreAssumption
<1> USE DEF IInv, Finish, Mark, process
<1>1. TypeOK'
  <2>1. (open \in BOOLEAN /\ meddled \in BOOLEAN)' BY DEF TypeOK
  <2>2. (st \in [Keys -> Final \cup {"new", "restored", "pending", "running"}])' BY DEF TypeOK, Final
  <2>3. (cb \in [Threads -> Keys \cup {NULL}])' BY DEF TypeOK, Threads
  <2>4. (won \subseteq Keys \X (1..Passes))' BY DEF TypeOK, Submission, Callbacks
  <2> QED BY <2>1, <2>2, <2>3, <2>4 DEF TypeOK, Threads
<1>2. OnlySuccesses' BY DEF TypeOK, OnlySuccesses, Submission, Callbacks, Threads, Final
<1>3. Submission' BY NextIsOne DEF TypeOK, OnlySuccesses, Submission, Next1, Threads, Final
<1>4. Callbacks' BY DEF TypeOK, Callbacks, Submission, Threads, Final
<1>5. Recording' BY DEF TypeOK, Submission, Callbacks, Recording, InWindow, Next1, Queued, Busy, Threads, Final
<1>6. pc' # "down" => Counted'
  <2>1. PICK status \in Final : st' = [st EXCEPT ![cur[w]] = status] OBVIOUS
  <2>2. Queued' = Queued /\ Busy' = Busy BY <2>1 DEF TypeOK, Queued, Busy, Final
  <2> QED BY <2>2, SameCount
<1> QED BY <1>1, <1>2, <1>3, <1>4, <1>5, <1>6

LEMMA PublishStep == ASSUME NEW w \in Workers, IInv, Publish(w) PROVE IInv'
<1> USE KeysAssumption, ThreadsAssumption, StoreAssumption
<1> USE DEF IInv, Publish, process
<1>6. Counted' /\ outstanding' \in Nat
  <2>1. Queued' = Queued /\ Busy' = Busy \ {w} /\ w \in Busy BY DEF TypeOK, Queued, Busy
  <2> QED BY <2>1, CountMoves DEF TypeOK
<1>1. TypeOK'
  <2>1. (open \in BOOLEAN /\ meddled \in BOOLEAN)' BY DEF TypeOK
  <2>2. outstanding' \in Nat BY <1>6
  <2> QED BY <2>1, <2>2 DEF TypeOK, Threads
<1>2. OnlySuccesses' BY DEF TypeOK, OnlySuccesses, Submission, Callbacks, Threads, Final
<1>3. Submission' BY NextIsOne DEF TypeOK, OnlySuccesses, Submission, Next1, Threads, Final
<1>4. Callbacks' BY DEF TypeOK, Callbacks, Submission, Threads, Final
<1>5. Recording' BY DEF TypeOK, Submission, Callbacks, Recording, InWindow, Next1, Queued, Busy, Threads, Final
<1> QED BY <1>1, <1>2, <1>3, <1>4, <1>5, <1>6

LEMMA CancelQueuedStep == ASSUME IInv, CancelQueued PROVE IInv'
<1> USE KeysAssumption, ThreadsAssumption, StoreAssumption
<1> USE DEF IInv, CancelQueued, Mark, At, process
<1>6. Counted' /\ outstanding' \in Nat
  <2>1. PICK k \in Keys : st[k] = "pending" /\ st' = [st EXCEPT ![k] = "cancelled"] OBVIOUS
  <2>2. Queued' = Queued \ {k} /\ k \in Queued /\ Busy' = Busy BY <2>1 DEF TypeOK, Queued, Busy
  <2> QED BY <2>2, CountMoves DEF TypeOK
<1>1. TypeOK'
  <2>1. (open \in BOOLEAN /\ meddled \in BOOLEAN)' BY DEF TypeOK
  <2>2. (st \in [Keys -> Final \cup {"new", "restored", "pending", "running"}])' BY DEF TypeOK, Final
  <2>3. (cb \in [Threads -> Keys \cup {NULL}])' BY DEF TypeOK, Threads
  <2>4. (won \subseteq Keys \X (1..Passes))' BY DEF TypeOK, Submission, Callbacks
  <2>5. outstanding' \in Nat BY <1>6
  <2> QED BY <2>5, <2>1, <2>2, <2>3, <2>4 DEF TypeOK, Threads
<1>2. OnlySuccesses'
  <2>1. PICK k \in Keys : st' = [st EXCEPT ![k] = "cancelled"] /\ won' = won OBVIOUS
  <2> QED BY <2>1 DEF TypeOK, OnlySuccesses
<1>3. Submission' BY NextIsOne DEF TypeOK, OnlySuccesses, Submission, Next1, Threads, Final
<1>4. Callbacks' BY DEF TypeOK, Callbacks, Submission, Threads, Final
<1>5. Recording' BY DEF TypeOK, Submission, Callbacks, Recording, InWindow, Next1, Queued, Busy, Threads, Final
<1> QED BY <1>1, <1>2, <1>3, <1>4, <1>5, <1>6

LEMMA RecordStep == ASSUME NEW th \in Threads, IInv, Record(th) PROVE IInv'
<1> USE KeysAssumption, ThreadsAssumption, StoreAssumption
<1> USE DEF IInv, Record, Worth, process
<1>1. TypeOK'
  <2>1. (open \in BOOLEAN /\ meddled \in BOOLEAN)' BY DEF TypeOK
  <2>2. (db \in [Keys -> 0..Passes])' BY DEF TypeOK, Threads
  <2>3. cb[th] \in Keys BY DEF TypeOK, Threads
  <2>4. excuse \in [Keys -> Nat] BY DEF TypeOK
  <2>5. excuse[cb[th]] \in Nat BY ONLY <2>3, <2>4
  <2>6. excuse[cb[th]] + 1 \in Nat BY ONLY <2>5
  <2>7. (excuse \in [Keys -> Nat])' BY ONLY <2>4, <2>6, Record(th) DEF Record
  <2>8. (cb \in [Threads -> Keys \cup {NULL}])' BY DEF TypeOK, Threads
  <2> QED BY <2>1, <2>2, <2>7, <2>8 DEF TypeOK, Threads
<1>2. OnlySuccesses' BY DEF TypeOK, OnlySuccesses, Submission, Callbacks, Threads, Final
<1>3. Submission' BY NextIsOne DEF TypeOK, OnlySuccesses, Submission, Next1, Threads, Final
<1>4. Callbacks' BY DEF TypeOK, Callbacks, Submission, Threads, Final
<1>5. Recording' BY DEF TypeOK, Submission, Callbacks, Recording, InWindow, Next1, Queued, Busy, Threads, Final
<1>6. pc' # "down" => Counted'
  <2>1. Queued' = Queued /\ Busy' = Busy BY DEF TypeOK, Queued, Busy
  <2> QED BY <2>1, SameCount
<1> QED BY <1>1, <1>2, <1>3, <1>4, <1>5, <1>6

LEMMA ClearStep == ASSUME IInv, Clear PROVE IInv'
<1> USE KeysAssumption, ThreadsAssumption, StoreAssumption
<1> USE DEF IInv, Clear, process
<1>1. TypeOK'
  <2>1. (open \in BOOLEAN /\ meddled \in BOOLEAN)' BY DEF TypeOK
  <2> QED BY <2>1 DEF TypeOK, Threads
<1>2. OnlySuccesses' BY DEF TypeOK, OnlySuccesses, Submission, Callbacks, Threads, Final
<1>3. Submission' BY NextIsOne DEF TypeOK, OnlySuccesses, Submission, Next1, Threads, Final
<1>4. Callbacks' BY DEF TypeOK, Callbacks, Submission, Threads, Final
<1>5. Recording' BY DEF TypeOK, Submission, Callbacks, Recording, InWindow, Next1, Queued, Busy, Threads, Final
<1>6. pc' # "down" => Counted'
  <2>1. Queued' = Queued /\ Busy' = Busy BY DEF TypeOK, Queued, Busy
  <2> QED BY <2>1, SameCount
<1> QED BY <1>1, <1>2, <1>3, <1>4, <1>5, <1>6

LEMMA CloseEarlyStep == ASSUME IInv, CloseEarly PROVE IInv'
<1> USE KeysAssumption, ThreadsAssumption, StoreAssumption
<1> USE DEF IInv, CloseEarly, process
<1>1. TypeOK'
  <2>1. (open \in BOOLEAN /\ meddled \in BOOLEAN)' BY DEF TypeOK
  <2> QED BY <2>1 DEF TypeOK, Threads
<1>2. OnlySuccesses' BY DEF TypeOK, OnlySuccesses, Submission, Callbacks, Threads, Final
<1>3. Submission' BY NextIsOne DEF TypeOK, OnlySuccesses, Submission, Next1, Threads, Final
<1>4. Callbacks' BY DEF TypeOK, Callbacks, Submission, Threads, Final
<1>5. Recording' BY DEF TypeOK, Submission, Callbacks, Recording, InWindow, Next1, Queued, Busy, Threads, Final
<1>6. pc' # "down" => Counted'
  <2>1. Queued' = Queued /\ Busy' = Busy BY DEF TypeOK, Queued, Busy
  <2> QED BY <2>1, SameCount
<1> QED BY <1>1, <1>2, <1>3, <1>4, <1>5, <1>6

LEMMA CrashStep == ASSUME IInv, Crash PROVE IInv'
<1> USE KeysAssumption, ThreadsAssumption, StoreAssumption
<1> USE DEF IInv, Crash, Fresh, process
<1>1. TypeOK'
  <2>1. (open \in BOOLEAN /\ meddled \in BOOLEAN)' BY DEF TypeOK
  <2> QED BY <2>1 DEF TypeOK, Threads
<1>2. OnlySuccesses' BY DEF TypeOK, OnlySuccesses, Submission, Callbacks, Threads, Final
<1>3. Submission' BY NextIsOne DEF TypeOK, OnlySuccesses, Submission, Next1, Threads, Final
<1>4. Callbacks' BY DEF TypeOK, Callbacks, Submission, Threads, Final
<1>5. Recording' BY DEF TypeOK, Submission, Callbacks, Recording, InWindow, Next1, Queued, Busy, Threads, Final
<1>6. pc' # "down" => Counted' OBVIOUS
<1> QED BY <1>1, <1>2, <1>3, <1>4, <1>5, <1>6

LEMMA Inductive == IInv /\ [Next]_vars => IInv'
<1> SUFFICES ASSUME IInv, [Next]_vars PROVE IInv' OBVIOUS
<1>1. CASE Program
  BY <1>1, OpenStep, LookupStep, RestoreStep, EnqueueStep, WatchStep, SubmittedStep, DrainedStep,
     CancelQueuedStep, CloseStep DEF Program
<1>2. CASE Raise \/ Clear \/ CloseEarly \/ Crash BY <1>2, RaiseStep, ClearStep, CloseEarlyStep, CrashStep
<1>3. CASE \E w \in Workers : Take(w) \/ Finish(w) \/ Publish(w) BY <1>3, TakeStep, FinishStep, PublishStep
<1>4. CASE \E th \in Threads : Record(th) BY <1>4, RecordStep
<1>5. CASE UNCHANGED vars
  BY <1>5 DEF vars, process, IInv, TypeOK, OnlySuccesses, Submission, Callbacks, Recording, InWindow,
              Next1, Queued, Busy, Counted, Threads
<1> QED BY <1>1, <1>2, <1>3, <1>4, <1>5 DEF Next

\* What is handed back as restored is the value of an earlier success, and
\* nothing else is ever stored, whatever crashes and other code do.
THEOREM SuccessesOnly == Spec => []OnlySuccesses
<1>1. IInv => OnlySuccesses BY DEF IInv
<1> QED BY <1>1, InitHolds, Inductive, PTL DEF Spec

\* The types hold and the inductive invariant with them.
THEOREM Invariance == Spec => []IInv
BY InitHolds, Inductive, PTL DEF Spec

\* run() and a forced shutdown return only after the callbacks: every success
\* of the pass is in the store, for any number of workers.
THEOREM RecordedBeforeReturn == Spec => []RecordedAtReturn
<1>1. IInv => RecordedAtReturn
  <2> SUFFICES ASSUME IInv, pc = "close", ~meddled, NEW k \in Encodable, st[k] = "succeeded"
               PROVE  db[k] = pass
    BY DEF RecordedAtReturn
  <2>1. db[k] = pass \/ InWindow(k) BY DEF IInv, Recording
  <2>2. Busy = {} /\ cb[Main] = NULL BY DEF IInv, Recording
  <2>3. \A th \in Threads : cb[th] = NULL BY <2>2 DEF IInv, Callbacks, Busy, Threads
  <2>4. k # NULL BY KeysAssumption, ThreadsAssumption
  <2> QED BY <2>1, <2>3, <2>4 DEF InWindow
<1> QED BY <1>1, InitHolds, Inductive, PTL DEF Spec

-----------------------------------------------------------------------------
(* An input succeeds again only with an excuse.                             *)

\* Wins are counted by a natural number, which a step's wins raise by at most
\* one.
LEMMA WinsCounted ==
  ASSUME NEW k \in Keys
  PROVE  /\ Cardinality(Wins(k)) \in Nat /\ Cardinality(Wins(k)') \in Nat
         /\ won' = won => Cardinality(Wins(k)') = Cardinality(Wins(k))
         /\ won' = won \cup {<<k, pass>>} => Cardinality(Wins(k)') <= Cardinality(Wins(k)) + 1
         /\ \A j \in Keys : j # k /\ won' = won \cup {<<j, pass>>} => Cardinality(Wins(k)') = Cardinality(Wins(k))
<1>1. IsFiniteSet(Wins(k)) /\ IsFiniteSet(Wins(k)')
  <2>1. IsFiniteSet(1..Passes) BY StoreAssumption, FS_Interval
  <2> QED BY <2>1, FS_Subset DEF Wins
<1>2. Cardinality(Wins(k)) \in Nat /\ Cardinality(Wins(k)') \in Nat BY <1>1, FS_CardinalityType
<1>3. won' = won => Wins(k)' = Wins(k) BY DEF Wins
<1>4. ASSUME won' = won \cup {<<k, pass>>}
      PROVE  Cardinality(Wins(k)') <= Cardinality(Wins(k)) + 1
  <2>1. Wins(k)' = Wins(k) \/ Wins(k)' = Wins(k) \cup {pass} BY <1>4 DEF Wins
  <2>2. Wins(k) \cup {pass} = Wins(k) \/ Cardinality(Wins(k) \cup {pass}) = Cardinality(Wins(k)) + 1
    BY <1>1, FS_AddElement
  <2>3. CASE Wins(k)' = Wins(k) BY <1>2, <2>3
  <2>4. CASE Wins(k)' = Wins(k) \cup {pass}
    <3>1. Cardinality(Wins(k)') = Cardinality(Wins(k) \cup {pass}) BY <2>4
    <3>2. Cardinality(Wins(k) \cup {pass}) = Cardinality(Wins(k))
          \/ Cardinality(Wins(k) \cup {pass}) = Cardinality(Wins(k)) + 1
      BY <2>2
    <3> QED BY <1>2, <3>1, <3>2
  <2> QED BY <2>1, <2>3, <2>4
<1>5. ASSUME NEW j \in Keys, j # k, won' = won \cup {<<j, pass>>}
      PROVE  Wins(k)' = Wins(k)
  BY <1>5 DEF Wins
<1> QED BY <1>2, <1>3, <1>4, <1>5

\* A step without a success keeps the balance of k: what kept its last success
\* still does, or an excuse is added.
LEMMA Balanced ==
  ASSUME TypeOK, TypeOK', NEW k \in Encodable \cap Decodable, won' = won,
         Cardinality(Wins(k)) <= excuse[k] + (IF Kept(k) THEN 1 ELSE 0),
         (excuse'[k] = excuse[k] /\ (Kept(k) => Kept(k)')) \/ excuse'[k] = excuse[k] + 1
  PROVE  Cardinality(Wins(k)') <= excuse'[k] + (IF Kept(k)' THEN 1 ELSE 0)
<1>1. k \in Keys /\ excuse[k] \in Nat /\ excuse'[k] \in Nat BY KeysAssumption DEF TypeOK
<1>2. Cardinality(Wins(k)) \in Nat /\ Cardinality(Wins(k)') = Cardinality(Wins(k)) BY <1>1, WinsCounted
<1> QED BY <1>1, <1>2

\* A step that leaves the store, the handles and the callbacks alone.
LEMMA Undisturbed ==
  ASSUME IInv, IInv', NEW k \in Encodable \cap Decodable, UNCHANGED <<db, st, cb, won, excuse>>,
         pc # "watch", pc' \notin {"watch", "down"}, Due(k)' => Due(k) \/ db[k] = 0,
         Due(k) => db[k] = 0, Cardinality(Wins(k)) <= excuse[k] + (IF Kept(k) THEN 1 ELSE 0)
  PROVE  /\ Due(k)' => db'[k] = 0
         /\ Cardinality(Wins(k)') <= excuse'[k] + (IF Kept(k)' THEN 1 ELSE 0)
         /\ pc' = "down" => ~InWindow(k)'
<1>1. Kept(k)' <=> Kept(k) BY DEF Kept, InWindow
<1>2. TypeOK /\ TypeOK' BY DEF IInv
<1> QED BY <1>1, <1>2, Balanced

\* Every step keeps the balance.
LEMMA ExcusedStep == ASSUME IInv, IInv', Excused, [Next]_vars PROVE Excused'
<1> USE KeysAssumption, ThreadsAssumption
<1> SUFFICES ASSUME NEW k \in Encodable \cap Decodable
             PROVE  /\ Due(k)' => db'[k] = 0
                    /\ Cardinality(Wins(k)') <= excuse'[k] + (IF Kept(k)' THEN 1 ELSE 0)
                    /\ pc' = "down" => ~InWindow(k)'
  BY DEF Excused
<1>1. TypeOK /\ TypeOK' /\ k \in Keys /\ k # NULL BY DEF IInv
<1>2. /\ Due(k) => db[k] = 0
      /\ Cardinality(Wins(k)) <= excuse[k] + (IF Kept(k) THEN 1 ELSE 0)
      /\ pc = "down" => ~InWindow(k)
  BY DEF Excused
<1>3. CASE Open
  <2>1. ~InWindow(k) /\ ~InWindow(k)' /\ pc' = "lookup" BY <1>1, <1>2, <1>3 DEF Open, Fresh, InWindow
  <2>2. Kept(k)' <=> Kept(k) BY <1>3, <2>1 DEF Kept, Open
  <2>3. ~Due(k)' BY <1>1, <1>3 DEF Open, Fresh, Due
  <2> QED BY <1>1, <1>2, <1>3, <2>1, <2>2, <2>3, Balanced DEF Open
<1>4. CASE Lookup
  <2>1. Due(k)' => db[k] = 0 BY <1>1, <1>2, <1>4 DEF Lookup, At, Due
  <2> QED BY <1>2, <1>4, <2>1, Undisturbed DEF Lookup, At
<1>5. CASE Restore
  <2>1. PICK j \in todo : st' = [st EXCEPT ![j] = "restored"] /\ todo' = todo \ {j} BY <1>5 DEF Restore
  <2>2. st[j] = "new" BY <1>5, <2>1 DEF Restore, At, IInv, Submission
  <2>3. InWindow(k)' <=> InWindow(k) BY <1>1, <1>5, <2>1, <2>2 DEF Restore, At, InWindow, TypeOK
  <2>4. Due(k)' => Due(k) BY <1>1, <1>5, <2>1 DEF Restore, At, Due, TypeOK
  <2>5. Kept(k)' <=> Kept(k) BY <1>5, <2>3 DEF Kept, Restore
  <2> QED BY <1>1, <1>2, <1>5, <2>4, <2>5, Balanced DEF Restore, At
<1>6. CASE Enqueue
  <2>1. PICK j \in todo : st' = [st EXCEPT ![j] = "pending"] /\ hits[j] = 0 BY <1>6 DEF Enqueue
  <2>2. st[j] = "new" BY <1>6, <2>1 DEF Enqueue, At, IInv, Submission
  <2>3. Kept(k)' <=> Kept(k)
    <3>1. st'[k] = "succeeded" <=> st[k] = "succeeded" BY <1>1, <2>1, <2>2 DEF TypeOK
    <3>2. st[k] = "succeeded" => ~Next1(k) BY <1>6 DEF Enqueue, At, IInv, Submission, Next1
    <3> QED BY <1>6, <3>1, <3>2 DEF Kept, InWindow, Enqueue, At, Next1
  <2>4. Due(k)' => Due(k) BY <1>1, <1>6, <2>1, <2>2 DEF Enqueue, At, Due, TypeOK
  <2> QED BY <1>1, <1>2, <1>6, <2>3, <2>4, Balanced DEF Enqueue, At
<1>7. CASE Watch
  <2>1. PICK j \in todo : Next1(j) /\ AddCallback(j) /\ todo' = todo \ {j} BY <1>7 DEF Watch
  <2>2. Kept(k) => Kept(k)'
    <3>1. CASE st[k] = "succeeded" /\ Next1(k)
      <4>1. j = k BY <1>1, <2>1, <3>1, NextIsOne DEF TypeOK
      <4> QED BY <1>1, <1>7, <2>1, <3>1, <4>1
              DEF Watch, AddCallback, Final, Kept, InWindow, TypeOK, Threads
    <3>2. CASE st[k] = "succeeded" /\ \E th \in Threads : cb[th] = k
      <4>1. \E th \in Threads : cb'[th] = k
        BY <1>1, <1>7, <2>1, <3>2 DEF Watch, At, AddCallback, TypeOK, Threads
      <4> QED BY <1>7, <3>2, <4>1 DEF Kept, InWindow, Watch
    <3>3. CASE db[k] # 0 BY <1>7, <3>3 DEF Kept, Watch
    <3> QED BY <3>1, <3>2, <3>3 DEF Kept, InWindow
  <2>3. Due(k)' => Due(k) BY <1>7, <2>1 DEF Watch, At, Due
  <2> QED BY <1>1, <1>2, <1>7, <2>2, <2>3, Balanced DEF Watch, At
<1>8. CASE Submitted
  <2>1. Due(k)' => Due(k) BY <1>8 DEF Submitted, At, Due
  <2> QED BY <1>2, <1>8, <2>1, Undisturbed DEF Submitted, At
<1>9. CASE Drained
  <2>1. Due(k)' => Due(k) BY <1>9 DEF Drained, At, Due
  <2> QED BY <1>2, <1>9, <2>1, Undisturbed DEF Drained, At
<1>10. CASE Raise
  <2>1. Due(k)' => Due(k) BY <1>10 DEF Raise, At, Due
  <2> QED BY <1>2, <1>10, <2>1, Undisturbed DEF Raise, At
<1>11. CASE CancelQueued
  <2>1. PICK j \in Keys : st[j] = "pending" /\ Mark(Main, j, "cancelled") BY <1>11 DEF CancelQueued
  <2>2. InWindow(k) => InWindow(k)'
    BY <1>1, <1>11, <2>1 DEF CancelQueued, At, Mark, InWindow, TypeOK, Threads
  <2>3. Due(k)' => Due(k) BY <1>1, <1>11, <2>1 DEF CancelQueued, At, Mark, Due, TypeOK
  <2>4. won' = won BY <2>1 DEF Mark
  <2> QED BY <1>1, <1>2, <1>11, <2>2, <2>3, <2>4, Balanced DEF CancelQueued, At, Kept
<1>12. CASE Close
  <2>1. \A th \in Threads : cb[th] = NULL BY <1>12 DEF Close, At, IInv, Recording, Callbacks, Busy, Threads
  <2>2. ~InWindow(k) /\ ~InWindow(k)' BY <1>1, <1>12, <2>1 DEF Close, At, InWindow
  <2>3. Due(k)' => Due(k) BY <1>12 DEF Close, At, Due
  <2> QED BY <1>1, <1>2, <1>12, <2>2, <2>3, Balanced DEF Close, At, Kept
<1>13. ASSUME NEW w \in Workers, Take(w)
       PROVE  /\ Due(k)' => db'[k] = 0
              /\ Cardinality(Wins(k)') <= excuse'[k] + (IF Kept(k)' THEN 1 ELSE 0)
              /\ pc' = "down" => ~InWindow(k)'
  <2>1. PICK j \in Keys : st[j] = "pending" /\ st' = [st EXCEPT ![j] = "running"] BY <1>13 DEF Take
  <2>2. InWindow(k)' <=> InWindow(k) BY <1>1, <1>13, <2>1 DEF Take, InWindow, TypeOK, Next1
  <2>3. Due(k)' => Due(k) BY <1>1, <1>13, <2>1 DEF Take, Due, TypeOK
  <2> QED BY <1>1, <1>2, <1>13, <2>2, <2>3, Balanced DEF Take, Kept
<1>14. ASSUME NEW w \in Workers, Finish(w)
       PROVE  /\ Due(k)' => db'[k] = 0
              /\ Cardinality(Wins(k)') <= excuse'[k] + (IF Kept(k)' THEN 1 ELSE 0)
              /\ pc' = "down" => ~InWindow(k)'
  <2> DEFINE j == cur[w]
  <2>1. PICK status \in Final : Mark(w, j, status) BY <1>14 DEF Finish
  <2>2. j \in Keys /\ st[j] = "running" /\ pc # "down" /\ pc' = pc /\ todo' = todo /\ db' = db /\ excuse' = excuse
        /\ hits' = hits
    BY <1>1, <1>14 DEF Finish, TypeOK
  <2>3. cb[w] = NULL /\ cb'[w] = (IF j \in listed THEN j ELSE NULL)
    BY <1>1, <2>1, <2>2 DEF Mark, IInv, Callbacks, Final, TypeOK, Threads
  <2>4. \A th \in Threads : th # w => cb'[th] = cb[th] BY <1>1, <2>1 DEF Mark, TypeOK
  <2>5. Due(k)' => Due(k) BY <1>1, <2>1, <2>2 DEF Mark, Due, TypeOK, Final
  <2>6. CASE k = j /\ status = "succeeded"
    <3>1. InWindow(k)'
      <4>1. st'[k] = "succeeded" BY <1>1, <2>1, <2>6 DEF Mark, TypeOK
      <4>2. k \notin listed => pc = "watch" /\ Next1(k) BY <2>2, <2>6 DEF IInv, Submission
      <4> QED BY <2>2, <2>3, <2>6, <4>1, <4>2 DEF InWindow, Next1, Threads
    <3>2. ~Kept(k) BY <1>2, <2>2, <2>6 DEF Kept, InWindow, Due
    <3>3. Cardinality(Wins(k)) <= excuse[k] BY <1>2, <3>2, <1>1 DEF TypeOK
    <3>4. won' = won \cup {<<k, pass>>} BY <2>1, <2>6 DEF Mark
    <3>5. Cardinality(Wins(k)') <= excuse[k] + 1 BY <1>1, <3>3, <3>4, WinsCounted DEF TypeOK
    <3> QED BY <1>2, <2>2, <2>5, <3>1, <3>5 DEF Kept
  <2>7. CASE ~(k = j /\ status = "succeeded")
    <3>1. Kept(k)' <=> Kept(k)
      <4>1. st'[k] = "succeeded" <=> st[k] = "succeeded" BY <1>1, <2>1, <2>2, <2>7 DEF Mark, TypeOK
      <4>2. st[k] = "succeeded" => k # j BY <2>2
      <4>3. st[k] = "succeeded" => \A th \in Threads : cb'[th] = k <=> cb[th] = k BY <1>1, <2>3, <2>4, <4>2
      <4> QED BY <2>2, <4>1, <4>3 DEF Kept, InWindow, Next1
    <3>2. Cardinality(Wins(k)') = Cardinality(Wins(k)) BY <1>1, <2>1, <2>2, <2>7, WinsCounted DEF Mark
    <3> QED BY <1>2, <2>2, <2>5, <3>1, <3>2
  <2> QED BY <2>6, <2>7
<1>15. ASSUME NEW w \in Workers, Publish(w)
       PROVE  /\ Due(k)' => db'[k] = 0
              /\ Cardinality(Wins(k)') <= excuse'[k] + (IF Kept(k)' THEN 1 ELSE 0)
              /\ pc' = "down" => ~InWindow(k)'
  <2>1. Kept(k)' <=> Kept(k) BY <1>15 DEF Publish, Kept, InWindow, Next1
  <2>2. Due(k)' => Due(k) BY <1>15 DEF Publish, Due
  <2> QED BY <1>1, <1>2, <1>15, <2>1, <2>2, Balanced DEF Publish
<1>16. ASSUME NEW th \in Threads, Record(th)
       PROVE  /\ Due(k)' => db'[k] = 0
              /\ Cardinality(Wins(k)') <= excuse'[k] + (IF Kept(k)' THEN 1 ELSE 0)
              /\ pc' = "down" => ~InWindow(k)'
  <2> DEFINE j == cb[th]
  <2>1. j \in Keys /\ pc # "down" /\ pc' = pc /\ won' = won /\ st' = st /\ todo' = todo /\ hits' = hits
    BY <1>1, <1>16 DEF Record, TypeOK
  <2>2. CASE j = k /\ st[k] = "succeeded"
    <3>1. pass # 0 /\ pass \in Nat BY <1>1, <2>1 DEF IInv, Submission, TypeOK
    <3>2. CASE open
      <4>1. db'[k] = pass /\ excuse' = excuse BY <1>1, <1>16, <2>2, <3>2 DEF Record, Worth, TypeOK
      <4>2. Kept(k)' BY <3>1, <4>1 DEF Kept
      <4>3. ~Due(k)' BY <2>1, <2>2 DEF Due
      <4> QED BY <1>1, <1>2, <2>1, <4>1, <4>2, <4>3, Balanced
    <3>3. CASE ~open
      <4>1. db' = db /\ excuse'[k] = excuse[k] + 1 BY <1>1, <1>16, <2>2, <3>3 DEF Record, Worth, TypeOK
      <4>2. Due(k)' => Due(k) BY <2>1 DEF Due
      <4> QED BY <1>1, <1>2, <2>1, <4>1, <4>2, Balanced
    <3> QED BY <3>2, <3>3
  <2>3. CASE ~(j = k /\ st[k] = "succeeded")
    <3>1. db'[k] = db[k] /\ excuse'[k] = excuse[k] BY <1>1, <1>16, <2>1, <2>3 DEF Record, Worth, TypeOK
    <3>2. InWindow(k) => InWindow(k)'
      BY <1>1, <1>16, <2>1, <2>3 DEF Record, InWindow, Next1, TypeOK
    <3>3. Due(k)' => Due(k) BY <2>1 DEF Due
    <3> QED BY <1>1, <1>2, <2>1, <3>1, <3>2, <3>3, Balanced DEF Kept
  <2> QED BY <2>2, <2>3
<1>17. CASE Clear
  <2>1. db'[k] = 0 /\ (IF db[k] # 0 THEN excuse'[k] = excuse[k] + 1 ELSE excuse'[k] = excuse[k])
    BY <1>1, <1>17 DEF Clear
  <2>2. InWindow(k)' <=> InWindow(k) BY <1>17 DEF Clear, process, InWindow, Next1
  <2> QED BY <1>1, <1>2, <1>17, <2>1, <2>2, Balanced DEF Clear, process, Kept
<1>18. CASE CloseEarly
  <2>1. Kept(k)' <=> Kept(k) BY <1>18 DEF CloseEarly, Kept, InWindow, Next1
  <2>2. Due(k)' => Due(k) BY <1>18 DEF CloseEarly, Due
  <2> QED BY <1>1, <1>2, <1>18, <2>1, <2>2, Balanced DEF CloseEarly
<1>19. CASE Crash
  <2>1. IF InWindow(k) THEN excuse'[k] = excuse[k] + 1 ELSE excuse'[k] = excuse[k] BY <1>1, <1>19 DEF Crash
  <2>2. ~InWindow(k)' /\ ~Due(k)' BY <1>1, <1>19 DEF Crash, Fresh, InWindow, Due
  <2> QED BY <1>1, <1>2, <1>19, <2>1, <2>2, Balanced DEF Crash, Kept
<1>20. CASE UNCHANGED vars
  <2>1. Kept(k)' <=> Kept(k) BY <1>20 DEF vars, process, Kept, InWindow, Next1
  <2>2. Due(k)' => Due(k) BY <1>20 DEF vars, process, Due
  <2>3. InWindow(k)' <=> InWindow(k) BY <1>20 DEF vars, process, InWindow, Next1
  <2> QED BY <1>1, <1>2, <1>20, <2>1, <2>2, <2>3, Balanced DEF vars, process
<1> QED BY <1>3, <1>4, <1>5, <1>6, <1>7, <1>8, <1>9, <1>10, <1>11, <1>12, <1>13, <1>14, <1>15, <1>16, <1>17,
           <1>18, <1>19, <1>20 DEF Next, Program

\* No crash, however many passes, makes an input that was recorded run again:
\* each further success has a crash in its window, a clear or a refused record
\* to explain it.
THEOREM RunAgainOnlyExcused == Spec => []AtLeastOnce
<1>1. Init => Excused
  <2> SUFFICES ASSUME Init, NEW k \in Encodable \cap Decodable
               PROVE  /\ Due(k) => db[k] = 0
                      /\ Cardinality(Wins(k)) <= excuse[k] + (IF Kept(k) THEN 1 ELSE 0)
                      /\ pc = "down" => ~InWindow(k)
    BY DEF Excused
  <2>1. k \in Keys BY KeysAssumption
  <2>2. Wins(k) = {} BY DEF Init, Wins
  <2>3. Cardinality(Wins(k)) = 0 BY <2>2, FS_EmptySet
  <2>4. ~InWindow(k) /\ db[k] = 0 /\ excuse[k] = 0 BY <2>1 DEF Init, InWindow
  <2> QED BY <2>3, <2>4 DEF Kept
<1>2. IInv /\ Excused /\ [Next]_vars => (IInv /\ Excused)' BY Inductive, ExcusedStep
<1>3. IInv /\ Excused => AtLeastOnce
  <2> SUFFICES ASSUME IInv, Excused, NEW k \in Encodable \cap Decodable
               PROVE  Cardinality(Wins(k)) <= 1 + excuse[k]
    BY DEF AtLeastOnce
  <2>1. k \in Keys /\ excuse[k] \in Nat BY KeysAssumption DEF IInv, TypeOK
  <2>2. Cardinality(Wins(k)) \in Nat BY <2>1, WinsCounted
  <2> QED BY <2>1, <2>2 DEF Excused
<1> QED BY <1>1, <1>2, <1>3, InitHolds, PTL DEF Spec
=============================================================================
