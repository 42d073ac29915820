----------------------------- MODULE Checkpoint -----------------------------
(***************************************************************************)
(* A fan-out that records its completions and is run again after a crash   *)
(* (src/osiiso/checkpoint.py, _enqueue_tracked in core.py, the callbacks   *)
(* of handle.py). The program is the documented one,                       *)
(*     with Checkpoint(path) as cp, ThreadQueue() as q:                    *)
(*         q.map(fn, inputs, checkpoint=cp); q.run()                       *)
(* with distinct inputs. The queue is taken as SyncQueue describes it: a   *)
(* task is taken by one worker, which marks the handle final, runs its     *)
(* callbacks and only then publishes the result run() waits for.           *)
(***************************************************************************)
EXTENDS Integers, FiniteSets

CONSTANTS
  Keys,       \* the inputs' keys: numbers, in input order
  Workers,
  Main,       \* the thread that runs the program
  NULL,
  Encodable,  \* the keys whose value the encoder accepts
  Decodable,  \* the keys whose stored value the decoder reads back
  Meddling,   \* what other code may do to the store meanwhile
  Passes      \* bound on the times the program is run

ASSUME KeysAssumption == Keys \subseteq Nat /\ IsFiniteSet(Keys) /\ Encodable \subseteq Keys /\ Decodable \subseteq Keys
ASSUME ThreadsAssumption == IsFiniteSet(Workers) /\ Main \notin Workers /\ NULL \notin Keys
ASSUME StoreAssumption == Meddling \subseteq {"clear", "close"} /\ Passes \in Nat

VARIABLES
  db,        \* the store: db[k] is the pass whose value row k holds, 0 for no row
  pass,      \* the number of the current pass
  pc,        \* the program: "down" when no process runs
  open,      \* ~self._closed
  hits,      \* what lookup() returned, as db
  todo,      \* the keys of the plan not yet dealt with
  st,        \* handle status, "new" for none, "restored" for a restored handle
  listed,    \* keys whose handle holds the recording callback
  cb,        \* cb[th]: the key whose callback thread th is running
  cur,       \* cur[w]: the task worker w is to publish or is running
  outstanding, \* the queue's self._outstanding
  \* history
  won,       \* pairs <<key, pass>>: the callable returned and the handle succeeded
  excuse,    \* excuse[k]: crashes in the window, clears and refused records
  meddled    \* other code touched the store during this pass

process == <<pc, open, hits, todo, st, listed, cb, cur, outstanding>>
vars == <<db, pass, process, won, excuse, meddled>>

Threads == Workers \cup {Main}
Final == {"succeeded", "failed", "cancelled"}

Fresh ==
  /\ open' = TRUE /\ hits' = [k \in Keys |-> 0] /\ todo' = {} /\ st' = [k \in Keys |-> "new"]
  /\ listed' = {} /\ cb' = [th \in Threads |-> NULL] /\ cur' = [w \in Workers |-> NULL] /\ outstanding' = 0

Init ==
  /\ db = [k \in Keys |-> 0] /\ pass = 0 /\ pc = "down"
  /\ open = FALSE /\ hits = [k \in Keys |-> 0] /\ todo = {} /\ st = [k \in Keys |-> "new"]
  /\ listed = {} /\ cb = [th \in Threads |-> NULL] /\ cur = [w \in Workers |-> NULL] /\ outstanding = 0
  /\ won = {} /\ excuse = [k \in Keys |-> 0] /\ meddled = FALSE

-----------------------------------------------------------------------------
(* The program's thread                                                    *)

\* A new process opens the store and starts the queue.
Open ==
  /\ pc = "down" /\ pass < Passes
  /\ pass' = pass + 1 /\ pc' = "lookup" /\ Fresh /\ meddled' = FALSE
  /\ UNCHANGED <<db, won, excuse>>

\* The program's thread is at a control point and in no callback.
At(label) == pc = label /\ cb[Main] = NULL

\* One query for all keys; a closed store raises out of the with block.
Lookup ==
  /\ At("lookup")
  /\ IF open THEN /\ pc' = "plan" /\ todo' = Keys
                  /\ hits' = [k \in Keys |-> IF k \in Decodable THEN db[k] ELSE 0]
             ELSE pc' = "force" /\ UNCHANGED <<todo, hits>>
  /\ UNCHANGED <<db, pass, open, st, listed, cb, cur, outstanding, won, excuse, meddled>>

Next1(k) == k \in todo /\ \A j \in todo : k <= j

Restore ==
  /\ At("plan")
  /\ \E k \in todo : Next1(k) /\ hits[k] # 0 /\ st' = [st EXCEPT ![k] = "restored"] /\ todo' = todo \ {k}
  /\ UNCHANGED <<db, pass, pc, open, hits, listed, cb, cur, outstanding, won, excuse, meddled>>

Enqueue ==
  /\ At("plan") /\ pc' = "watch"
  /\ \E k \in todo :
       /\ Next1(k) /\ hits[k] = 0
       /\ st' = [st EXCEPT ![k] = "pending"]
  /\ outstanding' = outstanding + 1
  /\ UNCHANGED <<db, pass, open, hits, todo, listed, cb, cur, won, excuse, meddled>>

\* add_done_callback: listed, or run at once if the task is already done.
WatchLate(k) == listed' = listed \cup {k} /\ UNCHANGED cb  \* mutant
AddCallback(k) ==
  IF st[k] \in Final THEN cb' = [cb EXCEPT ![Main] = k] /\ UNCHANGED listed
                     ELSE listed' = listed \cup {k} /\ UNCHANGED cb

Watch ==
  /\ At("watch") /\ pc' = "plan"
  /\ \E k \in todo : Next1(k) /\ AddCallback(k) /\ todo' = todo \ {k}
  /\ UNCHANGED <<db, pass, open, hits, st, cur, outstanding, won, excuse, meddled>>

\* run() is called when the plan is submitted and waits for the queue.
Submitted ==
  /\ At("plan") /\ todo = {} /\ pc' = "run"
  /\ UNCHANGED <<db, pass, open, hits, todo, st, listed, cb, cur, outstanding, won, excuse, meddled>>

\* The with block raises: the queue is shut down by force.
Raise ==
  /\ At("run") /\ pc' = "force"
  /\ UNCHANGED <<db, pass, open, hits, todo, st, listed, cb, cur, outstanding, won, excuse, meddled>>

\* Nothing outstanding: run() returns, or the forced shutdown has joined.
Drained ==
  /\ At("run") \/ At("force")
  /\ outstanding = 0 /\ pc' = "close"
  /\ UNCHANGED <<db, pass, open, hits, todo, st, listed, cb, cur, outstanding, won, excuse, meddled>>

\* Checkpoint.__exit__, and the process ends.
Close ==
  /\ At("close") /\ pc' = "down" /\ open' = FALSE
  /\ UNCHANGED <<db, pass, hits, todo, st, listed, cb, cur, outstanding, won, excuse, meddled>>

-----------------------------------------------------------------------------
(* The queue                                                               *)

TakeDone(w) ==  \* mutant
  /\ pc # "down" /\ cur[w] = NULL
  /\ \E k \in Keys :
       /\ st[k] \in {"pending", "cancelled"}
       /\ st' = [st EXCEPT ![k] = "running"] /\ cur' = [cur EXCEPT ![w] = k]
  /\ UNCHANGED <<db, pass, pc, open, hits, todo, listed, cb, outstanding, won, excuse, meddled>>
Take(w) ==
  /\ pc # "down" /\ cur[w] = NULL
  /\ \E k \in Keys :
       /\ st[k] = "pending"
       /\ st' = [st EXCEPT ![k] = "running"] /\ cur' = [cur EXCEPT ![w] = k]
  /\ UNCHANGED <<db, pass, pc, open, hits, todo, listed, cb, outstanding, won, excuse, meddled>>

\* _mark_finished: the status and the callbacks in one lock section.
Mark(th, k, status) ==
  /\ st' = [st EXCEPT ![k] = status]
  /\ cb' = IF k \in listed THEN [cb EXCEPT ![th] = k] ELSE cb
  /\ listed' = listed \ {k}
  /\ won' = IF status = "succeeded" THEN won \cup {<<k, pass>>} ELSE won

Finish(w) ==
  /\ pc # "down" /\ cur[w] # NULL /\ st[cur[w]] = "running"
  /\ \E status \in Final : Mark(w, cur[w], status)
  /\ UNCHANGED <<db, pass, pc, open, hits, todo, cur, outstanding, excuse, meddled>>

\* The result is published once the callback is over.
PublishAnyway(w) ==  \* mutant
  /\ pc # "down" /\ cur[w] # NULL /\ st[cur[w]] \in Final
  /\ outstanding' = outstanding - 1 /\ cur' = [cur EXCEPT ![w] = NULL]
  /\ UNCHANGED <<db, pass, pc, open, hits, todo, st, listed, cb, won, excuse, meddled>>
Publish(w) ==
  /\ pc # "down" /\ cur[w] # NULL /\ st[cur[w]] \in Final /\ cb[w] = NULL
  /\ outstanding' = outstanding - 1 /\ cur' = [cur EXCEPT ![w] = NULL]
  /\ UNCHANGED <<db, pass, pc, open, hits, todo, st, listed, cb, won, excuse, meddled>>

\* The forced shutdown cancels a queued task, as _record does.
CancelQueued ==
  /\ At("force")
  /\ \E k \in Keys : st[k] = "pending" /\ Mark(Main, k, "cancelled")
  /\ outstanding' = outstanding - 1
  /\ UNCHANGED <<db, pass, pc, open, hits, todo, cur, excuse, meddled>>

-----------------------------------------------------------------------------
(* The recording callback, and other code that uses the store              *)

\* _on_done: only a success is recorded, only an encodable one.
WorthAny(k) == k \in Encodable  \* mutant
Worth(k) == st[k] = "succeeded" /\ k \in Encodable

\* record()'s lock section. On a closed store it raises, and the handle logs
\* and swallows the exception.
RecordRaises(th) ==  \* mutant
  /\ pc # "down" /\ cb[th] # NULL /\ open
  /\ cb' = [cb EXCEPT ![th] = NULL]
  /\ db' = IF Worth(cb[th]) THEN [db EXCEPT ![cb[th]] = pass] ELSE db
  /\ UNCHANGED <<pass, pc, open, hits, todo, st, listed, cur, outstanding, won, excuse, meddled>>
Record(th) ==
  /\ pc # "down" /\ cb[th] # NULL
  /\ cb' = [cb EXCEPT ![th] = NULL]
  /\ db' = IF Worth(cb[th]) /\ open THEN [db EXCEPT ![cb[th]] = pass] ELSE db
  /\ excuse' = IF open \/ ~Worth(cb[th]) THEN excuse ELSE [excuse EXCEPT ![cb[th]] = @ + 1]
  /\ UNCHANGED <<pass, pc, open, hits, todo, st, listed, cur, outstanding, won, meddled>>

Clear ==
  /\ "clear" \in Meddling /\ pc # "down" /\ open /\ ~meddled
  /\ db' = [k \in Keys |-> 0]
  /\ excuse' = [k \in Keys |-> IF db[k] # 0 THEN excuse[k] + 1 ELSE excuse[k]]
  /\ meddled' = TRUE
  /\ UNCHANGED <<pass, process, won>>

CloseEarly ==
  /\ "close" \in Meddling /\ pc # "down" /\ open
  /\ open' = FALSE /\ meddled' = TRUE
  /\ UNCHANGED <<db, pass, pc, hits, todo, st, listed, cb, cur, outstanding, won, excuse>>

\* The window between a success and its record.
InWindow(k) ==
  /\ st[k] = "succeeded"
  /\ \/ \E th \in Threads : cb[th] = k
     \/ pc = "watch" /\ Next1(k)

\* The process dies; the rows written survive.
Crash ==
  /\ pc # "down" /\ pc' = "down" /\ Fresh
  /\ excuse' = [k \in Keys |-> IF InWindow(k) THEN excuse[k] + 1 ELSE excuse[k]]
  /\ UNCHANGED <<db, pass, won, meddled>>

Program == Open \/ Lookup \/ Restore \/ Enqueue \/ Watch \/ Submitted \/ Drained \/ CancelQueued \/ Close

Next ==
  \/ Program \/ Raise \/ Clear \/ CloseEarly \/ Crash
  \/ \E w \in Workers : Take(w) \/ Finish(w) \/ Publish(w)
  \/ \E th \in Threads : Record(th)

Spec == Init /\ [][Next]_vars

\* Threads are scheduled fairly and callables return or raise. Nothing obliges
\* a process to be started, to crash or to raise.
Fairness ==
  /\ WF_vars(Lookup \/ Restore \/ Enqueue \/ Watch \/ Submitted \/ Drained \/ CancelQueued \/ Close)
  /\ \A w \in Workers : WF_vars(Take(w) \/ Finish(w) \/ Publish(w) \/ Record(w))
  /\ WF_vars(Record(Main))

FairSpec == Spec /\ Fairness

-----------------------------------------------------------------------------

TypeOK ==
  /\ db \in [Keys -> 0..Passes] /\ hits \in [Keys -> 0..Passes] /\ pass \in 0..Passes
  /\ pc \in {"down", "lookup", "plan", "watch", "run", "force", "close"} /\ open \in BOOLEAN
  /\ st \in [Keys -> Final \cup {"new", "restored", "pending", "running"}]
  /\ todo \subseteq Keys /\ listed \subseteq Keys /\ outstanding \in Nat
  /\ cb \in [Threads -> Keys \cup {NULL}] /\ cur \in [Workers -> Keys \cup {NULL}]
  /\ won \subseteq Keys \X (1..Passes) /\ excuse \in [Keys -> Nat] /\ meddled \in BOOLEAN

\* Only successes are recorded, and what a restored handle carries is the
\* value of an earlier pass that succeeded on this input.
OnlySuccesses ==
  \A k \in Keys :
    /\ db[k] # 0 => <<k, db[k]>> \in won /\ k \in Encodable
    /\ st[k] = "restored" => <<k, hits[k]>> \in won /\ hits[k] < pass

\* When run() or a forced shutdown returns, every success of the pass is in
\* the store, whichever thread ran its callback.
RecordedAtReturn ==
  pc = "close" /\ ~meddled => \A k \in Encodable : st[k] = "succeeded" => db[k] = pass

\* Why these two hold. An unrecorded success is in its window, the thread in a
\* callback has not published yet, and the counter run() waits for counts the
\* queued tasks and the unpublished ones.
Queued == {k \in Keys : st[k] = "pending"}
Busy == {w \in Workers : cur[w] # NULL}

Submission ==
  /\ pc = "down" \/ pass > 0
  /\ \A k \in Keys : db[k] <= pass
  /\ \A k \in Keys : pc # "down" /\ hits[k] # 0 => <<k, hits[k]>> \in won /\ hits[k] < pass
  /\ \A k \in Keys : pc = "lookup" => st[k] = "new" /\ db[k] < pass /\ cb[Main] = NULL
  /\ \A k \in todo : pc \in {"lookup", "plan"} => st[k] = "new"
  /\ \A k \in todo : pc = "watch" /\ ~Next1(k) => st[k] = "new"
  /\ \A k \in Keys : st[k] \in {"pending", "running"} /\ k \notin listed => pc = "watch" /\ Next1(k)

Callbacks ==
  /\ \A w \in Workers : cur[w] # NULL => st[cur[w]] \in Final \cup {"running"}
  /\ \A w \in Workers : cb[w] # NULL => cb[w] = cur[w] /\ st[cur[w]] \in Final
  /\ \A k \in Keys : pc # "down" /\ st[k] = "succeeded" => <<k, pass>> \in won
  /\ pc = "down" \/ open \/ meddled

Recording ==
  /\ pc # "down" /\ ~meddled => \A k \in Encodable : st[k] = "succeeded" => db[k] = pass \/ InWindow(k)
  /\ pc = "close" => Queued = {} /\ Busy = {} /\ cb[Main] = NULL

Counted == outstanding = Cardinality(Queued) + Cardinality(Busy)

IInv == TypeOK /\ OnlySuccesses /\ Submission /\ Callbacks /\ Recording /\ (pc # "down" => Counted)

\* An input whose value can be stored succeeds in a further pass only if the
\* process died before the record, or other code dropped or refused it.
Wins(k) == {p \in 1..Passes : <<k, p>> \in won}
AtLeastOnce == \A k \in Encodable \cap Decodable : Cardinality(Wins(k)) <= 1 + excuse[k]

\* Why: a success that no excuse makes up for is in the store or about to be,
\* and an input due to be run is not in the store.
Kept(k) == db[k] # 0 \/ InWindow(k)
Due(k) == st[k] \in {"pending", "running"} \/ (k \in todo /\ st[k] = "new" /\ hits[k] = 0 /\ pc \in {"plan", "watch"})
Excused ==
  \A k \in Encodable \cap Decodable :
    /\ Due(k) => db[k] = 0
    /\ Cardinality(Wins(k)) <= excuse[k] + (IF Kept(k) THEN 1 ELSE 0)
    /\ pc = "down" => ~InWindow(k)

\* A pass that does not die ends, even when records are refused.
PassEnds == (pc # "down") ~> (pc = "down")
=============================================================================
