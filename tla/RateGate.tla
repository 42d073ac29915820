------------------------------ MODULE RateGate ------------------------------
(***************************************************************************)
(* _RateGate (src/osiiso/core.py): the GCRA limiter all workers of a queue *)
(* share. reserve() holds the gate's lock from the reading of the clock to *)
(* the update, so it is one step; the clock moves between calls. Time is a *)
(* whole number of ticks, where the code has floating-point seconds.       *)
(***************************************************************************)
EXTENDS Integers, Sequences

CONSTANTS
  Interval,  \* 1 / rate, in ticks
  Burst,     \* burst=
  Starts,    \* the clock's possible readings when the gate is made
  Horizon,   \* bound on the clock
  Calls      \* bound on the number of calls

ASSUME GateAssumption ==
  /\ Interval \in Nat \ {0} /\ Burst \in Nat \ {0}
  /\ Starts \subseteq Nat /\ Horizon \in Nat /\ Calls \in Nat

VARIABLES
  now,     \* time.perf_counter()
  tat,     \* self._tat, the theoretical arrival time of the next slot
  booked   \* when each call may start: the time of the call and its pause

vars == <<now, tat, booked>>

TauWide == Burst * Interval  \* mutant
Tau == (Burst - 1) * Interval

Later(a, b) == IF a > b THEN a ELSE b

Init == now \in Starts /\ tat = 0 /\ booked = <<>>

\* The slot a call takes: never one in the past.
SlotBanked == tat  \* mutant
Slot == Later(tat, now)

PauseSigned == Slot - Tau - now  \* mutant
Pause == Later(0, Slot - Tau - now)

Reserve ==
  /\ Len(booked) < Calls
  /\ tat' = Slot + Interval
  /\ booked' = Append(booked, now + Pause)
  /\ UNCHANGED now

Pass ==
  /\ now < Horizon
  /\ now' = now + 1
  /\ UNCHANGED <<tat, booked>>

Next == Reserve \/ Pass

Spec == Init /\ [][Next]_vars

-----------------------------------------------------------------------------

TypeOK == now \in Nat /\ tat \in Nat /\ booked \in Seq(Nat)

\* The rate: of any calls i .. j, in the order they took the gate, the last
\* starts late enough after the first for the calls between them, Burst of
\* which are free. So a window of length W starts at most Burst + W/Interval.
RateBound ==
  \A i, j \in 1..Len(booked) :
    i < j => booked[j] - booked[i] >= (j - i - Burst + 1) * Interval

\* What makes RateBound inductive: the next slot is past every start by the
\* calls made since.
Ahead ==
  /\ \A i \in 1..Len(booked) : tat >= booked[i] + (Len(booked) - i + 1) * Interval
  /\ RateBound

\* The gate is a token bucket: neither does it let a call start early nor
\* make one wait for longer than its token takes.
Bucket == INSTANCE TokenBucket WITH level <- Burst * Interval - Later(0, tat - now), starts <- booked
BucketSpec == Bucket!Spec
=============================================================================
