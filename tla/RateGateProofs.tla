--------------------------- MODULE RateGateProofs ---------------------------
(* The rate limit holds for every rate and burst, and the gate is a token  *)
(* bucket.                                                                 *)
EXTENDS RateGate, TLAPS

USE GateAssumption

\* One more slot after m of them.
LEMMA OneMore ==
  ASSUME NEW m \in Int PROVE (m + 1) * Interval = m * Interval + Interval
  OBVIOUS

\* A bucket holds one token more than the tolerance of the gate.
LEMMA Tolerance == Tau \in Nat /\ Burst * Interval = Tau + Interval
<1>1. Burst - 1 \in Nat
  OBVIOUS
<1>2. Burst * Interval = (Burst - 1) * Interval + Interval
  BY OneMore, <1>1
<1>3. \A a, b \in Nat : a * b \in Nat
  OBVIOUS
<1> QED
  BY <1>1, <1>2, <1>3 DEF Tau

LEMMA SlotRange ==
  ASSUME TypeOK
  PROVE Slot \in Nat /\ Slot >= tat /\ Slot >= now /\ Pause \in Nat /\ now + Pause >= Slot - Tau /\ now + Pause <= Slot
  BY Tolerance DEF TypeOK, Slot, Pause, Later

\* Every variable keeps its type.
LEMMA Typing == TypeOK /\ [Next]_vars => TypeOK'
<1> SUFFICES ASSUME TypeOK, [Next]_vars PROVE TypeOK'
  OBVIOUS
<1>1. CASE Reserve
  BY <1>1, SlotRange DEF TypeOK, Reserve
<1>2. CASE Pass
  BY <1>2 DEF TypeOK, Pass
<1>3. CASE UNCHANGED vars
  BY <1>3 DEF TypeOK, vars
<1> QED
  BY <1>1, <1>2, <1>3 DEF Next

\* A call that takes the gate after n others, of which call i was one.
LEMMA NextBooking ==
  ASSUME TypeOK, Reserve, NEW i \in 1..Len(booked),
         tat >= booked[i] + (Len(booked) - i + 1) * Interval
  PROVE /\ booked'[Len(booked) + 1] - booked[i] >= (Len(booked) + 1 - i - Burst + 1) * Interval
        /\ tat' >= booked[i] + (Len(booked) + 1 - i + 1) * Interval
<1> DEFINE n == Len(booked)  m == n - i + 1
<1>1. n \in Nat /\ m \in Nat /\ booked[i] \in Nat
  BY DEF TypeOK
<1>2. booked'[n + 1] = now + Pause
  BY DEF Reserve, TypeOK
<1>3. (m + 1) * Interval = m * Interval + Interval
  BY <1>1, OneMore
<1>4. (m - (Burst - 1)) * Interval = m * Interval - Tau
  BY <1>1 DEF Tau
<1>5. m * Interval \in Nat
  BY <1>1
<1>6. tat >= booked[i] + m * Interval
  OBVIOUS
<1>7. booked'[n + 1] - booked[i] >= m * Interval - Tau
  <2>1. now + Pause >= Slot - Tau /\ now + Pause \in Int
    BY SlotRange, Tolerance DEF TypeOK, Pause, Later
  <2>2. Slot - Tau >= tat - Tau /\ tat \in Nat /\ Slot \in Nat /\ Tau \in Nat
    BY SlotRange, Tolerance DEF TypeOK
  <2>3. now + Pause >= (booked[i] + m * Interval) - Tau
    BY <1>1, <1>5, <1>6, <2>1, <2>2
  <2> QED
    BY <1>1, <1>2, <1>5, <2>1, <2>2, <2>3
<1>8. tat' >= booked[i] + (m * Interval + Interval)
  <2>1. tat' = Slot + Interval /\ Slot \in Nat /\ Slot >= tat /\ tat \in Nat
    BY SlotRange DEF Reserve, TypeOK
  <2> QED
    BY <1>1, <1>5, <1>6, <2>1
<1>9. n + 1 - i - Burst + 1 = m - (Burst - 1) /\ n + 1 - i + 1 = m + 1
  BY <1>1
<1> QED
  BY <1>3, <1>4, <1>7, <1>8, <1>9

\* The rate of every stretch of calls, and what makes it inductive.
LEMMA AheadStep == TypeOK /\ Ahead /\ [Next]_vars => Ahead'
<1> SUFFICES ASSUME TypeOK, Ahead, [Next]_vars PROVE Ahead'
  OBVIOUS
<1>1. CASE Reserve
  <2> DEFINE n == Len(booked)
  <2>1. n \in Nat /\ Len(booked') = n + 1 /\ \A i \in 1..n : booked'[i] = booked[i]
    BY <1>1 DEF Reserve, TypeOK
  <2>2. \A i \in 1..n : tat' >= booked'[i] + (Len(booked') - i + 1) * Interval
    BY <1>1, <2>1, NextBooking DEF Ahead
  <2>3. tat' >= booked'[n + 1] + (Len(booked') - (n + 1) + 1) * Interval
    <3>1. booked'[n + 1] = now + Pause
      BY <1>1 DEF Reserve, TypeOK
    <3>2. (Len(booked') - (n + 1) + 1) * Interval = Interval
      BY <2>1
    <3> QED
      BY <1>1, <3>1, <3>2, SlotRange DEF Reserve, TypeOK
  <2>4. ASSUME NEW i \in 1..n, NEW j \in 1..n, i < j
        PROVE booked'[j] - booked'[i] >= (j - i - Burst + 1) * Interval
    BY <2>1, <2>4 DEF Ahead, RateBound
  <2>5. ASSUME NEW i \in 1..n
        PROVE booked'[n + 1] - booked'[i] >= (n + 1 - i - Burst + 1) * Interval
    BY <1>1, <2>1, NextBooking DEF Ahead
  <2>6. RateBound'
    <3> SUFFICES ASSUME NEW i \in 1..(n + 1), NEW j \in 1..(n + 1), i < j
                 PROVE booked'[j] - booked'[i] >= (j - i - Burst + 1) * Interval
      BY <2>1 DEF RateBound
    <3>1. CASE j = n + 1
      BY <2>1, <2>5, <3>1
    <3>2. CASE j # n + 1
      BY <2>1, <2>4, <3>2
    <3> QED
      BY <3>1, <3>2
  <2>7. \A i \in 1..(n + 1) : i \in 1..n \/ i = n + 1
    BY <2>1
  <2> QED
    BY <2>1, <2>2, <2>3, <2>6, <2>7 DEF Ahead
<1>2. CASE Pass
  BY <1>2 DEF Pass, Ahead, RateBound
<1>3. CASE UNCHANGED vars
  BY <1>3 DEF vars, Ahead, RateBound
<1> QED
  BY <1>1, <1>2, <1>3 DEF Next

\* Every variable keeps its type; above all, the arrival time of the next slot
\* (core.py: self._tat) and every reading and pause are instants, never
\* negative, however long the gate has been idle.
THEOREM TypeCorrect == Spec => []TypeOK
<1>1. Init => TypeOK
  BY DEF Init, TypeOK
<1> QED
  BY <1>1, Typing, PTL DEF Spec

\* The rate is kept: for every interval and burst, however the calls are
\* spread over time.
THEOREM RateKept == Spec => []RateBound
<1>1. Init => Ahead
  BY DEF Init, Ahead, RateBound
<1>2. Ahead => RateBound
  BY DEF Ahead
<1> QED
  BY <1>1, <1>2, TypeCorrect, AheadStep, PTL DEF Spec

\* _RateGate implements the token bucket: the level is what the burst
\* allowance has left after the slots booked ahead of the clock.
THEOREM GateIsBucket == Spec => BucketSpec
<1>1. Init => Bucket!Init
  BY DEF Init, Bucket!Init, Bucket!Capacity, Later
<1>2. TypeOK /\ [Next]_vars => [Bucket!Next]_(Bucket!vars)
  <2> SUFFICES ASSUME TypeOK, [Next]_vars PROVE [Bucket!Next]_(Bucket!vars)
    OBVIOUS
  <2> DEFINE level == Burst * Interval - Later(0, tat - now)
  <2>1. CASE Reserve
    <3>1. level' = level - Interval
      BY <2>1, Tolerance DEF Reserve, Slot, Later, TypeOK
    <3>2. now + Pause = IF level >= Interval THEN now ELSE now + (Interval - level)
      BY Tolerance DEF Pause, Slot, Later, TypeOK
    <3> QED
      BY <2>1, <3>1, <3>2 DEF Reserve, Bucket!Next, Bucket!Take
  <2>2. CASE Pass
    <3>1. level' = IF level < Burst * Interval THEN level + 1 ELSE level
      BY <2>2, Tolerance DEF Pass, Later, TypeOK
    <3> QED
      BY <2>2, <3>1 DEF Pass, Bucket!Next, Bucket!Pass, Bucket!Capacity
  <2>3. CASE UNCHANGED vars
    BY <2>3 DEF vars, Bucket!vars
  <2> QED
    BY <2>1, <2>2, <2>3 DEF Next
<1> QED
  BY <1>1, <1>2, TypeCorrect, PTL DEF Spec, BucketSpec, Bucket!Spec
=============================================================================
