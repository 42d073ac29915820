---------------------------- MODULE TokenBucket ----------------------------
(***************************************************************************)
(* What a rate limit means: a bucket of at most Burst tokens, filled at    *)
(* one token per Interval. Every call takes one; a call that finds less    *)
(* than a token starts when its token is complete. The level is counted in *)
(* clock ticks (a token is Interval of them) and is negative while calls   *)
(* wait.                                                                   *)
(***************************************************************************)
EXTENDS Integers, Sequences

CONSTANTS Interval, Burst

VARIABLES now, level, starts

vars == <<now, level, starts>>

Capacity == Burst * Interval

Init == now \in Nat /\ level = Capacity /\ starts = <<>>

Take ==
  /\ starts' = Append(starts, IF level >= Interval THEN now ELSE now + (Interval - level))
  /\ level' = level - Interval
  /\ UNCHANGED now

Pass ==
  /\ now' = now + 1
  /\ level' = IF level < Capacity THEN level + 1 ELSE level
  /\ UNCHANGED starts

Next == Take \/ Pass

Spec == Init /\ [][Next]_vars
=============================================================================
