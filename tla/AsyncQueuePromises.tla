------------------------ MODULE AsyncQueuePromises ------------------------
(***************************************************************************)
(* What run() and shutdown() of the asyncio engine promise when they       *)
(* return, for any tasks, callers, programs and options without reset().   *)
(***************************************************************************)
EXTENDS AsyncQueueProofs

-----------------------------------------------------------------------------
(* Items of a sequence                                                     *)

Has(s, x) == \E i \in 1..Len(s) : s[i] = x
Unique(s, x) == \A i, j \in 1..Len(s) : s[i] = x /\ s[j] = x => i = j

\* What two sequences have, put together.
LEMMA HasBoth ==
  ASSUME NEW S, NEW s \in Seq(S), NEW q \in Seq(S), NEW x
  PROVE  /\ s \o q \in Seq(S)
         /\ Has(s \o q, x) <=> Has(s, x) \/ Has(q, x)
         /\ Unique(s, x) /\ Unique(q, x) /\ ~(Has(s, x) /\ Has(q, x)) => Unique(s \o q, x)
<1> DEFINE r == s \o q
<1>1. /\ Len(s) \in Nat /\ Len(q) \in Nat /\ r \in Seq(S) /\ Len(r) = Len(s) + Len(q)
      /\ \A i \in 1..Len(s) + Len(q) : r[i] = IF i <= Len(s) THEN s[i] ELSE q[i - Len(s)]
  BY ConcatProperties
<1> HIDE DEF r
<1>2. /\ \A i \in 1..Len(s) : i \in 1..Len(r) /\ r[i] = s[i]
      /\ \A i \in 1..Len(q) : i + Len(s) \in 1..Len(r) /\ r[i + Len(s)] = q[i]
      /\ \A i \in 1..Len(r) : (i \in 1..Len(s) /\ r[i] = s[i]) \/ (i - Len(s) \in 1..Len(q) /\ r[i] = q[i - Len(s)])
  <2>1. \A i \in 1..Len(s) : i \in 1..Len(r) /\ r[i] = s[i]
    BY <1>1
  <2>2. ASSUME NEW i \in 1..Len(q) PROVE i + Len(s) \in 1..Len(r) /\ r[i + Len(s)] = q[i]
    <3>1. i + Len(s) \in 1..Len(s) + Len(q) /\ ~(i + Len(s) <= Len(s)) /\ (i + Len(s)) - Len(s) = i
      BY <1>1
    <3> QED BY <1>1, <3>1
  <2>3. ASSUME NEW i \in 1..Len(r) PROVE (i \in 1..Len(s) /\ r[i] = s[i]) \/ (i - Len(s) \in 1..Len(q) /\ r[i] = q[i - Len(s)])
    BY <1>1
  <2> QED BY <2>1, <2>2, <2>3
<1>3. Has(r, x) <=> Has(s, x) \/ Has(q, x)
  <2>1. ASSUME Has(r, x) PROVE Has(s, x) \/ Has(q, x)
    BY <1>2, <2>1 DEF Has
  <2>2. ASSUME Has(s, x) PROVE Has(r, x)
    BY <1>2, <2>2 DEF Has
  <2>3. ASSUME Has(q, x) PROVE Has(r, x)
    BY <1>2, <2>3 DEF Has
  <2> QED BY <2>1, <2>2, <2>3
<1>4. ASSUME Unique(s, x), Unique(q, x), ~(Has(s, x) /\ Has(q, x)) PROVE Unique(r, x)
  <2> SUFFICES ASSUME NEW i \in 1..Len(r), NEW j \in 1..Len(r), r[i] = x, r[j] = x PROVE i = j
    BY DEF Unique
  <2>1. CASE ~Has(q, x)
    <3>1. i \in 1..Len(s) /\ j \in 1..Len(s) /\ s[i] = x /\ s[j] = x
      BY <1>2, <2>1 DEF Has
    <3> QED BY <1>4, <3>1 DEF Unique
  <2>2. CASE ~Has(s, x)
    <3>1. i - Len(s) \in 1..Len(q) /\ j - Len(s) \in 1..Len(q) /\ q[i - Len(s)] = x /\ q[j - Len(s)] = x
      BY <1>2, <2>2 DEF Has
    <3>2. i - Len(s) = j - Len(s)
      BY <1>4, <3>1 DEF Unique
    <3> QED BY <1>1, <3>2
  <2> QED BY <1>4, <2>1, <2>2
<1> QED BY <1>1, <1>3, <1>4 DEF r

\* What is left without the head.
LEMMA HasTail ==
  ASSUME NEW S, NEW s \in Seq(S), s # <<>>, NEW x
  PROVE  /\ Tail(s) \in Seq(S)
         /\ Head(s) # x => (Has(Tail(s), x) <=> Has(s, x))
         /\ Head(s) = x => Has(s, x) /\ (Unique(s, x) => ~Has(Tail(s), x))
         /\ Unique(s, x) => Unique(Tail(s), x)
<1> DEFINE t == Tail(s)
<1>1. /\ Len(s) \in Nat /\ Head(s) = s[1] /\ 1 \in 1..Len(s) /\ t \in Seq(S)
      /\ \A i \in 1..Len(t) : i + 1 \in 1..Len(s) /\ t[i] = s[i + 1]
      /\ \A i \in 1..Len(s) : i # 1 => i - 1 \in 1..Len(t) /\ s[i] = t[i - 1]
  BY HeadTailProperties, EmptySeq
<1>2. \A i \in 1..Len(t) : i \in Nat /\ i + 1 # 1
  BY <1>1
<1> HIDE DEF t
<1>3. ASSUME Head(s) # x PROVE Has(t, x) <=> Has(s, x)
  <2>1. ASSUME Has(t, x) PROVE Has(s, x)
    BY <1>1, <2>1 DEF Has
  <2>2. ASSUME Has(s, x) PROVE Has(t, x)
    <3>1. PICK i \in 1..Len(s) : s[i] = x
      BY <2>2 DEF Has
    <3>2. i # 1
      BY <1>1, <1>3, <3>1
    <3> QED BY <1>1, <3>1, <3>2 DEF Has
  <2> QED BY <2>1, <2>2
<1>4. ASSUME Head(s) = x PROVE Has(s, x) /\ (Unique(s, x) => ~Has(t, x))
  <2>1. Has(s, x)
    BY <1>1, <1>4 DEF Has
  <2>2. ASSUME Unique(s, x), Has(t, x) PROVE FALSE
    <3>1. PICK i \in 1..Len(t) : t[i] = x
      BY <2>2 DEF Has
    <3>2. i + 1 \in 1..Len(s) /\ s[i + 1] = x /\ s[1] = x /\ i + 1 # 1
      BY <1>1, <1>2, <1>4, <3>1
    <3> QED BY <1>1, <2>2, <3>2 DEF Unique
  <2> QED BY <2>1, <2>2
<1>5. ASSUME Unique(s, x) PROVE Unique(t, x)
  <2> SUFFICES ASSUME NEW i \in 1..Len(t), NEW j \in 1..Len(t), t[i] = x, t[j] = x PROVE i = j
    BY DEF Unique
  <2>1. i + 1 \in 1..Len(s) /\ j + 1 \in 1..Len(s) /\ s[i + 1] = x /\ s[j + 1] = x
    BY <1>1
  <2>2. i + 1 = j + 1
    BY <1>5, <2>1 DEF Unique
  <2> QED BY <1>2, <2>2
<1> QED BY <1>1, <1>3, <1>4, <1>5 DEF t

\* What is left when one item is taken out.
LEMMA HasWithout ==
  ASSUME NEW S, NEW s \in Seq(S), NEW y
  PROVE  /\ Without(s, y) \in Seq(S)
         /\ \A x : x # y => (Has(Without(s, y), x) <=> Has(s, x))
         /\ Unique(s, y) => ~Has(Without(s, y), y)
         /\ \A x : Unique(s, x) => Unique(Without(s, y), x)
<1> DEFINE t == Without(s, y)
<1>1. CASE \E i \in 1..Len(s) : s[i] = y
  <2>1. PICK k \in 1..Len(s) : t = SubSeq(s, 1, k - 1) \o SubSeq(s, k + 1, Len(s)) /\ s[k] = y
    BY <1>1 DEF Without, RemoveAt
  <2> DEFINE a == SubSeq(s, 1, k - 1)  b == SubSeq(s, k + 1, Len(s))
  <2>0. Len(s) \in Nat /\ k \in Nat
    OBVIOUS
  <2>2. a \in Seq(S) /\ Len(a) = k - 1 /\ \A i \in 1..k - 1 : a[i] = s[i]
    BY <2>0, SubSeqProperties
  <2>3. b \in Seq(S) /\ Len(b) = Len(s) - k /\ \A i \in 1..Len(s) - k : b[i] = s[k + i]
    BY <2>0, SubSeqProperties
  <2>4. t = a \o b
    BY <2>1
  <2> HIDE DEF a, b, t
  <2>5. /\ t \in Seq(S) /\ Len(t) = Len(a) + Len(b)
        /\ \A i \in 1..Len(a) + Len(b) : t[i] = IF i <= Len(a) THEN a[i] ELSE b[i - Len(a)]
    BY <2>2, <2>3, <2>4, ConcatProperties
  <2>6. Len(t) = Len(s) - 1
    BY <2>0, <2>2, <2>3, <2>5
  <2>7. ASSUME NEW i \in 1..Len(s) - 1 PROVE t[i] = IF i < k THEN s[i] ELSE s[i + 1]
    <3>1. CASE i < k
      <4>1. i <= Len(a) /\ i \in 1..Len(a) + Len(b) /\ i \in 1..k - 1
        BY <2>0, <2>2, <2>3, <3>1
      <4> QED BY <2>2, <2>5, <3>1, <4>1
    <3>2. CASE ~(i < k)
      <4>1. ~(i <= Len(a)) /\ i \in 1..Len(a) + Len(b) /\ i - Len(a) \in 1..Len(s) - k /\ k + (i - Len(a)) = i + 1
        BY <2>0, <2>2, <2>3, <3>2
      <4> QED BY <2>3, <2>5, <3>2, <4>1
    <3> QED BY <3>1, <3>2
  <2> DEFINE at(i) == IF i < k THEN i ELSE i + 1
  <2>8. \A i \in 1..Len(t) : at(i) \in 1..Len(s) /\ t[i] = s[at(i)] /\ at(i) # k
    BY <2>0, <2>6, <2>7
  <2>9. \A i, j \in 1..Len(t) : at(i) = at(j) => i = j
    BY <2>0, <2>6
  <2>10. \A i \in 1..Len(s) : i # k => \E j \in 1..Len(t) : t[j] = s[i]
    <3> SUFFICES ASSUME NEW i \in 1..Len(s), i # k PROVE \E j \in 1..Len(t) : t[j] = s[i]
      OBVIOUS
    <3>1. CASE i < k
      <4>1. i \in 1..Len(s) - 1
        BY <2>0, <3>1
      <4>2. t[i] = s[i]
        BY <2>7, <3>1, <4>1
      <4> QED BY <2>6, <4>1, <4>2
    <3>2. CASE ~(i < k)
      <4>1. i - 1 \in 1..Len(s) - 1 /\ ~(i - 1 < k) /\ (i - 1) + 1 = i
        BY <2>0, <3>2
      <4>2. t[i - 1] = s[i]
        BY <2>7, <4>1
      <4> QED BY <2>6, <4>1, <4>2
    <3> QED BY <3>1, <3>2
  <2> HIDE DEF at
  <2>11. ASSUME NEW x, x # y PROVE Has(t, x) <=> Has(s, x)
    <3>1. ASSUME Has(t, x) PROVE Has(s, x)
      BY <2>8, <3>1 DEF Has
    <3>2. ASSUME Has(s, x) PROVE Has(t, x)
      <4>1. PICK i \in 1..Len(s) : s[i] = x
        BY <3>2 DEF Has
      <4>2. i # k
        BY <2>1, <2>11, <4>1
      <4> QED BY <2>10, <4>1, <4>2 DEF Has
    <3> QED BY <3>1, <3>2
  <2>12. ASSUME Unique(s, y), Has(t, y) PROVE FALSE
    <3>1. PICK i \in 1..Len(t) : t[i] = y
      BY <2>12 DEF Has
    <3>2. at(i) \in 1..Len(s) /\ s[at(i)] = y /\ at(i) # k
      BY <2>8, <3>1
    <3> QED BY <2>1, <2>12, <3>2 DEF Unique
  <2>13. ASSUME NEW x, Unique(s, x) PROVE Unique(t, x)
    <3> SUFFICES ASSUME NEW i \in 1..Len(t), NEW j \in 1..Len(t), t[i] = x, t[j] = x PROVE i = j
      BY DEF Unique
    <3>1. at(i) \in 1..Len(s) /\ at(j) \in 1..Len(s) /\ s[at(i)] = x /\ s[at(j)] = x
      BY <2>8
    <3>2. at(i) = at(j)
      BY <2>13, <3>1 DEF Unique
    <3> QED BY <2>9, <3>2
  <2> QED BY <2>5, <2>11, <2>12, <2>13 DEF t
<1>2. CASE ~\E i \in 1..Len(s) : s[i] = y
  BY <1>2 DEF Without, Has
<1> QED BY <1>1, <1>2

-----------------------------------------------------------------------------
(* What tells callers                                                      *)

\* The items that resume a caller, or tell the callers that gather a worker.
Signals == ({"caller"} \X Callers) \cup ({"joined"} \X Workers)
Calls(D) == {<<"caller", c>> : c \in D}
\* A part s of the loop holds the signals V, each once.
Tells(s, V) == s \in Seq(LoopItem) /\ \A x \in Signals : Unique(s, x) /\ (Has(s, x) <=> x \in V)
Told == {x \in Signals : Posted(x)}
\* The step takes the signals gone from the loop, and puts U.
Sends(gone, U) == Tells(loop', (Told \ gone) \cup U)

\* Two parts with different signals, put together, hold both.
LEMMA TellsBoth ==
  ASSUME NEW s, NEW V, Tells(s, V), NEW q, NEW U, Tells(q, U), V \cap U = {}
  PROVE  Tells(s \o q, V \cup U)
<1>1. s \in Seq(LoopItem) /\ q \in Seq(LoopItem)
  BY DEF Tells
<1>2. s \o q \in Seq(LoopItem)
  BY <1>1, HasBoth
<1>3. ASSUME NEW x \in Signals PROVE Unique(s \o q, x) /\ (Has(s \o q, x) <=> x \in V \cup U)
  <2>1. /\ Has(s \o q, x) <=> Has(s, x) \/ Has(q, x)
        /\ Unique(s, x) /\ Unique(q, x) /\ ~(Has(s, x) /\ Has(q, x)) => Unique(s \o q, x)
    BY <1>1, HasBoth
  <2>2. Unique(s, x) /\ Unique(q, x) /\ (Has(s, x) <=> x \in V) /\ (Has(q, x) <=> x \in U)
    BY DEF Tells
  <2> QED BY <2>1, <2>2
<1> QED BY <1>2, <1>3 DEF Tells

\* The rest of a part holds what its head is not.
LEMMA TellsTail == ASSUME NEW s, NEW V, Tells(s, V), s # <<>> PROVE Tells(Tail(s), V \ {Head(s)})
<1>1. s \in Seq(LoopItem)
  BY DEF Tells
<1>2. Tail(s) \in Seq(LoopItem)
  BY <1>1
<1>3. ASSUME NEW x \in Signals PROVE Unique(Tail(s), x) /\ (Has(Tail(s), x) <=> x \in V \ {Head(s)})
  <2>1. /\ Head(s) # x => (Has(Tail(s), x) <=> Has(s, x))
        /\ Head(s) = x => Has(s, x) /\ (Unique(s, x) => ~Has(Tail(s), x))
        /\ Unique(s, x) => Unique(Tail(s), x)
    BY <1>1, HasTail
  <2>2. Unique(s, x) /\ (Has(s, x) <=> x \in V)
    BY DEF Tells
  <2> QED BY <2>1, <2>2
<1> QED BY <1>2, <1>3 DEF Tells

\* A part with no signal among its items.
LEMMA TellsNobody == ASSUME NEW q \in Seq(LoopItem), \A i \in 1..Len(q) : q[i] \notin Signals PROVE Tells(q, {})
BY DEF Tells, Unique, Has

\* Nothing tells nobody; so do items for workers, runners and timers.
LEMMA TellsNothing == Tells(<<>>, {})
BY DEF Tells, Unique, Has

\* A part of the loop with items of another kind only.
LEMMA TellsOthers ==
  ASSUME NEW kind, NEW S, {kind} \X S \subseteq LoopItem, kind \notin {"caller", "joined"}, NEW q \in Seq({kind} \X S)
  PROVE  Tells(q, {})
<1>1. q \in Seq(LoopItem)
  OBVIOUS
<1>2. \A i \in 1..Len(q) : q[i] \notin Signals
  <2>1. ASSUME NEW i \in 1..Len(q) PROVE q[i] \notin Signals
    <3>1. q[i] \in {kind} \X S
      OBVIOUS
    <3>2. q[i][1] = kind
      BY <3>1
    <3>3. \A x \in Signals : x[1] \in {"caller", "joined"}
      BY DEF Signals
    <3> QED BY <3>2, <3>3
  <2> QED BY <2>1
<1> QED BY <1>1, <1>2, TellsNobody

\* The items of one such kind for the elements of a sequence.
LEMMA TellsItems ==
  ASSUME NEW kind, NEW S, {kind} \X S \subseteq LoopItem, kind \notin {"caller", "joined"}, NEW s \in Seq(S)
  PROVE  Tells(Items(kind, s), {})
<1>1. Items(kind, s) \in Seq({kind} \X S)
  BY DEF Items
<1> QED BY <1>1, TellsOthers

\* Callers that are resumed, each once: those asleep, in their order.
LEMMA TellsSleepers ==
  ASSUME NEW s \in Seq(Callers), \A c \in Callers : Unique(s, c)
  PROVE  Tells(Items("caller", s), Calls({c \in Callers : Has(s, c)}))
<1> DEFINE q == Items("caller", s)
<1>1. q \in Seq(LoopItem) /\ Len(q) = Len(s) /\ \A i \in 1..Len(s) : q[i] = <<"caller", s[i]>>
  BY DEF Items, LoopItem
<1>2. \A i \in 1..Len(s) : s[i] \in Callers
  OBVIOUS
<1> HIDE DEF q
<1>3. ASSUME NEW x \in Signals PROVE Unique(q, x) /\ (Has(q, x) <=> x \in Calls({c \in Callers : Has(s, c)}))
  <2>1. CASE x \in {"caller"} \X Callers
    <3>1. PICK c \in Callers : x = <<"caller", c>>
      BY <2>1
    <3>2. \A i \in 1..Len(q) : q[i] = x <=> s[i] = c
      BY <1>1, <3>1
    <3>3. Unique(q, x) /\ (Has(q, x) <=> Has(s, c))
      BY <1>1, <3>2 DEF Unique, Has
    <3>4. x \in Calls({d \in Callers : Has(s, d)}) <=> Has(s, c)
      BY <3>1 DEF Calls
    <3> QED BY <3>3, <3>4
  <2>2. CASE x \in {"joined"} \X Workers
    <3>1. x[1] = "joined"
      BY <2>2
    <3>2. \A i \in 1..Len(q) : q[i] # x
      BY <1>1, <3>1
    <3>3. Unique(q, x) /\ ~Has(q, x)
      BY <3>2 DEF Unique, Has
    <3>4. x \notin Calls({c \in Callers : Has(s, c)})
      BY <3>1 DEF Calls
    <3> QED BY <3>3, <3>4
  <2> QED BY <2>1, <2>2 DEF Signals
<1> QED BY <1>1, <1>3 DEF Tells, q

\* Those of a set, in some order.
LEMMA TellsSet == ASSUME NEW D \in SUBSET Callers PROVE Tells(SetToSeq({<<"caller", c>> : c \in D}), Calls(D))
<1> DEFINE q == SetToSeq({<<"caller", c>> : c \in D})
<1>1. IsFiniteSet(D)
  BY CallersAssumption, FS_Subset
<1>2. /\ q \in Seq({"caller"} \X D)
      /\ \A i, j \in 1..Len(q) : q[i] = q[j] => i = j
      /\ \A d \in D : \E i \in 1..Len(q) : q[i] = <<"caller", d>>
  BY <1>1, PairSeq
<1> HIDE DEF q
<1>3. q \in Seq(LoopItem)
  BY <1>2 DEF LoopItem
<1>4. ASSUME NEW x \in Signals PROVE Unique(q, x) /\ (Has(q, x) <=> x \in Calls(D))
  <2>1. Unique(q, x)
    BY <1>2 DEF Unique
  <2>2. ASSUME Has(q, x) PROVE x \in Calls(D)
    <3>1. PICK i \in 1..Len(q) : q[i] = x
      BY <2>2 DEF Has
    <3>2. q[i] \in {"caller"} \X D
      BY <1>2
    <3> QED BY <3>1, <3>2 DEF Calls
  <2>3. ASSUME x \in Calls(D) PROVE Has(q, x)
    BY <1>2, <2>3 DEF Calls, Has
  <2> QED BY <2>1, <2>2, <2>3
<1> QED BY <1>3, <1>4 DEF Tells, q

\* One signal.
LEMMA TellsOne == ASSUME NEW x \in Signals PROVE Tells(<<x>>, {x})
<1>1. <<x>> \in Seq(LoopItem) /\ Len(<<x>>) = 1 /\ <<x>>[1] = x
  BY DEF Signals, LoopItem
<1> QED BY <1>1 DEF Tells, Unique, Has

\* Parts that tell nobody, put together, tell nobody.
LEMMA TellsNone == ASSUME NEW s, Tells(s, {}), NEW q, Tells(q, {}) PROVE Tells(s \o q, {})
<1>1. Tells(s \o q, {} \cup {})
  BY TellsBoth
<1> QED BY <1>1

\* What the loop holds after a step whose head goes on, or leaves; after an
\* item is put, or a cancelled timer is taken out.
LEMMA SendsStay ==
  ASSUME Tells(loop, Told), NEW q, NEW U, Tells(q, U), Stay(q), Told \cap U = {}
  PROVE  Sends({}, U)
<1>1. Tells(loop \o q, Told \cup U)
  BY TellsBoth
<1>2. Told \ {} = Told
  OBVIOUS
<1> QED BY <1>1, <1>2 DEF Sends, Stay

\* The head goes, with or without a successor.
LEMMA SendsLeave ==
  ASSUME Tells(loop, Told), loop # <<>>, NEW q, NEW U, Tells(q, U), Leave(q), (Told \ {Head(loop)}) \cap U = {}
  PROVE  Sends({Head(loop)}, U)
<1>1. Tells(Tail(loop), Told \ {Head(loop)})
  BY TellsTail
<1>2. Tells(Tail(loop) \o q, (Told \ {Head(loop)}) \cup U)
  BY <1>1, TellsBoth
<1> QED BY <1>2 DEF Sends, Leave

\* An item that is no signal is posted.
LEMMA SendsPost ==
  ASSUME Tells(loop, Told), NEW x \in LoopItem, Post(x), NEW U, Tells(<<x>>, U), Told \cap U = {}
  PROVE  Sends({}, U)
<1>1. loop' = loop \o <<x>>
  BY AppendIsConcat DEF Post, Tells
<1> QED BY <1>1, SendsStay DEF Stay

\* A timer of a caller is taken off the loop.
LEMMA SendsWithout ==
  ASSUME Tells(loop, Told), NEW c, loop' = Without(loop, <<"timeout", c>>)
  PROVE  Sends({}, {})
<1> DEFINE y == <<"timeout", c>>
<1>1. \A x \in Signals : x # y
  BY DEF Signals
<1> HIDE DEF y
<1>2. loop \in Seq(LoopItem) /\ loop' = Without(loop, y)
  BY DEF Tells, y
<1>3. /\ Without(loop, y) \in Seq(LoopItem)
      /\ \A x : x # y => (Has(Without(loop, y), x) <=> Has(loop, x))
      /\ \A x : Unique(loop, x) => Unique(Without(loop, y), x)
  BY <1>2, HasWithout
<1>4. Tells(Without(loop, y), Told)
  BY <1>1, <1>3 DEF Tells
<1>5. (Told \ {}) \cup {} = Told
  OBVIOUS
<1> QED BY <1>2, <1>4, <1>5 DEF Sends

\* The loop holds what was left and what was put, each signal once.
LEMMA ToldNow ==
  ASSUME NEW gone, NEW U \in SUBSET Signals, Sends(gone, U)
  PROVE  /\ Told' = (Told \ gone) \cup U
         /\ \A x \in Signals : Unique(loop', x)
         /\ Tells(loop, Told)'
<1>1. \A x \in Signals : Unique(loop', x) /\ (Has(loop', x) <=> x \in (Told \ gone) \cup U)
  BY DEF Sends, Tells
<1>2. Told' = {x \in Signals : Has(loop', x)}
  BY DEF Told, Posted, Has, Signals, Workers
<1>3. Told' = (Told \ gone) \cup U
  BY <1>1, <1>2 DEF Told
<1>4. Signals' = Signals /\ LoopItem' = LoopItem
  BY DEF Signals, Workers, LoopItem
<1>5. Tells(loop', Told')
  BY <1>3 DEF Sends
<1> QED BY <1>1, <1>3, <1>4, <1>5 DEF Tells, Unique, Has, LoopItem, Signals, Workers

-----------------------------------------------------------------------------
(* The invariant                                                           *)

\* Nothing without a result but what died unborn.
Done == \A t \in Tasks \ unborn : ~Live(t)
\* Of the tasks c's call is about, likewise.
Settled(c) == \A t \in covered[c] \ unborn : ~Live(t)

Sleeping(c) == Has(sleepers, c)
Asleep == {"run.wait", "run.resting", "join.resting", "down.resting"}

\* Every signal is on the loop once. A caller asleep on the event, or waiting
\* for workers, is there once and has not been resumed; and a worker whose end
\* is on its way to a caller that waits for it has ended.
Loops ==
  /\ Tells(loop, Told)
  /\ \A c \in Callers : /\ Unique(sleepers, c)
                        /\ Sleeping(c) => pc[c] \in Asleep /\ <<"caller", c>> \notin Told /\ (pc[c] = "run.wait" => Mode = "finite")
                        /\ snap[c] # {} => pc[c] \in Gather /\ <<"caller", c>> \notin Told
  /\ \A w \in Workers : <<"joined", w>> \in Told => job[w] = "none" /\ \E c \in Callers : w \in snap[c]

\* Only a queue that has started has workers.
Manned == registered # {} => started

\* A worker that has a runner is registered, and known to whoever gathers; so
\* is one in its loop, unless nothing is left to do. Somebody awaits a runner
\* whose attempts go on.
Teams ==
  /\ \A w \in Workers : /\ job[w] \in Tasks => w \in registered
                        /\ job[w] = "get" => w \in registered \/ Spent
                        /\ \A c \in Callers : pc[c] \in Gather =>
                             (job[w] \in Tasks => w \in snap[c]) /\ (job[w] = "get" => w \in snap[c] \/ Spent)
  /\ Manned
  /\ \A t \in Tasks : Active(t) => \E w \in Workers : job[w] = t

\* What a caller of shutdown() has reached.
DownOK(c) ==
  /\ pc[c] \in {"down.rest", "down.resting", "down.halt", "down.stop", "down.gather", "down.end"} => ~accepting
  /\ pc[c] = "down.resting" => Sleeping(c) \/ Spent
  /\ pc[c] \in {"down.halt", "down.stop", "down.gather", "down.end"} => Spent
  /\ pc[c] = "down.end" => Done
\* A closed queue admits nothing and has nothing left to do.
Shut == /\ closed => Done /\ ~accepting
        /\ wake => closed
Downs ==
  /\ \A c \in Callers : DownOK(c)
  /\ closed => Spent /\ Done
  /\ wake => closed
  /\ ~bound => ~started /\ \A w \in Workers : job[w] = "none"

\* What a caller of run() has reached.
RunOK(c) ==
  /\ \A t \in covered[c] : t \in Tasks /\ st[t] # "new"
  /\ c \in expired => pc[c] = "run.wait"
  /\ pc[c] \in {"run.stop", "run.gather", "run.end"} => Settled(c)
  /\ pc[c] = "run.resting" => Sleeping(c) \/ Settled(c)
  /\ pc[c] = "run.wait" => \/ c \in expired
                           \/ Mode = "finite" /\ (Sleeping(c) \/ Settled(c))
                           \/ Mode = "infinite" /\ (<<"caller", c>> \in Told => closed)
\* Where a caller may be.
Points ==
  {"idle", "run.go", "run.wait", "run.rest", "run.resting", "run.stop", "run.gather", "run.end", "join.rest", "join.resting",
   "down.rest", "down.resting", "down.halt", "down.stop", "down.gather", "down.end"}
Shapes == pc \in [Callers -> Points] /\ snap \in [Callers -> SUBSET Workers] /\ covered \in [Callers -> SUBSET Tasks]

\* The inductive invariant.
PInv == WInv /\ Accounting /\ Counted /\ Shapes /\ Loops /\ Teams /\ Downs /\ \A c \in Callers : RunOK(c)

-----------------------------------------------------------------------------
(* What the operations append                                              *)

\* The step resumes the callers asleep if there is nothing outstanding any
\* more; or a closed queue resumes the callers of run().
Rouses(U) ==
  \/ U = {} /\ sleepers' = sleepers
  \/ U = Calls({c \in Callers : Sleeping(c)}) /\ sleepers' = <<>> /\ idle'
  \/ /\ U \subseteq Calls({c \in Callers : pc[c] = "run.wait"}) /\ Told \cap U = {}
     /\ Mode = "infinite" /\ sleepers' = sleepers /\ closed'

\* Getters woken, workers created, runners cancelled and workers whose runner
\* ends are no callers.
LEMMA WokenT == ASSUME WInv, NEW n \in Nat PROVE Tells(Woken(n), {})
<1>1. getters \in Seq(Workers) /\ Wakes(n) \in Nat /\ Wakes(n) <= Len(getters)
  BY DEF WInv, Pool, Wakes
<1>2. SubSeq(getters, 1, Wakes(n)) \in Seq(Workers)
  BY <1>1, SubSeqProperties
<1> QED BY <1>2, TellsItems, Kinds DEF Woken

\* Runners that are cancelled.
LEMMA InterruptedT == ASSUME WInv, NEW S PROVE Tells(Interrupted(S), {})
<1> DEFINE K == {t \in S : Interruptible(t) /\ ~Posted(<<"runner", t>>)}
<1>1. Only(runners, K) \in Seq(Tasks \cap K)
  BY OnlyTyped DEF WInv, Rest
<1>2. Only(runners, K) \in Seq(Tasks)
  <2> HIDE DEF K
  <2>1. Tasks \cap K \subseteq Tasks
    OBVIOUS
  <2> QED BY <1>1, <2>1, SeqMonotonic
<1> HIDE DEF K
<1> QED BY <1>2, TellsItems, Kinds DEF Interrupted, K

\* Workers whose runner is over.
LEMMA WakeWorkerT == ASSUME NEW t PROVE Tells(WakeWorker(t), {})
<1>1. Awaiting(t) \subseteq Workers /\ IsFiniteSet(Awaiting(t))
  BY WorkersFinite, FS_Subset DEF Awaiting
<1>2. SetToSeq({<<"worker", w>> : w \in Awaiting(t)}) \in Seq({"worker"} \X Awaiting(t))
  BY <1>1, PairSeq
<1>3. {"worker"} \X Awaiting(t) \subseteq LoopItem
  BY <1>1, Kinds
<1> QED BY <1>2, <1>3, TellsOthers DEF WakeWorker

\* What an admission wakes and creates.
LEMMA EnqueueT == ASSUME WInv, NEW t PROVE Tells(EnqueueItems(t), {})
<1>1. Tells(Items("worker", NewWorkers(t)), {})
  BY NewFree, TellsItems, Kinds
<1>2. Tells(IF t \in Scheduled THEN <<>> ELSE Woken(1), {})
  BY TellsNothing, WokenT
<1> QED BY <1>1, <1>2, TellsNone DEF EnqueueItems

\* A record resumes the callers asleep, or nobody.
LEMMA ResumedT ==
  ASSUME WInv, Accounting, Loops, NEW done \in SUBSET Tasks, NEW cut \in SUBSET Tasks, NEW o, Record(done, o, cut)
  PROVE  \E U : Tells(Resumed(Cardinality(done \cup cut)), U) /\ Rouses(U)
<1> DEFINE n == Cardinality(done \cup cut)
           D == {c \in Callers : Sleeping(c)}
<1>1. n \in Nat /\ (n > 0 <=> done \cup cut # {})
  <2>1. IsFiniteSet(done \cup cut)
    BY TasksAssumption, FS_Subset, FS_Union
  <2> QED BY <2>1, FS_CardinalityType, FS_EmptySet
<1>2. outstanding' = outstanding - n /\ idle' = (idle \/ (done \cup cut # {} /\ outstanding' <= 0))
      /\ sleepers' = IF idle' THEN <<>> ELSE sleepers
  BY DEF Record
<1> HIDE DEF n
<1>3. CASE sleepers = <<>>
  <2>1. Items("caller", <<>>) = <<>>
    BY DEF Items
  <2>2. Resumed(n) = <<>> /\ sleepers' = sleepers
    BY <1>2, <1>3, <2>1 DEF Resumed
  <2> QED BY <2>2, TellsNothing DEF Rouses, n
<1>4. CASE sleepers # <<>>
  <2>1. ~idle /\ sleepers \in Seq(Callers) /\ \A c \in Callers : Unique(sleepers, c)
    BY <1>4 DEF Accounting, WInv, Rest, Loops
  <2>2. CASE n > 0 /\ outstanding - n <= 0
    <3>1. idle' /\ sleepers' = <<>> /\ Resumed(n) = Items("caller", sleepers)
      BY <1>1, <1>2, <2>2 DEF Resumed
    <3>2. Tells(Resumed(n), Calls(D))
      BY <2>1, <3>1, TellsSleepers DEF Sleeping
    <3> QED BY <3>1, <3>2 DEF Rouses, n
  <2>3. CASE ~(n > 0 /\ outstanding - n <= 0)
    <3>1. ~idle' /\ sleepers' = sleepers /\ Resumed(n) = <<>>
      BY <1>1, <1>2, <2>1, <2>3 DEF Resumed
    <3> QED BY <3>1, TellsNothing DEF Rouses, n
  <2> QED BY <2>2, <2>3
<1> QED BY <1>3, <1>4

\* So does an abort, and the cancellation of a task.
LEMMA AbortT ==
  ASSUME WInv, Accounting, Loops, NEW done \in SUBSET Tasks, NEW o, NEW kill, Abort(kill, done, o)
  PROVE  \E U : Tells(AbortItems(kill, done), U) /\ Rouses(U)
<1>1. CutBy(kill) \in SUBSET Tasks
  BY DEF CutBy, Unspared
<1>2. PICK U : Tells(Resumed(Cardinality(done \cup CutBy(kill))), U) /\ Rouses(U)
  BY <1>1, ResumedT DEF Abort
<1>3. Tells(Woken(Kept(kill)), {})
  BY AbortQ, WokenT
<1>4. Tells(Resumed(Cardinality(done \cup CutBy(kill))) \o Woken(Kept(kill)), U \cup {})
  BY <1>2, <1>3, TellsBoth
<1>5. Tells(AbortItems(kill, done), (U \cup {}) \cup {})
  BY <1>4, InterruptedT, TellsBoth DEF AbortItems
<1> QED BY <1>2, <1>5

\* A cancellation resumes who sleeps, if it takes the last task.
LEMMA CancelT ==
  ASSUME WInv, Accounting, Loops, NEW t \in Tasks, CancelLocal(t)
  PROVE  \E U : Tells(CancelItems(t), U) /\ Rouses(U)
<1>1. CASE t \in Running
  BY <1>1, InterruptedT DEF CancelItems, CancelLocal, count, Rouses
<1>2. CASE t \notin Running
  <2> DEFINE cut == {t} \cap (ready \cup timers \cup dormant)
             n == Cardinality({} \cup cut)
             b == IF t \in timers \cup dormant THEN <<>> ELSE Woken(Cardinality(ready \ {t}) + stops)
  <2>1. n = IF Live(t) /\ t \in ready \cup timers \cup dormant THEN 1 ELSE 0
    <3>1. CASE t \in ready \cup timers \cup dormant
      <4>1. {} \cup cut = {t} /\ Live(t)
        BY <3>1, QueuedLive DEF WInv, LiveTasks
      <4> QED BY <3>1, <4>1, FS_Singleton
    <3>2. CASE t \notin ready \cup timers \cup dormant
      <4>1. {} \cup cut = {}
        BY <3>2
      <4> QED BY <3>2, <4>1, FS_EmptySet
    <3> QED BY <3>1, <3>2
  <2>2. CancelItems(t) = Resumed(n) \o b
    BY <1>2, <2>1 DEF CancelItems
  <2>3. PICK U : Tells(Resumed(n), U) /\ Rouses(U)
    BY <1>2, ResumedT DEF CancelLocal
  <2>4. Tells(b, {})
    <3>1. Cardinality(ready \ {t}) + stops \in Nat
      BY QueuedNat, FS_Subset, FS_CardinalityType DEF WInv, Rest
    <3> QED BY <3>1, WokenT, TellsNothing
  <2>5. Tells(CancelItems(t), U \cup {})
    <3> HIDE DEF n, b
    <3> QED BY <2>2, <2>3, <2>4, TellsBoth
  <2> QED BY <2>3, <2>5
<1> QED BY <1>1, <1>2

\* self._wake.set() resumes callers of run() on an infinite queue.
LEMMA WakeT ==
  ASSUME closed', sleepers' = sleepers
  PROVE  \E U : Tells(WakeItems, U) /\ Rouses(U)
<1> DEFINE D == {d \in Callers : pc[d] = "run.wait" /\ ~Posted(<<"caller", d>>)}
<1>1. D \in SUBSET Callers /\ Told \cap Calls(D) = {} /\ Calls(D) \subseteq Calls({c \in Callers : pc[c] = "run.wait"})
  BY DEF Told, Calls
<1>2. CASE Mode = "infinite" /\ ~wake
  <2>1. WakeItems = SetToSeq({<<"caller", c>> : c \in D})
    BY <1>2 DEF WakeItems
  <2> HIDE DEF D
  <2>2. Tells(WakeItems, Calls(D))
    BY <1>1, <2>1, TellsSet
  <2> QED BY <1>1, <1>2, <2>2 DEF Rouses
<1>3. CASE ~(Mode = "infinite" /\ ~wake)
  <2>1. WakeItems = <<>>
    BY <1>3 DEF WakeItems
  <2> QED BY <2>1, TellsNothing DEF Rouses
<1> QED BY <1>2, <1>3

-----------------------------------------------------------------------------
(* Nothing comes back                                                      *)

\* A step without a reset: what is submitted stays so, a result is final, and
\* what is admitted or queued anew is so while the queue accepts.
Ages ==
  \A t \in Tasks : /\ t \in unborn => t \in unborn'
                   /\ st[t] # "new" => st'[t] # "new"
                   /\ st[t] \in Final => st'[t] \in Final
                   /\ st[t] = "new" /\ ~accepting => st'[t] = "new"
Drains == Queue' \subseteq Queue \/ accepting
Forward == Ages /\ Drains /\ (accepting' => accepting) /\ (closed => closed')

\* Statuses that no step touches stay; a record is about live tasks.
LEMMA AgesSame == ASSUME st' = st, unborn' = unborn PROVE Ages
BY DEF Ages

\* A record is about tasks that are live.
LEMMA AgesRecord ==
  ASSUME OInv, NEW done, NEW o \in Final, NEW cut, done \cup cut \subseteq LiveTasks, Record(done, o, cut), unborn' = unborn
  PROVE  Ages
<1> SUFFICES ASSUME NEW t \in Tasks
             PROVE  /\ st[t] # "new" => st'[t] # "new"
                    /\ st[t] \in Final => st'[t] \in Final
                    /\ st[t] = "new" /\ ~accepting => st'[t] = "new"
  BY DEF Ages
<1>1. st'[t] = IF t \in done THEN o ELSE IF t \in cut THEN "cancelled" ELSE st[t]
  BY DEF Record
<1>2. t \in done \cup cut => Live(t)
  BY DEF LiveTasks
<1> QED BY <1>1, <1>2 DEF Live, Final

\* An admission, an abort and a cancellation are such steps.
LEMMA EnqueueF == ASSUME OInv, NEW t \in Tasks, Enqueue(t), unborn' = unborn PROVE Ages /\ Drains
<1>1. accepting /\ st[t] = "new" /\ st' = [st EXCEPT ![t] = "pending"]
  BY DEF Enqueue, Admits
<1>2. \A u \in Tasks : st'[u] = IF u = t THEN "pending" ELSE st[u]
  BY <1>1 DEF OInv, TasksOK
<1> QED BY <1>1, <1>2 DEF Ages, Drains, Final

\* So is an abort.
LEMMA AbortF ==
  ASSUME OInv, NEW done, done \subseteq LiveTasks, NEW o \in Final, NEW kill, Abort(kill, done, o), unborn' = unborn
  PROVE  Ages /\ Drains
<1>1. done \cup CutBy(kill) \subseteq LiveTasks
  BY QueuedLive DEF CutBy
<1>2. Ages
  BY <1>1, AgesRecord DEF Abort
<1>3. Queue' \subseteq Queue
  BY DEF Abort, Queue
<1> QED BY <1>2, <1>3 DEF Drains

\* So is a cancellation.
LEMMA CancelF == ASSUME OInv, NEW t \in Tasks, CancelLocal(t), unborn' = unborn PROVE Ages /\ Drains
<1>1. CASE t \in Running
  BY <1>1, AgesSame DEF CancelLocal, places, count, Drains, Queue
<1>2. CASE t \notin Running
  <2>1. {} \cup ({t} \cap (ready \cup timers \cup dormant)) \subseteq LiveTasks
    BY QueuedLive
  <2>2. Ages
    BY <1>2, <2>1, AgesRecord DEF CancelLocal, Final
  <2>3. Queue' \subseteq Queue
    BY <1>2 DEF CancelLocal, Queue
  <2> QED BY <2>2, <2>3 DEF Drains
<1> QED BY <1>1, <1>2

\* The steps of runners, workers, callbacks and callers are.
LEMMA RunnerF == ASSUME WInv, NEW t \in Tasks, RunnerStep(t) PROVE Forward
<1> USE DEF WInv
<1>1. UNCHANGED <<accepting, closed>>
  BY DEF RunnerStep, Unborn, Gate, Begin, Succeed, Retry, Fail, FailAborts, Cancelled, Swallow, EndRunner, HookSubmits, flags
<1>2. ASSUME Active(t) PROVE t \in LiveTasks
  BY <1>2 DEF OInv, Single, LiveTasks
<1>3. CASE Unborn(t) \/ Gate(t) \/ Swallow(t) \/ EndRunner(t)
  <2>1. st' = st /\ Queue' = Queue /\ unborn \subseteq unborn'
    BY <1>3 DEF Unborn, Gate, Swallow, EndRunner, places, count, runVars, Queue
  <2> QED BY <1>1, <2>1 DEF Forward, Ages, Drains
<1>4. CASE Begin(t) \/ Retry(t)
  <2>1. \E s \in {"running", "retrying"} : st' = [st EXCEPT ![t] = s]
    BY <1>4 DEF Begin, Retry
  <2>2. Queue' = Queue /\ unborn' = unborn /\ Active(t)
    BY <1>4 DEF Begin, Retry, places, Queue, AtRunner, Active
  <2>3. st[t] \notin Final \cup {"new"} /\ st \in [Tasks -> Final \cup {"new", "pending", "running", "retrying"}]
    BY <1>2, <2>2 DEF LiveTasks, Live, OInv, TasksOK
  <2>4. Ages
    BY <2>1, <2>2, <2>3 DEF Ages, Final
  <2> QED BY <1>1, <2>2, <2>4 DEF Forward, Drains
<1>5. CASE Succeed(t) \/ Fail(t) \/ Cancelled(t)
  <2>1. (\E o \in Final : Record({t}, o, {})) /\ unborn' = unborn /\ Active(t) /\ Queue' = Queue
    BY <1>5 DEF Succeed, Fail, Cancelled, Final, places, Queue, AtRunner, Active
  <2>2. {t} \cup {} \subseteq LiveTasks
    BY <1>2, <2>1
  <2> QED BY <1>1, <2>1, <2>2, AgesRecord DEF Forward, Drains
<1>6. CASE FailAborts(t)
  <2>1. (\E kill : Abort(kill, {t}, "failed")) /\ unborn' = unborn /\ Active(t)
    BY <1>6 DEF FailAborts, AtRunner, Active
  <2>2. {t} \subseteq LiveTasks /\ "failed" \in Final
    BY <1>2, <2>1 DEF Final
  <2> QED BY <1>1, <2>1, <2>2, AbortF DEF Forward
<1>7. ASSUME NEW s \in Tasks, HookSubmits(t, s) PROVE Forward
  BY <1>1, <1>7, EnqueueF DEF HookSubmits, Forward
<1> QED BY <1>3, <1>4, <1>5, <1>6, <1>7 DEF RunnerStep

\* Workers, callbacks and the world outside.
LEMMA OtherF ==
  ASSUME WInv, (\E w \in Workers : WorkerStep(w)) \/ (\E t \in Tasks : Callback(t)) \/ Outside \/ UNCHANGED vars
  PROVE  Forward
<1> USE DEF WInv
<1>1. UNCHANGED <<accepting, closed, unborn>>
  BY DEF WorkerStep, Take, Stop, Sleep, Back, Joined, Callback, Release, ReleaseNone, Commit, CommitRefused, CancelHop,
     Outside, Due, Resume, ThreadSubmits, ThreadCancels, CallerWakes, Expire, vars, flags, runVars
<1>2. ASSUME NEW w \in Workers, NEW t \in Tasks, Take(w, t) PROVE Forward
  <2>1. Queue' \subseteq Queue /\ {t} \cup {} \subseteq LiveTasks
    BY <1>2, QueuedLive DEF Take, Queue
  <2>2. Record({t}, "cancelled", {}) \/ st' = st
    BY <1>2 DEF Take, count
  <2>3. Ages
    BY <1>1, <2>1, <2>2, AgesSame, AgesRecord DEF Final
  <2> QED BY <1>1, <2>1, <2>3 DEF Forward, Drains
<1>3. ASSUME NEW t \in Tasks, Commit(t) \/ CancelHop(t) PROVE Forward
  BY <1>1, <1>3, EnqueueF, CancelF DEF Commit, CancelHop, Forward
<1>4. ASSUME \/ \E w \in Workers : Stop(w) \/ Sleep(w) \/ Back(w) \/ Joined(w)
             \/ \E t \in Tasks : Release(t) \/ ReleaseNone(t) \/ CommitRefused(t)
             \/ Outside \/ UNCHANGED vars
      PROVE  Forward
  <2>1. st' = st /\ Queue' \subseteq Queue
    BY <1>4 DEF Stop, Sleep, Back, Joined, Release, ReleaseNone, CommitRefused, Outside, Due, Resume, ThreadSubmits,
       ThreadCancels, CallerWakes, Expire, vars, places, count, Queue
  <2> QED BY <1>1, <2>1, AgesSame DEF Forward, Drains
<1> QED BY <1>2, <1>3, <1>4 DEF WorkerStep, Callback

\* Callers, but for reset().
LEMMA CallerF == ASSUME WInv, NEW c \in Callers, CallerStep(c), ~Reset(c) PROVE Forward
<1> USE DEF WInv
<1>1. unborn' = unborn /\ (accepting' => accepting) /\ (closed => closed')
  <2>1. ASSUME NEW t \in Tasks, Submit(c, t) \/ Cancel(c, t) PROVE UNCHANGED <<unborn, accepting, closed>>
    BY <2>1 DEF Submit, Cancel, flags, runVars
  <2>2. CASE \/ Yield(c) \/ Run(c) \/ RunRefused(c) \/ RunWait(c) \/ ExpireHop(c) \/ RunWoken(c) \/ RunTimesOut(c)
             \/ RunRest(c) \/ RunRested(c) \/ RunStop(c) \/ RunGathered(c) \/ RunEnd(c)
    BY <2>2 DEF Yield, Run, RunRefused, RunWait, ExpireHop, RunWoken, RunTimesOut, RunRest, RunRested, RunStop, RunGathered,
       RunEnd, flags, runVars
  <2>3. CASE Join(c) \/ JoinRest(c) \/ JoinRested(c) \/ ShutdownAgain(c) \/ DownRest(c) \/ DownHalt(c) \/ DownStop(c)
    BY <2>3 DEF Join, JoinRest, JoinRested, ShutdownAgain, DownRest, DownHalt, DownStop, flags, runVars
  <2>4. CASE ForcedShutdown(c) \/ Shutdown(c)
    BY <2>4 DEF ForcedShutdown, Shutdown, runVars
  <2>5. CASE CancelUnbound(c) \/ DownEnd(c)
    <3>1. unborn' = unborn /\ closed' = TRUE /\ (accepting' = FALSE \/ accepting' = accepting)
      BY <2>5 DEF CancelUnbound, DownEnd, runVars
    <3> QED BY <3>1
  <2> QED BY <2>1, <2>2, <2>3, <2>4, <2>5 DEF CallerStep
<1>2. CASE RunTimesOut(c) \/ ForcedShutdown(c) \/ CancelUnbound(c)
  <2>1. \E kill : Abort(kill, {}, "cancelled")
    BY <1>2 DEF RunTimesOut, ForcedShutdown, CancelUnbound
  <2>2. {} \subseteq LiveTasks /\ "cancelled" \in Final
    BY DEF Final
  <2> QED BY <1>1, <2>1, <2>2, AbortF DEF Forward
<1>3. ASSUME NEW t \in Tasks, Submit(c, t) \/ Cancel(c, t) PROVE Forward
  BY <1>1, <1>3, EnqueueF, CancelF DEF Submit, Cancel, Forward
<1>4. CASE ~(RunTimesOut(c) \/ ForcedShutdown(c) \/ CancelUnbound(c) \/ \E t \in Tasks : Submit(c, t) \/ Cancel(c, t))
  <2>1. st' = st /\ Queue' \subseteq Queue
    BY <1>4 DEF CallerStep, Yield, Run, RunRefused, RunWait, ExpireHop, RunWoken, RunRest, RunRested, RunStop, RunGathered, RunEnd,
       Join, JoinRest, JoinRested, ShutdownAgain, Shutdown, DownRest, DownHalt, DownStop, DownEnd, Start, places, count, Queue
  <2> QED BY <1>1, <2>1, AgesSame DEF Forward, Drains
<1> QED BY <1>2, <1>3, <1>4

\* No program calls reset().
LEMMA NeverCalled == ASSUME NoReset, Counted, NEW c \in Callers PROVE ~Reset(c)
<1>1. Program[c] \in Seq(SUBSET {"submit", "cancel", "run", "join", "shutdown", "force"}) /\ calls[c] \in Nat
  BY DEF NoReset, Counted
<1>2. CASE Reset(c)
  <2>1. calls[c] + 1 \in 1..Len(Program[c]) /\ "reset" \in Program[c][calls[c] + 1]
    BY <1>1, <1>2 DEF Reset, MayCall, HasCall
  <2>2. Program[c][calls[c] + 1] \subseteq {"submit", "cancel", "run", "join", "shutdown", "force"}
    BY <1>1, <2>1
  <2> QED BY <2>1, <2>2
<1> QED BY <1>2

\* So every step of a program without reset().
LEMMA StepF == ASSUME WInv, NoReset, Counted, [Next]_vars PROVE Forward
<1>1. \A c \in Callers : ~Reset(c)
  BY NeverCalled
<1> QED BY <1>1, RunnerF, OtherF, CallerF DEF Next, Segment

\* So what has its result keeps it, and an empty queue stays empty.
LEMMA Stable ==
  ASSUME WInv, Forward
  PROVE  /\ Spent => Spent'
         /\ Done /\ ~accepting => Done'
         /\ \A c : Settled(c) /\ (\A t \in covered[c] : t \in Tasks /\ st[t] # "new") /\ covered'[c] = covered[c] => Settled(c)'
<1>1. Spent => Spent'
  BY DEF Spent, Forward, Drains
<1>2. \A t \in Tasks : t \in unborn => t \in unborn'
  BY DEF Forward, Ages
<1>3. \A t \in Tasks : st[t] # "new" /\ ~Live(t) => ~(Live(t)')
  BY DEF Forward, Ages, Live, Final
<1>4. \A t \in Tasks : ~accepting /\ ~Live(t) => ~(Live(t)')
  BY DEF Forward, Ages, Live, Final
<1>5. Done /\ ~accepting => Done'
  BY <1>2, <1>4 DEF Done
<1> QED BY <1>1, <1>2, <1>3, <1>5 DEF Settled

\* When the event is set there is nothing without a result, and nothing queued.
LEMMA Idles ==
  ASSUME OInv, Accounting, idle
  PROVE  LiveTasks = {} /\ Queue = {} /\ Done /\ \A c \in Callers : covered[c] \subseteq Tasks => Settled(c)
<1>1. LiveTasks = {}
  <2>1. Cardinality(LiveTasks) = 0
    BY DEF Accounting, LiveTasks
  <2> QED BY <2>1, LiveFinite, FS_EmptySet
<1>2. \A t \in Tasks : ~Live(t)
  BY <1>1 DEF LiveTasks
<1> QED BY <1>1, <1>2, QueuedLive DEF Queue, Done, Settled

\* When nothing is queued, and no worker has a runner, likewise.
LEMMA AllOver ==
  ASSUME OInv, Queue = {}, \A t \in Tasks : ~Active(t)
  PROVE  Done
<1> SUFFICES ASSUME NEW t \in Tasks, t \notin unborn, Live(t) PROVE FALSE
  BY DEF Done
<1>1. t \in Queue \/ Active(t) \/ t \in unborn
  BY DEF OInv, Single, Queue
<1> QED BY <1>1

-----------------------------------------------------------------------------
(* Workers                                                                 *)

\* What a step makes of a worker: nothing, it is created, it takes a task, it
\* ends, or its runner is over. A worker created is registered and was awaited
\* by nobody.
Shifts ==
  \A w \in Workers :
    \/ job'[w] = job[w]
    \/ job[w] = "none" /\ job'[w] = "get" /\ w \in registered' /\ \A c \in Callers : w \notin snap[c]
    \/ job[w] = "get" /\ job'[w] \in ready
    \/ job[w] = "get" /\ job'[w] = "none"
    \/ job[w] \in Tasks /\ rn[job[w]] = "over" /\ job'[w] = "get"
\* Who ends is registered no more, a new runner has a worker, and a queue with
\* workers has started.
Crew ==
  /\ Shifts
  /\ \A w \in registered : w \in registered' \/ job'[w] = "none"
  /\ \A t \in Tasks : Active(t)' => Active(t) \/ \E w \in Workers : job'[w] = t
  /\ registered' # {} => started'

\* Such a step keeps what is known of the workers, unless it creates one while
\* a caller gathers them.
LEMMA KeepTeams ==
  ASSUME WInv, Teams, Forward, Calm, Crew,
         \A c \in Callers : pc'[c] \in Gather => pc[c] \in Gather /\ \A w \in snap[c] : w \in snap'[c] \/ job'[w] = "none"
  PROVE  Teams'
<1> USE NamesAssumption
<1>1. Spent => Spent'
  BY Stable
<1>2. \A w \in Workers : w \in ready \/ job[w] \in ready => ~Spent
  BY DEF Spent, Queue
<1>3. ready # {} => ~Spent
  BY DEF Spent, Queue
<1>4. ready \subseteq Tasks
  BY DEF WInv, OInv, TasksOK
<1>5. ASSUME NEW w \in Workers
      PROVE  /\ job'[w] \in Tasks => w \in registered'
             /\ job'[w] = "get" => w \in registered' \/ Spent'
             /\ \A c \in Callers : pc'[c] \in Gather =>
                  (job'[w] \in Tasks => w \in snap'[c]) /\ (job'[w] = "get" => w \in snap'[c] \/ Spent')
  <2>1. /\ job[w] \in Tasks => w \in registered
        /\ job[w] = "get" => w \in registered \/ Spent
        /\ \A c \in Callers : pc[c] \in Gather =>
             (job[w] \in Tasks => w \in snap[c]) /\ (job[w] = "get" => w \in snap[c] \/ Spent)
    BY DEF Teams
  <2>2. w \in registered => w \in registered' \/ job'[w] = "none"
    BY DEF Crew
  <2>3. \A c \in Callers : pc'[c] \in Gather => pc[c] \in Gather /\ (w \in snap[c] => w \in snap'[c] \/ job'[w] = "none")
    OBVIOUS
  <2>4. CASE job[w] = "none" /\ job'[w] = "get" /\ w \in registered'
    <3>1. ASSUME NEW c \in Callers, pc'[c] \in Gather PROVE Spent'
      <4>1. Gathering
        BY <2>3, <3>1 DEF Gathering
      <4> QED BY <1>1, <2>4, <4>1 DEF Calm
    <3> QED BY <2>4, <3>1
  <2>5. CASE job'[w] = job[w]
    BY <1>1, <2>1, <2>2, <2>3, <2>5
  <2>6. CASE job[w] = "get" /\ job'[w] \in ready
    <3>1. ~Spent /\ job'[w] \in Tasks
      BY <1>3, <1>4, <2>6
    <3> QED BY <2>1, <2>2, <2>3, <2>6, <3>1
  <2>7. CASE job'[w] = "none"
    BY <2>7
  <2>8. CASE job[w] \in Tasks /\ job'[w] = "get"
    BY <2>1, <2>2, <2>3, <2>8
  <2> QED BY <2>4, <2>5, <2>6, <2>7, <2>8 DEF Crew, Shifts
<1>6. ASSUME NEW t \in Tasks, Active(t)' PROVE \E w \in Workers : job'[w] = t
  <2>1. CASE \E w \in Workers : job'[w] = t
    BY <2>1
  <2>2. CASE Active(t)
    <3>1. PICK w \in Workers : job[w] = t
      BY <2>2 DEF Teams
    <3>2. rn[t] # "over"
      BY <2>2 DEF Active
    <3>3. job'[w] = job[w]
      BY <3>1, <3>2 DEF Crew, Shifts
    <3> QED BY <3>1, <3>3
  <2> QED BY <1>6, <2>1, <2>2 DEF Crew
<1>7. registered' # {} => started'
  BY DEF Crew
<1> QED BY <1>5, <1>6, <1>7 DEF Teams, Manned, Workers, Gather

\* A step that leaves the workers alone, and one that creates some.
LEMMA CrewSame ==
  ASSUME WInv, Manned, job' = job, registered' = registered, started => started' \/ registered' = {},
         \A t \in Tasks : Active(t)' => Active(t)
  PROVE  Crew
BY DEF Crew, Shifts, Manned

\* A step that creates workers with free numbers.
LEMMA CrewSpawn ==
  ASSUME WInv, Manned, NEW new, \A w \in ToSet(new) : job[w] = "none" /\ \A c \in Callers : w \notin snap[c],
         Spawn(new), ToSet(new) # {} => started', started => started',
         \A t \in Tasks : Active(t)' => Active(t)
  PROVE  Crew
<1>1. registered' = registered \cup ToSet(new) /\ job' = [w \in Workers |-> IF w \in ToSet(new) THEN "get" ELSE job[w]]
  BY DEF Spawn
<1>2. Shifts
  BY <1>1 DEF Shifts
<1>3. registered' # {} => started'
  BY <1>1 DEF Manned
<1> QED BY <1>1, <1>2, <1>3 DEF Crew

\* An admission is one.
LEMMA CrewEnqueue ==
  ASSUME WInv, Manned, NEW t \in Tasks, Enqueue(t), started' = started, \A u \in Tasks : Active(u)' => Active(u)
  PROVE  Crew
<1>1. ToSet(<<>>) = {}
  BY DEF ToSet
<1>2. ToSet(NewWorkers(t)) # {} => started
  BY <1>1 DEF NewWorkers
<1> QED BY <1>2, NewFree, CrewSpawn DEF Enqueue

\* Runners create no workers, but their hooks may.
LEMMA RunnerC == ASSUME WInv, Manned, NEW t \in Tasks, RunnerStep(t) PROVE Crew
<1>1. \A u \in Tasks : Active(u)' => Active(u)
  <2>1. rn \in [Tasks -> {"none", "new", "gate", "call", "wait", "again", "hook", "over"}]
    BY DEF WInv, OInv, TasksOK
  <2>2. \A u \in Tasks : rn'[u] = rn[u] \/ Active(u) \/ rn'[u] = "over"
    BY <2>1 DEF RunnerStep, AtRunner, Unborn, Gate, Begin, Succeed, Retry, Fail, FailAborts, Cancelled, Swallow, EndRunner,
       HookSubmits, Active
  <2> QED BY <2>2 DEF Active
<1>2. ASSUME NEW s \in Tasks, HookSubmits(t, s) PROVE Crew
  BY <1>1, <1>2, CrewEnqueue DEF HookSubmits, flags
<1>3. CASE ~\E s \in Tasks : HookSubmits(t, s)
  <2>1. UNCHANGED <<job, registered, started>>
    BY <1>3 DEF RunnerStep, Unborn, Gate, Begin, Succeed, Retry, Fail, FailAborts, Cancelled, Swallow, EndRunner, pool, flags
  <2> QED BY <1>1, <2>1, CrewSame
<1> QED BY <1>2, <1>3

\* Workers take tasks and end.
LEMMA WorkerC == ASSUME WInv, Manned, NEW w \in Workers, WorkerStep(w) PROVE Crew
<1> USE DEF WInv, Pool
<1>1. started' = started
  BY DEF WorkerStep, Take, Stop, Sleep, Back, Joined, flags
<1>2. CASE Sleep(w) \/ Joined(w)
  BY <1>1, <1>2, CrewSame DEF Sleep, Joined, pool, runVars, Active
<1>3. CASE Stop(w)
  <2>1. /\ job[w] = "get" /\ job' = [job EXCEPT ![w] = "none"] /\ registered' = registered \ {w} /\ rn' = rn
    BY <1>3 DEF Stop, AtGet, runVars
  <2>2. job'[w] = "none" /\ \A v \in Workers \ {w} : job'[v] = job[v]
    BY <2>1
  <2> QED BY <1>1, <2>1, <2>2 DEF Crew, Shifts, Manned, Active
<1>4. CASE Back(w)
  <2>1. At(<<"worker", w>>) /\ job[w] \in Tasks /\ job' = [job EXCEPT ![w] = "get"] /\ UNCHANGED <<registered, rn>>
    BY <1>4 DEF Back
  <2>2. rn[job[w]] = "over"
    <3>1. loop # <<>> /\ loop \in Seq(LoopItem) /\ Head(loop) = <<"worker", w>>
      BY <2>1 DEF At
    <3>2. 1 \in 1..Len(loop) /\ loop[1] = <<"worker", w>>
      BY <3>1
    <3>3. w \in OnWay(loop)
      BY <3>2 DEF OnWay
    <3> QED BY <2>1, <3>3
  <2>3. job'[w] = "get" /\ \A v \in Workers \ {w} : job'[v] = job[v]
    BY <2>1
  <2>4. Shifts
    BY <2>1, <2>2, <2>3 DEF Shifts
  <2> QED BY <1>1, <2>1, <2>4 DEF Crew, Manned, Active
<1>5. ASSUME NEW t \in Tasks, Take(w, t) PROVE Crew
  <2>1. CASE halt /\ t \notin MustComplete
    BY <1>1, <1>5, <2>1, CrewSame DEF Take, Active
  <2>2. CASE ~(halt /\ t \notin MustComplete)
    <3>1. job[w] = "get" /\ t \in ready /\ job' = [job EXCEPT ![w] = t] /\ registered' = registered /\ rn' = [rn EXCEPT ![t] = "new"]
      BY <1>5, <2>2 DEF Take, AtGet
    <3>2. job'[w] = t /\ \A v \in Workers \ {w} : job'[v] = job[v]
      BY <3>1
    <3>3. \A u \in Tasks : Active(u)' => Active(u) \/ \E v \in Workers : job'[v] = u
      BY <3>1, <3>2 DEF Active, OInv, TasksOK
    <3>4. Shifts
      BY <3>1, <3>2 DEF Shifts
    <3> QED BY <1>1, <3>1, <3>3, <3>4 DEF Crew, Manned
  <2> QED BY <2>1, <2>2
<1> QED BY <1>2, <1>3, <1>4, <1>5 DEF WorkerStep

\* Timers and commits create workers.
LEMMA CallbackC == ASSUME WInv, Manned, NEW t \in Tasks, Callback(t) PROVE Crew
<1>1. started' = started /\ \A u \in Tasks : Active(u)' => Active(u)
  BY DEF Callback, Release, ReleaseNone, Commit, CommitRefused, CancelHop, flags, runVars, Active
<1>2. CASE Release(t)
  <2> DEFINE new == IF halt \/ closed \/ ~started THEN <<>> ELSE Spawned(Cardinality(ready) + 1 + stops)
  <2>1. Spawn(new)
    BY <1>2 DEF Release
  <2>2. ToSet(<<>>) = {} /\ Cardinality(ready) + 1 + stops \in Int
    BY QueuedNat DEF ToSet, WInv, Rest
  <2>3. ToSet(new) # {} => started
    BY <2>2
  <2>4. \A w \in ToSet(new) : job[w] = "none" /\ \A c \in Callers : w \notin snap[c]
    BY <2>2, SpawnedFree
  <2> HIDE DEF new
  <2> QED BY <1>1, <2>1, <2>3, <2>4, CrewSpawn
<1>3. CASE Commit(t)
  BY <1>1, <1>3, CrewEnqueue DEF Commit
<1>4. CASE ReleaseNone(t) \/ CommitRefused(t) \/ CancelHop(t)
  <2>1. UNCHANGED <<job, registered>>
    BY <1>4 DEF ReleaseNone, CommitRefused, CancelHop, pool
  <2> QED BY <1>1, <2>1, CrewSame
<1> QED BY <1>2, <1>3, <1>4 DEF Callback

\* So do submissions and start(); no other call does.
LEMMA StartC == ASSUME WInv, Manned, Start, UNCHANGED rn PROVE Crew
<1>1. Cardinality(ready) + stops \in Int
  BY QueuedNat DEF WInv, Rest
<1>2. Spawn(Spawned(Cardinality(ready) + stops)) /\ started'
  BY DEF Start
<1>3. \A w \in ToSet(Spawned(Cardinality(ready) + stops)) : job[w] = "none" /\ \A c \in Callers : w \notin snap[c]
  BY <1>1, SpawnedFree
<1> QED BY <1>2, <1>3, CrewSpawn DEF Active

Stopping(c) == (RunStop(c) \/ RunGathered(c) \/ DownStop(c)) /\ \E next : Dismiss(c, next) \/ Dismissed(c, next)
\* The other calls, but for the stopping of workers.
LEMMA CallerC == ASSUME WInv, Manned, NEW c \in Callers, CallerStep(c), ~Reset(c), ~Stopping(c) PROVE Crew
<1>1. ASSUME NEW t \in Tasks, Submit(c, t) \/ Cancel(c, t) PROVE Crew
  <2>1. started' = started /\ \A u \in Tasks : Active(u)' => Active(u)
    BY <1>1 DEF Submit, Cancel, flags, runVars, Active
  <2>2. CASE Submit(c, t)
    BY <2>1, <2>2, CrewEnqueue DEF Submit
  <2>3. CASE Cancel(c, t)
    BY <2>1, <2>3, CrewSame DEF Cancel
  <2> QED BY <1>1, <2>2, <2>3
<1>2. CASE Run(c) \/ Join(c) \/ Shutdown(c)
  <2>1. rn' = rn /\ (Start \/ UNCHANGED <<job, registered, started>>)
    BY <1>2 DEF Run, Join, Shutdown, runVars
  <2> QED BY <2>1, StartC, CrewSame DEF Active
<1>3. CASE \/ Yield(c) \/ RunRefused(c) \/ RunWait(c) \/ ExpireHop(c) \/ RunWoken(c) \/ RunTimesOut(c)
           \/ RunRest(c) \/ RunRested(c) \/ RunStop(c) \/ RunGathered(c) \/ RunEnd(c)
  <2>1. UNCHANGED <<job, registered, started, rn>>
    BY <1>3 DEF Yield, RunRefused, RunWait, ExpireHop, RunWoken, RunTimesOut, RunRest, RunRested, RunStop, RunGathered,
       RunEnd, pool, runVars, flags, Stopping
  <2> QED BY <2>1, CrewSame DEF Active
<1>4. CASE \/ JoinRest(c) \/ JoinRested(c) \/ ShutdownAgain(c) \/ ForcedShutdown(c) \/ CancelUnbound(c)
           \/ DownRest(c) \/ DownHalt(c) \/ DownStop(c) \/ DownEnd(c)
  <2>1. UNCHANGED <<job, registered, started, rn>>
    BY <1>4 DEF JoinRest, JoinRested, ShutdownAgain, ForcedShutdown, CancelUnbound, DownRest, DownHalt, DownStop,
       DownEnd, pool, runVars, flags, Stopping
  <2> QED BY <2>1, CrewSame DEF Active
<1> QED BY <1>1, <1>2, <1>3, <1>4 DEF CallerStep

\* The world outside has no workers.
LEMMA OutsideC == ASSUME WInv, Manned, Outside \/ UNCHANGED vars PROVE Crew
<1>1. UNCHANGED <<job, registered, started, rn>>
  BY DEF Outside, Due, Resume, ThreadSubmits, ThreadCancels, CallerWakes, Expire, vars, pool, runVars, flags
<1> QED BY <1>1, CrewSame DEF Active

-----------------------------------------------------------------------------
(* Callers and what resumes them                                           *)

\* The signals a step puts resume callers that sleep, or wait to be woken.
Sounds == \E gone, U : Sends(gone, U) /\ Rouses(U)

\* They are new on the loop.
LEMMA Apart == ASSUME Loops, NEW U, Rouses(U) PROVE U \in SUBSET Signals /\ Told \cap U = {}
BY DEF Rouses, Loops, Calls, Signals, Told

\* Who is resumed is put after what is on the loop,
LEMMA SoundsStay == ASSUME Loops, NEW q, NEW U, Tells(q, U), Rouses(U), Stay(q) PROVE Sounds
<1>1. Tells(loop, Told) /\ Told \cap U = {}
  BY Apart DEF Loops
<1>2. Sends({}, U)
  BY <1>1, SendsStay
<1> QED BY <1>2 DEF Sounds

\* or after what remains when its head goes.
LEMMA SoundsLeave == ASSUME Loops, loop # <<>>, NEW q, NEW U, Tells(q, U), Rouses(U), Leave(q) PROVE Sounds
<1>1. Tells(loop, Told) /\ (Told \ {Head(loop)}) \cap U = {}
  BY Apart DEF Loops
<1>2. Sends({Head(loop)}, U)
  BY <1>1, SendsLeave
<1> QED BY <1>2 DEF Sounds

\* A step that lets nobody go resumes nobody.
LEMMA SoundsQuiet ==
  ASSUME Loops, NEW q, Tells(q, {}), sleepers' = sleepers, Stay(q) \/ (Leave(q) /\ loop # <<>>)
  PROVE  Sounds
BY SoundsStay, SoundsLeave DEF Rouses

\* An item of another kind is no signal.
LEMMA SoundsPost ==
  ASSUME Loops, NEW kind, NEW S, {kind} \X S \subseteq LoopItem, kind \notin {"caller", "joined"}, NEW x \in S,
         Post(<<kind, x>>), sleepers' = sleepers
  PROVE  Sounds
<1>1. <<kind, x>> \in LoopItem /\ <<<<kind, x>>>> \in Seq({kind} \X S)
  OBVIOUS
<1>2. Tells(<<<<kind, x>>>>, {})
  BY <1>1, TellsOthers
<1>3. Sends({}, {})
  BY <1>1, <1>2, SendsPost DEF Loops
<1> QED BY <1>3 DEF Sounds, Rouses

\* Who sleeps goes on sleeping unless nothing is outstanding; who waits for a
\* queue to be closed is resumed when it is.
Lulls(c) ==
  /\ Sleeping(c) => Sleeping(c)' \/ idle'
  /\ Mode = "infinite" /\ pc[c] = "run.wait" /\ <<"caller", c>> \in Told' => <<"caller", c>> \in Told \/ closed'
\* So a step that resumes only those lets nobody go too early.
LEMMA Roused == ASSUME Loops, Sounds, NEW c \in Callers PROVE Lulls(c)
<1>1. PICK gone, U : Sends(gone, U) /\ Rouses(U)
  BY DEF Sounds
<1>2. Told' = (Told \ gone) \cup U
  BY <1>1, Apart, ToldNow
<1>3. Sleeping(c) => Sleeping(c)' \/ idle'
  BY <1>1 DEF Rouses, Sleeping, Has
<1>4. ASSUME Mode = "infinite", pc[c] = "run.wait", <<"caller", c>> \in U PROVE closed'
  <2>1. ~Sleeping(c)
    BY <1>4 DEF Loops
  <2> QED BY <1>1, <1>4, <2>1 DEF Rouses, Calls
<1> QED BY <1>2, <1>3, <1>4 DEF Lulls

\* A worker whose end is on its way has ended, and no other takes its number.
LEMMA Ended == ASSUME Loops, Shifts, NEW w \in Workers, <<"joined", w>> \in Told PROVE job'[w] = "none"
BY NamesAssumption DEF Loops, Shifts

\* A step that tells nobody of a worker, and moves no caller but one that is on
\* the loop, keeps what is known of signals and sleepers.
LEMMA KeepLoops ==
  ASSUME WInv, Loops, Shifts, Sounds, snap' = snap,
         \A c \in Callers : pc'[c] = pc[c] \/ <<"caller", c>> \in Told
  PROVE  Loops'
<1>1. PICK gone, U : Sends(gone, U) /\ Rouses(U)
  BY DEF Sounds
<1>2. Told' = (Told \ gone) \cup U /\ Tells(loop, Told)'
  BY <1>1, Apart, ToldNow
<1>3. U \subseteq Calls(Callers)
  BY <1>1 DEF Rouses, Calls
<1>4. ASSUME NEW c \in Callers
      PROVE  /\ Unique(sleepers', c)
             /\ Sleeping(c)' => pc'[c] \in Asleep /\ <<"caller", c>> \notin Told' /\ (pc'[c] = "run.wait" => Mode = "finite")
             /\ snap'[c] # {} => pc'[c] \in Gather /\ <<"caller", c>> \notin Told'
  <2>1. /\ Unique(sleepers, c)
        /\ Sleeping(c) => pc[c] \in Asleep /\ <<"caller", c>> \notin Told /\ (pc[c] = "run.wait" => Mode = "finite")
        /\ snap[c] # {} => pc[c] \in Gather /\ <<"caller", c>> \notin Told
    BY DEF Loops
  <2>2. sleepers' = sleepers \/ sleepers' = <<>>
    BY <1>1 DEF Rouses
  <2>3. Unique(sleepers', c)
    BY <2>1, <2>2 DEF Unique
  <2>4. Sleeping(c)' => Sleeping(c) /\ sleepers' = sleepers
    BY <2>2 DEF Sleeping, Has
  <2>5. ASSUME <<"caller", c>> \in U PROVE snap[c] = {} /\ (sleepers' = sleepers => ~Sleeping(c))
    <3>1. CASE U = Calls({d \in Callers : Sleeping(d)}) /\ sleepers' = <<>>
      <4>1. Sleeping(c)
        BY <2>5, <3>1 DEF Calls
      <4>2. sleepers' # sleepers
        BY <3>1, <4>1 DEF Sleeping, Has
      <4> QED BY <2>1, <4>1, <4>2 DEF Asleep, Gather
    <3>2. CASE U \subseteq Calls({d \in Callers : pc[d] = "run.wait"}) /\ Mode = "infinite"
      <4>1. pc[c] = "run.wait"
        BY <2>5, <3>2 DEF Calls
      <4> QED BY <2>1, <3>2, <4>1 DEF Gather
    <3> QED BY <1>1, <2>5, <3>1, <3>2 DEF Rouses
  <2> QED BY <1>2, <2>1, <2>3, <2>4, <2>5
<1>5. ASSUME NEW w \in Workers, <<"joined", w>> \in Told' PROVE job'[w] = "none" /\ \E c \in Callers : w \in snap'[c]
  <2>1. <<"joined", w>> \in Told
    BY <1>2, <1>3, <1>5 DEF Calls
  <2> QED BY <2>1, Ended DEF Loops
<1> QED BY <1>2, <1>4, <1>5 DEF Loops, Workers, Asleep, Gather

\* The sounds of runners, of workers but for their end, of callbacks and of
\* the world outside.
LEMMA RunnerS == ASSUME WInv, Accounting, Loops, NEW t \in Tasks, RunnerStep(t) PROVE Sounds
<1>1. loop # <<>>
  BY DEF RunnerStep, AtRunner, Unborn, Gate, Begin, Succeed, Retry, Fail, FailAborts, Cancelled, Swallow, EndRunner, HookSubmits, At
<1>2. CASE Unborn(t) \/ Gate(t) \/ Begin(t) \/ Retry(t) \/ Swallow(t) \/ EndRunner(t)
  <2>1. sleepers' = sleepers /\ \E q : Tells(q, {}) /\ (Stay(q) \/ Leave(q))
    BY <1>2, TellsNothing, WakeWorkerT DEF Unborn, Gate, Begin, Retry, Swallow, EndRunner, count
  <2> QED BY <1>1, <2>1, SoundsQuiet
<1>3. CASE Succeed(t) \/ Fail(t) \/ Cancelled(t)
  <2>1. (\E o \in Final : Record({t}, o, {})) /\ Stay(Resumed(1))
    BY <1>3 DEF Succeed, Fail, Cancelled, Final
  <2>2. {t} \in SUBSET Tasks /\ {} \in SUBSET Tasks /\ Cardinality({t} \cup {}) = 1
    <3>1. {t} \cup {} = {t}
      OBVIOUS
    <3> QED BY <3>1, FS_Singleton
  <2>3. PICK U : Tells(Resumed(1), U) /\ Rouses(U)
    BY <2>1, <2>2, ResumedT
  <2> QED BY <2>1, <2>3, SoundsStay
<1>4. CASE FailAborts(t)
  <2>1. Abort(FALSE, {t}, "failed") /\ Stay(AbortItems(FALSE, {t})) /\ {t} \in SUBSET Tasks
    BY <1>4 DEF FailAborts
  <2>2. \E kill : Abort(kill, {t}, "failed") /\ Stay(AbortItems(kill, {t}))
    BY <2>1
  <2> QED BY <2>1, <2>2, AbortT, SoundsStay
<1>5. ASSUME NEW s \in Tasks, HookSubmits(t, s) PROVE Sounds
  <2>1. sleepers' = sleepers /\ Leave(EnqueueItems(s) \o WakeWorker(t))
    BY <1>5 DEF HookSubmits, Enqueue
  <2>2. Tells(EnqueueItems(s) \o WakeWorker(t), {})
    BY EnqueueT, WakeWorkerT, TellsNone
  <2> QED BY <1>1, <2>1, <2>2, SoundsQuiet
<1> QED BY <1>2, <1>3, <1>4, <1>5 DEF RunnerStep

\* Workers that go on, take a task or sleep.
LEMMA WorkerS == ASSUME WInv, Accounting, Loops, NEW w \in Workers, WorkerStep(w), ~Stop(w), ~Joined(w) PROVE Sounds
<1>1. loop # <<>>
  BY DEF WorkerStep, Take, Sleep, Back, AtGet, At
<1>2. CASE Sleep(w) \/ Back(w)
  <2>1. sleepers' = sleepers /\ \E q : Tells(q, {}) /\ (Stay(q) \/ Leave(q))
    BY <1>2, TellsNothing DEF Sleep, Back, count
  <2> QED BY <1>1, <2>1, SoundsQuiet
<1>3. ASSUME NEW t \in Tasks, Take(w, t) PROVE Sounds
  <2>1. CASE halt /\ t \notin MustComplete
    <3>1. Record({t}, "cancelled", {}) /\ Stay(Resumed(1))
      BY <1>3, <2>1 DEF Take
    <3>2. {t} \in SUBSET Tasks /\ {} \in SUBSET Tasks /\ Cardinality({t} \cup {}) = 1
      <4>1. {t} \cup {} = {t}
        OBVIOUS
      <4> QED BY <4>1, FS_Singleton
    <3>3. PICK U : Tells(Resumed(1), U) /\ Rouses(U)
      BY <3>1, <3>2, ResumedT
    <3> QED BY <3>1, <3>3, SoundsStay
  <2>2. CASE ~(halt /\ t \notin MustComplete)
    <3>1. sleepers' = sleepers /\ Leave(<<<<"runner", t>>>>)
      BY <1>3, <2>2 DEF Take, count
    <3>2. Tells(<<<<"runner", t>>>>, {})
      <4>1. <<<<"runner", t>>>> \in Seq({"runner"} \X Tasks)
        OBVIOUS
      <4> QED BY <4>1, TellsOthers, Kinds
    <3> QED BY <1>1, <3>1, <3>2, SoundsQuiet
  <2> QED BY <2>1, <2>2
<1> QED BY <1>2, <1>3 DEF WorkerStep

\* Timers, commits and cancellations.
LEMMA CallbackS == ASSUME WInv, Accounting, Loops, NEW t \in Tasks, Callback(t) PROVE Sounds
<1>1. loop # <<>>
  BY DEF Callback, Release, ReleaseNone, Commit, CommitRefused, CancelHop, At
<1>2. CASE Release(t)
  <2> DEFINE new == IF halt \/ closed \/ ~started THEN <<>> ELSE Spawned(Cardinality(ready) + 1 + stops)
  <2>1. sleepers' = sleepers /\ Leave(Woken(1) \o Items("worker", new))
    BY <1>2 DEF Release, count
  <2>2. new \in Seq(Workers)
    BY QueuedNat, SpawnedFree DEF WInv, Rest
  <2> HIDE DEF new
  <2>3. Tells(Woken(1) \o Items("worker", new), {})
    BY <2>2, WokenT, TellsItems, Kinds, TellsNone
  <2> QED BY <1>1, <2>1, <2>3, SoundsQuiet
<1>3. CASE ReleaseNone(t) \/ CommitRefused(t)
  <2>1. sleepers' = sleepers /\ Leave(<<>>)
    BY <1>3 DEF ReleaseNone, CommitRefused, count
  <2> QED BY <1>1, <2>1, TellsNothing, SoundsQuiet
<1>4. CASE Commit(t)
  <2>1. sleepers' = sleepers /\ Leave(EnqueueItems(t))
    BY <1>4 DEF Commit, Enqueue
  <2> QED BY <1>1, <2>1, EnqueueT, SoundsQuiet
<1>5. CASE CancelHop(t)
  BY <1>1, <1>5, CancelT, SoundsLeave DEF CancelHop
<1> QED BY <1>2, <1>3, <1>4, <1>5 DEF Callback

\* The world outside, but for what resumes an idle caller.
LEMMA OutsideS ==
  ASSUME WInv, Loops, Outside \/ UNCHANGED vars, \A c \in Callers : ~CallerWakes(c)
  PROVE  Sounds
<1>1. ASSUME NEW t \in Tasks, Due(t) \/ Resume(t) \/ ThreadSubmits(t) \/ ThreadCancels(t) PROVE Sounds
  BY <1>1, SoundsPost, Kinds DEF Due, Resume, ThreadSubmits, ThreadCancels, count
<1>2. ASSUME NEW c \in Callers, Expire(c) PROVE Sounds
  BY <1>2, SoundsPost, Kinds DEF Expire, count
<1>3. CASE UNCHANGED vars
  <2>1. loop' = loop /\ sleepers' = sleepers /\ loop \in Seq(LoopItem)
    BY <1>3 DEF vars, loopVars, count, WInv, Pool
  <2>2. Stay(<<>>)
    BY <2>1, ConcatEmptySeq DEF Stay
  <2> QED BY <2>1, <2>2, TellsNothing, SoundsQuiet
<1> QED BY <1>1, <1>2, <1>3 DEF Outside

\* A worker that ends tells who gathers it.
LEMMA StopL == ASSUME WInv, Loops, Shifts, NEW w \in Workers, Stop(w) PROVE Loops' /\ \A c \in Callers : Lulls(c)
<1> USE NamesAssumption
<1> DEFINE x == <<"joined", w>>
           U == IF \E c \in Callers : w \in snap[c] THEN {x} ELSE {}
           q == IF \E c \in Callers : w \in snap[c] THEN <<x>> ELSE <<>>
<1>1. loop # <<>> /\ Leave(q) /\ job[w] = "get" /\ job' = [job EXCEPT ![w] = "none"] /\ UNCHANGED <<sleepers, pc, snap>>
  BY DEF Stop, AtGet, At, count, callVars
<1>2. job'[w] = "none"
  BY <1>1 DEF WInv, Pool
<1>3. x \in Signals /\ x \notin Told
  BY <1>1 DEF Loops, Signals
<1>4. Tells(q, U) /\ U \in SUBSET Signals /\ Told \cap U = {}
  BY <1>3, TellsOne, TellsNothing
<1> HIDE DEF x
<1>5. Sends({Head(loop)}, U)
  <2> HIDE DEF q, U
  <2> QED BY <1>1, <1>4, SendsLeave DEF Loops
<1>6. Told' = (Told \ {Head(loop)}) \cup U /\ Tells(loop, Told)'
  <2> HIDE DEF U
  <2> QED BY <1>4, <1>5, ToldNow
<1>7. \A c \in Callers : <<"caller", c>> \in Told' => <<"caller", c>> \in Told
  BY <1>6 DEF x
<1>8. ASSUME NEW c \in Callers
      PROVE  /\ Unique(sleepers', c)
             /\ Sleeping(c)' => pc'[c] \in Asleep /\ <<"caller", c>> \notin Told' /\ (pc'[c] = "run.wait" => Mode = "finite")
             /\ snap'[c] # {} => pc'[c] \in Gather /\ <<"caller", c>> \notin Told'
  <2>1. /\ Unique(sleepers, c)
        /\ Sleeping(c) => pc[c] \in Asleep /\ <<"caller", c>> \notin Told /\ (pc[c] = "run.wait" => Mode = "finite")
        /\ snap[c] # {} => pc[c] \in Gather /\ <<"caller", c>> \notin Told
    BY DEF Loops
  <2>2. (Sleeping(c)' <=> Sleeping(c)) /\ Unique(sleepers', c)
    BY <1>1, <2>1 DEF Sleeping, Has, Unique
  <2> QED BY <1>1, <1>7, <2>1, <2>2
<1>9. ASSUME NEW v \in Workers, <<"joined", v>> \in Told' PROVE job'[v] = "none" /\ \E c \in Callers : v \in snap'[c]
  <2>1. CASE <<"joined", v>> \in Told
    BY <1>1, <2>1, Ended DEF Loops
  <2>2. CASE <<"joined", v>> \notin Told
    <3>1. <<"joined", v>> = x /\ \E c \in Callers : w \in snap[c]
      BY <1>6, <1>9, <2>2
    <3>2. v = w
      BY <3>1 DEF x
    <3> QED BY <1>1, <1>2, <3>1, <3>2
  <2> QED BY <2>1, <2>2
<1>10. \A c \in Callers : Lulls(c)
  BY <1>1, <1>7 DEF Lulls, Sleeping, Has
<1> QED BY <1>6, <1>8, <1>9, <1>10 DEF Loops, Workers, Asleep, Gather

\* The callers that gathered it, and no other any more, are resumed.
LEMMA JoinedL == ASSUME WInv, Loops, Shapes, NEW w \in Workers, Joined(w) PROVE Loops' /\ \A c \in Callers : Lulls(c)
<1> DEFINE x == <<"joined", w>>
           D == {d \in Callers : snap[d] = {w}}
<1>1. /\ loop # <<>> /\ Head(loop) = x /\ snap' = [c \in Callers |-> snap[c] \ {w}]
      /\ Leave(SetToSeq({<<"caller", c>> : c \in D})) /\ UNCHANGED <<sleepers, pc, job>>
  BY DEF Joined, At, count, callVars, pool
<1>2. D \in SUBSET Callers /\ Tells(loop, Told) /\ Calls(D) \in SUBSET Signals /\ (Told \ {x}) \cap Calls(D) = {}
  BY DEF Loops, Calls, Signals
<1>3. Tells(SetToSeq({<<"caller", c>> : c \in D}), Calls(D))
  BY <1>2, TellsSet
<1>4. Sends({x}, Calls(D))
  <2> HIDE DEF x, D
  <2> QED BY <1>1, <1>2, <1>3, SendsLeave
<1>5. Told' = (Told \ {x}) \cup Calls(D) /\ Tells(loop, Told)'
  <2> HIDE DEF x, D
  <2> QED BY <1>2, <1>4, ToldNow
<1>6. ASSUME NEW c \in Callers
      PROVE  /\ Unique(sleepers', c)
             /\ Sleeping(c)' => pc'[c] \in Asleep /\ <<"caller", c>> \notin Told' /\ (pc'[c] = "run.wait" => Mode = "finite")
             /\ snap'[c] # {} => pc'[c] \in Gather /\ <<"caller", c>> \notin Told'
  <2>1. /\ Unique(sleepers, c)
        /\ Sleeping(c) => pc[c] \in Asleep /\ <<"caller", c>> \notin Told /\ (pc[c] = "run.wait" => Mode = "finite")
        /\ snap[c] # {} => pc[c] \in Gather /\ <<"caller", c>> \notin Told
    BY DEF Loops
  <2>2. <<"caller", c>> \in Told' => <<"caller", c>> \in Told \/ snap[c] = {w}
    BY <1>5 DEF Calls
  <2>3. snap'[c] = snap[c] \ {w}
    BY <1>1
  <2>4. snap[c] = {w} => pc[c] \notin Asleep
    BY <2>1 DEF Gather, Asleep
  <2>5. (Sleeping(c)' <=> Sleeping(c)) /\ Unique(sleepers', c)
    BY <1>1, <2>1 DEF Sleeping, Has, Unique
  <2> QED BY <1>1, <2>1, <2>2, <2>3, <2>4, <2>5
<1>7. ASSUME NEW v \in Workers, <<"joined", v>> \in Told' PROVE job'[v] = "none" /\ \E c \in Callers : v \in snap'[c]
  <2>1. <<"joined", v>> \in Told /\ v # w
    BY <1>5, <1>7 DEF Calls
  <2> QED BY <1>1, <2>1 DEF Loops
<1>8. ASSUME NEW c \in Callers PROVE Lulls(c)
  <2>1. <<"caller", c>> \in Told' => <<"caller", c>> \in Told \/ snap[c] = {w}
    BY <1>5 DEF Calls
  <2>2. snap[c] = {w} => pc[c] # "run.wait"
    BY DEF Loops, Gather
  <2> QED BY <1>1, <2>1, <2>2 DEF Lulls, Sleeping, Has
<1> QED BY <1>5, <1>6, <1>7, <1>8 DEF Loops, Workers, Asleep, Gather

\* A caller at work elsewhere comes back.
LEMMA WakesL == ASSUME WInv, Loops, NEW c \in Callers, CallerWakes(c) PROVE Loops' /\ \A d \in Callers : Lulls(d)
<1> DEFINE x == <<"caller", c>>
<1>1. pc[c] = "idle" /\ Post(x) /\ UNCHANGED <<sleepers, pc, snap, job>> /\ ~Posted(x)
  BY DEF CallerWakes, count, callVars, pool
<1>2. x \in LoopItem /\ {x} \in SUBSET Signals /\ x \notin Told /\ Tells(<<x>>, {x})
  BY <1>1, TellsOne DEF Told, Signals, LoopItem
<1>3. Sends({}, {x})
  <2> HIDE DEF x
  <2>1. Tells(loop, Told) /\ Told \cap {x} = {}
    BY <1>2 DEF Loops
  <2> QED BY <1>1, <1>2, <2>1, SendsPost
<1>4. Told' = (Told \ {}) \cup {x} /\ Tells(loop, Told)'
  <2> HIDE DEF x
  <2> QED BY <1>2, <1>3, ToldNow
<1>5. ASSUME NEW d \in Callers
      PROVE  /\ Unique(sleepers', d)
             /\ Sleeping(d)' => pc'[d] \in Asleep /\ <<"caller", d>> \notin Told' /\ (pc'[d] = "run.wait" => Mode = "finite")
             /\ snap'[d] # {} => pc'[d] \in Gather /\ <<"caller", d>> \notin Told'
  <2>1. /\ Unique(sleepers, d)
        /\ Sleeping(d) => pc[d] \in Asleep /\ <<"caller", d>> \notin Told /\ (pc[d] = "run.wait" => Mode = "finite")
        /\ snap[d] # {} => pc[d] \in Gather /\ <<"caller", d>> \notin Told
    BY DEF Loops
  <2>2. d = c => pc[d] \notin Asleep \cup Gather
    BY <1>1 DEF Asleep, Gather
  <2>3. <<"caller", d>> \in Told' => <<"caller", d>> \in Told \/ d = c
    BY <1>4
  <2>4. (Sleeping(d)' <=> Sleeping(d)) /\ Unique(sleepers', d)
    BY <1>1, <2>1 DEF Sleeping, Has, Unique
  <2> QED BY <1>1, <2>1, <2>2, <2>3, <2>4
<1>6. ASSUME NEW w \in Workers, <<"joined", w>> \in Told' PROVE job'[w] = "none" /\ \E d \in Callers : w \in snap'[d]
  <2>1. <<"joined", w>> \in Told
    BY <1>4, <1>6
  <2> QED BY <1>1, <2>1 DEF Loops
<1>7. ASSUME NEW d \in Callers PROVE Lulls(d)
  <2>1. <<"caller", d>> \in Told' => <<"caller", d>> \in Told \/ d = c
    BY <1>4
  <2> QED BY <1>1, <2>1 DEF Lulls, Sleeping, Has
<1> QED BY <1>4, <1>5, <1>6, <1>7 DEF Loops, Workers, Asleep, Gather

\* A caller the loop runs is there, so it neither sleeps nor waits for workers.
LEMMA Here ==
  ASSUME Loops, NEW c \in Callers, At(<<"caller", c>>)
  PROVE  loop # <<>> /\ Head(loop) = <<"caller", c>> /\ <<"caller", c>> \in Told /\ ~Sleeping(c) /\ snap[c] = {}
<1>1. loop # <<>> /\ Head(loop) = <<"caller", c>> /\ loop \in Seq(LoopItem)
  BY DEF At, Loops, Tells
<1>2. 1 \in 1..Len(loop) /\ loop[1] = <<"caller", c>>
  BY <1>1
<1>3. <<"caller", c>> \in Told
  BY <1>2 DEF Told, Posted, Signals
<1> QED BY <1>1, <1>3 DEF Loops

\* A caller leaves the loop, to sleep on the event or to wait for workers.
LEMMA LeavesL ==
  ASSUME WInv, Loops, Shapes, NEW c \in Callers, At(<<"caller", c>>), NEW q, Tells(q, {}), Leave(q), job' = job,
         NEW where, pc' = [pc EXCEPT ![c] = where],
         \/ /\ sleepers' = Append(sleepers, c) /\ snap' = snap /\ where \in Asleep /\ (where = "run.wait" => Mode = "finite")
         \/ /\ sleepers' = sleepers /\ \E team : snap' = [snap EXCEPT ![c] = team]
            /\ where \in Gather
  PROVE  Loops' /\ <<"caller", c>> \notin Told' /\ (sleepers' = Append(sleepers, c) => Sleeping(c)')
         /\ \A d \in Callers : Lulls(d)
<1> DEFINE x == <<"caller", c>>
<1>1. loop # <<>> /\ Head(loop) = x /\ x \in Told /\ ~Sleeping(c) /\ snap[c] = {}
  BY Here
<1>2. Sends({x}, {})
  <2> HIDE DEF x
  <2>1. Tells(loop, Told) /\ (Told \ {x}) \cap {} = {}
    BY DEF Loops
  <2> QED BY <1>1, <2>1, SendsLeave
<1>3. Told' = (Told \ {x}) \cup {} /\ Tells(loop, Told)'
  <2> HIDE DEF x
  <2>1. {} \in SUBSET Signals
    OBVIOUS
  <2> QED BY <1>2, <2>1, ToldNow
<1>4. /\ \A d \in Callers \ {c} : pc'[d] = pc[d] /\ snap'[d] = snap[d]
      /\ pc'[c] = where
  BY DEF Shapes
<1>5. ASSUME NEW d \in Callers, sleepers' = Append(sleepers, c)
      PROVE  Unique(sleepers', d) /\ (Sleeping(d)' <=> Sleeping(d) \/ d = c)
  <2>1. sleepers \in Seq(Callers) /\ sleepers' = sleepers \o <<c>> /\ <<c>> \in Seq(Callers)
    BY <1>5, AppendIsConcat DEF WInv, Rest
  <2>2. Len(<<c>>) = 1 /\ <<c>>[1] = c
    OBVIOUS
  <2>3. (Has(<<c>>, d) <=> d = c) /\ Unique(<<c>>, d)
    BY <2>2 DEF Has, Unique
  <2>4. Unique(sleepers, d) /\ ~(Has(sleepers, d) /\ Has(<<c>>, d))
    BY <1>1, <2>3 DEF Loops, Sleeping
  <2>5. /\ Has(sleepers \o <<c>>, d) <=> Has(sleepers, d) \/ Has(<<c>>, d)
        /\ Unique(sleepers, d) /\ Unique(<<c>>, d) /\ ~(Has(sleepers, d) /\ Has(<<c>>, d)) => Unique(sleepers \o <<c>>, d)
    BY <2>1, HasBoth
  <2>6. Sleeping(d)' <=> Has(sleepers', d)
    BY DEF Sleeping, Has
  <2> QED BY <2>1, <2>3, <2>4, <2>5, <2>6 DEF Sleeping
<1>6. ASSUME NEW d \in Callers, sleepers' = sleepers
      PROVE  Unique(sleepers', d) /\ (Sleeping(d)' <=> Sleeping(d))
  BY <1>6 DEF Loops, Sleeping, Has, Unique
<1>7. ASSUME NEW d \in Callers
      PROVE  /\ Unique(sleepers', d)
             /\ Sleeping(d)' => pc'[d] \in Asleep /\ <<"caller", d>> \notin Told' /\ (pc'[d] = "run.wait" => Mode = "finite")
             /\ snap'[d] # {} => pc'[d] \in Gather /\ <<"caller", d>> \notin Told'
  <2>1. Unique(sleepers', d)
    BY <1>5, <1>6
  <2>2. CASE d = c
    BY <1>1, <1>3, <1>4, <1>5, <1>6, <2>1, <2>2
  <2>3. CASE d # c
    <3>1. /\ Sleeping(d) => pc[d] \in Asleep /\ <<"caller", d>> \notin Told /\ (pc[d] = "run.wait" => Mode = "finite")
          /\ snap[d] # {} => pc[d] \in Gather /\ <<"caller", d>> \notin Told
      BY DEF Loops
    <3>2. Sleeping(d)' => Sleeping(d)
      BY <1>5, <1>6, <2>3
    <3> QED BY <1>3, <1>4, <2>1, <2>3, <3>1, <3>2
  <2> QED BY <2>2, <2>3
<1>8. ASSUME NEW w \in Workers, <<"joined", w>> \in Told' PROVE job'[w] = "none" /\ \E d \in Callers : w \in snap'[d]
  <2>1. <<"joined", w>> \in Told
    BY <1>3, <1>8
  <2>2. PICK d \in Callers : w \in snap[d]
    BY <2>1 DEF Loops
  <2>3. d # c
    BY <1>1, <2>2
  <2> QED BY <1>4, <2>1, <2>2, <2>3 DEF Loops
<1>9. Loops'
  BY <1>3, <1>7, <1>8 DEF Loops, Workers, Asleep, Gather
<1>10. \A d \in Callers : Lulls(d)
  BY <1>3, <1>5, <1>6 DEF Lulls
<1> QED BY <1>3, <1>5, <1>6, <1>9, <1>10

\* A timer takes the caller it expires for out of its sleep.
LEMMA ExpireL ==
  ASSUME WInv, Loops, NEW c \in Callers, ExpireHop(c)
  PROVE  Loops' /\ \A d \in Callers : d # c \/ pc[c] # "run.wait" => Lulls(d)
<1> DEFINE x == <<"caller", c>>
<1>1. loop # <<>> /\ Head(loop) = <<"timeout", c>> /\ UNCHANGED <<pc, snap, job>> /\ Head(loop) \notin Signals
  BY DEF ExpireHop, At, pool, Signals
<1>2. CASE pc[c] = "run.wait"
  <2> DEFINE q == IF Posted(x) THEN <<>> ELSE <<x>>
             U == IF Posted(x) THEN {} ELSE {x}
  <2>1. sleepers' = Without(sleepers, c) /\ Leave(q)
    BY <1>2 DEF ExpireHop
  <2>2. U \in SUBSET Signals /\ Told \cap U = {} /\ Tells(q, U) /\ x \in Signals
    <3>1. x \in Signals /\ (Posted(x) <=> x \in Told)
      BY DEF Told, Signals
    <3> HIDE DEF x
    <3> QED BY <3>1, TellsOne, TellsNothing
  <2>3. Sends({Head(loop)}, U)
    <3> HIDE DEF q, U
    <3> QED BY <1>1, <2>1, <2>2, SendsLeave DEF Loops
  <2>4. Told' = (Told \ {Head(loop)}) \cup U /\ Tells(loop, Told)'
    <3> HIDE DEF U
    <3> QED BY <2>2, <2>3, ToldNow
  <2>5. Told' = Told \cup {x}
    <3>1. Told \ {Head(loop)} = Told
      BY <1>1 DEF Told
    <3>2. Posted(x) => x \in Told
      BY <2>2 DEF Told
    <3> HIDE DEF x
    <3> QED BY <2>4, <3>1, <3>2
  <2>6. ASSUME NEW d \in Callers
        PROVE  Unique(sleepers', d) /\ (Sleeping(d)' <=> Sleeping(d) /\ d # c)
    <3>1. sleepers \in Seq(Callers) /\ Unique(sleepers, c) /\ Unique(sleepers, d)
      BY DEF WInv, Rest, Loops
    <3>2. /\ \A y : y # c => (Has(Without(sleepers, c), y) <=> Has(sleepers, y))
          /\ Unique(sleepers, c) => ~Has(Without(sleepers, c), c)
          /\ \A y : Unique(sleepers, y) => Unique(Without(sleepers, c), y)
      BY <3>1, HasWithout
    <3>3. Sleeping(d)' <=> Has(sleepers', d)
      BY DEF Sleeping, Has
    <3> QED BY <2>1, <3>1, <3>2, <3>3 DEF Sleeping
  <2>7. ASSUME NEW d \in Callers
        PROVE  /\ Sleeping(d)' => pc'[d] \in Asleep /\ <<"caller", d>> \notin Told' /\ (pc'[d] = "run.wait" => Mode = "finite")
               /\ snap'[d] # {} => pc'[d] \in Gather /\ <<"caller", d>> \notin Told'
    <3>1. /\ Sleeping(d) => pc[d] \in Asleep /\ <<"caller", d>> \notin Told /\ (pc[d] = "run.wait" => Mode = "finite")
          /\ snap[d] # {} => pc[d] \in Gather /\ <<"caller", d>> \notin Told
      BY DEF Loops
    <3>2. d = c => snap[d] = {}
      BY <1>2, <3>1 DEF Gather
    <3> QED BY <1>1, <2>5, <2>6, <3>1, <3>2
  <2>8. ASSUME NEW w \in Workers, <<"joined", w>> \in Told' PROVE job'[w] = "none" /\ \E d \in Callers : w \in snap'[d]
    <3>1. <<"joined", w>> \in Told
      BY <2>5, <2>8
    <3> QED BY <1>1, <3>1 DEF Loops
  <2>9. Loops'
    BY <2>4, <2>6, <2>7, <2>8 DEF Loops, Workers, Asleep, Gather
  <2>10. \A d \in Callers : d # c => Lulls(d)
    BY <2>5, <2>6 DEF Lulls
  <2> QED BY <1>2, <2>9, <2>10
<1>3. CASE pc[c] # "run.wait"
  <2>1. sleepers' = sleepers /\ Leave(<<>>)
    BY <1>3 DEF ExpireHop
  <2>4. Sounds
    BY <1>1, <2>1, TellsNothing, SoundsQuiet
  <2>5. Shifts
    BY <1>1 DEF Shifts
  <2>6. Loops'
    BY <1>1, <2>4, <2>5, KeepLoops
  <2>7. \A d \in Callers : Lulls(d)
    BY <2>4, Roused
  <2> QED BY <2>6, <2>7
<1> QED BY <1>2, <1>3

-----------------------------------------------------------------------------
(* What callers have reached                                               *)

\* The event being set after the step, there is nothing left then.
NothingLeft ==
  OInv /\ Accounting /\ idle => Queue = {} /\ Done /\ \A c \in Callers : covered[c] \subseteq Tasks => Settled(c)
\* It is so in every state,
LEMMA IdlesAlways == NothingLeft
BY Idles DEF NothingLeft

\* after a step too,
LEMMA IdlesAfter == NothingLeft'
BY IdlesAlways, PTL

\* which a proof about a step cites in this form.
LEMMA IdlesNext ==
  ASSUME OInv', Accounting', idle'
  PROVE  Queue' = {} /\ Done' /\ \A c \in Callers : covered'[c] \subseteq Tasks => Settled(c)'
BY IdlesAfter DEF NothingLeft

\* A caller that does not move, in a step that lets nobody go too early.
LEMMA KeepDown ==
  ASSUME WInv, OInv', Accounting', Forward, NEW c \in Callers, DownOK(c), pc'[c] = pc[c],
         Lulls(c) \/ pc[c] = "run.wait"
  PROVE  DownOK(c)'
<1>1. /\ Spent => Spent'
      /\ Done /\ ~accepting => Done'
      /\ ~accepting => ~accepting'
  BY Stable DEF Forward
<1>2. ASSUME pc[c] = "down.resting" PROVE Sleeping(c)' \/ Spent'
  <2>1. CASE idle' /\ Sleeping(c)
    <3>1. ~accepting' /\ Queue' = {}
      BY <1>1, <1>2, <2>1, IdlesNext DEF DownOK
    <3> QED BY <3>1 DEF Spent
  <2> QED BY <1>1, <1>2, <2>1 DEF DownOK, Lulls
<1>3. pc[c] = "down.end" => Done /\ ~accepting
  BY DEF DownOK
<1> QED BY <1>1, <1>2, <1>3 DEF DownOK

\* Likewise a caller of run().
LEMMA KeepRun ==
  ASSUME WInv, OInv', Accounting', Forward, NEW c \in Callers, RunOK(c), pc'[c] = pc[c], Lulls(c),
         covered'[c] = covered[c], c \in expired' <=> c \in expired
  PROVE  RunOK(c)'
<1>1. \A t \in covered[c] : t \in Tasks /\ st[t] # "new" /\ st'[t] # "new"
  BY DEF RunOK, Forward, Ages
<1>2. Settled(c) => Settled(c)'
  BY <1>1, Stable
<1>3. idle' => Settled(c)'
  BY <1>1, IdlesNext
<1>4. Sleeping(c) => Sleeping(c)' \/ Settled(c)'
  BY <1>3 DEF Lulls
<1>5. closed => closed'
  BY DEF Forward
<1>6. pc'[c] = "run.wait" => \/ c \in expired'
                             \/ Mode = "finite" /\ (Sleeping(c)' \/ Settled(c)')
                             \/ Mode = "infinite" /\ (<<"caller", c>> \in Told' => closed')
  BY <1>2, <1>4, <1>5 DEF RunOK, Lulls
<1> QED BY <1>1, <1>2, <1>4, <1>6 DEF RunOK

\* A queue no loop is bound to has no workers.
LEMMA KeepBound ==
  ASSUME WInv, Downs, Crew, bound' \/ (bound' = bound /\ started' = started)
  PROVE  ~bound' => ~started' /\ \A w \in Workers : job'[w] = "none"
<1> SUFFICES ASSUME ~bound' PROVE ~started' /\ \A w \in Workers : job'[w] = "none"
  OBVIOUS
<1>1. ~started' /\ \A w \in Workers : job[w] = "none"
  BY DEF Downs
<1>2. registered' = {}
  BY <1>1 DEF Crew
<1> QED BY <1>1, <1>2, NamesAssumption DEF Crew, Shifts

\* A closed queue has nothing left.
LEMMA KeepClosed == ASSUME WInv, Downs, Forward, closed PROVE Spent' /\ Done'
<1>1. Spent /\ Done /\ ~accepting
  BY DEF Downs, Spent
<1> QED BY <1>1, Stable

\* What is known of shutdown() after a step, put together.
LEMMA Closing ==
  ASSUME \A c \in Callers : DownOK(c)', closed' => Spent' /\ Done', wake' => closed',
         ~bound' => ~started' /\ \A w \in Workers : job'[w] = "none"
  PROVE  Downs'
BY DEF Downs, Workers

\* The steps of runners, workers, callbacks and the world outside.
LEMMA QuietP ==
  ASSUME PInv, OInv', Accounting', Forward, Calm, Crew, UNCHANGED <<pc, covered, expired, closed, wake, bound, started>>,
         \A c \in Callers : Lulls(c),
         \A c \in Callers : \A w \in snap[c] : w \in snap'[c] \/ job'[w] = "none"
  PROVE  Teams' /\ Downs' /\ \A c \in Callers : RunOK(c)'
<1> USE DEF PInv
<1>1. Teams'
  BY KeepTeams
<1>2. \A c \in Callers : DownOK(c)'
  BY KeepDown DEF Downs
<1>3. \A c \in Callers : RunOK(c)'
  BY KeepRun
<1>4. Downs'
  <2>1. closed' => Spent' /\ Done'
    BY KeepClosed
  <2>2. wake' => closed'
    BY DEF Downs
  <2> QED BY <1>2, <2>1, <2>2, KeepBound, Closing
<1> QED BY <1>1, <1>3, <1>4

\* Coroutines are where they were, and have what they had, in those steps.
LEMMA StillP ==
  ASSUME \/ \E w \in Workers : WorkerStep(w)
         \/ \E t \in Tasks : RunnerStep(t) \/ Callback(t)
         \/ Outside \/ UNCHANGED vars
  PROVE  /\ UNCHANGED <<pc, covered, expired, closed, wake, bound, started>>
         /\ snap' = snap \/ \E w \in Workers : Joined(w)
<1>1. ASSUME NEW w \in Workers, WorkerStep(w)
      PROVE  UNCHANGED <<pc, covered, expired, closed, wake, bound, started>> /\ (snap' = snap \/ Joined(w))
  BY <1>1 DEF WorkerStep, Take, Stop, Sleep, Back, Joined, flags, callVars
<1>2. ASSUME NEW t \in Tasks, RunnerStep(t)
      PROVE  UNCHANGED <<pc, covered, expired, closed, wake, bound, started, snap>>
  BY <1>2 DEF RunnerStep, Unborn, Gate, Begin, Succeed, Retry, Fail, FailAborts, Cancelled, Swallow, EndRunner, HookSubmits,
     flags, callVars
<1>3. ASSUME NEW t \in Tasks, Callback(t)
      PROVE  UNCHANGED <<pc, covered, expired, closed, wake, bound, started, snap>>
  BY <1>3 DEF Callback, Release, ReleaseNone, Commit, CommitRefused, CancelHop, flags, callVars
<1>4. ASSUME Outside \/ UNCHANGED vars
      PROVE  UNCHANGED <<pc, covered, expired, closed, wake, bound, started, snap>>
  BY <1>4 DEF Outside, Due, Resume, ThreadSubmits, ThreadCancels, CallerWakes, Expire, vars, flags, callVars
<1> QED BY <1>1, <1>2, <1>3, <1>4

\* They do to sleepers, signals and workers what the first section says.
LEMMA StillL ==
  ASSUME WInv, Accounting, Shapes, Loops, Manned,
         \/ \E w \in Workers : WorkerStep(w)
         \/ \E t \in Tasks : RunnerStep(t) \/ Callback(t)
         \/ Outside \/ UNCHANGED vars
  PROVE  /\ Shapes' /\ Loops' /\ Crew /\ UNCHANGED <<pc, covered, expired, closed, wake, bound, started>>
         /\ \A c \in Callers : Lulls(c)
         /\ \A c \in Callers : \A w \in snap[c] : w \in snap'[c] \/ job'[w] = "none"
<1>1. Crew
  BY WorkerC, RunnerC, CallbackC, OutsideC
<1>2. Shifts
  BY <1>1 DEF Crew
<1>3. /\ UNCHANGED <<pc, covered, expired, closed, wake, bound, started>>
      /\ snap' = snap \/ \E w \in Workers : Joined(w)
  BY StillP
<1>4. CASE \E w \in Workers : Joined(w)
  <2>1. PICK w \in Workers : Joined(w)
    BY <1>4
  <2>2. Loops' /\ \A c \in Callers : Lulls(c)
    BY <2>1, JoinedL
  <2>3. <<"joined", w>> \in Told
    <3>1. loop # <<>> /\ Head(loop) = <<"joined", w>> /\ loop \in Seq(LoopItem)
      BY <2>1 DEF Joined, At, Loops, Tells
    <3>2. 1 \in 1..Len(loop) /\ loop[1] = <<"joined", w>>
      BY <3>1
    <3> QED BY <3>2 DEF Told, Posted, Signals
  <2>4. job'[w] = "none" /\ snap' = [c \in Callers |-> snap[c] \ {w}]
    BY <1>2, <2>1, <2>3, Ended DEF Joined
  <2>5. Shapes'
    BY <1>3, <2>4 DEF Shapes, Workers
  <2>6. \A c \in Callers : \A v \in snap[c] : v \in snap'[c] \/ job'[v] = "none"
    BY <2>4
  <2> QED BY <1>1, <1>3, <2>2, <2>5, <2>6
<1>5. CASE snap' = snap
  <2>1. Loops' /\ \A c \in Callers : Lulls(c)
    <3>1. CASE Sounds
      BY <1>2, <1>3, <1>5, <3>1, KeepLoops, Roused
    <3>2. CASE \E w \in Workers : Stop(w)
      BY <1>2, <3>2, StopL
    <3>3. CASE \E c \in Callers : CallerWakes(c)
      BY <3>3, WakesL
    <3>4. CASE \E w \in Workers : Joined(w)
      BY <3>4, JoinedL
    <3> QED BY <3>1, <3>2, <3>3, <3>4, RunnerS, WorkerS, CallbackS, OutsideS
  <2>2. Shapes'
    BY <1>3, <1>5 DEF Shapes, Workers
  <2>3. \A c \in Callers : \A v \in snap[c] : v \in snap'[c] \/ job'[v] = "none"
    BY <1>5
  <2> QED BY <1>1, <1>3, <2>1, <2>2, <2>3
<1> QED BY <1>3, <1>4, <1>5

\* So they keep the invariant.
LEMMA StillStep ==
  ASSUME PInv, OInv', Accounting', Forward, Calm,
         \/ \E w \in Workers : WorkerStep(w)
         \/ \E t \in Tasks : RunnerStep(t) \/ Callback(t)
         \/ Outside \/ UNCHANGED vars
  PROVE  Shapes' /\ Loops' /\ Teams' /\ Downs' /\ \A c \in Callers : RunOK(c)'
<1>1. /\ Shapes' /\ Loops' /\ Crew /\ UNCHANGED <<pc, covered, expired, closed, wake, bound, started>>
      /\ \A c \in Callers : Lulls(c)
      /\ \A c \in Callers : \A w \in snap[c] : w \in snap'[c] \/ job'[w] = "none"
  BY StillL DEF PInv, Teams
<1> QED BY <1>1, QuietP

-----------------------------------------------------------------------------
(* The steps of a caller                                                   *)

\* Only c moves, and has another share of work, team or expired limit.
OnlyMoves(c) ==
  \A d \in Callers \ {c} : /\ pc'[d] = pc[d] /\ covered'[d] = covered[d] /\ snap'[d] = snap[d]
                           /\ d \in expired' <=> d \in expired
\* Where c goes, if it does.
Goes(c, where) == pc'[c] = where /\ \A d \in Callers \ {c} : pc'[d] = pc[d]

\* A caller goes somewhere, the others stay.
LEMMA GotoP == ASSUME Shapes, NEW c \in Callers, NEW where \in Points, Goto(c, where) PROVE pc' \in [Callers -> Points] /\ Goes(c, where)
BY DEF Shapes, Goto, Goes

\* In no step of c do the others move.
LEMMA CallerShapes ==
  ASSUME WInv, Shapes, NEW c \in Callers, CallerStep(c), ~Reset(c)
  PROVE  Shapes' /\ OnlyMoves(c)
<1>1. covered' \in [Callers -> SUBSET Tasks] /\ \A d \in Callers \ {c} : covered'[d] = covered[d]
  <2>1. covered' = covered \/ covered' = [covered EXCEPT ![c] = {t \in Tasks : Live(t)}]
    BY DEF CallerStep, Yield, Run, RunRefused, RunWait, ExpireHop, RunWoken, RunTimesOut, RunRest, RunRested, RunStop, RunGathered,
       RunEnd, Join, JoinRest, JoinRested, ShutdownAgain, ForcedShutdown, CancelUnbound, Shutdown, DownRest, DownHalt, DownStop,
       DownEnd, Submit, Cancel, callVars
  <2>2. {t \in Tasks : Live(t)} \in SUBSET Tasks
    OBVIOUS
  <2> HIDE DEF Live
  <2> QED BY <2>1, <2>2 DEF Shapes
<1>2. \A d \in Callers \ {c} : d \in expired' <=> d \in expired
  <2>1. expired' = expired \/ expired' = expired \cup {c} \/ expired' = expired \ {c}
    BY DEF CallerStep, Yield, Run, RunRefused, RunWait, ExpireHop, RunWoken, RunTimesOut, RunRest, RunRested, RunStop, RunGathered,
       RunEnd, Join, JoinRest, JoinRested, ShutdownAgain, ForcedShutdown, CancelUnbound, Shutdown, DownRest, DownHalt, DownStop,
       DownEnd, Submit, Cancel, callVars
  <2> QED BY <2>1
<1>3. snap' \in [Callers -> SUBSET Workers] /\ \A d \in Callers \ {c} : snap'[d] = snap[d]
  <2>1. snap' = snap \/ snap' = [snap EXCEPT ![c] = registered]
    BY DEF CallerStep, Yield, Run, RunRefused, RunWait, ExpireHop, RunWoken, RunTimesOut, RunRest, RunRested, RunStop, RunGathered,
       RunEnd, Join, JoinRest, JoinRested, ShutdownAgain, ForcedShutdown, CancelUnbound, Shutdown, DownRest, DownHalt, DownStop,
       DownEnd, Submit, Cancel, Dismiss, Dismissed, callVars
  <2> QED BY <2>1 DEF Shapes, WInv, Rest
<1>4. pc' \in [Callers -> Points] /\ \A d \in Callers \ {c} : pc'[d] = pc[d]
  <2>0. ASSUME NEW where \in Points, Goto(c, where)
        PROVE  pc' \in [Callers -> Points] /\ \A d \in Callers \ {c} : pc'[d] = pc[d]
    BY <2>0, GotoP DEF Goes
  <2>1. CASE \/ Yield(c) \/ RunRefused(c) \/ ExpireHop(c) \/ ShutdownAgain(c) \/ CancelUnbound(c)
             \/ \E t \in Tasks : Submit(c, t) \/ Cancel(c, t)
    <3>1. pc' = pc
      BY <2>1 DEF Yield, RunRefused, ExpireHop, ShutdownAgain, CancelUnbound, Submit, Cancel, callVars
    <3> QED BY <3>1 DEF Shapes
  <2>2. CASE RunWait(c) \/ RunRest(c) \/ JoinRest(c) \/ DownRest(c)
    <3>1. \/ Goto(c, "run.wait") \/ Goto(c, "run.resting") \/ Goto(c, "run.stop") \/ Goto(c, "join.resting")
          \/ Goto(c, "idle") \/ Goto(c, "down.resting") \/ Goto(c, "down.halt")
      BY <2>2 DEF RunWait, RunRest, JoinRest, DownRest, AwaitIdle
    <3> QED BY <3>1, <2>0 DEF Points
  <2>3. CASE RunStop(c) \/ RunGathered(c) \/ DownStop(c)
    <3>1. Goto(c, "run.gather") \/ Goto(c, "run.end") \/ Goto(c, "down.gather") \/ Goto(c, "down.end")
      BY <2>3 DEF RunStop, RunGathered, DownStop, Dismiss, Dismissed
    <3> QED BY <3>1, <2>0 DEF Points
  <2>4. CASE \/ Run(c) \/ RunWoken(c) \/ RunTimesOut(c) \/ RunRested(c) \/ RunEnd(c) \/ Join(c) \/ JoinRested(c)
             \/ ForcedShutdown(c) \/ Shutdown(c) \/ DownHalt(c) \/ DownEnd(c)
    <3>1. \/ Goto(c, "run.go") \/ Goto(c, "run.stop") \/ Goto(c, "run.rest") \/ Goto(c, "idle")
          \/ Goto(c, "join.rest") \/ Goto(c, "down.stop") \/ Goto(c, "down.rest")
      BY <2>4 DEF Run, RunWoken, RunTimesOut, RunRested, RunEnd, Join, JoinRested, ForcedShutdown, Shutdown, DownHalt, DownEnd
    <3> QED BY <3>1, <2>0 DEF Points
  <2> QED BY <2>1, <2>2, <2>3, <2>4 DEF CallerStep
<1> QED BY <1>1, <1>2, <1>3, <1>4 DEF Shapes, OnlyMoves, Workers

\* A caller goes to sleep on the event.
Rests(c) == ~idle /\ ((RunWait(c) /\ Mode = "finite") \/ RunRest(c) \/ JoinRest(c) \/ DownRest(c))

\* It lets nobody go too early, and c sleeps after it.
LEMMA RestsL ==
  ASSUME WInv, Loops, Shapes, NEW c \in Callers, Rests(c)
  PROVE  Loops' /\ Sleeping(c)' /\ \A d \in Callers : Lulls(d)
<1>1. \E where \in {"run.wait", "run.resting", "join.resting", "down.resting"} :
        /\ pc' = [pc EXCEPT ![c] = where] /\ (where = "run.wait" => Mode = "finite")
        /\ At(<<"caller", c>>) /\ Leave(<<>>) /\ sleepers' = Append(sleepers, c)
  BY DEF Rests, RunWait, RunRest, JoinRest, DownRest, AwaitIdle, CallerAt, Goto
<1>2. job' = job /\ snap' = snap
  BY DEF Rests, RunWait, RunRest, JoinRest, DownRest, pool
<1> QED BY <1>1, <1>2, TellsNothing, LeavesL DEF Asleep

\* A caller puts the sentinels and waits for the workers.
Dismisses(c) == \E next \in Gather : Dismiss(c, next) /\ At(<<"caller", c>>) /\ UNCHANGED <<job, sleepers>>

\* Nor does this.
LEMMA DismissesL ==
  ASSUME WInv, Loops, Shapes, NEW c \in Callers, Dismisses(c)
  PROVE  Loops' /\ \A d \in Callers : Lulls(d)
<1>1. PICK next \in Gather : Dismiss(c, next) /\ At(<<"caller", c>>) /\ UNCHANGED <<job, sleepers>>
  BY DEF Dismisses
<1>2. Cardinality(registered) \in Nat
  BY WorkersFinite, FS_Subset, FS_CardinalityType DEF WInv, Rest
<1>3. Tells(Woken(Cardinality(registered)), {})
  BY <1>2, WokenT
<1>4. /\ Leave(Woken(Cardinality(registered))) /\ pc' = [pc EXCEPT ![c] = next]
      /\ \E team : snap' = [snap EXCEPT ![c] = team]
  BY <1>1 DEF Dismiss, Goto
<1> QED BY <1>1, <1>3, <1>4, LeavesL

\* In the other steps a caller goes on, or awaits something of its own.
LEMMA CallerS ==
  ASSUME WInv, Accounting, Loops, NEW c \in Callers, CallerStep(c), ~Reset(c), ~Rests(c), ~Dismisses(c), ~ExpireHop(c)
  PROVE  Sounds /\ snap' = snap /\ At(<<"caller", c>>)
<1>0. At(<<"caller", c>>)
  <2>1. CASE \/ Yield(c) \/ Run(c) \/ RunRefused(c) \/ RunWait(c) \/ RunWoken(c) \/ RunTimesOut(c)
             \/ RunRest(c) \/ RunRested(c) \/ RunStop(c) \/ RunGathered(c) \/ RunEnd(c)
    BY <2>1 DEF Yield, Run, RunRefused, RunWait, RunWoken, RunTimesOut, RunRest, RunRested, RunStop, RunGathered, RunEnd,
       MayCall, CallerAt
  <2>2. CASE \/ Join(c) \/ JoinRest(c) \/ JoinRested(c) \/ ShutdownAgain(c) \/ ForcedShutdown(c) \/ CancelUnbound(c)
             \/ Shutdown(c) \/ DownRest(c) \/ DownHalt(c) \/ DownStop(c) \/ DownEnd(c) \/ \E t \in Tasks : Submit(c, t) \/ Cancel(c, t)
    BY <2>2 DEF Join, JoinRest, JoinRested, ShutdownAgain, ForcedShutdown, CancelUnbound, Shutdown, DownRest, DownHalt, DownStop,
       DownEnd, Submit, Cancel, MayCall, CallerAt
  <2> QED BY <2>1, <2>2 DEF CallerStep
<1>1. loop # <<>>
  BY <1>0, Here
<1>2. CASE Yield(c) \/ RunRefused(c) \/ RunRested(c) \/ RunEnd(c) \/ JoinRested(c) \/ DownHalt(c)
  <2>1. UNCHANGED <<sleepers, snap>> /\ (Stay(<<>>) \/ Leave(<<>>))
    BY <1>2 DEF Yield, RunRefused, RunRested, RunEnd, JoinRested, DownHalt, count, callVars
  <2> QED BY <1>0, <1>1, <2>1, TellsNothing, SoundsQuiet
<1>3. CASE RunWait(c) \/ RunRest(c) \/ JoinRest(c) \/ DownRest(c)
  <2>1. UNCHANGED <<sleepers, snap>> /\ (Stay(<<>>) \/ Leave(<<>>))
    BY <1>3, CallersAssumption DEF RunWait, RunRest, JoinRest, DownRest, AwaitIdle, Rests
  <2> QED BY <1>0, <1>1, <2>1, TellsNothing, SoundsQuiet
<1>4. CASE RunWoken(c)
  <2>1. UNCHANGED <<sleepers, snap>> /\ loop' = Without(loop, <<"timeout", c>>)
    BY <1>4 DEF RunWoken, count
  <2>2. Sends({}, {})
    BY <2>1, SendsWithout DEF Loops
  <2> QED BY <1>0, <2>1, <2>2 DEF Sounds, Rouses
<1>5. CASE Run(c) \/ Join(c) \/ Shutdown(c)
  <2>1. UNCHANGED <<sleepers, snap>> /\ (Stay(<<>>) \/ Stay(StartItems))
    BY <1>5 DEF Run, Join, Shutdown, count
  <2>2. Tells(StartItems, {})
    <3>1. Cardinality(ready) + stops \in Int
      BY QueuedNat DEF WInv, Rest
    <3>2. Spawned(Cardinality(ready) + stops) \in Seq(Workers)
      BY <3>1, SpawnedFree
    <3> QED BY <3>2, TellsItems, Kinds DEF StartItems
  <2> QED BY <1>0, <2>1, <2>2, TellsNothing, SoundsQuiet
<1>6. CASE RunTimesOut(c) \/ ForcedShutdown(c) \/ CancelUnbound(c)
  <2>1. (\E kill : Abort(kill, {}, "cancelled") /\ Stay(AbortItems(kill, {}))) /\ snap' = snap
    BY <1>6 DEF RunTimesOut, ForcedShutdown, CancelUnbound
  <2>2. {} \in SUBSET Tasks
    OBVIOUS
  <2>3. Sounds
    BY <2>1, <2>2, AbortT, SoundsStay
  <2> QED BY <1>0, <2>1, <2>3
<1>7. CASE RunStop(c) \/ RunGathered(c) \/ DownStop(c)
  <2>1. UNCHANGED <<sleepers, job>> /\ ((\E next : Dismissed(c, next)) \/ (Stay(<<>>) /\ snap' = snap))
    BY <1>0, <1>7 DEF RunStop, RunGathered, DownStop, count, Dismisses, Gather
  <2>2. CASE \E next : Dismissed(c, next)
    <3>1. Stay(Woken(Cardinality(ready))) /\ snap' = snap
      BY <2>2 DEF Dismissed
    <3> QED BY <1>0, <2>1, <3>1, QueuedNat, WokenT, SoundsQuiet
  <2>3. CASE Stay(<<>>) /\ snap' = snap
    BY <1>0, <2>1, <2>3, TellsNothing, SoundsQuiet
  <2> QED BY <2>1, <2>2, <2>3
<1>8. CASE ShutdownAgain(c) \/ DownEnd(c)
  <2>1. UNCHANGED <<sleepers, snap>> /\ Stay(WakeItems) /\ closed'
    BY <1>8 DEF ShutdownAgain, DownEnd, count
  <2> QED BY <1>0, <2>1, WakeT, SoundsStay
<1>9. ASSUME NEW t \in Tasks, Submit(c, t) \/ Cancel(c, t) PROVE Sounds /\ snap' = snap
  <2>1. CASE Submit(c, t)
    <3>1. UNCHANGED <<sleepers, snap>> /\ Stay(EnqueueItems(t))
      BY <2>1 DEF Submit, Enqueue
    <3> QED BY <3>1, EnqueueT, SoundsQuiet
  <2>2. CASE Cancel(c, t)
    BY <2>2, CancelT, SoundsStay DEF Cancel
  <2> QED BY <1>9, <2>1, <2>2
<1> QED BY <1>0, <1>2, <1>3, <1>4, <1>5, <1>6, <1>7, <1>8, <1>9 DEF CallerStep


\* What a caller's step sends, and who goes on sleeping in it.
LEMMA CallerL ==
  ASSUME WInv, Accounting, Shapes, Manned, Loops, NEW c \in Callers, CallerStep(c), ~Reset(c)
  PROVE  /\ Loops' /\ \A d \in Callers : Lulls(d) \/ (d = c /\ ExpireHop(c) /\ pc[c] = "run.wait")
         /\ Rests(c) => Sleeping(c)'
<1>1. CASE Rests(c)
  BY <1>1, RestsL
<1>2. CASE ~Rests(c) /\ Dismisses(c)
  BY <1>2, DismissesL
<1>3. CASE ~Rests(c) /\ ExpireHop(c)
  BY <1>3, ExpireL
<1>4. CASE ~Rests(c) /\ ~Dismisses(c) /\ ~ExpireHop(c)
  <2>1. Sounds /\ snap' = snap /\ At(<<"caller", c>>)
    BY <1>4, CallerS
  <2>2. \A d \in Callers : pc'[d] = pc[d] \/ <<"caller", d>> \in Told
    BY <2>1, CallerShapes, Here DEF OnlyMoves
  <2>3. Shifts
    <3>1. CASE Stopping(c)
      <4>1. job' = job
        BY <3>1 DEF Stopping, RunStop, RunGathered, DownStop
      <4> QED BY <4>1 DEF Shifts
    <3> QED BY <3>1, CallerC DEF Crew
  <2> QED BY <1>4, <2>1, <2>2, <2>3, KeepLoops, Roused
<1> QED BY <1>1, <1>2, <1>3, <1>4

\* The other callers have reached what they had.
LEMMA OthersP ==
  ASSUME PInv, OInv', Accounting', Forward, NEW c \in Callers, CallerStep(c), ~Reset(c)
  PROVE  \A d \in Callers \ {c} : DownOK(d)' /\ RunOK(d)'
<1> USE DEF PInv
<1>1. OnlyMoves(c) /\ \A d \in Callers \ {c} : Lulls(d)
  BY CallerShapes, CallerL DEF Teams
<1> QED BY <1>1, KeepDown, KeepRun DEF OnlyMoves, Downs

\* A worker that no call of stop waits for runs nothing, and takes nothing more.
LEMMA Deserted ==
  ASSUME Loops, Teams, NEW c \in Callers, At(<<"caller", c>>), registered = {} \/ pc[c] \in Gather
  PROVE  \A w \in Workers : job[w] \notin Tasks /\ (job[w] = "get" => Spent)
<1>1. snap[c] = {}
  BY Here
<1> QED BY <1>1 DEF Teams

\* The end of everything, after a step.
Ends == OInv /\ Queue = {} /\ (\A t \in Tasks : ~Active(t)) => Done
\* It is so in every state,
LEMMA EndsAlways == Ends
BY AllOver DEF Ends

\* and after a step.
LEMMA EndsAfter == Ends'
BY EndsAlways, PTL

\* Where the steps of a shutdown lead.
LEMMA DownSelf ==
  ASSUME PInv, OInv', Accounting', Forward, NEW c \in Callers, CallerStep(c), ~Reset(c)
  PROVE  DownOK(c)'
<1> USE DEF PInv
<1>1. /\ Spent => Spent'
      /\ Done /\ ~accepting => Done'
      /\ ~accepting => ~accepting'
  BY Stable DEF Forward
<1>2. DownOK(c)
  BY DEF Downs
<1>3. (Lulls(c) \/ pc[c] = "run.wait") /\ (Rests(c) => Sleeping(c)')
  BY CallerL DEF Teams
<1>4. CASE \/ Yield(c) \/ RunRefused(c) \/ ExpireHop(c) \/ ShutdownAgain(c) \/ CancelUnbound(c)
           \/ \E t \in Tasks : Submit(c, t) \/ Cancel(c, t)
  <2>1. pc' = pc
    BY <1>4 DEF Yield, RunRefused, ExpireHop, ShutdownAgain, CancelUnbound, Submit, Cancel, callVars
  <2> QED BY <1>2, <1>3, <2>1, KeepDown
<1>5. CASE \/ Run(c) \/ RunWait(c) \/ RunWoken(c) \/ RunTimesOut(c) \/ RunRest(c) \/ RunRested(c) \/ RunStop(c) \/ RunGathered(c)
           \/ RunEnd(c) \/ Join(c) \/ JoinRest(c) \/ JoinRested(c) \/ DownEnd(c)
  <2>1. CASE \/ Run(c) \/ RunWait(c) \/ RunWoken(c) \/ RunTimesOut(c) \/ RunRest(c) \/ RunRested(c)
    <3>1. pc'[c] \in {"run.go", "run.wait", "run.rest", "run.resting", "run.stop"}
      BY <2>1 DEF Run, RunWait, RunWoken, RunTimesOut, RunRest, RunRested, AwaitIdle, Goto, Shapes
    <3> QED BY <3>1 DEF DownOK
  <2>2. CASE RunStop(c) \/ RunGathered(c) \/ RunEnd(c) \/ Join(c) \/ JoinRest(c) \/ JoinRested(c) \/ DownEnd(c)
    <3>1. pc'[c] \in {"run.gather", "run.end", "idle", "join.rest", "join.resting"}
      BY <2>2 DEF RunStop, RunGathered, RunEnd, Join, JoinRest, JoinRested, DownEnd, Dismiss, Dismissed, AwaitIdle, Goto, Shapes
    <3> QED BY <3>1 DEF DownOK
  <2> QED BY <1>5, <2>1, <2>2
<1>6. CASE ForcedShutdown(c)
  <2>1. pc'[c] = "down.stop" /\ accepting' = FALSE /\ Abort(TRUE, {}, "cancelled")
    BY <1>6 DEF ForcedShutdown, Goto, Shapes
  <2>2. Unspared(TRUE) = Tasks /\ ready \subseteq Tasks /\ timers \subseteq Tasks /\ dormant \subseteq Tasks
    BY DEF Unspared, WInv, OInv, TasksOK
  <2>3. Queue' = {}
    BY <2>1, <2>2 DEF Abort, Queue
  <2> QED BY <2>1, <2>3 DEF DownOK, Spent
<1>7. CASE Shutdown(c)
  <2>1. pc'[c] = "down.rest" /\ ~accepting'
    BY <1>7 DEF Shutdown, Goto, Shapes
  <2> QED BY <2>1 DEF DownOK
<1>8. CASE DownRest(c)
  <2>1. pc[c] = "down.rest" /\ ~accepting
    BY <1>2, <1>8 DEF DownRest, CallerAt, DownOK
  <2>2. CASE idle
    <3>1. Spent /\ pc'[c] = "down.halt"
      BY <1>8, <2>1, <2>2, Idles DEF WInv, DownRest, AwaitIdle, Spent, Goto, Shapes
    <3> QED BY <1>1, <2>1, <3>1 DEF DownOK
  <2>3. CASE ~idle
    <3>1. Sleeping(c)' /\ pc'[c] = "down.resting"
      BY <1>3, <1>8, <2>3 DEF Rests, DownRest, AwaitIdle, Goto, Shapes
    <3> QED BY <1>1, <2>1, <3>1 DEF DownOK
  <2> QED BY <2>2, <2>3
<1>9. CASE DownHalt(c)
  <2>1. ~Sleeping(c) /\ pc[c] \in {"down.resting", "down.halt"} /\ pc'[c] = "down.stop"
    BY <1>9, Here DEF DownHalt, CallerAt, Goto, Shapes
  <2>2. Spent /\ ~accepting
    BY <1>2, <2>1 DEF DownOK
  <2> QED BY <1>1, <2>1, <2>2 DEF DownOK
<1>10. CASE DownStop(c)
  <2>1. pc[c] \in {"down.stop", "down.gather"} /\ At(<<"caller", c>>)
    BY <1>10 DEF DownStop, CallerAt
  <2>2. Spent /\ ~accepting /\ Spent' /\ ~accepting'
    BY <1>1, <1>2, <2>1 DEF DownOK
  <2>3. CASE Dismiss(c, "down.gather")
    <3>1. pc'[c] = "down.gather"
      BY <2>3 DEF Dismiss, Goto, Shapes
    <3> QED BY <2>2, <3>1 DEF DownOK
  <2>4. CASE Dismissed(c, "down.end") /\ (registered = {} \/ pc[c] = "down.gather")
    <3>1. \A t \in Tasks : ~Active(t)
      BY <2>1, <2>4, Deserted DEF Teams, Gather
    <3>2. Done
      BY <2>2, <3>1, AllOver DEF WInv, Spent
    <3>3. pc'[c] = "down.end"
      BY <2>4 DEF Dismissed, Goto, Shapes
    <3> QED BY <1>1, <2>2, <3>2, <3>3 DEF DownOK
  <2> QED BY <1>10, <2>3, <2>4 DEF DownStop, CallerAt
<1> QED BY <1>4, <1>5, <1>6, <1>7, <1>8, <1>9, <1>10 DEF CallerStep


\* A caller of run() that waits for an open queue to be closed is not resumed.
LEMMA Serves ==
  ASSUME WInv, Loops, NEW c \in Callers, RunWait(c), Mode = "infinite", ~wake
  PROVE  <<"caller", c>> \notin Told' /\ pc' = [pc EXCEPT ![c] = "run.wait"]
<1> DEFINE x == <<"caller", c>>
<1>1. loop # <<>> /\ Head(loop) = x /\ Leave(<<>>) /\ pc' = [pc EXCEPT ![c] = "run.wait"]
  BY Here DEF RunWait, CallerAt, Goto
<1> HIDE DEF x
<1>2. Tells(loop, Told) /\ (Told \ {x}) \cap {} = {} /\ {} \in SUBSET Signals
  BY DEF Loops
<1>3. Sends({x}, {})
  BY <1>1, <1>2, TellsNothing, SendsLeave
<1>4. Told' = (Told \ {x}) \cup {}
  BY <1>2, <1>3, ToldNow
<1> QED BY <1>1, <1>4 DEF x

\* Where the steps of a run lead.
LEMMA RunSelf ==
  ASSUME WInv, Accounting, Shapes, Loops, Manned, Shut, OInv', Accounting', Forward,
         NEW c \in Callers, RunOK(c), CallerStep(c), ~Reset(c)
  PROVE  RunOK(c)'
<1>1. RunOK(c) /\ pc \in [Callers -> Points] /\ covered \in [Callers -> SUBSET Tasks]
  BY DEF Shapes
<1>2. (Lulls(c) \/ (ExpireHop(c) /\ pc[c] = "run.wait")) /\ (Rests(c) => Sleeping(c)')
  BY CallerL
<1>3. CASE \/ Yield(c) \/ RunRefused(c) \/ (ExpireHop(c) /\ pc[c] # "run.wait") \/ ShutdownAgain(c) \/ CancelUnbound(c)
           \/ \E t \in Tasks : Submit(c, t) \/ Cancel(c, t)
  <2>1. UNCHANGED <<pc, covered, expired>> /\ pc[c] # "run.wait"
    BY <1>3 DEF Yield, RunRefused, ExpireHop, ShutdownAgain, CancelUnbound, Submit, Cancel, callVars, MayCall, CallerAt
  <2> QED BY <1>1, <1>2, <2>1, KeepRun
<1>4. CASE Run(c) \/ ForcedShutdown(c) \/ Shutdown(c)
  <2>1. /\ covered' = [covered EXCEPT ![c] = LiveTasks] /\ expired' = expired /\ pc[c] = "idle"
        /\ pc'[c] \in {"run.go", "down.stop", "down.rest"}
    BY <1>1, <1>4 DEF Run, ForcedShutdown, Shutdown, MayCall, CallerAt, Goto, LiveTasks
  <2>2. covered'[c] = LiveTasks
    BY <1>1, <2>1
  <2>3. \A t \in covered'[c] : t \in Tasks /\ st'[t] # "new"
    BY <2>2 DEF LiveTasks, Live, Forward, Ages
  <2>4. c \notin expired'
    BY <1>1, <2>1 DEF RunOK
  <2> QED BY <2>1, <2>3, <2>4 DEF RunOK
<1>5. ASSUME covered' = covered
      PROVE  /\ \A t \in covered'[c] : t \in Tasks /\ st'[t] # "new"
             /\ Settled(c) => Settled(c)'
             /\ Done => Settled(c)
             /\ idle => Settled(c)
  <2>1. \A t \in covered[c] : t \in Tasks /\ st[t] # "new"
    BY <1>1 DEF RunOK
  <2>2. \A t \in covered'[c] : t \in Tasks /\ st'[t] # "new"
    BY <1>5, <2>1 DEF Forward, Ages
  <2>3. Settled(c) => Settled(c)'
    BY <1>5, <2>1, Stable
  <2>4. Done => Settled(c)
    BY <2>1 DEF Done, Settled
  <2>5. idle => Settled(c)
    BY <2>4, Idles DEF WInv
  <2> QED BY <2>2, <2>3, <2>4, <2>5
<1>6. CASE \/ RunTimesOut(c) \/ RunEnd(c) \/ Join(c) \/ JoinRest(c) \/ JoinRested(c)
           \/ DownRest(c) \/ DownHalt(c) \/ DownStop(c) \/ DownEnd(c)
  <2>1. CASE RunTimesOut(c)
    <3>1. covered' = covered /\ pc'[c] = "run.rest" /\ c \notin expired'
      BY <1>1, <2>1 DEF RunTimesOut, Goto
    <3> QED BY <1>5, <3>1 DEF RunOK
  <2>2. CASE RunEnd(c) \/ Join(c) \/ JoinRest(c) \/ JoinRested(c)
    <3>1. UNCHANGED <<covered, expired>> /\ pc'[c] \in {"idle", "join.rest", "join.resting"} /\ pc[c] # "run.wait"
      BY <1>1, <2>2 DEF RunEnd, Join, JoinRest, JoinRested, AwaitIdle, MayCall, CallerAt, Goto, callVars
    <3> QED BY <1>1, <1>5, <3>1 DEF RunOK
  <2>3. CASE DownRest(c) \/ DownHalt(c) \/ DownStop(c) \/ DownEnd(c)
    <3>1. /\ UNCHANGED <<covered, expired>> /\ pc[c] # "run.wait"
          /\ pc'[c] \in {"idle", "down.resting", "down.halt", "down.stop", "down.gather", "down.end"}
      BY <1>1, <2>3 DEF DownRest, DownHalt, DownStop, DownEnd, AwaitIdle, Dismiss, Dismissed, CallerAt, Goto
    <3> QED BY <1>1, <1>5, <3>1 DEF RunOK
  <2> QED BY <1>6, <2>1, <2>2, <2>3
<1>7. CASE ExpireHop(c) /\ pc[c] = "run.wait"
  <2>1. covered' = covered /\ pc'[c] = "run.wait" /\ c \in expired'
    BY <1>7 DEF ExpireHop
  <2> QED BY <1>5, <2>1 DEF RunOK
<1>8. CASE RunWait(c)
  <2>1. UNCHANGED <<covered, expired>> /\ pc[c] = "run.go" /\ c \notin expired'
    BY <1>1, <1>8 DEF RunWait, CallerAt, RunOK
  <2>2. CASE (Mode = "finite" /\ idle) \/ (Mode = "infinite" /\ wake)
    <3>1. pc'[c] = "run.stop"
      BY <1>1, <1>8, <2>2 DEF RunWait, AwaitIdle, Goto
    <3>2. Settled(c)
      BY <1>5, <2>1, <2>2 DEF Shut
    <3> QED BY <1>5, <2>1, <3>1, <3>2 DEF RunOK
  <2>3. CASE Mode = "finite" /\ ~idle
    <3>1. pc'[c] = "run.wait" /\ Sleeping(c)'
      BY <1>1, <1>2, <1>8, <2>3 DEF Rests, RunWait, AwaitIdle, Goto
    <3> QED BY <1>5, <2>1, <2>3, <3>1 DEF RunOK
  <2>4. CASE Mode = "infinite" /\ ~wake
    <3>1. pc'[c] = "run.wait" /\ <<"caller", c>> \notin Told'
      BY <1>1, <1>8, <2>4, Serves
    <3> QED BY <1>5, <2>1, <2>4, <3>1 DEF RunOK
  <2> QED BY <2>2, <2>3, <2>4, CallersAssumption
<1>9. CASE RunRest(c)
  <2>1. UNCHANGED <<covered, expired>> /\ pc[c] = "run.rest" /\ c \notin expired'
    BY <1>1, <1>9 DEF RunRest, CallerAt, RunOK
  <2>2. CASE idle
    <3>1. pc'[c] = "run.stop"
      BY <1>1, <1>9, <2>2 DEF RunRest, AwaitIdle, Goto
    <3> QED BY <1>5, <2>1, <2>2, <3>1 DEF RunOK
  <2>3. CASE ~idle
    <3>1. pc'[c] = "run.resting" /\ Sleeping(c)'
      BY <1>1, <1>2, <1>9, <2>3 DEF Rests, RunRest, AwaitIdle, Goto
    <3> QED BY <1>5, <2>1, <3>1 DEF RunOK
  <2> QED BY <2>2, <2>3
<1>10. CASE RunWoken(c) \/ RunRested(c) \/ RunStop(c) \/ RunGathered(c)
  <2>1. /\ UNCHANGED <<covered, expired>> /\ c \notin expired'
        /\ pc[c] \in {"run.wait", "run.resting", "run.stop", "run.gather"} /\ At(<<"caller", c>>)
        /\ pc'[c] \in {"run.stop", "run.gather", "run.end"}
    <3>1. CASE RunWoken(c) \/ RunRested(c)
      BY <1>1, <3>1 DEF RunWoken, RunRested, CallerAt, Goto, callVars, RunOK
    <3>2. CASE RunStop(c) \/ RunGathered(c)
      BY <1>1, <3>2 DEF RunStop, RunGathered, Dismiss, Dismissed, CallerAt, Goto, RunOK
    <3> QED BY <1>10, <3>1, <3>2
  <2>2. ~Sleeping(c) /\ <<"caller", c>> \in Told
    BY <2>1, Here
  <2>3. Settled(c)
    BY <1>1, <1>5, <2>1, <2>2 DEF RunOK, Shut
  <2> QED BY <1>5, <2>1, <2>3 DEF RunOK
<1> QED BY <1>3, <1>4, <1>6, <1>7, <1>8, <1>9, <1>10 DEF CallerStep

\* The workers after a caller's step.
LEMMA TeamsP ==
  ASSUME PInv, Forward, Calm, NEW c \in Callers, CallerStep(c), ~Reset(c)
  PROVE  Teams'
<1> USE DEF PInv
<1>1. OnlyMoves(c) /\ Shapes'
  BY CallerShapes
<1>2. Spent => Spent'
  BY Stable
<1>3. CASE ~Stopping(c)
  <2>1. Crew
    BY <1>3, CallerC DEF Teams
  <2>2. snap' = snap /\ (pc'[c] \in Gather => pc[c] \in Gather)
    <3>1. CASE RunStop(c) \/ RunGathered(c) \/ DownStop(c)
      BY <1>3, <3>1 DEF RunStop, RunGathered, DownStop, Stopping, Goto, Shapes, Gather
    <3>2. CASE \/ Yield(c) \/ RunRefused(c) \/ ExpireHop(c) \/ ShutdownAgain(c) \/ CancelUnbound(c)
               \/ \E t \in Tasks : Submit(c, t) \/ Cancel(c, t)
      BY <3>2 DEF Yield, RunRefused, ExpireHop, ShutdownAgain, CancelUnbound, Submit, Cancel, callVars
    <3>3. CASE RunWait(c) \/ RunRest(c) \/ JoinRest(c) \/ DownRest(c) \/ RunWoken(c) \/ RunTimesOut(c) \/ RunRested(c)
      BY <3>3 DEF RunWait, RunRest, JoinRest, DownRest, AwaitIdle, RunWoken, RunTimesOut, RunRested, Goto, Shapes, Gather
    <3>4. CASE \/ Run(c) \/ RunEnd(c) \/ Join(c) \/ JoinRested(c) \/ ForcedShutdown(c) \/ Shutdown(c) \/ DownHalt(c) \/ DownEnd(c)
      BY <3>4 DEF Run, RunEnd, Join, JoinRested, ForcedShutdown, Shutdown, DownHalt, DownEnd, callVars, Goto, Shapes, Gather
    <3> QED BY <3>1, <3>2, <3>3, <3>4 DEF CallerStep
  <2>3. \A d \in Callers : pc'[d] \in Gather => pc[d] \in Gather /\ \A w \in snap[d] : w \in snap'[d] \/ job'[w] = "none"
    BY <1>1, <2>2 DEF OnlyMoves
  <2> QED BY <2>1, <2>3, KeepTeams
<1>4. CASE Stopping(c)
  <2>1. UNCHANGED <<job, rn>> /\ At(<<"caller", c>>)
    BY <1>4 DEF Stopping, RunStop, RunGathered, DownStop, runVars, CallerAt
  <2>5. pc[c] \in Gather \/ registered = {} \/ registered' = registered
    BY <1>4 DEF Stopping, RunStop, RunGathered, DownStop, Dismiss, CallerAt, Gather
  <2>2. PICK next : Dismiss(c, next) \/ Dismissed(c, next)
    BY <1>4 DEF Stopping
  <2>3. CASE Dismiss(c, next)
    <3>1. UNCHANGED <<registered, started>> /\ snap'[c] = registered
      BY <2>3 DEF Dismiss, Shapes
    <3>2. \A w \in Workers : /\ job'[w] \in Tasks => w \in registered'
                             /\ job'[w] = "get" => w \in registered' \/ Spent'
                             /\ \A d \in Callers : pc'[d] \in Gather =>
                                  (job'[w] \in Tasks => w \in snap'[d]) /\ (job'[w] = "get" => w \in snap'[d] \/ Spent')
      BY <1>1, <1>2, <2>1, <3>1 DEF Teams, OnlyMoves
    <3>3. \A t \in Tasks : Active(t)' => \E w \in Workers : job'[w] = t
      BY <2>1 DEF Teams, Active
    <3> QED BY <2>1, <3>1, <3>2, <3>3 DEF Teams, Manned, Workers, Gather
  <2>4. CASE Dismissed(c, next) /\ (registered = {} \/ pc[c] \in Gather)
    <3>1. \A w \in Workers : job'[w] \notin Tasks /\ (job'[w] = "get" => Spent')
      BY <1>2, <2>1, <2>4, Deserted
    <3>2. \A t \in Tasks : ~(Active(t)')
      BY <2>1, <3>1 DEF Teams, Active
    <3>3. registered' = {}
      BY <2>4 DEF Dismissed
    <3> QED BY <3>1, <3>2, <3>3 DEF Teams, Manned, Workers, Gather
  <2> QED BY <2>2, <2>3, <2>4, <2>5 DEF Dismissed
<1> QED BY <1>3, <1>4


\* The flags after a caller's step.
LEMMA FlagsP ==
  ASSUME PInv, OInv', Forward, NEW c \in Callers, CallerStep(c), ~Reset(c)
  PROVE  /\ closed' => Spent' /\ Done'
         /\ wake' => closed'
         /\ ~bound' => ~started' /\ \A w \in Workers : job'[w] = "none"
<1> USE DEF PInv
<1>1. closed => Spent' /\ Done' /\ closed'
  BY KeepClosed DEF Forward
<1>2. CASE DownEnd(c)
  <2>1. closed' = TRUE /\ UNCHANGED <<bound, started, job>> /\ pc[c] = "down.end"
    BY <1>2 DEF DownEnd, CallerAt, pool
  <2>2. Spent /\ Done /\ ~accepting
    BY <2>1 DEF Downs, DownOK
  <2>3. Spent' /\ Done'
    BY <2>2, Stable
  <2>4. closed'
    BY <2>1
  <2> QED BY <2>1, <2>3, <2>4 DEF Downs
<1>3. CASE CancelUnbound(c)
  <2>1. closed' = TRUE /\ accepting' = FALSE /\ ~bound /\ Abort(TRUE, {}, "cancelled") /\ UNCHANGED <<bound, started, job, rn>>
    BY <1>3 DEF CancelUnbound
  <2>2. \A w \in Workers : job[w] = "none"
    BY <2>1 DEF Downs
  <2>3. \A t \in Tasks : ~(Active(t)')
    BY <2>1, <2>2, NamesAssumption DEF Teams, Manned, Active
  <2>4. Unspared(TRUE) = Tasks /\ ready \subseteq Tasks /\ timers \subseteq Tasks /\ dormant \subseteq Tasks
    BY DEF Unspared, WInv, OInv, TasksOK
  <2>5. Queue' = {}
    BY <2>1, <2>4 DEF Abort, Queue
  <2>6. Done'
    BY <2>3, <2>5, EndsAfter DEF Ends
  <2>7. Spent' /\ closed'
    BY <2>1, <2>5 DEF Spent
  <2> QED BY <2>1, <2>6, <2>7 DEF Downs
<1>4. CASE ~DownEnd(c) /\ ~CancelUnbound(c)
  <2>1. closed' = closed /\ (wake' = wake \/ closed)
    <3>1. CASE \/ Yield(c) \/ Run(c) \/ RunRefused(c) \/ RunWait(c) \/ ExpireHop(c) \/ RunWoken(c) \/ RunTimesOut(c)
               \/ RunRest(c) \/ RunRested(c) \/ RunStop(c) \/ RunGathered(c) \/ RunEnd(c)
      BY <3>1 DEF Yield, Run, RunRefused, RunWait, ExpireHop, RunWoken, RunTimesOut, RunRest, RunRested, RunStop, RunGathered,
         RunEnd, flags
    <3>2. CASE \/ Join(c) \/ JoinRest(c) \/ JoinRested(c) \/ ShutdownAgain(c) \/ ForcedShutdown(c)
               \/ Shutdown(c) \/ DownRest(c) \/ DownHalt(c) \/ DownStop(c) \/ \E t \in Tasks : Submit(c, t) \/ Cancel(c, t)
      BY <3>2 DEF Join, JoinRest, JoinRested, ShutdownAgain, ForcedShutdown, Shutdown, DownRest, DownHalt, DownStop,
         Submit, Cancel, flags
    <3> QED BY <1>4, <3>1, <3>2 DEF CallerStep
  <2>2. ~bound' => ~started' /\ \A w \in Workers : job'[w] = "none"
    <3>1. CASE Stopping(c)
      <4>1. UNCHANGED <<bound, job>> /\ (started' = started \/ started' = FALSE)
        BY <3>1 DEF Stopping, RunStop, RunGathered, DownStop, Dismiss, Dismissed
      <4> QED BY <4>1 DEF Downs
    <3>2. CASE ~Stopping(c)
      <4>1. bound' \/ (bound' = bound /\ started' = started)
        <5>1. CASE Run(c) \/ Join(c) \/ Shutdown(c)
          <6>1. bound' = TRUE \/ (bound' = bound /\ started' = started)
            BY <5>1 DEF Run, Join, Shutdown, Start
          <6> QED BY <6>1
        <5>2. CASE \/ Yield(c) \/ RunRefused(c) \/ RunWait(c) \/ ExpireHop(c) \/ RunWoken(c) \/ RunTimesOut(c)
                   \/ RunRest(c) \/ RunRested(c) \/ RunStop(c) \/ RunGathered(c) \/ RunEnd(c)
          BY <3>2, <5>2 DEF Yield, RunRefused, RunWait, ExpireHop, RunWoken, RunTimesOut, RunRest, RunRested, RunStop, RunGathered,
             RunEnd, flags, Stopping
        <5>3. CASE \/ JoinRest(c) \/ JoinRested(c) \/ ShutdownAgain(c) \/ ForcedShutdown(c) \/ DownRest(c) \/ DownHalt(c)
                   \/ DownStop(c) \/ \E t \in Tasks : Submit(c, t) \/ Cancel(c, t)
          BY <3>2, <5>3 DEF JoinRest, JoinRested, ShutdownAgain, ForcedShutdown, DownRest, DownHalt, DownStop,
             Submit, Cancel, flags, Stopping
        <5> QED BY <1>4, <5>1, <5>2, <5>3 DEF CallerStep
      <4>2. Crew
        BY <3>2, CallerC DEF Teams
      <4> QED BY <4>1, <4>2, KeepBound
    <3> QED BY <3>1, <3>2
  <2> QED BY <1>1, <2>1, <2>2 DEF Downs
<1> QED BY <1>2, <1>3, <1>4

-----------------------------------------------------------------------------
(* Every step                                                              *)

\* The invariant holds at first, and every calm step keeps it.
LEMMA InitP == Init => PInv
<1> SUFFICES ASSUME Init PROVE PInv
  OBVIOUS
<1>1. WInv /\ Accounting
  BY InitW, InitA
<1>2. Counted /\ Shapes
  BY DEF Init, Counted, Shapes, Points
<1>3. loop = <<>> /\ sleepers = <<>> /\ Len(loop) = 0 /\ Len(sleepers) = 0
  BY DEF Init
<1>4. Told = {}
  BY <1>3 DEF Told, Posted
<1>5. Loops
  <2>1. Tells(loop, Told)
    BY <1>3, <1>4, TellsNothing
  <2>2. \A c \in Callers : Unique(sleepers, c) /\ ~Sleeping(c) /\ snap[c] = {}
    BY <1>3 DEF Init, Unique, Sleeping, Has
  <2> QED BY <1>4, <2>1, <2>2 DEF Loops
<1>6. Teams
  BY NamesAssumption DEF Init, Teams, Manned, Active, Gather
<1>7. Downs
  BY DEF Init, Downs, DownOK
<1>8. \A c \in Callers : RunOK(c)
  BY DEF Init, RunOK
<1> QED BY <1>1, <1>2, <1>5, <1>6, <1>7, <1>8 DEF PInv

\* A step that creates no worker too many.
LEMMA StepP == ASSUME NoReset, PInv, Calm, [Next]_vars PROVE PInv'
<1> USE DEF PInv
<1>1. WInv' /\ OInv'
  BY StepW DEF WInv
<1>2. \A c \in Callers : ~Reset(c)
  BY NeverCalled
<1>3. Accounting' /\ Counted'
  BY <1>2, StepA, CountedKept DEF CleanReset, WInv
<1>4. Forward
  BY StepF
<1>5. Shapes' /\ Loops' /\ Teams' /\ Downs' /\ \A c \in Callers : RunOK(c)'
  <2>1. CASE \E c \in Callers : CallerStep(c)
    <3>1. PICK c \in Callers : CallerStep(c)
      BY <2>1
    <3>2. ~Reset(c)
      BY <1>2
    <3>3. Shapes' /\ Loops'
      BY <3>1, <3>2, CallerShapes, CallerL DEF Teams
    <3>4. Teams'
      BY <1>4, <3>1, <3>2, TeamsP
    <3>5. \A d \in Callers : DownOK(d)' /\ RunOK(d)'
      <4>1. \A d \in Callers \ {c} : DownOK(d)' /\ RunOK(d)'
        BY <1>1, <1>3, <1>4, <3>1, <3>2, OthersP
      <4>2. DownOK(c)'
        BY <1>1, <1>3, <1>4, <3>1, <3>2, DownSelf
      <4>3. RunOK(c)'
        BY <1>1, <1>3, <1>4, <3>1, <3>2, RunSelf DEF Teams, Shut, Downs, Spent
      <4> QED BY <4>1, <4>2, <4>3
    <3>6. Downs'
      BY <1>1, <1>4, <3>1, <3>2, <3>5, FlagsP, Closing
    <3> QED BY <3>3, <3>4, <3>5, <3>6
  <2>2. CASE ~\E c \in Callers : CallerStep(c)
    BY <1>1, <1>3, <1>4, <2>2, StillStep DEF Next, Segment
  <2> QED BY <2>1, <2>2
<1> QED BY <1>1, <1>3, <1>5

\* What run() and shutdown() promise.
LEMMA PromisesKept == ASSUME PInv PROVE ClosedMeansDone /\ Covers
<1>1. ClosedMeansDone
  BY DEF PInv, Downs, Done, ClosedMeansDone
<1>2. Covers
  <2> SUFFICES ASSUME NEW c \in Callers, pc[c] \in {"run.end", "down.end"}
               PROVE  \A t \in covered[c] \ unborn : ~Live(t)
    BY DEF Covers
  <2>1. RunOK(c) /\ DownOK(c)
    BY DEF PInv, Downs
  <2>2. CASE pc[c] = "run.end"
    BY <2>1, <2>2 DEF RunOK, Settled
  <2>3. CASE pc[c] = "down.end"
    <3>1. Done /\ covered[c] \subseteq Tasks
      BY <2>1, <2>3 DEF DownOK, RunOK
    <3> QED BY <3>1 DEF Done
  <2> QED BY <2>2, <2>3
<1> QED BY <1>1, <1>2

\* They hold as long as no worker is created while a caller gathers them.
LEMMA PromisesInv == ASSUME NoReset PROVE Spec /\ NoneLeftOut => []PInv
<1>1. PInv /\ [Calm]_vars /\ [Next]_vars => PInv'
  <2> SUFFICES ASSUME PInv, [Calm]_vars, [Next]_vars PROVE PInv'
    OBVIOUS
  <2>1. Calm
    BY DEF Calm, vars, pool
  <2> QED BY <2>1, StepP
<1> QED BY <1>1, InitP, PTL DEF Spec, NoneLeftOut

\* In a program without reset(), as long as no worker is created that a caller
\* gathering them leaves out, a queue is closed only once every task has its
\* result (shutdown(), cancel()).
THEOREM ClosedMeansDoneAlways == ASSUME NoReset PROVE Spec /\ NoneLeftOut => []ClosedMeansDone
<1>1. PInv => ClosedMeansDone
  BY PromisesKept
<1> QED BY <1>1, PromisesInv, PTL

\* Likewise, when run() or shutdown() ends the tasks outstanding when it was
\* called have their results (RunEnd, DownEnd).
THEOREM CoversAlways == ASSUME NoReset PROVE Spec /\ NoneLeftOut => []Covers
<1>1. PInv => Covers
  BY PromisesKept
<1> QED BY <1>1, PromisesInv, PTL

-----------------------------------------------------------------------------
(* A queue that serves                                                     *)

\* The callers in run(): one at a time.
Inside(c) == pc[c] \in {"run.go", "run.wait", "run.rest", "run.resting", "run.stop", "run.gather", "run.end"}
OneRun == /\ \A c \in Callers : Inside(c) => running
          /\ \A c, d \in Callers : Inside(c) /\ Inside(d) => c = d

\* It gathers the workers after a time limit only, on a queue halted.
Halted == /\ timedOut => halt
          /\ \A c \in Callers : pc[c] = "run.gather" => Spent \/ (halt /\ started)
SInv == OneRun /\ Halted

\* Runners, workers, callbacks and the world outside end no halt.
LEMMA StillS ==
  ASSUME WInv, Forward, SInv,
         \/ \E w \in Workers : WorkerStep(w)
         \/ \E t \in Tasks : RunnerStep(t) \/ Callback(t)
         \/ Outside \/ UNCHANGED vars
  PROVE  SInv'
<1>1. UNCHANGED <<pc, started>>
  BY StillP
<1>2. UNCHANGED <<running, timedOut>> /\ (halt' = halt \/ halt' = TRUE)
  <2>1. ASSUME NEW w \in Workers, WorkerStep(w) PROVE UNCHANGED <<running, timedOut, halt>>
    BY <2>1 DEF WorkerStep, Take, Stop, Sleep, Back, Joined, flags
  <2>2. ASSUME NEW t \in Tasks, RunnerStep(t) PROVE UNCHANGED <<running, timedOut>> /\ (halt' = halt \/ halt' = TRUE)
    BY <2>2 DEF RunnerStep, Unborn, Gate, Begin, Succeed, Retry, Fail, FailAborts, Abort, Cancelled, Swallow, EndRunner,
       HookSubmits, flags
  <2>3. ASSUME NEW t \in Tasks, Callback(t) PROVE UNCHANGED <<running, timedOut, halt>>
    BY <2>3 DEF Callback, Release, ReleaseNone, Commit, CommitRefused, CancelHop, flags
  <2>4. ASSUME Outside \/ UNCHANGED vars PROVE UNCHANGED <<running, timedOut, halt>>
    BY <2>4 DEF Outside, Due, Resume, ThreadSubmits, ThreadCancels, CallerWakes, Expire, vars, flags
  <2> QED BY <2>1, <2>2, <2>3, <2>4
<1>3. Spent => Spent'
  BY Stable
<1>4. halt => halt'
  BY <1>2
<1> QED BY <1>1, <1>2, <1>3, <1>4 DEF SInv, OneRun, Halted, Inside

\* A caller's step: one run at a time.
LEMMA CallerOne ==
  ASSUME WInv, Shapes, OneRun, NEW c \in Callers, CallerStep(c), ~Reset(c)
  PROVE  OneRun'
<1>1. OnlyMoves(c)
  BY CallerShapes
<1>2. CASE Run(c)
  <2>1. ~running /\ running' = TRUE
    BY <1>2 DEF Run
  <2>2. \A d \in Callers \ {c} : ~(Inside(d)')
    BY <1>1, <2>1 DEF OneRun, Inside, OnlyMoves
  <2>3. running'
    BY <2>1
  <2> QED BY <2>2, <2>3 DEF OneRun
<1>3. CASE RunEnd(c)
  <2>1. Inside(c) /\ pc'[c] = "idle"
    BY <1>3 DEF RunEnd, CallerAt, Inside, Goto, Shapes
  <2>2. \A d \in Callers : ~(Inside(d)')
    BY <1>1, <2>1 DEF OneRun, Inside, OnlyMoves
  <2> QED BY <2>2 DEF OneRun
<1>4. CASE ~Run(c) /\ ~RunEnd(c)
  <2>1. running' = running /\ (Inside(c)' => Inside(c))
    <3>1. CASE \/ Yield(c) \/ RunRefused(c) \/ ExpireHop(c) \/ ShutdownAgain(c) \/ CancelUnbound(c)
               \/ \E t \in Tasks : Submit(c, t) \/ Cancel(c, t)
      BY <3>1 DEF Yield, RunRefused, ExpireHop, ShutdownAgain, CancelUnbound, Submit, Cancel, flags, callVars, Inside
    <3>2. CASE RunWait(c) \/ RunWoken(c) \/ RunTimesOut(c) \/ RunRest(c) \/ RunRested(c) \/ RunStop(c) \/ RunGathered(c)
      BY <3>2 DEF RunWait, RunWoken, RunTimesOut, RunRest, RunRested, RunStop, RunGathered, flags, CallerAt, Inside
    <3>3. CASE Join(c) \/ JoinRest(c) \/ JoinRested(c) \/ ForcedShutdown(c) \/ Shutdown(c) \/ DownRest(c)
      BY <3>3 DEF Join, JoinRest, JoinRested, ForcedShutdown, Shutdown, DownRest, AwaitIdle, flags, Goto, Shapes, Inside
    <3>4. CASE DownHalt(c) \/ DownStop(c) \/ DownEnd(c)
      BY <3>4 DEF DownHalt, DownStop, DownEnd, Dismiss, Dismissed, flags, Goto, Shapes, Inside
    <3> QED BY <1>4, <3>1, <3>2, <3>3, <3>4 DEF CallerStep
  <2>2. \A d \in Callers : Inside(d)' => Inside(d)
    BY <1>1, <2>1 DEF OnlyMoves, Inside
  <2> QED BY <2>1, <2>2 DEF OneRun
<1> QED BY <1>2, <1>3, <1>4

\* And while a run gathers, the queue stays halted and started.
LEMMA CallerHalted ==
  ASSUME PInv, Mode = "infinite", Forward, SInv, NEW c \in Callers, CallerStep(c), ~Reset(c)
  PROVE  Halted'
<1> USE DEF PInv
<1>1. OnlyMoves(c) /\ (Spent => Spent')
  BY CallerShapes, Stable
<1>2. /\ timedOut => halt
      /\ \A d \in Callers : pc[d] = "run.gather" => Inside(d) /\ running /\ (Spent' \/ (halt /\ started))
  BY <1>1 DEF SInv, OneRun, Halted, Inside
<1>3. \A d \in Callers \ {c} : pc'[d] = pc[d] /\ (Inside(d) => ~Inside(c))
  BY <1>1 DEF OnlyMoves, SInv, OneRun
<1>4. CASE Run(c)
  <2>1. ~running /\ timedOut' = FALSE /\ pc'[c] = "run.go"
    BY <1>4 DEF Run, Start, Goto, Shapes
  <2> QED BY <1>2, <1>3, <2>1 DEF Halted
<1>5. CASE RunRefused(c)
  <2>1. Spent'
    BY <1>5, KeepClosed DEF RunRefused
  <2>2. timedOut' = FALSE
    BY <1>5 DEF RunRefused
  <2> QED BY <2>1, <2>2 DEF Halted
<1>6. CASE RunEnd(c)
  <2>1. Inside(c) /\ pc'[c] = "idle" /\ timedOut' = FALSE
    BY <1>6 DEF RunEnd, CallerAt, Inside, Goto, Shapes
  <2> QED BY <1>2, <1>3, <2>1 DEF Halted
<1>7. CASE RunTimesOut(c) \/ ForcedShutdown(c) \/ CancelUnbound(c) \/ DownHalt(c)
  <2>1. halt' = TRUE /\ started' = started /\ (pc'[c] = "run.gather" => pc[c] = "run.gather")
    BY <1>7 DEF RunTimesOut, ForcedShutdown, CancelUnbound, DownHalt, Abort, Goto, Shapes
  <2>2. halt'
    BY <2>1
  <2> QED BY <1>2, <1>3, <2>1, <2>2 DEF Halted
<1>8. CASE Join(c) \/ Shutdown(c)
  <2>1. /\ pc'[c] \in {"join.rest", "down.rest"}
        /\ \/ ~started /\ timedOut' = FALSE
           \/ UNCHANGED <<halt, timedOut, started>>
    BY <1>8 DEF Join, Shutdown, Start, Goto, Shapes
  <2> QED BY <1>2, <1>3, <2>1 DEF Halted
<1>9. CASE RunStop(c) \/ RunGathered(c)
  <2>1. UNCHANGED <<halt, timedOut>> /\ Inside(c)
    BY <1>9 DEF RunStop, RunGathered, CallerAt, Inside
  <2>2. pc'[c] = "run.end" \/ (pc'[c] = "run.gather" /\ timedOut /\ registered # {} /\ started' = started)
    BY <1>9 DEF RunStop, RunGathered, Dismiss, Dismissed, Goto, Shapes
  <2>3. pc'[c] = "run.gather" => halt /\ started /\ started'
    BY <1>2, <2>2 DEF Teams, Manned
  <2>4. \A d \in Callers : pc'[d] = "run.gather" => d = c
    BY <1>2, <1>3, <2>1
  <2> QED BY <1>2, <2>1, <2>3, <2>4 DEF Halted
<1>10. CASE DownStop(c)
  <2>1. UNCHANGED <<halt, timedOut>> /\ pc[c] \in {"down.stop", "down.gather"}
    BY <1>10 DEF DownStop, CallerAt
  <2>2. Spent'
    BY <1>1, <2>1 DEF Downs, DownOK
  <2> QED BY <1>2, <2>1, <2>2 DEF Halted
<1>11. CASE \/ Yield(c) \/ RunWait(c) \/ ExpireHop(c) \/ RunWoken(c) \/ RunRest(c) \/ RunRested(c)
            \/ JoinRest(c) \/ JoinRested(c) \/ ShutdownAgain(c) \/ DownRest(c) \/ DownEnd(c)
            \/ \E t \in Tasks : Submit(c, t) \/ Cancel(c, t)
  <2>1. UNCHANGED <<halt, timedOut, started>>
    BY <1>11 DEF Yield, RunWait, ExpireHop, RunWoken, RunRest, RunRested, JoinRest, JoinRested, ShutdownAgain, DownRest,
       DownEnd, Submit, Cancel, flags
  <2>2. pc'[c] = "run.gather" => pc[c] = "run.gather"
    <3>1. CASE Yield(c) \/ ExpireHop(c) \/ ShutdownAgain(c) \/ \E t \in Tasks : Submit(c, t) \/ Cancel(c, t)
      BY <3>1 DEF Yield, ExpireHop, ShutdownAgain, Submit, Cancel, callVars
    <3>2. CASE \/ RunWait(c) \/ RunWoken(c) \/ RunRest(c) \/ RunRested(c) \/ JoinRest(c) \/ JoinRested(c)
               \/ DownRest(c) \/ DownEnd(c)
      BY <3>2 DEF RunWait, RunWoken, RunRest, RunRested, JoinRest, JoinRested, DownRest, DownEnd, AwaitIdle, Goto, Shapes
    <3> QED BY <1>11, <3>1, <3>2
  <2> QED BY <1>2, <1>3, <2>1, <2>2 DEF Halted
<1> QED BY <1>4, <1>5, <1>6, <1>7, <1>8, <1>9, <1>10, <1>11 DEF CallerStep

\* On a queue that is halted, started and run nothing creates a worker.
LEMMA NoBirth ==
  ASSUME WInv, halt, started, running, [Next]_vars, \A c \in Callers : ~Reset(c)
  PROVE  \A w \in Workers : job[w] = "none" => job'[w] = "none"
<1> USE NamesAssumption
<1>1. \A t : ~Enqueue(t)
  BY DEF Enqueue, Admits
<1>2. ASSUME NEW w \in Workers, WorkerStep(w) PROVE \A v \in Workers : job[v] = "none" => job'[v] = "none"
  <2>1. job' = job \/ (job[w] # "none" /\ \E x : job' = [job EXCEPT ![w] = x])
    <3>1. ASSUME NEW t \in Tasks, Take(w, t) PROVE job' = job \/ (job[w] # "none" /\ \E x : job' = [job EXCEPT ![w] = x])
      BY <3>1 DEF Take, AtGet
    <3>2. CASE Stop(w) \/ Back(w)
      BY <3>2 DEF Stop, Back, AtGet
    <3>3. CASE Sleep(w) \/ Joined(w)
      BY <3>3 DEF Sleep, Joined, pool
    <3> QED BY <1>2, <3>1, <3>2, <3>3 DEF WorkerStep
  <2> QED BY <2>1 DEF WInv, Pool
<1>3. ASSUME NEW t \in Tasks, RunnerStep(t) PROVE job' = job
  BY <1>1, <1>3 DEF RunnerStep, Unborn, Gate, Begin, Succeed, Retry, Fail, FailAborts, Cancelled, Swallow, EndRunner,
     HookSubmits, pool
<1>4. ASSUME NEW t \in Tasks, Callback(t) PROVE \A v \in Workers : job[v] = "none" => job'[v] = "none"
  <2>1. CASE Release(t)
    <3>1. Spawn(<<>>)
      BY <2>1 DEF Release
    <3>2. ToSet(<<>>) = {}
      BY DEF ToSet
    <3> QED BY <3>1, <3>2 DEF Spawn
  <2>2. CASE ~Release(t)
    BY <1>1, <1>4, <2>2 DEF Callback, ReleaseNone, Commit, CommitRefused, CancelHop, pool
  <2> QED BY <2>1, <2>2
<1>5. ASSUME NEW c \in Callers, CallerStep(c) PROVE job' = job
  <2>1. CASE Run(c) \/ Join(c) \/ Shutdown(c)
    BY <2>1 DEF Run, Join, Shutdown
  <2>2. CASE \/ Yield(c) \/ RunRefused(c) \/ RunWait(c) \/ ExpireHop(c) \/ RunWoken(c) \/ RunTimesOut(c)
             \/ RunRest(c) \/ RunRested(c) \/ RunStop(c) \/ RunGathered(c) \/ RunEnd(c)
    BY <2>2 DEF Yield, RunRefused, RunWait, ExpireHop, RunWoken, RunTimesOut, RunRest, RunRested, RunStop, RunGathered,
       RunEnd, pool
  <2>3. CASE \/ JoinRest(c) \/ JoinRested(c) \/ ShutdownAgain(c) \/ ForcedShutdown(c) \/ CancelUnbound(c)
             \/ DownRest(c) \/ DownHalt(c) \/ DownStop(c) \/ DownEnd(c) \/ \E t \in Tasks : Submit(c, t) \/ Cancel(c, t)
    BY <1>1, <2>3 DEF JoinRest, JoinRested, ShutdownAgain, ForcedShutdown, CancelUnbound, DownRest, DownHalt, DownStop,
       DownEnd, Submit, Cancel, pool
  <2> QED BY <1>5, <2>1, <2>2, <2>3 DEF CallerStep
<1>6. ASSUME Outside \/ UNCHANGED vars PROVE job' = job
  BY <1>6 DEF Outside, Due, Resume, ThreadSubmits, ThreadCancels, CallerWakes, Expire, vars, pool
<1> QED BY <1>2, <1>3, <1>4, <1>5, <1>6 DEF Next, Segment

\* So no worker of such a queue is left out.
LEMMA ServesCalm ==
  ASSUME NoReset, PInv, SInv, [Next]_vars
  PROVE  Calm
<1> SUFFICES ASSUME Gathering, ~Spent PROVE \A w \in Workers : job[w] = "none" => job'[w] = "none"
  BY DEF Calm
<1>1. PICK c \in Callers : pc[c] \in Gather
  BY DEF Gathering
<1>2. pc[c] = "run.gather"
  BY <1>1 DEF Gather, PInv, Downs, DownOK
<1>3. halt /\ started /\ running
  BY <1>2 DEF SInv, Halted, OneRun, Inside
<1> QED BY <1>3, NoBirth, NeverCalled DEF PInv

\* So every step of a queue that serves is such a step.
LEMMA StepS == ASSUME NoReset, Mode = "infinite", PInv, SInv, [Next]_vars PROVE PInv' /\ SInv' /\ Calm
<1>1. Calm
  BY ServesCalm
<1>2. PInv'
  BY <1>1, StepP
<1>3. Forward /\ \A c \in Callers : ~Reset(c)
  BY StepF, NeverCalled DEF PInv
<1>4. SInv'
  <2>1. CASE \E c \in Callers : CallerStep(c)
    BY <1>3, <2>1, CallerOne, CallerHalted DEF PInv, SInv
  <2>2. CASE ~\E c \in Callers : CallerStep(c)
    BY <1>3, <2>2, StillS DEF PInv, Next, Segment
  <2> QED BY <2>1, <2>2
<1> QED BY <1>1, <1>2, <1>4

\* An infinite queue needs no such care: in any program without reset() it
\* leaves no worker out.
LEMMA ServesInv == ASSUME NoReset, Mode = "infinite" PROVE Spec => [](PInv /\ SInv) /\ [][Calm]_vars
<1>1. Init => SInv
  BY DEF Init, SInv, OneRun, Halted, Inside
<1>2. PInv /\ SInv /\ [Next]_vars => (PInv /\ SInv)' /\ [Calm]_vars
  BY StepS
<1> QED BY <1>1, <1>2, InitP, PTL DEF Spec

\* A queue in the infinite mode whose program does not call reset() creates no
\* worker while a caller gathers them.
THEOREM ServesAll == ASSUME NoReset, Mode = "infinite" PROVE Spec => NoneLeftOut
BY ServesInv, PTL DEF NoneLeftOut

\* Such a queue is closed only once every task has its result.
THEOREM ServedClosedMeansDone == ASSUME NoReset, Mode = "infinite" PROVE Spec => []ClosedMeansDone
BY ServesAll, ClosedMeansDoneAlways, PTL

\* And its run() and shutdown() end with the tasks they are about.
THEOREM ServedCovers == ASSUME NoReset, Mode = "infinite" PROVE Spec => []Covers
BY ServesAll, CoversAlways, PTL

-----------------------------------------------------------------------------
(* Programs that only shut down gracefully                                 *)

\* No program forces a shutdown, or resets the queue.
NoForce == Program \in [Callers -> Seq(SUBSET {"submit", "cancel", "run", "join", "shutdown"})]

\* A graceful shutdown stops the workers when the tasks have their results, so
\* it is all the same whom it waits for.
GraceOK(c) ==
  /\ pc[c] \in {"down.rest", "down.resting", "down.halt", "down.stop", "down.gather", "down.end"} => ~accepting
  /\ pc[c] = "down.resting" => Sleeping(c) \/ Done
  /\ pc[c] \in {"down.halt", "down.stop", "down.gather", "down.end"} => Done
QInv == /\ WInv /\ Accounting /\ Counted /\ Shapes /\ Loops /\ Manned /\ Shut
        /\ \A c \in Callers : GraceOK(c) /\ RunOK(c)

\* Those programs call neither.
LEMMA NeverForced ==
  ASSUME NoForce, Counted, NEW c \in Callers
  PROVE  ~Reset(c) /\ ~ForcedShutdown(c) /\ ~CancelUnbound(c)
<1>1. Program[c] \in Seq(SUBSET {"submit", "cancel", "run", "join", "shutdown"}) /\ calls[c] \in Nat
  BY DEF NoForce, Counted
<1>2. ASSUME HasCall(c) PROVE Program[c][calls[c] + 1] \subseteq {"submit", "cancel", "run", "join", "shutdown"}
  <2>1. calls[c] + 1 \in 1..Len(Program[c])
    BY <1>1, <1>2 DEF HasCall
  <2> QED BY <1>1, <2>1
<1>3. ~MayCall(c, "reset") /\ ~MayCall(c, "force")
  BY <1>2 DEF MayCall
<1> QED BY <1>3 DEF Reset, ForcedShutdown, CancelUnbound

\* A caller that does not move keeps what it has reached.
LEMMA KeepGrace ==
  ASSUME WInv, OInv', Accounting', Forward, NEW c \in Callers, GraceOK(c), pc'[c] = pc[c],
         Lulls(c) \/ pc[c] = "run.wait"
  PROVE  GraceOK(c)'
<1>1. /\ Done /\ ~accepting => Done'
      /\ ~accepting => ~accepting'
  BY Stable DEF Forward
<1>2. idle' => Done'
  BY IdlesNext
<1> QED BY <1>1, <1>2 DEF GraceOK, Lulls

\* A caller in shutdown() gets on only when nothing is left.
LEMMA GraceSelf ==
  ASSUME QInv, OInv', Accounting', Forward, NEW c \in Callers, CallerStep(c), ~Reset(c), ~ForcedShutdown(c), ~CancelUnbound(c)
  PROVE  GraceOK(c)'
<1> USE DEF QInv
<1>1. /\ Done /\ ~accepting => Done'
      /\ ~accepting => ~accepting'
  BY Stable DEF Forward
<1>2. GraceOK(c)
  OBVIOUS
<1>3. (Lulls(c) \/ pc[c] = "run.wait") /\ (Rests(c) => Sleeping(c)')
  BY CallerL
<1>4. CASE \/ Yield(c) \/ RunRefused(c) \/ ExpireHop(c) \/ ShutdownAgain(c) \/ \E t \in Tasks : Submit(c, t) \/ Cancel(c, t)
  <2>1. pc' = pc
    BY <1>4 DEF Yield, RunRefused, ExpireHop, ShutdownAgain, Submit, Cancel, callVars
  <2> QED BY <1>2, <1>3, <2>1, KeepGrace
<1>5. CASE \/ Run(c) \/ RunWait(c) \/ RunWoken(c) \/ RunTimesOut(c) \/ RunRest(c) \/ RunRested(c)
  <2>1. pc'[c] \in {"run.go", "run.wait", "run.rest", "run.resting", "run.stop"}
    BY <1>5 DEF Run, RunWait, RunWoken, RunTimesOut, RunRest, RunRested, AwaitIdle, Goto, Shapes
  <2> QED BY <2>1 DEF GraceOK
<1>6. CASE RunStop(c) \/ RunGathered(c) \/ RunEnd(c) \/ Join(c) \/ JoinRest(c) \/ JoinRested(c) \/ DownEnd(c)
  <2>1. pc'[c] \in {"run.gather", "run.end", "idle", "join.rest", "join.resting"}
    BY <1>6 DEF RunStop, RunGathered, RunEnd, Join, JoinRest, JoinRested, DownEnd, Dismiss, Dismissed, AwaitIdle, Goto, Shapes
  <2> QED BY <2>1 DEF GraceOK
<1>7. CASE Shutdown(c)
  <2>1. pc'[c] = "down.rest" /\ ~accepting'
    BY <1>7 DEF Shutdown, Goto, Shapes
  <2> QED BY <2>1 DEF GraceOK
<1>8. CASE DownRest(c)
  <2>1. pc[c] = "down.rest" /\ ~accepting
    BY <1>2, <1>8 DEF DownRest, CallerAt, GraceOK
  <2>2. CASE idle
    <3>1. Done /\ pc'[c] = "down.halt"
      BY <1>8, <2>1, <2>2, Idles DEF WInv, DownRest, AwaitIdle, Goto, Shapes
    <3> QED BY <1>1, <2>1, <3>1 DEF GraceOK
  <2>3. CASE ~idle
    <3>1. Sleeping(c)' /\ pc'[c] = "down.resting"
      BY <1>3, <1>8, <2>3 DEF Rests, DownRest, AwaitIdle, Goto, Shapes
    <3> QED BY <1>1, <2>1, <3>1 DEF GraceOK
  <2> QED BY <2>2, <2>3
<1>9. CASE DownHalt(c) \/ DownStop(c)
  <2>1. pc[c] \in {"down.resting", "down.halt", "down.stop", "down.gather"} /\ At(<<"caller", c>>)
    BY <1>9 DEF DownHalt, DownStop, CallerAt
  <2>2. pc'[c] \in {"down.stop", "down.gather", "down.end"}
    BY <1>9 DEF DownHalt, DownStop, Dismiss, Dismissed, Goto, Shapes
  <2>3. ~Sleeping(c)
    BY <2>1, Here
  <2>4. Done /\ ~accepting
    BY <1>2, <2>1, <2>3 DEF GraceOK
  <2> QED BY <1>1, <2>2, <2>4 DEF GraceOK
<1> QED BY <1>4, <1>5, <1>6, <1>7, <1>8, <1>9 DEF CallerStep

\* Closing is the last thing it does.
LEMMA ShutP ==
  ASSUME QInv, Forward, NEW c \in Callers, CallerStep(c), ~Reset(c), ~ForcedShutdown(c), ~CancelUnbound(c)
  PROVE  Shut'
<1> USE DEF QInv
<1>1. /\ Done /\ ~accepting => Done' /\ ~accepting'
      /\ closed => closed'
  BY Stable DEF Forward
<1>2. CASE DownEnd(c)
  <2>1. pc[c] = "down.end" /\ closed' = TRUE
    BY <1>2 DEF DownEnd, CallerAt
  <2>2. Done /\ ~accepting
    BY <2>1 DEF GraceOK
  <2>3. closed'
    BY <2>1
  <2> QED BY <1>1, <2>2, <2>3 DEF Shut
<1>3. CASE ~DownEnd(c)
  <2>1. closed' = closed /\ (wake' = wake \/ closed)
    <3>1. CASE \/ Yield(c) \/ Run(c) \/ RunRefused(c) \/ RunWait(c) \/ ExpireHop(c) \/ RunWoken(c) \/ RunTimesOut(c)
               \/ RunRest(c) \/ RunRested(c) \/ RunStop(c) \/ RunGathered(c) \/ RunEnd(c)
      BY <3>1 DEF Yield, Run, RunRefused, RunWait, ExpireHop, RunWoken, RunTimesOut, RunRest, RunRested, RunStop, RunGathered,
         RunEnd, flags
    <3>2. CASE \/ Join(c) \/ JoinRest(c) \/ JoinRested(c) \/ ShutdownAgain(c)
               \/ Shutdown(c) \/ DownRest(c) \/ DownHalt(c) \/ DownStop(c) \/ \E t \in Tasks : Submit(c, t) \/ Cancel(c, t)
      BY <3>2 DEF Join, JoinRest, JoinRested, ShutdownAgain, Shutdown, DownRest, DownHalt, DownStop, Submit, Cancel, flags
    <3> QED BY <1>3, <3>1, <3>2 DEF CallerStep
  <2> QED BY <1>1, <2>1 DEF Shut
<1> QED BY <1>2, <1>3

\* The invariant of those programs holds at first, and every step keeps it.
LEMMA InitQ == Init => QInv
<1> SUFFICES ASSUME Init PROVE QInv
  OBVIOUS
<1>1. WInv /\ Accounting /\ Counted /\ Shapes /\ Loops /\ Manned /\ \A c \in Callers : RunOK(c)
  BY InitP DEF PInv, Teams
<1>2. Shut
  BY DEF Init, Shut
<1>3. \A c \in Callers : GraceOK(c)
  BY DEF Init, GraceOK
<1> QED BY <1>1, <1>2, <1>3 DEF QInv

\* Each step: who moves, then who does not.
LEMMA StepQ == ASSUME NoForce, QInv, [Next]_vars PROVE QInv'
<1> USE DEF QInv
<1>1. WInv' /\ OInv'
  BY StepW DEF WInv
<1>2. \A c \in Callers : ~Reset(c) /\ ~ForcedShutdown(c) /\ ~CancelUnbound(c)
  BY NeverForced
<1>3. Accounting' /\ Counted'
  BY <1>2, StepA, CountedKept DEF CleanReset, WInv
<1>4. Forward
  BY <1>2, RunnerF, OtherF, CallerF DEF Next, Segment
<1>5. CASE \E c \in Callers : CallerStep(c)
  <2>1. PICK c \in Callers : CallerStep(c)
    BY <1>5
  <2>2. ~Reset(c) /\ ~ForcedShutdown(c) /\ ~CancelUnbound(c)
    BY <1>2
  <2>3. Shapes' /\ Loops' /\ OnlyMoves(c) /\ \A d \in Callers \ {c} : Lulls(d)
    BY <2>1, <2>2, CallerShapes, CallerL
  <2>4. \A d \in Callers \ {c} : GraceOK(d)' /\ RunOK(d)'
    BY <1>1, <1>3, <1>4, <2>3, KeepGrace, KeepRun DEF OnlyMoves
  <2>5. GraceOK(c)'
    BY <1>1, <1>3, <1>4, <2>1, <2>2, GraceSelf
  <2>6. RunOK(c)'
    BY <1>1, <1>3, <1>4, <2>1, <2>2, RunSelf
  <2>7. Shut'
    BY <1>4, <2>1, <2>2, ShutP
  <2>8. Manned'
    <3>1. CASE Stopping(c)
      <4>1. (registered' = {}) \/ UNCHANGED <<registered, started>>
        BY <3>1 DEF Stopping, Dismiss, Dismissed
      <4> QED BY <4>1 DEF Manned
    <3>2. CASE ~Stopping(c)
      BY <2>1, <2>2, <3>2, CallerC DEF Crew, Manned
    <3> QED BY <3>1, <3>2
  <2> QED BY <1>1, <1>3, <2>3, <2>4, <2>5, <2>6, <2>7, <2>8
<1>6. CASE ~\E c \in Callers : CallerStep(c)
  <2>1. /\ Shapes' /\ Loops' /\ Crew /\ UNCHANGED <<pc, covered, expired, closed, wake>>
        /\ \A c \in Callers : Lulls(c)
    BY <1>6, StillL DEF Next, Segment
  <2>2. \A c \in Callers : GraceOK(c)' /\ RunOK(c)'
    BY <1>1, <1>3, <1>4, <2>1, KeepGrace, KeepRun
  <2>3. Manned'
    BY <2>1 DEF Crew, Manned
  <2>4. Shut'
    BY <1>4, <2>1, Stable DEF Shut, Forward
  <2> QED BY <1>1, <1>3, <2>1, <2>2, <2>3, <2>4
<1> QED BY <1>5, <1>6

\* What run() and shutdown() promise follows.
LEMMA GracefulKept == ASSUME QInv PROVE ClosedMeansDone /\ Covers
<1>1. ClosedMeansDone
  BY DEF QInv, Shut, Done, ClosedMeansDone
<1>2. Covers
  <2> SUFFICES ASSUME NEW c \in Callers, pc[c] \in {"run.end", "down.end"}
               PROVE  \A t \in covered[c] \ unborn : ~Live(t)
    BY DEF Covers
  <2>1. RunOK(c) /\ GraceOK(c)
    BY DEF QInv
  <2>2. CASE pc[c] = "run.end"
    BY <2>1, <2>2 DEF RunOK, Settled
  <2>3. CASE pc[c] = "down.end"
    <3>1. Done /\ covered[c] \subseteq Tasks
      BY <2>1, <2>3 DEF GraceOK, RunOK
    <3> QED BY <3>1 DEF Done
  <2> QED BY <2>2, <2>3
<1> QED BY <1>1, <1>2

\* So it always holds.
LEMMA GracefulInv == ASSUME NoForce PROVE Spec => []QInv
<1>1. QInv /\ [Next]_vars => QInv'
  BY StepQ
<1> QED BY <1>1, InitQ, PTL DEF Spec

\* In a program that neither forces a shutdown nor resets the queue, whatever
\* its mode and whoever submits meanwhile, a queue is closed only once every
\* task has its result (shutdown()).
THEOREM GracefulClosedMeansDone == ASSUME NoForce PROVE Spec => []ClosedMeansDone
<1>1. QInv => ClosedMeansDone
  BY GracefulKept
<1> QED BY <1>1, GracefulInv, PTL

\* And run() and shutdown() end with the tasks they are about.
THEOREM GracefulCovers == ASSUME NoForce PROVE Spec => []Covers
<1>1. QInv => Covers
  BY GracefulKept
<1> QED BY <1>1, GracefulInv, PTL

=============================================================================
