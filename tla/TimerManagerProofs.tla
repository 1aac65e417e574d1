------------------------- MODULE TimerManagerProofs -------------------------
(***************************************************************************)
(* Safety of TimerManager for every set of timers, every set of running    *)
(* times and every clock.                                                  *)
(***************************************************************************)
EXTENDS TimerManager, SequenceTheorems, TLAPS

-----------------------------------------------------------------------------
(* The list: what its operations do to length, order and content           *)

\* std::list::insert: the entries from p on move up by one.
LEMMA InsertAtLemma ==
    ASSUME NEW S, NEW s \in Seq(S), NEW e \in S, NEW p \in 1..Len(s) + 1
    PROVE  /\ InsertAt(s, p, e) \in Seq(S)
           /\ Len(InsertAt(s, p, e)) = Len(s) + 1
           /\ \A i \in 1..Len(s) + 1 : InsertAt(s, p, e)[i] =
                IF i < p THEN s[i] ELSE IF i = p THEN e ELSE s[i - 1]
<1> DEFINE a == SubSeq(s, 1, p - 1)
           b == SubSeq(s, p, Len(s))
           ae == a \o <<e>>
<1>0. Len(s) \in Nat
  OBVIOUS
<1>1. a \in Seq(S) /\ Len(a) = p - 1 /\ \A i \in 1..p - 1 : a[i] = s[i]
  BY SubSeqProperties
<1>2. /\ b \in Seq(S) /\ Len(b) = Len(s) - p + 1
      /\ \A i \in 1..Len(s) - p + 1 : b[i] = s[p + i - 1]
  BY SubSeqProperties
<1>3. <<e>> \in Seq(S) /\ Len(<<e>>) = 1 /\ <<e>>[1] = e
  OBVIOUS
<1>4. /\ ae \in Seq(S) /\ Len(ae) = p
      /\ \A i \in 1..p : ae[i] = IF i < p THEN s[i] ELSE e
  <2> HIDE DEF a
  <2>1. /\ ae \in Seq(S) /\ Len(ae) = (p - 1) + 1
        /\ \A i \in 1..(p - 1) + 1 :
             ae[i] = IF i <= p - 1 THEN a[i] ELSE <<e>>[i - (p - 1)]
    BY <1>1, <1>3, ConcatProperties
  <2> QED
    BY <2>1, <1>1, <1>3
<1>5. /\ ae \o b \in Seq(S) /\ Len(ae \o b) = Len(s) + 1
      /\ \A i \in 1..Len(s) + 1 :
           (ae \o b)[i] = IF i <= p THEN ae[i] ELSE b[i - p]
  <2> HIDE DEF ae, b
  <2>1. /\ ae \o b \in Seq(S) /\ Len(ae \o b) = Len(ae) + Len(b)
        /\ \A i \in 1..Len(ae) + Len(b) :
             (ae \o b)[i] = IF i <= Len(ae) THEN ae[i] ELSE b[i - Len(ae)]
    BY <1>2, <1>4, ConcatProperties
  <2> QED
    BY <2>1, <1>2, <1>4
<1>6. InsertAt(s, p, e) = ae \o b
  BY DEF InsertAt
<1>7. ASSUME NEW i \in 1..Len(s) + 1
      PROVE  (ae \o b)[i] =
               IF i < p THEN s[i] ELSE IF i = p THEN e ELSE s[i - 1]
  <2> HIDE DEF ae, b
  <2>1. CASE i <= p
    BY <2>1, <1>4, <1>5
  <2>2. CASE i > p
    <3>1. i - p \in 1..Len(s) - p + 1 /\ p + (i - p) - 1 = i - 1
      BY <2>2
    <3> QED
      BY <2>2, <3>1, <1>2, <1>5
  <2>3. i <= p \/ i > p
    BY <1>0
  <2> QED
    BY <2>1, <2>2, <2>3, Zenon
<1> QED
  BY <1>5, <1>6, <1>7

\* std::list::erase: the entries after p move down by one.
LEMMA RemoveAtLemma ==
    ASSUME NEW S, NEW s \in Seq(S), NEW p \in 1..Len(s)
    PROVE  /\ RemoveAt(s, p) \in Seq(S)
           /\ Len(RemoveAt(s, p)) = Len(s) - 1
           /\ \A i \in 1..Len(s) - 1 :
                RemoveAt(s, p)[i] = IF i < p THEN s[i] ELSE s[i + 1]
<1> DEFINE a == SubSeq(s, 1, p - 1)
           b == SubSeq(s, p + 1, Len(s))
<1>0. Len(s) \in Nat
  OBVIOUS
<1>1. a \in Seq(S) /\ Len(a) = p - 1 /\ \A i \in 1..p - 1 : a[i] = s[i]
  BY SubSeqProperties
<1>2. /\ b \in Seq(S) /\ Len(b) = Len(s) - p
      /\ \A i \in 1..Len(s) - p : b[i] = s[p + 1 + i - 1]
  BY SubSeqProperties
<1> HIDE DEF a, b
<1>3. /\ a \o b \in Seq(S) /\ Len(a \o b) = Len(a) + Len(b)
      /\ \A i \in 1..Len(a) + Len(b) :
           (a \o b)[i] = IF i <= Len(a) THEN a[i] ELSE b[i - Len(a)]
  BY <1>1, <1>2, ConcatProperties
<1>4. /\ a \o b \in Seq(S) /\ Len(a \o b) = Len(s) - 1
      /\ \A i \in 1..Len(s) - 1 :
           (a \o b)[i] = IF i <= p - 1 THEN a[i] ELSE b[i - (p - 1)]
  BY <1>0, <1>1, <1>2, <1>3
<1>5. RemoveAt(s, p) = a \o b
  BY DEF RemoveAt, a, b
<1>6. ASSUME NEW i \in 1..Len(s) - 1
      PROVE  (a \o b)[i] = IF i < p THEN s[i] ELSE s[i + 1]
  <2>1. CASE i < p
    BY <1>0, <2>1, <1>1, <1>2, <1>3
  <2>2. CASE i >= p
    <3>1. i - (p - 1) \in 1..Len(s) - p /\ p + 1 + (i - (p - 1)) - 1 = i + 1
      BY <2>2
    <3>2. ~ (i <= p - 1) /\ ~ (i < p)
      BY <1>0, <2>2
    <3>3. (a \o b)[i] = b[i - (p - 1)] /\ ~ (i < p)
      BY <3>2, <1>4, Zenon
    <3>4. b[i - (p - 1)] = s[i + 1]
      BY <3>1, <1>2
    <3> QED
      BY <3>3, <3>4, Zenon
  <2>3. i < p \/ i >= p
    BY <1>0
  <2> QED
    BY <2>1, <2>2, <2>3, Zenon
<1> QED
  BY <1>4, <1>5, <1>6, Zenon

\* std::list::splice of the first k entries to the end of the list.
LEMMA RotateLemma ==
    ASSUME NEW S, NEW s \in Seq(S), NEW k \in 0..Len(s)
    PROVE  LET r == SubSeq(s, k + 1, Len(s)) \o SubSeq(s, 1, k)
           IN  /\ r \in Seq(S)
               /\ Len(r) = Len(s)
               /\ \A i \in 1..Len(s) :
                    r[i] = IF i <= Len(s) - k THEN s[i + k]
                                              ELSE s[i - (Len(s) - k)]
<1> DEFINE a == SubSeq(s, k + 1, Len(s))
           b == SubSeq(s, 1, k)
<1>0. Len(s) \in Nat
  OBVIOUS
<1>1. /\ a \in Seq(S) /\ Len(a) = Len(s) - k
      /\ \A i \in 1..Len(s) - k : a[i] = s[k + 1 + i - 1]
  BY SubSeqProperties
<1>2. b \in Seq(S) /\ Len(b) = k /\ \A i \in 1..k : b[i] = s[1 + i - 1]
  BY SubSeqProperties
<1> HIDE DEF a, b
<1>3. /\ a \o b \in Seq(S) /\ Len(a \o b) = Len(a) + Len(b)
      /\ \A i \in 1..Len(a) + Len(b) :
           (a \o b)[i] = IF i <= Len(a) THEN a[i] ELSE b[i - Len(a)]
  BY <1>1, <1>2, ConcatProperties
<1>4. ASSUME NEW i \in 1..Len(s)
      PROVE  (a \o b)[i] = IF i <= Len(s) - k THEN s[i + k]
                                              ELSE s[i - (Len(s) - k)]
  <2>1. CASE i <= Len(s) - k
    BY <1>0, <2>1, <1>1, <1>2, <1>3
  <2>2. CASE i > Len(s) - k
    <3>1. i - (Len(s) - k) \in 1..k
      BY <2>2
    <3> QED
      BY <1>0, <2>2, <3>1, <1>1, <1>2, <1>3
  <2>3. i <= Len(s) - k \/ i > Len(s) - k
    BY <1>0
  <2> QED
    BY <2>1, <2>2, <2>3, Zenon
<1>5. Len(a \o b) = Len(s)
  BY <1>1, <1>2, <1>3
<1> QED
  BY <1>3, <1>4, <1>5 DEF a, b

-----------------------------------------------------------------------------
(* Lists without duplicates, as sets                                       *)

\* Inserting a new entry adds it to the set and repeats nothing.
LEMMA InsertNewLemma ==
    ASSUME NEW S, NEW s \in Seq(S), NEW e \in S \ ToSet(s),
           NEW p \in 1..Len(s) + 1, IsInjective(s)
    PROVE  /\ InsertAt(s, p, e) \in Seq(S)
           /\ IsInjective(InsertAt(s, p, e))
           /\ ToSet(InsertAt(s, p, e)) = ToSet(s) \cup {e}
<1> DEFINE r == InsertAt(s, p, e)
<1>1. /\ r \in Seq(S) /\ Len(r) = Len(s) + 1
      /\ \A i \in 1..Len(s) + 1 :
           r[i] = IF i < p THEN s[i] ELSE IF i = p THEN e ELSE s[i - 1]
  <2>1. e \in S
    OBVIOUS
  <2> QED
    BY <2>1, InsertAtLemma
<1>2. Len(s) \in Nat /\ DOMAIN s = 1..Len(s) /\ DOMAIN r = 1..Len(s) + 1
  BY <1>1
<1>3. \A i \in 1..Len(s) : s[i] # e
  BY <1>2 DEF ToSet
<1> HIDE DEF r
<1>4. IsInjective(r)
  <2> SUFFICES ASSUME NEW i \in 1..Len(s) + 1, NEW j \in 1..Len(s) + 1, i < j, r[i] = r[j]
               PROVE  FALSE
    BY <1>2 DEF IsInjective
  <2>1. CASE i # p /\ j # p
    <3> DEFINE f(k) == IF k < p THEN k ELSE k - 1
    <3>1. /\ f(i) \in 1..Len(s) /\ f(j) \in 1..Len(s) /\ f(i) < f(j)
          /\ r[i] = s[f(i)] /\ r[j] = s[f(j)]
      BY <1>1, <1>2, <2>1
    <3>2. \A m, n \in 1..Len(s) : s[m] = s[n] => m = n
      BY <1>2 DEF IsInjective
    <3> HIDE DEF f
    <3>3. s[f(i)] = s[f(j)]
      BY <3>1
    <3>4. f(i) # f(j)
      BY <1>2, <3>1
    <3> QED
      BY <3>1, <3>2, <3>3, <3>4, Zenon
  <2>2. CASE i = p \/ j = p
    <3>1. p \in 1..Len(s) + 1 /\ r[p] = e
      BY <1>1, <1>2
    <3>2. CASE i = p
      <4>1. j - 1 \in 1..Len(s) /\ r[j] = s[j - 1]
        BY <1>1, <1>2, <3>2
      <4> QED
        BY <1>3, <3>1, <3>2, <4>1
    <3>3. CASE j = p
      <4>1. i \in 1..Len(s) /\ r[i] = s[i]
        BY <1>1, <1>2, <3>3
      <4> QED
        BY <1>3, <3>1, <3>3, <4>1
    <3> QED
      BY <2>2, <3>2, <3>3
  <2> QED
    BY <2>1, <2>2
<1>5. ToSet(r) = ToSet(s) \cup {e}
  <2>1. ToSet(r) \subseteq ToSet(s) \cup {e}
    BY <1>1, <1>2 DEF ToSet
  <2>2. e \in ToSet(r)
    BY <1>1, <1>2 DEF ToSet
  <2>3. ASSUME NEW i \in 1..Len(s)
        PROVE  \E j \in 1..Len(s) + 1 : r[j] = s[i]
    <3>1. CASE i < p
      BY <3>1, <1>1, <1>2
    <3>2. CASE i >= p
      <4>1. i + 1 \in 1..Len(s) + 1 /\ r[i + 1] = s[i]
        BY <3>2, <1>1, <1>2
      <4> QED
        BY <4>1
    <3> QED
      BY <1>2, <3>1, <3>2
  <2>4. ToSet(s) \subseteq ToSet(r)
    BY <2>3, <1>2 DEF ToSet
  <2> QED
    BY <2>1, <2>2, <2>4
<1> QED
  BY <1>1, <1>4, <1>5 DEF r

\* Erasing an entry takes it, and nothing else, out of the set.
LEMMA RemoveLemma ==
    ASSUME NEW S, NEW s \in Seq(S), NEW p \in 1..Len(s), IsInjective(s)
    PROVE  /\ RemoveAt(s, p) \in Seq(S)
           /\ IsInjective(RemoveAt(s, p))
           /\ ToSet(RemoveAt(s, p)) = ToSet(s) \ {s[p]}
<1> DEFINE r == RemoveAt(s, p)
<1>1. /\ r \in Seq(S) /\ Len(r) = Len(s) - 1
      /\ \A i \in 1..Len(s) - 1 : r[i] = IF i < p THEN s[i] ELSE s[i + 1]
  BY RemoveAtLemma
<1>2. Len(s) \in Nat /\ DOMAIN s = 1..Len(s) /\ DOMAIN r = 1..Len(s) - 1
  BY <1>1
<1> HIDE DEF r
<1>3. IsInjective(r)
  <2> SUFFICES ASSUME NEW i \in 1..Len(s) - 1, NEW j \in 1..Len(s) - 1,
                      r[i] = r[j]
               PROVE  i = j
    BY <1>2 DEF IsInjective
  <2> DEFINE f(x) == IF x < p THEN x ELSE x + 1
  <2>1. f(i) \in 1..Len(s) /\ f(j) \in 1..Len(s)
    BY <1>2
  <2>2. r[i] = s[f(i)] /\ r[j] = s[f(j)]
    BY <1>1
  <2> HIDE DEF f
  <2>3. f(i) = f(j)
    BY <2>1, <2>2, <1>2 DEF IsInjective
  <2> QED
    BY <2>3, <1>2 DEF f
<1>4. ToSet(r) = ToSet(s) \ {s[p]}
  <2>1. ASSUME NEW i \in 1..Len(s) - 1
        PROVE  \E j \in 1..Len(s) : s[j] = r[i] /\ j # p
    BY <1>1, <1>2
  <2>2. \A j \in 1..Len(s) : j # p => s[j] # s[p]
    BY <1>2 DEF IsInjective
  <2>3. ToSet(r) \subseteq ToSet(s) \ {s[p]}
    BY <2>1, <2>2, <1>2 DEF ToSet
  <2>4. ASSUME NEW j \in 1..Len(s), j # p
        PROVE  \E i \in 1..Len(s) - 1 : r[i] = s[j]
    <3>1. CASE j < p
      <4>1. j \in 1..Len(s) - 1 /\ r[j] = s[j]
        BY <3>1, <1>1, <1>2
      <4> QED
        BY <4>1
    <3>2. CASE j > p
      <4>1. j - 1 \in 1..Len(s) - 1 /\ r[j - 1] = s[j]
        BY <3>2, <1>1, <1>2
      <4> QED
        BY <4>1
    <3> QED
      BY <2>4, <1>2, <3>1, <3>2
  <2>5. ToSet(s) \ {s[p]} \subseteq ToSet(r)
    BY <2>4, <1>2 DEF ToSet
  <2> QED
    BY <2>3, <2>5
<1> QED
  BY <1>1, <1>3, <1>4 DEF r

\* Moving a prefix to the end keeps the set.
LEMMA RotateSetLemma ==
    ASSUME NEW S, NEW s \in Seq(S), NEW k \in 0..Len(s), IsInjective(s)
    PROVE  LET r == SubSeq(s, k + 1, Len(s)) \o SubSeq(s, 1, k)
           IN  /\ r \in Seq(S)
               /\ IsInjective(r)
               /\ ToSet(r) = ToSet(s)
<1> DEFINE r == SubSeq(s, k + 1, Len(s)) \o SubSeq(s, 1, k)
<1>1. /\ r \in Seq(S) /\ Len(r) = Len(s)
      /\ \A i \in 1..Len(s) :
           r[i] = IF i <= Len(s) - k THEN s[i + k] ELSE s[i - (Len(s) - k)]
  BY RotateLemma
<1> HIDE DEF r
<1>2. Len(s) \in Nat /\ DOMAIN s = 1..Len(s) /\ DOMAIN r = 1..Len(s)
  BY <1>1
<1> DEFINE f(x) == IF x <= Len(s) - k THEN x + k ELSE x - (Len(s) - k)
<1>3. \A x \in 1..Len(s) : f(x) \in 1..Len(s) /\ r[x] = s[f(x)]
  BY <1>1, <1>2
<1>4. \A x, y \in 1..Len(s) : f(x) = f(y) => x = y
  BY <1>2
<1> HIDE DEF f
<1>5. IsInjective(r)
  BY <1>2, <1>3, <1>4 DEF IsInjective
<1>6. ToSet(r) = ToSet(s)
  <2>1. ToSet(r) \subseteq ToSet(s)
    BY <1>2, <1>3 DEF ToSet
  <2>2. ASSUME NEW j \in 1..Len(s)
        PROVE  \E i \in 1..Len(s) : r[i] = s[j]
    <3>1. CASE j <= k
      <4>1. j + (Len(s) - k) \in 1..Len(s) /\ f(j + (Len(s) - k)) = j
        BY <3>1, <1>2 DEF f
      <4> QED
        BY <4>1, <1>3
    <3>2. CASE j > k
      <4>1. j - k \in 1..Len(s) /\ f(j - k) = j
        BY <3>2, <1>2 DEF f
      <4> QED
        BY <4>1, <1>3
    <3> QED
      BY <1>2, <3>1, <3>2
  <2>3. ToSet(s) \subseteq ToSet(r)
    BY <2>2, <1>2 DEF ToSet
  <2> QED
    BY <2>1, <2>3
<1> QED
  BY <1>1, <1>5, <1>6 DEF r

-----------------------------------------------------------------------------
(* The helpers                                                             *)

\* A listed timer has one position, and taking it out removes it alone.
LEMMA ListWithoutLemma ==
    ASSUME timers \in Seq(Timers), IsInjective(timers), NEW t \in Timers, Listed(t)
    PROVE  /\ ListWithout(t) \in Seq(Timers)
           /\ IsInjective(ListWithout(t))
           /\ ToSet(ListWithout(t)) = ToSet(timers) \ {t}
<1> DEFINE p == PositionOf(t)
<1>1. \E i \in 1..Len(timers) : timers[i] = t
  BY DEF Listed, ToSet
<1>2. p \in 1..Len(timers) /\ timers[p] = t
  BY <1>1 DEF PositionOf
<1> HIDE DEF p
<1>3. /\ RemoveAt(timers, p) \in Seq(Timers)
      /\ IsInjective(RemoveAt(timers, p))
      /\ ToSet(RemoveAt(timers, p)) = ToSet(timers) \ {timers[p]}
  BY <1>2, RemoveLemma
<1> QED
  BY <1>2, <1>3 DEF ListWithout, p

\* A merged timer joins the list.
LEMMA MergeLemma ==
    ASSUME NEW list \in Seq(Timers), IsInjective(list), NEW nodes,
           NEW t \in Timers \ ToSet(list), MergeInto(list, nodes, t)
    PROVE  /\ timers' \in Seq(Timers)
           /\ IsInjective(timers')
           /\ ToSet(timers') = ToSet(list) \cup {t}
<1>1. PICK p \in 1..Len(list) + 1 : timers' = InsertAt(list, p, t)
  BY DEF MergeInto
<1> QED
  BY <1>1, InsertNewLemma

\* Whole milliseconds never add up to more than what was divided.
LEMMA WholeMilliseconds ==
    ASSUME NEW n \in Nat
    PROVE  /\ n \div TicksPerMs \in Nat
           /\ (n \div TicksPerMs) * TicksPerMs <= n
BY TicksAssumption, SMTT(30)

\* The end of a timed wait is within the bound of the clock, because it is not
\* after the expiration it waits for.
LEMMA MeasureType ==
    ASSUME TypeOK, Measure
    PROVE  wakeAt' \in 0..MaxTime
<1>1. CASE run \/ SleepTime = 0
  BY <1>1, TicksAssumption DEF Measure, TypeOK
<1>2. CASE ~ run /\ SleepTime # 0
  <2> DEFINE n == node[timers[1]]
  <2>1. timers # <<>> /\ SleepTime = GetDuration(n, clock)
    BY <1>2 DEF SleepTime
  <2>2. n \in Node
    BY <2>1 DEF TypeOK
  <2>3. /\ n.expiration > clock
        /\ SleepTime = (n.expiration - clock) \div TicksPerMs
    BY <1>2, <2>1, <2>2 DEF GetDuration, Node, TypeOK
  <2>4. n.expiration - clock \in Nat /\ n.expiration \in 0..MaxTime
    BY <2>2, <2>3 DEF Node, TypeOK
  <2> DEFINE s == SleepTime * TicksPerMs
  <2>5. s \in Nat /\ s <= n.expiration - clock
    BY <2>3, <2>4, WholeMilliseconds, TicksAssumption
  <2>6. wakeAt' = clock + s
    BY <1>2 DEF Measure
  <2>7. clock \in Nat /\ MaxTime \in Nat
    BY TicksAssumption DEF TypeOK
  <2> HIDE DEF s, n
  <2> QED
    BY <2>4, <2>5, <2>6, <2>7
<1> QED
  BY <1>1, <1>2

-----------------------------------------------------------------------------
(* The inductive invariant                                                 *)

\* A fresh node, and the nodes the actions make of a node, are nodes.
LEMMA NodeLemma ==
    /\ FreedNode \in Node
    /\ \A h \in BOOLEAN : [FreedNode EXCEPT !.inst = TRUE, !.handler = h] \in Node
<1>1. 0 \in 0..MaxTime
  BY TicksAssumption
<1> QED
  BY <1>1 DEF FreedNode, Node, State, Access

LEMMA InitInvariant == Init => IInv
<1> SUFFICES ASSUME Init PROVE IInv
  OBVIOUS
<1>1. timers \in Seq(Timers) /\ IsInjective(timers) /\ ToSet(timers) = {}
  BY DEF Init, ToSet, IsInjective
<1>2. 0 \in 0..MaxTime
  BY TicksAssumption
<1>3. TypeOK
  BY <1>1, <1>2, NodeLemma DEF Init, TypeOK, WorkerPoints
<1>4. ServicedTimerKept
  BY <1>1, TimersAssumption DEF Init, ServicedTimerKept, Listed, FreedNode
<1>5. ExpiredTimerPending
  BY DEF Init, ExpiredTimerPending, FreedNode
<1>6. DestructionInOrder
  BY DEF Init, DestructionInOrder
<1> QED
  BY <1>3, <1>4, <1>5, <1>6 DEF IInv

LEMMA CreateInvariant ==
    ASSUME IInv, NEW t \in Timers, NEW h \in HandlerChoices, CreateTimer(t, h)
    PROVE  IInv'
<1> USE DEF IInv
<1>1. /\ timers' \in Seq(Timers) /\ IsInjective(timers')
      /\ ToSet(timers') = ToSet(timers) \cup {t}
  BY MergeLemma DEF CreateTimer, TypeOK, Listed
<1>2. h \in BOOLEAN /\ wpc' = NotifyOne /\ dtor = "live" /\ wpc # "aborted"
  BY HandlersAssumption DEF CreateTimer, DestructionInOrder, LockFree
<1>3. node' = [node EXCEPT ![t] = [FreedNode EXCEPT !.inst = TRUE, !.handler = h]]
  BY DEF CreateTimer
<1>4. UNCHANGED <<termination, cur, now, run, wakeAt, clock, dtor>>
  BY DEF CreateTimer
<1>5. TypeOK'
  BY <1>1, <1>2, <1>3, <1>4, NodeLemma DEF TypeOK, WorkerPoints, NotifyOne
<1>6. ServicedTimerKept'
  BY <1>1, <1>2, <1>3, <1>4, TimersAssumption
     DEF TypeOK, ServicedTimerKept, Listed, FreedNode, NotifyOne, Asleep,
         CreateTimer
<1>7. ExpiredTimerPending'
  BY <1>2, <1>3 DEF TypeOK, ExpiredTimerPending, FreedNode, NotifyOne, Asleep
<1>8. DestructionInOrder'
  BY <1>1, <1>2, <1>3, <1>4
     DEF TypeOK, DestructionInOrder, Listed, NotifyOne, Asleep, CreateTimer
<1> QED
  BY <1>5, <1>6, <1>7, <1>8

LEMMA UpdateInvariant ==
    ASSUME IInv, NEW t \in Timers, NEW d \in Durations \cup {0}, UpdateTimer(t, d)
    PROVE  IInv'
<1> USE DEF IInv
<1>1. /\ ListWithout(t) \in Seq(Timers) /\ IsInjective(ListWithout(t))
      /\ ToSet(ListWithout(t)) = ToSet(timers) \ {t}
  BY ListWithoutLemma DEF UpdateTimer, Usable, TypeOK
<1>2. /\ timers' \in Seq(Timers) /\ IsInjective(timers')
      /\ ToSet(timers') = ToSet(timers)
  <2>1. /\ timers' \in Seq(Timers) /\ IsInjective(timers')
        /\ ToSet(timers') = (ToSet(timers) \ {t}) \cup {t}
    BY <1>1, MergeLemma DEF UpdateTimer
  <2> QED
    BY <2>1 DEF UpdateTimer, Usable, Listed
<1>3. /\ wpc' \in {wpc, NotifyOne} /\ Listed(t) /\ node[t].inst
      /\ UNCHANGED <<termination, cur, now, run, wakeAt, clock, dtor>>
  BY DEF UpdateTimer, Usable
<1>4. PICK st \in {"kIdle", "kActive"}, e \in 0..MaxTime :
        node' = [node EXCEPT ![t].state = st, ![t].expiration = e]
  <2>1. CASE d = 0
    <3>1. node' = [node EXCEPT ![t].state = "kIdle"]
      BY <2>1 DEF UpdateTimer, DurationSet
    <3>2. node[t].expiration \in 0..MaxTime
      BY DEF TypeOK, Node
    <3>3. node' = [node EXCEPT ![t].state = "kIdle",
                               ![t].expiration = node[t].expiration]
      BY <3>1 DEF TypeOK, Node
    <3> QED
      BY <3>2, <3>3
  <2>2. CASE d # 0
    <3>1. clock + d * TicksPerMs \in 0..MaxTime
      BY <2>2, TicksAssumption, DurationsAssumption DEF UpdateTimer, TypeOK
    <3> QED
      BY <2>2, <3>1 DEF UpdateTimer, DurationSet
  <2> QED
    BY <2>1, <2>2
<1>5. /\ node' \in [Timers -> Node]
      /\ \A u \in Timers : /\ node'[u].access = node[u].access
                           /\ node'[u].inst = node[u].inst
                           /\ u # t => node'[u] = node[u]
      /\ node'[t].state # "kExpired"
  BY <1>4 DEF TypeOK, Node, State
<1>6. TypeOK'
  BY <1>2, <1>3, <1>5 DEF TypeOK, WorkerPoints, NotifyOne
<1>7. ServicedTimerKept'
  BY <1>2, <1>3, <1>5 DEF TypeOK, ServicedTimerKept, Listed, NotifyOne, Asleep
<1>8. ExpiredTimerPending'
  BY <1>3, <1>5 DEF ExpiredTimerPending, NotifyOne, Asleep
<1>9. DestructionInOrder'
  <2>1. wpc # "done" /\ timers # <<>>
    BY <1>3 DEF DestructionInOrder, Listed, ToSet
  <2> QED
    BY <2>1, <1>2, <1>3, <1>5 DEF DestructionInOrder, Listed, NotifyOne, Asleep
<1> QED
  BY <1>6, <1>7, <1>8, <1>9

LEMMA DestroyInvariant ==
    ASSUME IInv, NEW t \in Timers, DestroyTimer(t)
    PROVE  IInv'
<1> USE DEF IInv
<1>1. /\ Listed(t) /\ node[t].inst /\ LockFree
      /\ UNCHANGED <<termination, cur, now, run, wakeAt, clock, dtor>>
  BY DEF DestroyTimer, Usable
<1>2. wpc # "done"
  BY <1>1 DEF DestructionInOrder, Listed, ToSet
<1>3. CASE EraseTimer(t)
  <2>1. /\ timers' \in Seq(Timers) /\ IsInjective(timers')
        /\ ToSet(timers') = ToSet(timers) \ {t}
    BY <1>1, <1>3, ListWithoutLemma DEF EraseTimer, TypeOK
  <2>2. /\ node' = [node EXCEPT ![t] = FreedNode]
        /\ t # cur
        /\ wpc' \in {wpc, NotifyOne}
    BY <1>3, TimersAssumption DEF EraseTimer, ServicedTimerKept
  <2>3. TypeOK'
    BY <1>1, <2>1, <2>2, NodeLemma DEF TypeOK, WorkerPoints, NotifyOne
  <2>4. ServicedTimerKept'
    BY <1>1, <2>1, <2>2
       DEF TypeOK, ServicedTimerKept, Listed, FreedNode, NotifyOne, Asleep
  <2>5. ExpiredTimerPending'
    BY <2>2 DEF TypeOK, ExpiredTimerPending, FreedNode, NotifyOne, Asleep
  <2>6. DestructionInOrder'
    BY <1>1, <1>2, <2>1, <2>2
       DEF TypeOK, DestructionInOrder, Listed, NotifyOne, Asleep
  <2> QED
    BY <2>3, <2>4, <2>5, <2>6
<1>4. CASE DeferDestruction(t)
  <2>1. /\ node' = [node EXCEPT ![t].inst = FALSE, ![t].access = "kDestruct"]
        /\ t = cur
        /\ UNCHANGED <<timers, wpc>>
    BY <1>4 DEF DeferDestruction, ServicedTimerKept
  <2>2. /\ node' \in [Timers -> Node]
        /\ \A u \in Timers : /\ node'[u].state = node[u].state
                             /\ u # t => node'[u] = node[u]
        /\ node'[t].access = "kDestruct" /\ ~ node'[t].inst
    <3>1. node[t] \in Node /\ node \in [Timers -> Node]
      BY DEF TypeOK
    <3>2. [node[t] EXCEPT !.inst = FALSE, !.access = "kDestruct"] \in Node
      BY <3>1 DEF Node, Access
    <3>3. node' = [node EXCEPT ![t] =
                     [node[t] EXCEPT !.inst = FALSE, !.access = "kDestruct"]]
      BY <2>1, <3>1 DEF Node
    <3> QED
      BY <3>1, <3>2, <3>3 DEF Node
  <2>3. TypeOK'
    BY <1>1, <2>1, <2>2 DEF TypeOK
  <2>4. ServicedTimerKept'
    BY <1>1, <2>1, <2>2 DEF ServicedTimerKept, Listed
  <2>5. ExpiredTimerPending'
    BY <2>1, <2>2 DEF ExpiredTimerPending
  <2>6. DestructionInOrder'
    BY <1>1, <2>1, <2>2 DEF DestructionInOrder, Listed
  <2> QED
    BY <2>3, <2>4, <2>5, <2>6
<1> QED
  BY <1>3, <1>4 DEF DestroyTimer

LEMMA AssignInvariant ==
    ASSUME IInv, NEW t \in Timers, NEW h \in HandlerChoices, AssignCallback(t, h)
    PROVE  IInv'
<1> USE DEF IInv
<1>1. /\ node' = [node EXCEPT ![t].handler = h]
      /\ h \in BOOLEAN /\ Listed(t)
      /\ UNCHANGED <<timers, termination, wpc, cur, now, run, wakeAt, clock, dtor>>
  BY HandlersAssumption DEF AssignCallback, Usable
<1>2. /\ node' \in [Timers -> Node]
      /\ \A u \in Timers : /\ node'[u].access = node[u].access
                           /\ node'[u].inst = node[u].inst
                           /\ node'[u].state = node[u].state
                           /\ u # t => node'[u] = node[u]
  BY <1>1 DEF TypeOK, Node
<1>3. TypeOK'
  BY <1>1, <1>2 DEF TypeOK
<1>4. ServicedTimerKept'
  BY <1>1, <1>2 DEF ServicedTimerKept, Listed
<1>5. ExpiredTimerPending'
  BY <1>1, <1>2 DEF ExpiredTimerPending
<1>6. DestructionInOrder'
  BY <1>1, <1>2 DEF DestructionInOrder, Listed
<1> QED
  BY <1>3, <1>4, <1>5, <1>6

LEMMA ManagerInvariant == IInv /\ (DestroyManager \/ JoinWorker) => IInv'
<1> SUFFICES ASSUME IInv, DestroyManager \/ JoinWorker PROVE IInv'
  OBVIOUS
<1> USE DEF IInv
<1>1. CASE DestroyManager
  <2>1. TypeOK'
    BY <1>1 DEF DestroyManager, TypeOK, NotifyOne, WorkerPoints
  <2>2. ServicedTimerKept'
    BY <1>1 DEF DestroyManager, ServicedTimerKept, Listed, NotifyOne, Asleep
  <2>3. ExpiredTimerPending'
    BY <1>1 DEF DestroyManager, ExpiredTimerPending, NotifyOne, Asleep
  <2>4. DestructionInOrder'
    BY <1>1 DEF DestroyManager, DestructionInOrder, Listed, NotifyOne, Asleep
  <2> QED
    BY <2>1, <2>2, <2>3, <2>4
<1>2. CASE JoinWorker
  BY <1>2 DEF JoinWorker, TypeOK, ServicedTimerKept, ExpiredTimerPending,
              DestructionInOrder, Listed
<1> QED
  BY <1>1, <1>2

\* The steps of the worker that leave the list and the nodes alone.
LEMMA WorkerStepInvariant ==
    ASSUME IInv,
           \/ WorkerEnter \/ ServiceDone \/ BeginCallback \/ AbortOnEmptyHandler
           \/ Measure \/ TimedOut \/ Spurious \/ Tick
    PROVE  IInv'
<1> USE DEF IInv
<1>1. CASE WorkerEnter
  BY <1>1, TicksAssumption
     DEF WorkerEnter, TypeOK, ServicedTimerKept, ExpiredTimerPending,
         DestructionInOrder, Listed, WorkerPoints
<1>2. CASE ServiceDone
  <2>1. \A i \in 1..Len(timers) : node[timers[i]].state # "kExpired"
    BY <1>2 DEF ServiceDone
  <2>2. \A t \in Timers : node[t].state # "kExpired"
    BY <2>1 DEF DestructionInOrder, Listed, ToSet, FreedNode, TypeOK
  <2> QED
    BY <1>2, <2>2
       DEF ServiceDone, TypeOK, ServicedTimerKept, ExpiredTimerPending,
           DestructionInOrder, Listed, WorkerPoints
<1>3. CASE BeginCallback \/ AbortOnEmptyHandler
  BY <1>3 DEF BeginCallback, AbortOnEmptyHandler, TypeOK, ServicedTimerKept,
              ExpiredTimerPending, DestructionInOrder, Listed, WorkerPoints
<1>4. CASE Measure
  <2>1. /\ wpc = "measure" /\ wpc' \in {"scan", "timedwait", "wait"}
        /\ now' \in {0, clock} /\ run' = FALSE
        /\ UNCHANGED <<timers, node, termination, cur, clock, dtor>>
    BY <1>4 DEF Measure
  <2>2. wakeAt' \in 0..MaxTime
    BY <1>4, MeasureType
  <2>3. TypeOK'
    <3>1. now' \in 0..MaxTime
      BY <2>1, TicksAssumption DEF TypeOK
    <3>2. cur' \in Timers \cup {NoTimer} /\ clock' \in 0..MaxTime
      BY <2>1 DEF TypeOK
    <3> QED
      BY <2>1, <2>2, <3>1, <3>2 DEF TypeOK, WorkerPoints
  <2> QED
    BY <2>1, <2>3
       DEF ServicedTimerKept, ExpiredTimerPending, DestructionInOrder, Listed
<1>5. CASE TimedOut \/ Spurious
  BY <1>5 DEF TimedOut, Spurious, Asleep, TypeOK, ServicedTimerKept,
              ExpiredTimerPending, DestructionInOrder, Listed, WorkerPoints
<1>6. CASE Tick
  BY <1>6, TicksAssumption
     DEF Tick, TypeOK, ServicedTimerKept, ExpiredTimerPending,
         DestructionInOrder, Listed
<1> QED
  BY <1>1, <1>2, <1>3, <1>4, <1>5, <1>6

LEMMA ExpireInvariant == IInv /\ ExpireActive => IInv'
<1> SUFFICES ASSUME IInv, ExpireActive PROVE IInv'
  OBVIOUS
<1> USE DEF IInv
<1>1. PICK k \in 0..Len(timers) :
        /\ \A i \in 1..k : Due(timers[i])
        /\ node' = [t \in Timers |-> IF \E i \in 1..k : timers[i] = t
                                     THEN [node[t] EXCEPT !.state = "kExpired"]
                                     ELSE node[t]]
        /\ timers' = SubSeq(timers, k + 1, Len(timers)) \o SubSeq(timers, 1, k)
        /\ run' = (k > 0)
  BY DEF ExpireActive
<1>2. /\ timers' \in Seq(Timers) /\ IsInjective(timers')
      /\ ToSet(timers') = ToSet(timers)
  BY <1>1, RotateSetLemma DEF TypeOK
<1>3. /\ wpc = "scan" /\ wpc' = IF run' THEN "service" ELSE "measure"
      /\ UNCHANGED <<termination, cur, now, wakeAt, clock, dtor>>
  BY DEF ExpireActive
<1>4. \A t \in Timers : (\E i \in 1..k : timers[i] = t) => Listed(t)
  BY DEF Listed, ToSet, TypeOK
<1>5. /\ node' \in [Timers -> Node]
      /\ \A t \in Timers : /\ node'[t].access = node[t].access
                           /\ node'[t].inst = node[t].inst
                           /\ ~ Listed(t) => node'[t] = node[t]
                           /\ k = 0 => node'[t] = node[t]
  <2>1. \A t \in Timers : node[t] \in Node
    BY DEF TypeOK
  <2>2. \A n \in Node : /\ [n EXCEPT !.state = "kExpired"] \in Node
                        /\ [n EXCEPT !.state = "kExpired"].access = n.access
                        /\ [n EXCEPT !.state = "kExpired"].inst = n.inst
    BY DEF Node, State
  <2>3. k = 0 => 1..k = {}
    OBVIOUS
  <2> QED
    BY <1>1, <1>4, <2>1, <2>2, <2>3
<1>6. TypeOK'
  <2>1. wpc' \in WorkerPoints /\ run' \in BOOLEAN
    BY <1>1, <1>3 DEF WorkerPoints
  <2> QED
    BY <1>2, <1>3, <1>5, <2>1 DEF TypeOK
<1>7. ServicedTimerKept'
  BY <1>2, <1>3, <1>5 DEF TypeOK, ServicedTimerKept, Listed
<1>8. ExpiredTimerPending'
  <2>1. CASE k = 0
    BY <2>1, <1>3, <1>5 DEF ExpiredTimerPending
  <2>2. CASE k > 0
    BY <2>2, <1>1, <1>3 DEF ExpiredTimerPending
  <2> QED
    BY <2>1, <2>2
<1>9. DestructionInOrder'
  BY <1>2, <1>3, <1>5 DEF DestructionInOrder, Listed
<1> QED
  BY <1>6, <1>7, <1>8, <1>9

LEMMA ServiceInvariant == IInv /\ (ServiceCall \/ ServiceSkip) => IInv'
<1> SUFFICES ASSUME IInv, ServiceCall \/ ServiceSkip PROVE IInv'
  OBVIOUS
<1> USE DEF IInv
<1>1. wpc = "service" /\ cur = NoTimer
  BY DEF ServiceCall, ServiceSkip, ServicedTimerKept
<1>2. CASE ServiceCall
  <2>1. PICK t \in Timers :
          /\ Listed(t) /\ cur' = t /\ node[t].inst
          /\ node' = [node EXCEPT ![t].state = "kIdle", ![t].access = "kLocked"]
    <3>1. PICK i \in 1..Len(timers) :
            /\ cur' = timers[i] /\ node[timers[i]].inst
            /\ node' = [node EXCEPT ![timers[i]].state = "kIdle",
                                    ![timers[i]].access = "kLocked"]
      BY <1>2 DEF ServiceCall, Callable
    <3>2. timers[i] \in Timers /\ Listed(timers[i])
      BY DEF Listed, ToSet, TypeOK
    <3> QED
      BY <3>1, <3>2
  <2>2. /\ wpc' = "invoke"
        /\ UNCHANGED <<timers, termination, now, run, wakeAt, clock, dtor>>
    BY <1>2 DEF ServiceCall
  <2>3. /\ node' \in [Timers -> Node]
        /\ \A u \in Timers : /\ node'[u].inst = node[u].inst
                             /\ u # t => node'[u] = node[u]
        /\ node'[t].access = "kLocked"
    BY <2>1 DEF TypeOK, Node, State, Access
  <2>4. TypeOK'
    BY <2>1, <2>2, <2>3 DEF TypeOK, WorkerPoints
  <2>5. ServicedTimerKept'
    BY <1>1, <2>1, <2>2, <2>3, TimersAssumption DEF ServicedTimerKept, Listed
  <2>6. ExpiredTimerPending'
    BY <2>2 DEF ExpiredTimerPending
  <2>7. DestructionInOrder'
    BY <1>1, <2>1, <2>2, <2>3 DEF DestructionInOrder, Listed
  <2> QED
    BY <2>4, <2>5, <2>6, <2>7
<1>3. CASE ServiceSkip
  <2>1. PICK t \in Timers :
          /\ Listed(t)
          /\ node' = [node EXCEPT ![t].state = "kIdle", ![t].access = "kDirect"]
    <3>1. PICK i \in 1..Len(timers) :
            node' = [node EXCEPT ![timers[i]].state = "kIdle",
                                 ![timers[i]].access = "kDirect"]
      BY <1>3 DEF ServiceSkip
    <3>2. timers[i] \in Timers /\ Listed(timers[i])
      BY DEF Listed, ToSet, TypeOK
    <3> QED
      BY <3>1, <3>2
  <2>2. UNCHANGED <<timers, termination, wpc, cur, now, run, wakeAt, clock, dtor>>
    BY <1>3 DEF ServiceSkip
  <2>3. node[t].access = "kDirect"
    BY <1>1, TimersAssumption DEF ServicedTimerKept
  <2>4. /\ node' \in [Timers -> Node]
        /\ \A u \in Timers : /\ node'[u].inst = node[u].inst
                             /\ node'[u].access = node[u].access
                             /\ u # t => node'[u] = node[u]
    BY <2>1, <2>3 DEF TypeOK, Node, State, Access
  <2>5. TypeOK'
    BY <2>2, <2>4 DEF TypeOK
  <2>6. ServicedTimerKept'
    BY <1>1, <2>2, <2>4 DEF ServicedTimerKept, Listed
  <2>7. ExpiredTimerPending'
    BY <1>1, <2>2 DEF ExpiredTimerPending
  <2>8. DestructionInOrder'
    BY <2>1, <2>2, <2>4 DEF DestructionInOrder, Listed
  <2> QED
    BY <2>5, <2>6, <2>7, <2>8
<1> QED
  BY <1>2, <1>3

LEMMA FinishInvariant == IInv /\ FinishCallback => IInv'
<1> SUFFICES ASSUME IInv, FinishCallback PROVE IInv'
  OBVIOUS
<1> USE DEF IInv
<1>1. /\ wpc = "callback" /\ wpc' = "service" /\ cur' = NoTimer
      /\ UNCHANGED <<termination, now, run, wakeAt, clock, dtor>>
      /\ cur \in Timers /\ Listed(cur)
  BY DEF FinishCallback, ServicedTimerKept, TypeOK
<1>2. CASE node[cur].access # "kDestruct"
  <2>1. node' = [node EXCEPT ![cur].access = "kDirect"] /\ timers' = timers
    BY <1>2 DEF FinishCallback
  <2>2. /\ node' \in [Timers -> Node]
        /\ \A u \in Timers : /\ node'[u].inst = node[u].inst
                             /\ node'[u].state = node[u].state
                             /\ u # cur => node'[u] = node[u]
        /\ node'[cur].access = "kDirect"
    BY <1>1, <2>1 DEF TypeOK, Node, Access
  <2>3. TypeOK'
    BY <1>1, <2>1, <2>2 DEF TypeOK, WorkerPoints
  <2>4. ServicedTimerKept'
    BY <1>1, <1>2, <2>1, <2>2 DEF ServicedTimerKept, Listed
  <2>5. ExpiredTimerPending'
    BY <1>1 DEF ExpiredTimerPending
  <2>6. DestructionInOrder'
    BY <1>1, <2>1, <2>2 DEF DestructionInOrder, Listed
  <2> QED
    BY <2>3, <2>4, <2>5, <2>6
<1>3. CASE node[cur].access = "kDestruct"
  <2>1. node' = [node EXCEPT ![cur] = FreedNode] /\ timers' = ListWithout(cur)
    BY <1>3 DEF FinishCallback
  <2>2. /\ timers' \in Seq(Timers) /\ IsInjective(timers')
        /\ ToSet(timers') = ToSet(timers) \ {cur}
    BY <1>1, <2>1, ListWithoutLemma DEF TypeOK
  <2>3. TypeOK'
    BY <1>1, <2>1, <2>2, NodeLemma DEF TypeOK, WorkerPoints
  <2>4. ServicedTimerKept'
    BY <1>1, <2>1, <2>2 DEF TypeOK, ServicedTimerKept, Listed, FreedNode
  <2>5. ExpiredTimerPending'
    BY <1>1 DEF ExpiredTimerPending
  <2>6. DestructionInOrder'
    BY <1>1, <2>1, <2>2 DEF TypeOK, DestructionInOrder, Listed
  <2> QED
    BY <2>3, <2>4, <2>5, <2>6
<1> QED
  BY <1>2, <1>3

LEMMA NextInvariant == IInv /\ [Next]_vars => IInv'
<1> SUFFICES ASSUME IInv, [Next]_vars PROVE IInv'
  OBVIOUS
<1>1. CASE Client
  BY <1>1, CreateInvariant, UpdateInvariant, DestroyInvariant, AssignInvariant,
     ManagerInvariant DEF Client
<1>2. CASE Worker
  BY <1>2, WorkerStepInvariant, ExpireInvariant, ServiceInvariant,
     FinishInvariant DEF Worker
<1>3. CASE JoinWorker \/ Spurious \/ Tick
  BY <1>3, ManagerInvariant, WorkerStepInvariant
<1>4. CASE UNCHANGED vars
  BY <1>4 DEF vars, IInv, TypeOK, ServicedTimerKept, ExpiredTimerPending,
              DestructionInOrder, Listed
<1> QED
  BY <1>1, <1>2, <1>3, <1>4 DEF Next, Finished

\* The list, the nodes and the worker's variables keep their types; the list
\* names no timer twice and no time stamp leaves the bounds of the clock.
THEOREM TypeCorrect == Spec => []TypeOK
<1>1. IInv => TypeOK
  BY DEF IInv
<1> QED
  BY <1>1, InitInvariant, NextInvariant, PTL DEF Spec

\* The node whose handler runs without the mutex is in the list and no other
\* node is protected: no client erases what the worker's iterator names.
THEOREM ServicedTimerStaysListed == Spec => []ServicedTimerKept
<1>1. IInv => ServicedTimerKept
  BY DEF IInv
<1> QED
  BY <1>1, InitInvariant, NextInvariant, PTL DEF Spec

\* A timer taken out of the active section is serviced before the worker can
\* sleep again.
THEOREM ExpiredTimersAreServiced == Spec => []ExpiredTimerPending
<1>1. IInv => ExpiredTimerPending
  BY DEF IInv
<1> QED
  BY <1>1, InitInvariant, NextInvariant, PTL DEF Spec

\* ~TimerManager returns only after the last Timer was destroyed.
THEOREM ManagerOutlivesTimers == Spec => []NoTimerOutlivesManager
<1>1. IInv => NoTimerOutlivesManager
  <2> SUFFICES ASSUME IInv, dtor = "done"
               PROVE  timers = <<>> /\ \A t \in Timers : ~ node[t].inst
    BY DEF NoTimerOutlivesManager
  <2>1. timers = <<>>
    BY DEF IInv, DestructionInOrder
  <2>2. \A t \in Timers : ~ Listed(t)
    BY <2>1 DEF Listed, ToSet
  <2> QED
    BY <2>1, <2>2 DEF IInv, DestructionInOrder, FreedNode
<1> QED
  BY <1>1, InitInvariant, NextInvariant, PTL DEF Spec
=============================================================================
