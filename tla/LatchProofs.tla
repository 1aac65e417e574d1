----------------------------- MODULE LatchProofs -----------------------------
(***************************************************************************)
(* What basic::CountDownLatch promises to a thread that waits without a    *)
(* time-out, for any number of threads, any count and any number of calls. *)
(***************************************************************************)
EXTENDS CountDownLatch, FiniteSetTheorems, TLAPS

\* The counters that saw a count other than zero and have not decremented it.
Loaded == {c \in Counters : counter[c] = "loaded"}

\* Each call that was counted has decremented once, or still will.
Counted ==
    /\ IsFiniteSet(Loaded)
    /\ Cardinality(Loaded) <= calls
    /\ count = InitialCount - calls + Cardinality(Loaded)

\* The waiters and the bound, apart from the count.
PlacesOK ==
    /\ counter \in [Counters -> {"outside", "loaded", "decremented"}]
    /\ waiter \in [Waiters -> {"outside", "entering", "checked", "asleep", "returned"}]
    /\ calls \in 0..MaxCalls

\* A counter that finds the count other than zero is one more.
LEMMA LoadAdds ==
    ASSUME PlacesOK, Counted, NEW c \in Counters, LoadCount(c)
    PROVE  PlacesOK' /\ Counted'
<1>1. Loaded' = Loaded \cup {c} /\ c \notin Loaded
  BY DEF PlacesOK, Loaded, LoadCount
<1>2. /\ IsFiniteSet(Loaded')
      /\ Cardinality(Loaded') = Cardinality(Loaded) + 1
      /\ Cardinality(Loaded) \in Nat
  BY <1>1, FS_AddElement, FS_CardinalityType DEF Counted
<1>3. calls \in Nat /\ calls' = calls + 1 /\ count' = count /\ calls < MaxCalls
  BY CountAssumption DEF PlacesOK, LoadCount
<1>4. Counted'
  BY <1>2, <1>3, CountAssumption DEF Counted
<1>5. PlacesOK'
  BY <1>3, CountAssumption DEF PlacesOK, LoadCount
<1> QED
  BY <1>4, <1>5

\* Its decrement keeps the balance.
LEMMA DecrementRemoves ==
    ASSUME PlacesOK, Counted, NEW c \in Counters, Decrement(c)
    PROVE  PlacesOK' /\ Counted'
<1>1. Loaded' = Loaded \ {c} /\ c \in Loaded
  BY DEF PlacesOK, Loaded, Decrement
<1>2. /\ IsFiniteSet(Loaded')
      /\ Cardinality(Loaded') = Cardinality(Loaded) - 1
      /\ Cardinality(Loaded) \in Nat
  BY <1>1, FS_RemoveElement, FS_CardinalityType DEF Counted
<1>3. calls \in Nat /\ calls' = calls /\ count' = count - 1
  BY CountAssumption DEF PlacesOK, Decrement
<1>4. Counted'
  BY <1>2, <1>3, CountAssumption DEF Counted
<1>5. PlacesOK'
  BY <1>3 DEF PlacesOK, Decrement
<1> QED
  BY <1>4, <1>5

\* The notification and the waiters leave the count alone.
LEMMA WaitersDoNotCount ==
    ASSUME PlacesOK, Counted,
           \/ \E c \in Counters : NotifyAtZero(c)
           \/ \E w \in Waiters :
                CallWait(w) \/ Evaluate(w) \/ FallAsleep(w) \/ TimedOut(w) \/ Spurious(w)
           \/ UNCHANGED vars
    PROVE  PlacesOK' /\ Counted'
<1>1. ASSUME NEW c \in Counters, NotifyAtZero(c) PROVE PlacesOK' /\ Loaded' = Loaded
  BY <1>1 DEF PlacesOK, NotifyAtZero, Loaded
<1>2. ASSUME NEW w \in Waiters,
             CallWait(w) \/ Evaluate(w) \/ FallAsleep(w) \/ TimedOut(w) \/ Spurious(w)
      PROVE  PlacesOK' /\ Loaded' = Loaded
  BY <1>2 DEF PlacesOK, CallWait, Evaluate, FallAsleep, TimedOut, Spurious, Goto, Loaded
<1>3. ASSUME UNCHANGED vars PROVE PlacesOK' /\ Loaded' = Loaded
  BY <1>3 DEF PlacesOK, Loaded, vars
<1>4. PlacesOK' /\ Loaded' = Loaded
  BY <1>1, <1>2, <1>3
<1>5. count' = count /\ calls' = calls
  BY DEF NotifyAtZero, CallWait, Evaluate, FallAsleep, TimedOut, Spurious, Goto, vars
<1> QED
  BY <1>4, <1>5 DEF Counted

\* The count and the calls of countDown never part: each call decrements
\* exactly once, also when several pass the test for zero together.
THEOREM CallsAreCounted == Spec => [](PlacesOK /\ Counted)
<1>1. Init => PlacesOK /\ Counted
  <2> SUFFICES ASSUME Init PROVE PlacesOK /\ Counted
    OBVIOUS
  <2>1. Loaded = {}
    BY DEF Init, Loaded
  <2>2. IsFiniteSet(Loaded) /\ Cardinality(Loaded) = 0
    BY <2>1, FS_EmptySet
  <2> QED
    BY <2>2, CountAssumption DEF Init, PlacesOK, Counted
<1>2. PlacesOK /\ Counted /\ [Next]_vars => PlacesOK' /\ Counted'
  <2> SUFFICES ASSUME PlacesOK, Counted, [Next]_vars PROVE PlacesOK' /\ Counted'
    OBVIOUS
  <2>1. ASSUME NEW c \in Counters, CountDown(c) PROVE PlacesOK' /\ Counted'
    BY <2>1, LoadAdds, DecrementRemoves, WaitersDoNotCount DEF CountDown
  <2>2. ASSUME NEW w \in Waiters,
               CallWait(w) \/ Evaluate(w) \/ FallAsleep(w) \/ TimedOut(w) \/ Spurious(w)
        PROVE  PlacesOK' /\ Counted'
    BY <2>2, WaitersDoNotCount
  <2>3. CASE UNCHANGED vars
    BY <2>3, WaitersDoNotCount
  <2> QED
    BY <2>1, <2>2, <2>3 DEF Next, Finished
<1> QED
  BY <1>1, <1>2, PTL DEF Spec

\* The count stays within the calls that were made, and every thread is where
\* it can be.
THEOREM TypeCorrect == Spec => []TypeOK
<1>1. PlacesOK /\ Counted => TypeOK
  BY FS_CardinalityType, CountAssumption DEF PlacesOK, Counted, TypeOK
<1> QED
  BY <1>1, CallsAreCounted, PTL

\* A wait without a time-out returns only after the count came down to zero,
\* and the count never rises again.
THEOREM WaitsForTheCount == Spec => []ReturnMeansCountedDown
<1>1. Init => ReturnMeansCountedDown
  BY DEF Init, ReturnMeansCountedDown
<1>2. TypeOK /\ ReturnMeansCountedDown /\ [Next]_vars => ReturnMeansCountedDown'
  <2> SUFFICES ASSUME TypeOK, ReturnMeansCountedDown, [Next]_vars,
                      NEW w \in Waiters \ TimedWaiters, waiter'[w] = "returned"
               PROVE  count' <= 0
    BY DEF ReturnMeansCountedDown
  <2>1. count \in Int /\ waiter \in [Waiters -> {"outside", "entering", "checked", "asleep", "returned"}]
    BY CountAssumption DEF TypeOK
  <2>2. waiter[w] = "returned" => count <= 0
    BY DEF ReturnMeansCountedDown
  <2>3. ASSUME NEW c \in Counters, CountDown(c) PROVE count' <= 0
    <3>1. waiter[w] = "returned"
      BY <2>1, <2>3 DEF CountDown, LoadCount, Decrement, NotifyAtZero
    <3>2. count' = count \/ count' = count - 1
      BY <2>3 DEF CountDown, LoadCount, Decrement, NotifyAtZero
    <3> QED
      BY <2>1, <2>2, <3>1, <3>2
  <2>4. ASSUME NEW v \in Waiters, CallWait(v) \/ Evaluate(v) PROVE count' <= 0
    BY <2>1, <2>2, <2>4 DEF CallWait, Evaluate, Goto
  <2>5. ASSUME NEW v \in Waiters, FallAsleep(v) \/ TimedOut(v) \/ Spurious(v)
        PROVE  count' <= 0
    BY <2>1, <2>2, <2>5 DEF FallAsleep, TimedOut, Spurious, Goto
  <2>6. CASE UNCHANGED vars
    BY <2>2, <2>6 DEF vars
  <2> QED
    BY <2>3, <2>4, <2>5, <2>6 DEF Next, Finished
<1> QED
  BY <1>1, <1>2, TypeCorrect, PTL DEF Spec
=============================================================================
