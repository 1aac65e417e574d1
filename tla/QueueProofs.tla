---------------------------- MODULE QueueProofs -----------------------------
(***************************************************************************)
(* No wake-up of basic::Queue is lost, for any number of producers and     *)
(* consumers and any capacity.                                             *)
(***************************************************************************)
EXTENDS Queue, FiniteSetTheorems, TLAPS

-----------------------------------------------------------------------------
(* Threads of one side, as a function from thread to its place             *)

Ready(threads) == At(threads, "ready")
Asleep(threads) == At(threads, "asleep")

\* From f to g the thread t, and no other, goes to place pc.
Moved(T, f, g, t, pc) == \A u \in T : g[u] = IF u = t THEN pc ELSE f[u]

LEMMA ReadyCount ==
    ASSUME NEW T, IsFiniteSet(T), NEW f \in [T -> Points]
    PROVE  IsFiniteSet(Ready(f)) /\ Cardinality(Ready(f)) \in Nat
<1>1. Ready(f) \in SUBSET T
  BY DEF Ready, At
<1> QED
  BY <1>1, FS_Subset, FS_CardinalityType

\* A thread that starts to look at the queue, or is woken, is one more.
LEMMA BecomesReady ==
    ASSUME NEW T, IsFiniteSet(T), NEW f \in [T -> Points], NEW t \in T,
           f[t] # "ready", NEW g \in [T -> Points], Moved(T, f, g, t, "ready")
    PROVE  /\ Cardinality(Ready(g)) = Cardinality(Ready(f)) + 1
           /\ Asleep(g) = Asleep(f) \ {t}
<1>1. Ready(g) = Ready(f) \cup {t} /\ t \notin Ready(f)
  BY DEF Ready, At, Moved
<1>2. Cardinality(Ready(g)) = Cardinality(Ready(f)) + 1
  BY <1>1, ReadyCount, FS_AddElement
<1> QED
  BY <1>2 DEF Asleep, At, Moved

\* A thread that returns or falls asleep is one less.
LEMMA NoLongerReady ==
    ASSUME NEW T, IsFiniteSet(T), NEW f \in [T -> Points], NEW t \in T,
           f[t] = "ready", NEW pc \in {"idle", "asleep"},
           NEW g \in [T -> Points], Moved(T, f, g, t, pc)
    PROVE  /\ Cardinality(Ready(g)) = Cardinality(Ready(f)) - 1
           /\ Asleep(g) \subseteq Asleep(f) \cup {t}
           /\ pc = "idle" => Asleep(g) = Asleep(f)
<1>1. Ready(g) = Ready(f) \ {t} /\ t \in Ready(f)
  BY DEF Ready, At, Moved
<1>2. Cardinality(Ready(g)) = Cardinality(Ready(f)) - 1
  BY <1>1, ReadyCount, FS_RemoveElement
<1> QED
  BY <1>2 DEF Asleep, At, Moved

\* A notification wakes one sleeper, unless there is none.
LEMMA NotifyLemma ==
    ASSUME NEW T, IsFiniteSet(T), NEW f \in [T -> Points], NEW g, NotifyOne(f, g)
    PROVE  /\ g \in [T -> Points]
           /\ Asleep(g) \subseteq Asleep(f)
           /\ Asleep(f) # {} => Cardinality(Ready(g)) = Cardinality(Ready(f)) + 1
<1>1. CASE Asleep(f) = {}
  BY <1>1 DEF NotifyOne, Asleep
<1>2. CASE Asleep(f) # {}
  <2>1. PICK t \in Asleep(f) : g = [f EXCEPT ![t] = "ready"]
    BY <1>2 DEF NotifyOne, Asleep
  <2>2. t \in T /\ f[t] # "ready"
    BY DEF Asleep, At
  <2>3. g \in [T -> Points] /\ Moved(T, f, g, t, "ready")
    BY <2>1, <2>2 DEF Moved, Points
  <2>4. /\ Cardinality(Ready(g)) = Cardinality(Ready(f)) + 1
        /\ Asleep(g) = Asleep(f) \ {t}
    BY <2>2, <2>3, BecomesReady
  <2> QED
    BY <2>3, <2>4
<1> QED
  BY <1>1, <1>2

-----------------------------------------------------------------------------
(* The actions, as what they do to the two sides and to the queue          *)

LEMMA LengthLemma ==
    ASSUME NEW q \in Seq(Nat), NEW n \in Nat
    PROVE  /\ Append(q, n) \in Seq(Nat) /\ Len(Append(q, n)) = Len(q) + 1
           /\ q # <<>> => Tail(q) \in Seq(Nat) /\ Len(Tail(q)) = Len(q) - 1
           /\ Len(q) \in Nat /\ (q = <<>> <=> Len(q) = 0)
OBVIOUS

\* Values, capacities and places keep their types.
THEOREM TypeCorrect == Spec => []TypeOK
<1>1. ASSUME Init PROVE TypeOK
  <2>1. queue \in Seq(Nat)
    BY <1>1 DEF Init
  <2>2. /\ producer \in [Producers -> Points]
        /\ consumer \in [Consumers -> Points]
    BY <1>1 DEF Init, Points
  <2>3. /\ capacity \in Nat /\ pushed \in Nat /\ popped \in Nat
        /\ calls \in 0..MaxCalls
    BY <1>1, CapacityAssumption, CallsAssumption DEF Init
  <2>4. raised \in BOOLEAN
    BY <1>1 DEF Init
  <2> QED
    BY <2>1, <2>2, <2>3, <2>4 DEF TypeOK
<1>2. TypeOK /\ [Next]_vars => TypeOK'
  <2> SUFFICES ASSUME TypeOK, [Next]_vars PROVE TypeOK'
    OBVIOUS
  <2> USE DEF TypeOK, Points
  <2>1. ASSUME NEW p \in Producers, CallPush(p) PROVE TypeOK'
    BY <2>1, CallsAssumption DEF CallPush
  <2>2. ASSUME NEW p \in Producers, PushBlocks(p) \/ SpuriousProducer(p)
        PROVE  TypeOK'
    BY <2>2 DEF PushBlocks, SpuriousProducer
  <2>3. ASSUME NEW p \in Producers, PushReturns(p) PROVE TypeOK'
    <3>1. consumer' \in [Consumers -> Points]
      BY <2>3, NotifyLemma, ThreadsAssumption DEF PushReturns
    <3>2. queue' \in Seq(Nat)
      BY <2>3, LengthLemma DEF PushReturns
    <3> QED
      BY <2>3, <3>1, <3>2 DEF PushReturns
  <2>4. ASSUME NEW c \in Consumers,
               CallPop(c) \/ PopBlocks(c) \/ SpuriousConsumer(c)
        PROVE  TypeOK'
    BY <2>4 DEF CallPop, PopBlocks, SpuriousConsumer
  <2>5. ASSUME NEW c \in Consumers, PopReturns(c) PROVE TypeOK'
    <3>1. producer' \in [Producers -> Points]
      BY <2>5, NotifyLemma, ThreadsAssumption DEF PopReturns
    <3>2. queue' \in Seq(Nat)
      BY <2>5, LengthLemma DEF PopReturns
    <3> QED
      BY <2>5, <3>1, <3>2 DEF PopReturns
  <2>6. ASSUME NEW n \in NewCapacities, SetCapacity(n) PROVE TypeOK'
    BY <2>6, CapacityAssumption DEF SetCapacity
  <2>7. CASE UNCHANGED vars
    BY <2>7 DEF vars
  <2> QED
    BY <2>1, <2>2, <2>3, <2>4, <2>5, <2>6, <2>7 DEF Next, Push, Pop
<1> QED
  BY <1>1, <1>2, PTL DEF Spec

\* No notification of m_condPush is lost: while a consumer sleeps, every value
\* in the queue has a consumer that is awake, whatever setCapacity does.
THEOREM ConsumersAreWoken == Spec => []NoStrandedConsumer
<1> DEFINE R == Cardinality(Ready(consumer))
<1>1. Init => NoStrandedConsumer
  BY DEF Init, NoStrandedConsumer, At
<1>2. TypeOK /\ NoStrandedConsumer /\ [Next]_vars => NoStrandedConsumer'
  <2> SUFFICES ASSUME TypeOK, NoStrandedConsumer, [Next]_vars
               PROVE  NoStrandedConsumer'
    OBVIOUS
  <2>1. /\ queue \in Seq(Nat) /\ pushed \in Nat
        /\ consumer \in [Consumers -> Points] /\ IsFiniteSet(Consumers)
        /\ Cardinality(Ready(consumer)) \in Nat
    BY ThreadsAssumption, ReadyCount DEF TypeOK
  <2>2. Asleep(consumer) # {} => Len(queue) <= Cardinality(Ready(consumer))
    BY DEF NoStrandedConsumer, Asleep, Ready
  <2> SUFFICES Asleep(consumer') # {} =>
                 Len(queue') <= Cardinality(Ready(consumer'))
    BY DEF NoStrandedConsumer, Asleep, Ready
  <2>3. CASE UNCHANGED <<queue, consumer>>
    BY <2>2, <2>3
  <2>4. ASSUME NEW p \in Producers, PushReturns(p)
        PROVE  Asleep(consumer') # {} =>
                 Len(queue') <= Cardinality(Ready(consumer'))
    <3>1. Len(queue') = Len(queue) + 1 /\ Len(queue) \in Nat
      BY <2>1, <2>4, LengthLemma DEF PushReturns
    <3>2. /\ Asleep(consumer') \subseteq Asleep(consumer)
          /\ Asleep(consumer) # {} => Cardinality(Ready(consumer')) =
                                        Cardinality(Ready(consumer)) + 1
      BY <2>1, <2>4, NotifyLemma DEF PushReturns
    <3> QED
      BY <2>1, <2>2, <3>1, <3>2
  <2>5. ASSUME NEW c \in Consumers, CallPop(c) \/ SpuriousConsumer(c)
        PROVE  Asleep(consumer') # {} =>
                 Len(queue') <= Cardinality(Ready(consumer'))
    <3>1. /\ consumer[c] # "ready" /\ queue' = queue
          /\ consumer' = [consumer EXCEPT ![c] = "ready"]
      BY <2>5 DEF CallPop, SpuriousConsumer
    <3>4. /\ consumer' \in [Consumers -> Points]
          /\ Moved(Consumers, consumer, consumer', c, "ready")
      BY <2>1, <3>1 DEF Moved, Points
    <3>5. consumer[c] # "ready"
      BY <3>1
    <3>2. /\ Cardinality(Ready(consumer')) = Cardinality(Ready(consumer)) + 1
          /\ Asleep(consumer') \subseteq Asleep(consumer)
      BY <2>1, <3>4, <3>5, BecomesReady
    <3>3. Len(queue') = Len(queue) /\ Len(queue) \in Nat
      BY <2>1, <3>1, LengthLemma
    <3> QED
      BY <2>1, <2>2, <3>2, <3>3
  <2>6. ASSUME NEW c \in Consumers, PopBlocks(c)
        PROVE  Len(queue') <= Cardinality(Ready(consumer'))
    <3>1. /\ consumer[c] = "ready" /\ queue' = queue /\ queue = <<>>
          /\ consumer' = [consumer EXCEPT ![c] = "asleep"]
      BY <2>6 DEF PopBlocks
    <3>2. consumer' \in [Consumers -> Points]
      BY <2>1, <3>1 DEF Points
    <3>3. Cardinality(Ready(consumer')) \in Nat
      BY <2>1, <3>2, ReadyCount
    <3>4. Len(queue') = 0
      BY <3>1
    <3> QED
      BY <3>3, <3>4
  <2>7. ASSUME NEW c \in Consumers, PopReturns(c)
        PROVE  Asleep(consumer') # {} =>
                 Len(queue') <= Cardinality(Ready(consumer'))
    <3>1. /\ consumer[c] = "ready" /\ queue # <<>> /\ queue' = Tail(queue)
          /\ consumer' = [consumer EXCEPT ![c] = "idle"]
      BY <2>7 DEF PopReturns
    <3>4. /\ consumer' \in [Consumers -> Points]
          /\ Moved(Consumers, consumer, consumer', c, "idle")
      BY <2>1, <3>1 DEF Moved, Points
    <3>5. consumer[c] = "ready"
      BY <3>1
    <3>2. /\ Cardinality(Ready(consumer')) = Cardinality(Ready(consumer)) - 1
          /\ Asleep(consumer') = Asleep(consumer)
      BY <2>1, <3>4, <3>5, NoLongerReady
    <3>3. Len(queue') = Len(queue) - 1 /\ Len(queue) \in Nat
      BY <2>1, <3>1, LengthLemma
    <3> QED
      BY <2>1, <2>2, <3>2, <3>3
  <2>8. ASSUME NEW p \in Producers,
               CallPush(p) \/ PushBlocks(p) \/ SpuriousProducer(p)
        PROVE  UNCHANGED <<queue, consumer>>
    BY <2>8 DEF CallPush, PushBlocks, SpuriousProducer
  <2>9. ASSUME NEW n \in NewCapacities, SetCapacity(n)
        PROVE  UNCHANGED <<queue, consumer>>
    BY <2>9 DEF SetCapacity
  <2> QED
    BY <2>3, <2>4, <2>5, <2>6, <2>7, <2>8, <2>9 DEF Next, Push, Pop, vars
<1> QED
  BY <1>1, <1>2, TypeCorrect, PTL DEF Spec


\* While a producer sleeps, every free place has a producer that is awake, unless
\* setCapacity, which notifies nobody, raised the capacity while one slept.  It
\* may lower it as often as it likes.
THEOREM ProducersAreWoken == Spec => []NoStrandedProducer
<1> DEFINE Wanted == Asleep(producer) # {} /\ ~ raised =>
                       /\ capacity > 0
                       /\ capacity - Len(queue) <= Cardinality(Ready(producer))
<1>1. Init => NoStrandedProducer
  BY DEF Init, NoStrandedProducer, At
<1>2. TypeOK /\ NoStrandedProducer /\ [Next]_vars => NoStrandedProducer'
  <2> SUFFICES ASSUME TypeOK, NoStrandedProducer, [Next]_vars
               PROVE  Wanted'
    BY DEF NoStrandedProducer, Asleep, Ready
  <2>1. /\ queue \in Seq(Nat) /\ pushed \in Nat /\ capacity \in Nat
        /\ producer \in [Producers -> Points] /\ IsFiniteSet(Producers)
        /\ Cardinality(Ready(producer)) \in Nat
        /\ Len(queue) \in Nat
    BY ThreadsAssumption, ReadyCount, LengthLemma DEF TypeOK
  <2>2. Wanted
    BY DEF NoStrandedProducer, Asleep, Ready
  <2>3. CASE UNCHANGED <<queue, producer, capacity, raised>>
    BY <2>2, <2>3
  <2>4. ASSUME NEW c \in Consumers, PopReturns(c) PROVE Wanted'
    <3>1. Len(queue') = Len(queue) - 1 /\ capacity' = capacity /\ raised' = raised
      BY <2>1, <2>4, LengthLemma DEF PopReturns
    <3>2. /\ Asleep(producer') \subseteq Asleep(producer)
          /\ Asleep(producer) # {} => Cardinality(Ready(producer')) =
                                        Cardinality(Ready(producer)) + 1
      BY <2>1, <2>4, NotifyLemma DEF PopReturns
    <3>3. ASSUME Asleep(producer') # {}, ~ raised'
          PROVE  /\ capacity' > 0
                 /\ capacity' - Len(queue') <= Cardinality(Ready(producer'))
      <4>1. Asleep(producer) # {} /\ ~ raised
        BY <3>1, <3>2, <3>3
      <4>2. capacity > 0 /\ capacity - Len(queue) <= Cardinality(Ready(producer))
        BY <2>2, <4>1
      <4> QED
        BY <2>1, <3>1, <3>2, <4>1, <4>2
    <3> QED
      BY <3>3
  <2>5. ASSUME NEW p \in Producers, CallPush(p) \/ SpuriousProducer(p)
        PROVE  Wanted'
    <3>1. /\ producer[p] # "ready" /\ queue' = queue /\ capacity' = capacity
          /\ producer' = [producer EXCEPT ![p] = "ready"] /\ raised' = raised
      BY <2>5 DEF CallPush, SpuriousProducer
    <3>2. /\ producer' \in [Producers -> Points]
          /\ Moved(Producers, producer, producer', p, "ready")
      BY <2>1, <3>1 DEF Moved, Points
    <3>3. producer[p] # "ready"
      BY <3>1
    <3>4. /\ Cardinality(Ready(producer')) = Cardinality(Ready(producer)) + 1
          /\ Asleep(producer') \subseteq Asleep(producer)
      BY <2>1, <3>2, <3>3, BecomesReady
    <3>5. Len(queue') = Len(queue)
      BY <3>1
    <3>6. capacity' = capacity /\ raised' = raised
      BY <3>1
    <3>7. /\ capacity \in Nat /\ Len(queue) \in Nat
          /\ Cardinality(Ready(producer)) \in Nat
      BY <2>1
    <3> QED
      BY <2>2, <3>4, <3>5, <3>6, <3>7
  <2>6. ASSUME NEW p \in Producers, PushBlocks(p) PROVE Wanted'
    <3>1. /\ capacity > 0 /\ Len(queue) >= capacity
          /\ queue' = queue /\ capacity' = capacity
          /\ producer' = [producer EXCEPT ![p] = "asleep"]
      BY <2>6 DEF PushBlocks, Full
    <3>2. producer' \in [Producers -> Points]
      BY <2>1, <3>1 DEF Points
    <3>3. Cardinality(Ready(producer')) \in Nat
      BY <2>1, <3>2, ReadyCount
    <3> QED
      BY <2>1, <3>1, <3>3
  <2>7. ASSUME NEW p \in Producers, PushReturns(p) PROVE Wanted'
    <3>1. /\ producer[p] = "ready" /\ queue' = Append(queue, pushed + 1)
          /\ producer' = [producer EXCEPT ![p] = "idle"]
          /\ capacity' = capacity /\ raised' = raised
      BY <2>7 DEF PushReturns
    <3>2. /\ producer' \in [Producers -> Points]
          /\ Moved(Producers, producer, producer', p, "idle")
      BY <2>1, <3>1 DEF Moved, Points
    <3>3. producer[p] = "ready"
      BY <3>1
    <3>4. /\ Cardinality(Ready(producer')) = Cardinality(Ready(producer)) - 1
          /\ Asleep(producer') = Asleep(producer)
      BY <2>1, <3>2, <3>3, NoLongerReady
    <3>5. Len(queue') = Len(queue) + 1
      BY <2>1, <3>1, LengthLemma
    <3>6. capacity' = capacity /\ raised' = raised
      BY <3>1
    <3>7. /\ capacity \in Nat /\ Len(queue) \in Nat
          /\ Cardinality(Ready(producer)) \in Nat
      BY <2>1
    <3> QED
      BY <2>2, <3>4, <3>5, <3>6, <3>7
  <2>8. ASSUME NEW c \in Consumers,
               CallPop(c) \/ PopBlocks(c) \/ SpuriousConsumer(c)
        PROVE  UNCHANGED <<queue, producer, capacity, raised>>
    BY <2>8 DEF CallPop, PopBlocks, SpuriousConsumer
  <2>9. ASSUME NEW n \in NewCapacities, SetCapacity(n),
               Asleep(producer') # {}, ~ raised'
        PROVE  /\ capacity' > 0
               /\ capacity' - Len(queue') <= Cardinality(Ready(producer'))
    <3>1. /\ capacity' = n /\ n \in Nat /\ queue' = queue /\ producer' = producer
          /\ Asleep(producer) # {} /\ ~ raised /\ ~ Raises(n)
      BY <2>9, CapacityAssumption DEF SetCapacity, Asleep
    <3>2. /\ capacity > 0
          /\ capacity - Len(queue) <= Cardinality(Ready(producer))
      BY <2>2, <3>1
    <3>3. 0 < n /\ n <= capacity
      BY <2>1, <3>1, <3>2 DEF Raises
    <3> QED
      BY <2>1, <3>1, <3>2, <3>3
  <2> QED
    BY <2>3, <2>4, <2>5, <2>6, <2>7, <2>8, <2>9 DEF Next, Push, Pop, vars
<1> QED
  BY <1>1, <1>2, TypeCorrect, PTL DEF Spec

\* Values leave in the order in which they entered, each exactly once.
THEOREM ItemsInOrder == Spec => []ExactlyOnceInOrder
<1>1. Init => ExactlyOnceInOrder
  BY DEF Init, ExactlyOnceInOrder
<1>2. TypeOK /\ ExactlyOnceInOrder /\ [Next]_vars => ExactlyOnceInOrder'
  <2> SUFFICES ASSUME TypeOK, ExactlyOnceInOrder, [Next]_vars
               PROVE  ExactlyOnceInOrder'
    OBVIOUS
  <2>1. /\ queue \in Seq(Nat) /\ pushed \in Nat /\ popped \in Nat
        /\ Len(queue) \in Nat /\ pushed = popped + Len(queue)
        /\ \A i \in 1..Len(queue) : queue[i] = popped + i
    BY LengthLemma DEF TypeOK, ExactlyOnceInOrder
  <2>2. CASE UNCHANGED <<queue, pushed, popped>>
    BY <2>1, <2>2 DEF ExactlyOnceInOrder
  <2>3. ASSUME NEW p \in Producers, PushReturns(p) PROVE ExactlyOnceInOrder'
    <3>1. /\ queue' = Append(queue, pushed + 1)
          /\ pushed' = pushed + 1 /\ popped' = popped
      BY <2>3 DEF PushReturns
    <3>2. /\ Len(queue') = Len(queue) + 1
          /\ \A i \in 1..Len(queue) + 1 :
               queue'[i] = IF i <= Len(queue) THEN queue[i] ELSE pushed + 1
      BY <2>1, <3>1
    <3>3. pushed' = popped' + Len(queue')
      BY <2>1, <3>1, <3>2
    <3>4. ASSUME NEW i \in 1..Len(queue) + 1 PROVE queue'[i] = popped + i
      <4>1. CASE i <= Len(queue)
        BY <2>1, <3>2, <4>1
      <4>2. CASE i = Len(queue) + 1
        BY <2>1, <3>2, <4>2
      <4> QED
        BY <2>1, <4>1, <4>2
    <3> QED
      BY <3>1, <3>2, <3>3, <3>4 DEF ExactlyOnceInOrder
  <2>4. ASSUME NEW c \in Consumers, PopReturns(c) PROVE ExactlyOnceInOrder'
    <3>1. /\ queue # <<>> /\ queue' = Tail(queue)
          /\ pushed' = pushed /\ popped' = popped + 1
      BY <2>4 DEF PopReturns
    <3>2. /\ Len(queue') = Len(queue) - 1
          /\ \A i \in 1..Len(queue) - 1 : queue'[i] = queue[i + 1]
      BY <2>1, <3>1
    <3>3. pushed' = popped' + Len(queue')
      BY <2>1, <3>1, <3>2
    <3>4. ASSUME NEW i \in 1..Len(queue) - 1 PROVE queue'[i] = popped' + i
      BY <2>1, <3>1, <3>2
    <3> QED
      BY <3>2, <3>3, <3>4 DEF ExactlyOnceInOrder
  <2>5. ASSUME NEW p \in Producers,
               CallPush(p) \/ PushBlocks(p) \/ SpuriousProducer(p)
        PROVE  UNCHANGED <<queue, pushed, popped>>
    BY <2>5 DEF CallPush, PushBlocks, SpuriousProducer
  <2>6. ASSUME NEW c \in Consumers,
               CallPop(c) \/ PopBlocks(c) \/ SpuriousConsumer(c)
        PROVE  UNCHANGED <<queue, pushed, popped>>
    BY <2>6 DEF CallPop, PopBlocks, SpuriousConsumer
  <2>7. ASSUME NEW n \in NewCapacities, SetCapacity(n)
        PROVE  UNCHANGED <<queue, pushed, popped>>
    BY <2>7 DEF SetCapacity
  <2> QED
    BY <2>2, <2>3, <2>4, <2>5, <2>6, <2>7 DEF Next, Push, Pop, vars
<1> QED
  BY <1>1, <1>2, TypeCorrect, PTL DEF Spec

\* No value enters a full queue, however the capacity was changed while its
\* producer slept: a woken producer looks again (the loop of Push).
THEOREM NeverFilledBeyond == Spec => NeverOverfilled
<1>1. TypeOK /\ [Next]_vars =>
        (Len(queue') > Len(queue) => capacity = 0 \/ Len(queue') <= capacity)
  <2> SUFFICES ASSUME TypeOK, [Next]_vars, Len(queue') > Len(queue)
               PROVE  capacity = 0 \/ Len(queue') <= capacity
    OBVIOUS
  <2>1. queue \in Seq(Nat) /\ pushed \in Nat /\ capacity \in Nat
    BY DEF TypeOK
  <2>2. ASSUME NEW p \in Producers, PushReturns(p)
        PROVE  capacity = 0 \/ Len(queue') <= capacity
    BY <2>1, <2>2, LengthLemma DEF PushReturns, Full
  <2>3. ASSUME NEW c \in Consumers, PopReturns(c) PROVE FALSE
    BY <2>1, <2>3, LengthLemma DEF PopReturns
  <2>4. ASSUME NEW p \in Producers,
               CallPush(p) \/ PushBlocks(p) \/ SpuriousProducer(p)
        PROVE  queue' = queue
    BY <2>4 DEF CallPush, PushBlocks, SpuriousProducer
  <2>5. ASSUME NEW c \in Consumers,
               CallPop(c) \/ PopBlocks(c) \/ SpuriousConsumer(c)
        PROVE  queue' = queue
    BY <2>5 DEF CallPop, PopBlocks, SpuriousConsumer
  <2>6. ASSUME NEW n \in NewCapacities, SetCapacity(n) PROVE queue' = queue
    BY <2>6 DEF SetCapacity
  <2>7. queue' # queue
    BY <2>1
  <2> QED
    BY <2>2, <2>3, <2>4, <2>5, <2>6, <2>7 DEF Next, Push, Pop, vars
<1> QED
  BY <1>1, TypeCorrect, PTL DEF Spec, NeverOverfilled
=============================================================================
