------------------------------- MODULE Queue --------------------------------
(***************************************************************************)
(* basic::Queue<T> (src/include/queue.h): a FIFO shared by threads, with   *)
(* one mutex, a condition variable for the threads that wait for a value   *)
(* (m_condPush) and one for those that wait for room (m_condPop).          *)
(*                                                                         *)
(* A thread evaluates the condition of its loop with the mutex held, and   *)
(* then either goes to sleep, which releases the mutex, or finishes its    *)
(* call: each evaluation is one step.  Values are numbered in the order in *)
(* which they enter the queue.                                             *)
(***************************************************************************)
EXTENDS Integers, Sequences, FiniteSets

CONSTANTS
    Producers,        \* threads that call Push
    Consumers,        \* threads that call Pop
    InitialCapacity,  \* the constructor's argument, 0 for unlimited
    NewCapacities,    \* arguments of setCapacity
    MaxCalls          \* bound: calls of Push

ASSUME ThreadsAssumption ==
    IsFiniteSet(Producers) /\ IsFiniteSet(Consumers)
ASSUME CapacityAssumption == InitialCapacity \in Nat /\ NewCapacities \subseteq Nat
ASSUME CallsAssumption == MaxCalls \in Nat

VARIABLES
    queue,      \* m_queue
    capacity,   \* m_capacity
    producer,   \* where each producer is in Push
    consumer,   \* where each consumer is in Pop
    pushed,     \* number of values that entered the queue
    popped,     \* number of values that left it
    raised,     \* history: the capacity was raised while a producer slept
    calls       \* number of calls of Push, for the bound

vars == <<queue, capacity, producer, consumer, pushed, popped, raised, calls>>

\* outside a call, about to look at the queue, or waiting to be notified
Points == {"idle", "ready", "asleep"}

At(threads, pc) == {t \in DOMAIN threads : threads[t] = pc}

TypeOK ==
    /\ queue \in Seq(Nat)
    /\ capacity \in Nat
    /\ producer \in [Producers -> Points]
    /\ consumer \in [Consumers -> Points]
    /\ pushed \in Nat
    /\ popped \in Nat
    /\ raised \in BOOLEAN
    /\ calls \in 0..MaxCalls

Init ==
    /\ queue = <<>>
    /\ capacity = InitialCapacity
    /\ producer = [p \in Producers |-> "idle"]
    /\ consumer = [c \in Consumers |-> "idle"]
    /\ pushed = 0
    /\ popped = 0
    /\ raised = FALSE
    /\ calls = 0

Full == capacity > 0 /\ Len(queue) >= capacity

\* condition_variable::notify_one: some sleeping thread, if there is one, will
\* look again.
NotifyOne(before, after) ==
    IF At(before, "asleep") = {} THEN after = before
    ELSE \E t \in At(before, "asleep") : after = [before EXCEPT ![t] = "ready"]

-----------------------------------------------------------------------------
(* Push                                                                    *)

CallPush(p) ==
    /\ producer[p] = "idle"
    /\ calls < MaxCalls
    /\ calls' = calls + 1
    /\ producer' = [producer EXCEPT ![p] = "ready"]
    /\ UNCHANGED <<queue, capacity, consumer, pushed, popped, raised>>

PushBlocks(p) ==
    /\ producer[p] = "ready"
    /\ Full
    /\ producer' = [producer EXCEPT ![p] = "asleep"]
    /\ UNCHANGED <<queue, capacity, consumer, pushed, popped, raised, calls>>

\* Fault: the consumers are not notified.
PushSilently(p) ==
    /\ producer[p] = "ready"
    /\ ~ Full
    /\ queue' = Append(queue, pushed + 1)
    /\ pushed' = pushed + 1
    /\ producer' = [producer EXCEPT ![p] = "idle"]
    /\ UNCHANGED <<capacity, consumer, popped, raised, calls>>

PushReturns(p) ==
    /\ producer[p] = "ready"
    /\ ~ Full
    /\ queue' = Append(queue, pushed + 1)
    /\ pushed' = pushed + 1
    /\ producer' = [producer EXCEPT ![p] = "idle"]
    /\ NotifyOne(consumer, consumer')
    /\ UNCHANGED <<capacity, popped, raised, calls>>

-----------------------------------------------------------------------------
(* Pop                                                                     *)

CallPop(c) ==
    /\ consumer[c] = "idle"
    /\ consumer' = [consumer EXCEPT ![c] = "ready"]
    /\ UNCHANGED <<queue, capacity, producer, pushed, popped, raised, calls>>

PopBlocks(c) ==
    /\ consumer[c] = "ready"
    /\ queue = <<>>
    /\ consumer' = [consumer EXCEPT ![c] = "asleep"]
    /\ UNCHANGED <<queue, capacity, producer, pushed, popped, raised, calls>>

\* Fault: the producers are not notified.
PopSilently(c) ==
    /\ consumer[c] = "ready"
    /\ queue # <<>>
    /\ queue' = Tail(queue)
    /\ popped' = popped + 1
    /\ consumer' = [consumer EXCEPT ![c] = "idle"]
    /\ UNCHANGED <<capacity, producer, pushed, raised, calls>>

\* Fault: the newest value is popped.
PopNewest(c) ==
    /\ consumer[c] = "ready"
    /\ queue # <<>>
    /\ queue' = SubSeq(queue, 1, Len(queue) - 1)
    /\ popped' = popped + 1
    /\ consumer' = [consumer EXCEPT ![c] = "idle"]
    /\ NotifyOne(producer, producer')
    /\ UNCHANGED <<capacity, pushed, raised, calls>>

PopReturns(c) ==
    /\ consumer[c] = "ready"
    /\ queue # <<>>
    /\ queue' = Tail(queue)
    /\ popped' = popped + 1
    /\ consumer' = [consumer EXCEPT ![c] = "idle"]
    /\ NotifyOne(producer, producer')
    /\ UNCHANGED <<capacity, pushed, raised, calls>>

-----------------------------------------------------------------------------

\* 0 is no limit at all.
Raises(n) == capacity > 0 /\ (n = 0 \/ n > capacity)

\* setCapacity notifies nobody.  "raised" is forgotten when the capacity is set,
\* be it to what it is already, while no producer sleeps.
SetCapacity(n) ==
    /\ capacity' = n
    /\ raised' = (At(producer, "asleep") # {} /\ (raised \/ Raises(n)))
    /\ UNCHANGED <<queue, producer, consumer, pushed, popped, calls>>

\* A condition variable may wake its waiters for no reason.
SpuriousProducer(p) ==
    /\ producer[p] = "asleep"
    /\ producer' = [producer EXCEPT ![p] = "ready"]
    /\ UNCHANGED <<queue, capacity, consumer, pushed, popped, raised, calls>>

SpuriousConsumer(c) ==
    /\ consumer[c] = "asleep"
    /\ consumer' = [consumer EXCEPT ![c] = "ready"]
    /\ UNCHANGED <<queue, capacity, producer, pushed, popped, raised, calls>>

Push(p) == PushBlocks(p) \/ PushReturns(p)
Pop(c) == PopBlocks(c) \/ PopReturns(c)

Next ==
    \/ \E p \in Producers : CallPush(p) \/ Push(p) \/ SpuriousProducer(p)
    \/ \E c \in Consumers : CallPop(c) \/ Pop(c) \/ SpuriousConsumer(c)
    \/ \E n \in NewCapacities : SetCapacity(n)

Spec == Init /\ [][Next]_vars

\* A thread that is awake inside a call runs; nobody has to call, and no
\* sleeping thread wakes without a notification.
FairSpec ==
    /\ Spec
    /\ \A p \in Producers : WF_vars(Push(p))
    /\ \A c \in Consumers : WF_vars(Pop(c))

-----------------------------------------------------------------------------
(* Safety                                                                  *)

\* While a consumer sleeps, every value in the queue has a consumer that is
\* awake and will look for it: no notification of m_condPush was lost.
NoStrandedConsumer ==
    At(consumer, "asleep") # {} =>
        Len(queue) <= Cardinality(At(consumer, "ready"))

\* While a producer sleeps the capacity is reached (queue.h:110), except for
\* places whose producers have been woken already, and unless setCapacity made
\* room behind the back of a producer that slept.
NoStrandedProducer ==
    At(producer, "asleep") # {} /\ ~ raised =>
        /\ capacity > 0
        /\ capacity - Len(queue) <= Cardinality(At(producer, "ready"))

\* Values leave in the order in which they entered, each exactly once.
ExactlyOnceInOrder ==
    /\ pushed = popped + Len(queue)
    /\ \A i \in 1..Len(queue) : queue[i] = popped + i

\* No value enters a full queue, however the capacity was changed while its
\* producer slept.
NeverOverfilled ==
    [][Len(queue') > Len(queue) => capacity = 0 \/ Len(queue') <= capacity]_vars

-----------------------------------------------------------------------------
(* Liveness                                                                *)

\* A value in the queue is popped as long as some consumer is in Pop.
WaitingConsumersPop ==
    \A n \in 0..MaxCalls :
        (popped = n /\ queue # <<>> /\ \E c \in Consumers : consumer[c] # "idle")
            ~> (popped > n)

\* Room in the queue is used as long as some producer is in Push, except for
\* room that setCapacity made while producers slept.
WaitingProducersPush ==
    \A n \in 0..MaxCalls - 1 :
        (pushed = n /\ ~ Full /\ \E p \in Producers : producer[p] # "idle")
            ~> (pushed > n \/ Full \/ raised)
=============================================================================
