--------------------------- MODULE CountDownLatch ---------------------------
(***************************************************************************)
(* basic::CountDownLatch (src/src/count-down-latch.cpp): threads count an  *)
(* atomic integer down and other threads wait for it.  countDown takes no  *)
(* mutex: each of its three accesses to the count is a step of its own,    *)
(* and so are the check and the sleep of a waiter.                         *)
(***************************************************************************)
EXTENDS Integers, FiniteSets

CONSTANTS
    Counters,      \* threads that call countDown, any number of times
    Waiters,       \* threads that call wait once
    TimedWaiters,  \* those of them that pass a time-out
    InitialCount,  \* the constructor's argument
    MaxCalls       \* bound: calls of countDown

ASSUME WaitersAssumption == TimedWaiters \subseteq Waiters
ASSUME CountAssumption == InitialCount \in Int /\ MaxCalls \in Nat

VARIABLES
    count,     \* m_count
    counter,   \* where each counter is in countDown
    waiter,    \* where each waiter is in wait
    calls      \* number of calls of countDown, for the bound

vars == <<count, counter, waiter, calls>>

TypeOK ==
    /\ count \in (InitialCount - MaxCalls)..InitialCount
    /\ counter \in [Counters -> {"outside", "loaded", "decremented"}]
    /\ waiter \in [Waiters ->
         {"outside", "entering", "checked", "asleep", "returned"}]
    /\ calls \in 0..MaxCalls

Init ==
    /\ count = InitialCount
    /\ counter = [c \in Counters |-> "outside"]
    /\ waiter = [w \in Waiters |-> "outside"]
    /\ calls = 0

-----------------------------------------------------------------------------
(* countDown                                                               *)

\* The count is not zero when it is looked at.
LoadCount(c) ==
    /\ counter[c] = "outside"
    /\ calls < MaxCalls
    /\ count # 0
    /\ counter' = [counter EXCEPT ![c] = "loaded"]
    /\ calls' = calls + 1
    /\ UNCHANGED <<count, waiter>>

Decrement(c) ==
    /\ counter[c] = "loaded"
    /\ count' = count - 1
    /\ counter' = [counter EXCEPT ![c] = "decremented"]
    /\ UNCHANGED <<waiter, calls>>

\* The count is looked at again, and everybody asleep is woken if it is zero.
NotifyAtZero(c) ==
    /\ counter[c] = "decremented"
    /\ counter' = [counter EXCEPT ![c] = "outside"]
    /\ waiter' = [w \in Waiters |->
                    IF count = 0 /\ waiter[w] = "asleep"
                    THEN "entering" ELSE waiter[w]]
    /\ UNCHANGED <<count, calls>>

-----------------------------------------------------------------------------
(* wait                                                                    *)

Goto(w, pc) ==
    /\ waiter' = [waiter EXCEPT ![w] = pc]
    /\ UNCHANGED <<count, counter, calls>>

\* A latch that is at zero returns at once, without the mutex.
CallWait(w) ==
    /\ waiter[w] = "outside"
    /\ Goto(w, IF count = 0 THEN "returned" ELSE "entering")

\* A waiter between its check and its sleep holds the mutex.
MutexFree == \A w \in Waiters : waiter[w] # "checked"

\* Fault: the predicate is the condition for waiting.
EvaluateNegated(w) ==
    /\ waiter[w] = "entering"
    /\ MutexFree
    /\ Goto(w, IF count <= 0 THEN "checked" ELSE "returned")

\* Fault: the predicate expects exactly zero.
EvaluateExact(w) ==
    /\ waiter[w] = "entering"
    /\ MutexFree
    /\ Goto(w, IF count = 0 THEN "returned" ELSE "checked")

\* The predicate of m_cond.wait, on entry and after each wake-up.
Evaluate(w) ==
    /\ waiter[w] = "entering"
    /\ MutexFree
    /\ Goto(w, IF count <= 0 THEN "returned" ELSE "checked")

FallAsleep(w) ==
    /\ waiter[w] = "checked"
    /\ Goto(w, "asleep")

\* Fault: the time-out is not passed on.
NeverTimedOut(w) == FALSE

\* wait_for gives up.
TimedOut(w) ==
    /\ w \in TimedWaiters
    /\ waiter[w] = "asleep"
    /\ MutexFree
    /\ Goto(w, "returned")

Spurious(w) ==
    /\ waiter[w] = "asleep"
    /\ Goto(w, "entering")

-----------------------------------------------------------------------------

CountDown(c) == LoadCount(c) \/ Decrement(c) \/ NotifyAtZero(c)

\* Every waiter returned and nobody counts any more.
Finished ==
    /\ \A w \in Waiters : waiter[w] = "returned"
    /\ \A c \in Counters : counter[c] = "outside"
    /\ UNCHANGED vars

Next ==
    \/ \E c \in Counters : CountDown(c)
    \/ \E w \in Waiters :
         \/ CallWait(w) \/ Evaluate(w) \/ FallAsleep(w)
         \/ TimedOut(w) \/ Spurious(w)
    \/ Finished

Spec == Init /\ [][Next]_vars

\* A thread inside a call runs and gets the mutex in its turn; a time-out ends
\* however often the waiter wakes before it (wait_for counts to one deadline).
\* Nobody has to call, and no sleeper has to wake for no reason.
FairSpec ==
    /\ Spec
    /\ \A c \in Counters : WF_vars(Decrement(c) \/ NotifyAtZero(c))
    /\ \A w \in Waiters : SF_vars(Evaluate(w) \/ FallAsleep(w)) /\ SF_vars(TimedOut(w))

-----------------------------------------------------------------------------

\* A wait without a time-out returns only when the count is down to zero, and
\* it stays there.
ReturnMeansCountedDown ==
    \A w \in Waiters \ TimedWaiters : waiter[w] = "returned" => count <= 0

\* A waiter that looks at the count after it was counted down returns, also
\* when it was counted down too far.
LateWaitReturns ==
    \A w \in Waiters :
        (waiter[w] = "entering" /\ count <= 0) ~> (waiter[w] = "returned")

\* A wait with a time-out returns, counted down or not.
TimedWaitReturns ==
    \A w \in TimedWaiters : (waiter[w] # "outside") ~> (waiter[w] = "returned")

\* count-down-latch.h:34, "Wait for count to zero": at zero every wait returns.
WaitReturnsAtZero ==
    \A w \in Waiters :
        (waiter[w] # "outside" /\ count <= 0) ~> (waiter[w] = "returned")
=============================================================================
