---------------------------- MODULE TimerManager ----------------------------
(***************************************************************************)
(* The software timer service of basic-services (src/src/timer.cpp).       *)
(*                                                                         *)
(* One worker thread serves every Timer of a TimerManager.  The timers are *)
(* nodes of one sorted std::list guarded by one mutex; the worker sleeps   *)
(* on one condition variable, moves the due timers to the end of the list  *)
(* and calls their handlers with the mutex released.                       *)
(*                                                                         *)
(* A step of a client (any thread, or a handler run by the worker) is one  *)
(* critical section of the mutex.  A step of the worker runs from one code *)
(* point where the clock is read, or the mutex released, to the next.      *)
(* A definition whose comment begins with "Fault:" is not part of the      *)
(* model: it is a plausible slip in the definition below it, against which *)
(* the properties are tried.                                               *)
(***************************************************************************)
EXTENDS Integers, Sequences, FiniteSets, SequencesExt

CONSTANTS
    Timers,          \* names of Timer objects, reused once the node is freed
    NoTimer,         \* no timer is being serviced
    Durations,       \* running times clients ask for, in milliseconds, not 0
    HandlerChoices,  \* handlers clients pass: TRUE is callable, FALSE is empty
    TicksPerMs,      \* clock ticks in one millisecond
    MaxTime,         \* bound: the clock and every expiration stay below it
    TickDuringScan   \* may the clock advance between the clock read that
                     \* expires timers and the one that measures the sleep?

ASSUME TimersAssumption == NoTimer \notin Timers
ASSUME DurationsAssumption == Durations \subseteq Nat \ {0}
ASSUME HandlersAssumption == HandlerChoices \subseteq BOOLEAN
ASSUME TicksAssumption == TicksPerMs \in Nat \ {0} /\ MaxTime \in Nat
ASSUME EnvironmentAssumption == TickDuringScan \in BOOLEAN

VARIABLES
    timers,       \* m_timerList, as the sequence of its nodes
    node,         \* the Timer::Impl of each timer
    termination,  \* m_termination
    wpc,          \* where the worker thread is
    cur,          \* the node workThread's iterator names while it services it
    now,          \* the worker's time stamp of the cycle
    run,          \* updateTimers: did this pass expire anything?
    wakeAt,       \* when the time-out of wait_for ends
    clock,        \* steady_clock
    dtor          \* the thread inside ~TimerManager

vars == <<timers, node, termination, wpc, cur, now, run, wakeAt, clock, dtor>>

State == {"kIdle", "kActive", "kExpired"}
Access == {"kDirect", "kLocked", "kDestruct"}

Node == [state : State, access : Access, expiration : 0..MaxTime,
         inst : BOOLEAN, handler : BOOLEAN]

\* A name that has no node in the list.
FreedNode == [state |-> "kIdle", access |-> "kDirect", expiration |-> 0,
              inst |-> FALSE, handler |-> FALSE]

WorkerPoints == {"ready", "scan", "service", "invoke", "callback", "measure",
                 "wait", "timedwait", "drain", "done", "aborted"}

TypeOK ==
    /\ timers \in Seq(Timers)
    /\ IsInjective(timers)
    /\ node \in [Timers -> Node]
    /\ termination \in BOOLEAN
    /\ wpc \in WorkerPoints
    /\ cur \in Timers \cup {NoTimer}
    /\ now \in 0..MaxTime
    /\ run \in BOOLEAN
    /\ wakeAt \in 0..MaxTime
    /\ clock \in 0..MaxTime
    /\ dtor \in {"live", "joining", "done"}

Init ==
    /\ timers = <<>>
    /\ node = [t \in Timers |-> FreedNode]
    /\ termination = FALSE
    /\ wpc = "ready"
    /\ cur = NoTimer
    /\ now = 0
    /\ run = FALSE
    /\ wakeAt = 0
    /\ clock = 0
    /\ dtor = "live"

-----------------------------------------------------------------------------
(* The mutex, the condition variable and the list                          *)

Asleep == wpc \in {"wait", "timedwait", "drain"}

\* The worker holds m_lock from a wake-up to the next wait, except around a
\* handler; an aborted process takes no step at all.
LockFree == wpc \notin {"scan", "service", "measure", "aborted"}

\* Fault: the notification is forgotten.
NotifyNobody == wpc

\* m_sync.notify_one(): only the worker ever waits on m_sync, and a
\* notification that finds nobody asleep is lost.
NotifyOne == IF Asleep THEN "ready" ELSE wpc

Listed(t) == t \in ToSet(timers)

\* The Timer object of t is alive and its m_impl names a node.
Usable(t) == Listed(t) /\ node[t].inst

IsActive(t) == node[t].state = "kActive"

\* Timer::Impl::getDuration: the remaining time in whole milliseconds, rounded
\* towards zero, never negative.
GetDuration(n, at) ==
    IF n.state # "kActive" \/ n.expiration <= at
    THEN 0
    ELSE (n.expiration - at) \div TicksPerMs

\* Fault: active timers are not compared by expiration.
PrecedesByState(m, n) ==
    \/ m.state = "kActive" /\ n.state # "kActive"
    \/ m.state = "kIdle" /\ n.state # "kActive"

\* Timer::Impl::operator<.  It holds between two idle nodes, both ways.
Precedes(m, n) ==
    \/ m.state = "kActive" /\ n.state # "kActive"
    \/ /\ m.state = "kActive" /\ n.state = "kActive"
       /\ m.expiration < n.expiration
    \/ m.state = "kIdle" /\ n.state # "kActive"

\* std::list::merge of the one-node list <<t>> into list: the node goes before
\* the first one it precedes.
MergeInto(list, nodes, t) ==
    \E p \in 1..Len(list) + 1 :
        /\ \A i \in 1..p - 1 : ~ Precedes(nodes[t], nodes[list[i]])
        /\ p <= Len(list) => Precedes(nodes[t], nodes[list[p]])
        /\ timers' = InsertAt(list, p, t)

PositionOf(t) == CHOOSE i \in 1..Len(timers) : timers[i] = t

ListWithout(t) == RemoveAt(timers, PositionOf(t))

-----------------------------------------------------------------------------
(* Clients: any thread that owns a Timer, handlers included                *)

CreateTimer(t, h) ==
    /\ LockFree
    /\ ~ Listed(t)
    /\ ~ termination
    /\ node' = [node EXCEPT ![t] = [FreedNode EXCEPT !.inst = TRUE,
                                                     !.handler = h]]
    /\ MergeInto(timers, node', t)
    /\ wpc' = NotifyOne
    /\ UNCHANGED <<termination, cur, now, run, wakeAt, clock, dtor>>

\* Fault: timers start while the manager is being destroyed.
AcceptsAlways(d) == TRUE

\* updateTimer refuses to start a timer once the manager is being destroyed.
Accepts(d) == ~ termination \/ d = 0

\* Timer::Impl::setDuration: 0 stops, and only a timer with a handler starts.
MayRun(t, d) == node[t].access # "kDestruct" /\ (d # 0 => node[t].handler)

DurationSet(t, d) ==
    IF d = 0
    THEN [node EXCEPT ![t].state = "kIdle"]
    ELSE [node EXCEPT ![t].state = "kActive",
                      ![t].expiration = clock + d * TicksPerMs]

\* Timer::Start (d # 0) and Timer::Stop (d = 0).
UpdateTimer(t, d) ==
    /\ LockFree
    /\ Usable(t)
    /\ Accepts(d)
    /\ MayRun(t, d)
    /\ d # 0 => clock + d * TicksPerMs <= MaxTime
    /\ node' = DurationSet(t, d)
    /\ MergeInto(ListWithout(t), node', t)
    /\ wpc' = IF d # 0 THEN NotifyOne ELSE wpc
    /\ UNCHANGED <<termination, cur, now, run, wakeAt, clock, dtor>>

\* Fault: the node being serviced is erased as well.
EraseServicedToo(t) ==
    /\ timers' = ListWithout(t)
    /\ node' = [node EXCEPT ![t] = FreedNode]
    /\ wpc' = IF termination /\ timers' = <<>> THEN NotifyOne ELSE wpc

\* Fault: nobody tells the worker that the list became empty.
EraseSilently(t) ==
    /\ node[t].access = "kDirect"
    /\ timers' = ListWithout(t)
    /\ node' = [node EXCEPT ![t] = FreedNode]
    /\ UNCHANGED wpc

\* The destructor of a Timer that is not being serviced erases its node.
EraseTimer(t) ==
    /\ node[t].access = "kDirect"
    /\ timers' = ListWithout(t)
    /\ node' = [node EXCEPT ![t] = FreedNode]
    /\ wpc' = IF termination /\ timers' = <<>> THEN NotifyOne ELSE wpc

\* The destructor of the Timer being serviced leaves the node to the worker.
DeferDestruction(t) ==
    /\ node[t].access # "kDirect"
    /\ node' = [node EXCEPT ![t].inst = FALSE, ![t].access = "kDestruct"]
    /\ UNCHANGED <<timers, wpc>>

DestroyTimer(t) ==
    /\ LockFree
    /\ Usable(t)
    /\ EraseTimer(t) \/ DeferDestruction(t)
    /\ UNCHANGED <<termination, cur, now, run, wakeAt, clock, dtor>>

\* Timer::operator=(Callback &&) takes no lock: it may fall anywhere in the
\* worker's cycle.  Its test and its assignment are one step: only a client that
\* starts or destroys the timer could make the test wrong in between, and one
\* Timer object is taken to have one client at a time.
AssignCallback(t, h) ==
    /\ wpc # "aborted"
    /\ Usable(t)
    /\ node[t].access # "kDestruct"
    /\ ~ IsActive(t)
    /\ node' = [node EXCEPT ![t].handler = h]
    /\ UNCHANGED <<timers, termination, wpc, cur, now, run, wakeAt, clock, dtor>>

\* ~TimerManager up to the join.
DestroyManager ==
    /\ LockFree
    /\ dtor = "live"
    /\ termination' = TRUE
    /\ wpc' = NotifyOne
    /\ dtor' = "joining"
    /\ UNCHANGED <<timers, node, cur, now, run, wakeAt, clock>>

\* m_worker.join() returns; the mutex is free once the worker is done.
JoinWorker ==
    /\ dtor = "joining"
    /\ wpc = "done"
    /\ dtor' = "done"
    /\ UNCHANGED <<timers, node, termination, wpc, cur, now, run, wakeAt, clock>>

-----------------------------------------------------------------------------
(* The worker thread                                                       *)

\* Fault: the thread ends without waiting for the list to become empty.
WorkerEnterNoDrain ==
    /\ wpc = "ready"
    /\ wpc' = IF ~ termination THEN "scan" ELSE "done"
    /\ now' = IF ~ termination THEN clock ELSE 0
    /\ wakeAt' = 0
    /\ UNCHANGED <<timers, node, termination, cur, run, clock, dtor>>

\* The worker holds the mutex at the head of its loop: it starts a cycle of
\* updateTimers, or leaves the loop and waits for the list to become empty.
WorkerEnter ==
    /\ wpc = "ready"
    /\ wpc' = IF ~ termination THEN "scan"
              ELSE IF timers = <<>> THEN "done" ELSE "drain"
    /\ now' = IF ~ termination THEN clock ELSE 0
    /\ wakeAt' = 0
    /\ UNCHANGED <<timers, node, termination, cur, run, clock, dtor>>

\* Fault: the remaining time is not looked at.
DueWhenActive(t) == IsActive(t)

\* Due at the time stamp of the cycle: less than a millisecond is left.
Due(t) == IsActive(t) /\ GetDuration(node[t], now) = 0

\* Steps 1 and 2 of updateTimers: the maximal prefix of due timers expires and
\* is moved to the end of the list.
ExpireActive ==
    /\ wpc = "scan"
    /\ \E k \in 0..Len(timers) :
         /\ \A i \in 1..k : Due(timers[i])
         /\ k < Len(timers) => ~ Due(timers[k + 1])
         /\ node' = [t \in Timers |->
                       IF \E i \in 1..k : timers[i] = t
                       THEN [node[t] EXCEPT !.state = "kExpired"]
                       ELSE node[t]]
         /\ timers' = SubSeq(timers, k + 1, Len(timers)) \o SubSeq(timers, 1, k)
         /\ run' = (k > 0)
    /\ wpc' = IF run' THEN "service" ELSE "measure"
    /\ UNCHANGED <<termination, cur, now, wakeAt, clock, dtor>>

\* find_if: the first expired node of the list.
FirstExpired(i) ==
    /\ node[timers[i]].state = "kExpired"
    /\ \A j \in 1..i - 1 : node[timers[j]].state # "kExpired"

Callable(t) == node[t].inst /\ node[t].handler

\* The expired node is idle and locked; its handler is called if it has one.
ServiceCall ==
    /\ wpc = "service"
    /\ \E i \in 1..Len(timers) :
         /\ FirstExpired(i)
         /\ Callable(timers[i])
         /\ cur' = timers[i]
         /\ node' = [node EXCEPT ![timers[i]].state = "kIdle",
                                 ![timers[i]].access = "kLocked"]
    /\ wpc' = "invoke"
    /\ UNCHANGED <<timers, termination, now, run, wakeAt, clock, dtor>>

\* Without a handler the node is locked and unlocked under the mutex.
ServiceSkip ==
    /\ wpc = "service"
    /\ \E i \in 1..Len(timers) :
         /\ FirstExpired(i)
         /\ ~ Callable(timers[i])
         /\ node' = [node EXCEPT ![timers[i]].state = "kIdle",
                                 ![timers[i]].access = "kDirect"]
    /\ UNCHANGED <<timers, termination, wpc, cur, now, run, wakeAt, clock, dtor>>

\* Fault: one expired timer is served per pass.
ServiceOnlyOne ==
    /\ wpc = "service"
    /\ wpc' = "measure"
    /\ UNCHANGED <<timers, node, termination, cur, now, run, wakeAt, clock, dtor>>

ServiceDone ==
    /\ wpc = "service"
    /\ \A i \in 1..Len(timers) : node[timers[i]].state # "kExpired"
    /\ wpc' = "measure"
    /\ UNCHANGED <<timers, node, termination, cur, now, run, wakeAt, clock, dtor>>

\* The mutex is released; the call reads m_callbackHandler and m_inst again.
BeginCallback ==
    /\ wpc = "invoke"
    /\ node[cur].handler
    /\ wpc' = "callback"
    /\ UNCHANGED <<timers, node, termination, cur, now, run, wakeAt, clock, dtor>>

\* Calling an empty std::function throws on the worker thread: the process
\* terminates.
AbortOnEmptyHandler ==
    /\ wpc = "invoke"
    /\ ~ node[cur].handler
    /\ wpc' = "aborted"
    /\ UNCHANGED <<timers, node, termination, cur, now, run, wakeAt, clock, dtor>>

\* The handler returned and the mutex is locked again: the node is unlocked,
\* or erased if its Timer was destroyed meanwhile.
FinishCallback ==
    /\ wpc = "callback"
    /\ \/ /\ node[cur].access # "kDestruct"
          /\ node' = [node EXCEPT ![cur].access = "kDirect"]
          /\ UNCHANGED timers
       \/ /\ node[cur].access = "kDestruct"
          /\ timers' = ListWithout(cur)
          /\ node' = [node EXCEPT ![cur] = FreedNode]
    /\ cur' = NoTimer
    /\ wpc' = "service"
    /\ UNCHANGED <<termination, now, run, wakeAt, clock, dtor>>

\* Fault: the last entry determines the next invocation.
SleepTimeOfBack ==
    IF timers = <<>> THEN 0 ELSE GetDuration(node[timers[Len(timers)]], clock)

\* The first list entry determines the next invocation.
SleepTime == IF timers = <<>> THEN 0 ELSE GetDuration(node[timers[1]], clock)

\* The end of a pass: the clock is read again, for getDuration and, as nothing
\* depends on what passes in between, for wait_for.  After a pass that expired a
\* timer there is another; otherwise the worker sleeps, without a time-out if
\* the duration is 0, and without looking at m_termination again.
Measure ==
    /\ wpc = "measure"
    /\ IF run
       THEN wpc' = "scan" /\ now' = clock /\ UNCHANGED wakeAt
       ELSE /\ wpc' = IF SleepTime # 0 THEN "timedwait" ELSE "wait"
            /\ wakeAt' = IF SleepTime # 0 THEN clock + SleepTime * TicksPerMs ELSE 0
            /\ now' = 0
    /\ run' = FALSE
    /\ UNCHANGED <<timers, node, termination, cur, clock, dtor>>

\* wait_for returns when its time is over.
TimedOut ==
    /\ wpc = "timedwait"
    /\ clock >= wakeAt
    /\ wpc' = "ready"
    /\ UNCHANGED <<timers, node, termination, cur, now, run, wakeAt, clock, dtor>>

\* A condition variable may wake its waiter for no reason.
Spurious ==
    /\ Asleep
    /\ wpc' = "ready"
    /\ UNCHANGED <<timers, node, termination, cur, now, run, wakeAt, clock, dtor>>

-----------------------------------------------------------------------------
(* steady_clock                                                            *)

Tick ==
    /\ clock < MaxTime
    /\ wpc # "aborted"
    /\ TickDuringScan \/ wpc \notin {"scan", "measure"}
    /\ clock' = clock + 1
    /\ UNCHANGED <<timers, node, termination, wpc, cur, now, run, wakeAt, dtor>>

\* The manager is gone, or the process was aborted.
Finished ==
    /\ dtor = "done" \/ wpc = "aborted"
    /\ UNCHANGED vars

Client ==
    \/ \E t \in Timers :
         \/ \E h \in HandlerChoices : CreateTimer(t, h) \/ AssignCallback(t, h)
         \/ \E d \in Durations \cup {0} : UpdateTimer(t, d)
         \/ DestroyTimer(t)
    \/ DestroyManager

Worker ==
    \/ WorkerEnter
    \/ ExpireActive
    \/ ServiceCall
    \/ ServiceSkip
    \/ ServiceDone
    \/ BeginCallback
    \/ AbortOnEmptyHandler
    \/ FinishCallback
    \/ Measure
    \/ TimedOut

Next == Client \/ JoinWorker \/ Worker \/ Spurious \/ Tick \/ Finished

Spec == Init /\ [][Next]_vars

\* The worker thread is scheduled, handlers return, a wait with a time-out
\* ends, the clock runs whatever the threads do (so strong fairness where
\* TickDuringScan disables it for a moment) and a finished thread is joined.
\* Clients owe nothing, and no wait without a time-out ends by itself.
FairSpec == Spec /\ WF_vars(Worker) /\ SF_vars(Tick) /\ WF_vars(JoinWorker)

-----------------------------------------------------------------------------
(* Safety                                                                  *)

\* The sections operator< describes: the active timers by expiration, then the
\* idle ones, then the expired ones.  updateTimers looks for due timers only
\* in the prefix and sleeps for the front, so a timer out of order is late.
ListOrdered ==
    \A i, j \in 1..Len(timers) : i < j =>
        LET m == node[timers[i]]
            n == node[timers[j]]
        IN  /\ n.state = "kActive" =>
                 m.state = "kActive" /\ m.expiration <= n.expiration
            /\ m.state = "kExpired" => n.state = "kExpired"

\* The node whose handler runs without the mutex stays in the list, locked or
\* marked for destruction, whatever clients do to it; no other node is, so the
\* worker's iterator survives every erase but its own.
ServicedTimerKept ==
    /\ cur # NoTimer <=> wpc \in {"invoke", "callback", "aborted"}
    /\ cur # NoTimer => Listed(cur) /\ node[cur].access # "kDirect"
    /\ \A t \in Timers :
         /\ t # cur => node[t].access = "kDirect"
         /\ node[t].inst <=> Listed(t) /\ node[t].access # "kDestruct"

\* A timer taken out of the active section is serviced before the worker can
\* sleep again: between two cycles no node is left expired.
ExpiredTimerPending ==
    (\E t \in Timers : node[t].state = "kExpired") =>
        wpc \in {"service", "invoke", "callback", "aborted"}

\* The worker never sleeps past the earliest expiration, and without a
\* time-out only when no timer is active (the comment at timer.cpp:331).
SleepCoversActiveTimers ==
    \A t \in Timers : IsActive(t) =>
        /\ wpc # "wait"
        /\ wpc = "timedwait" => wakeAt <= node[t].expiration

\* ~TimerManager returns only after every Timer was destroyed.
NoTimerOutlivesManager ==
    dtor = "done" => timers = <<>> /\ \A t \in Timers : ~ node[t].inst

\* The inductive invariant of the proofs: what the properties above rest on
\* beyond themselves is that a freed node is clean, and how the destructor's
\* progress, m_termination and the worker's last steps go together.
DestructionInOrder ==
    /\ \A t \in Timers : ~ Listed(t) => node[t] = FreedNode
    /\ termination <=> dtor # "live"
    /\ wpc \in {"drain", "done"} => termination
    /\ wpc = "done" => timers = <<>>
    /\ dtor = "done" => wpc = "done"

IInv == TypeOK /\ ServicedTimerKept /\ ExpiredTimerPending /\ DestructionInOrder

-----------------------------------------------------------------------------
(* The detailed manager implements TimerService                            *)

Service == INSTANCE TimerService WITH
    timer   <- [t \in Timers |->
                  IF ~ node[t].inst THEN "absent"
                  ELSE IF node[t].state = "kIdle" THEN "stopped" ELSE "running"],
    handler <- [t \in Timers |-> node[t].inst /\ node[t].handler],
    calling <- cur,
    service <- CASE dtor = "live"    -> "open"
                 [] dtor = "joining" -> "closing"
                 [] dtor = "done"    -> "closed"

\* Every behaviour of the manager is one TimerService allows: one handler at a
\* time, one call per start, none for a timer stopped or destroyed before it
\* was taken up, and an end only after the last timer.
ImplementsService == Service!ServiceSpec

-----------------------------------------------------------------------------
(* Action properties                                                       *)

\* A timer expires only within the last millisecond before its expiration, or
\* after it.
NeverEarly ==
    [][\A t \in Timers :
         IsActive(t) /\ node'[t].state = "kExpired" =>
             clock > node[t].expiration - TicksPerMs]_vars

-----------------------------------------------------------------------------
(* Liveness                                                                *)

\* Every started timer is served, stopped or destroyed, unless the manager is
\* being destroyed or an emptied handler aborted the process.
StartedTimerServed ==
    \A t \in Timers :
        (node[t].state # "kIdle" /\ ~ termination)
            ~> (node[t].state = "kIdle" \/ termination \/ wpc = "aborted")

\* Once the worker saw m_termination, the destructor of the last Timer ends it.
DrainCompletes ==
    (wpc \in {"ready", "drain"} /\ dtor = "joining" /\ timers = <<>>)
        ~> (dtor = "done")

\* timer.cpp:460: the destructor blocks until all timers have been destroyed,
\* so with none left it returns.
DestructorReturns == (dtor = "joining" /\ timers = <<>>) ~> (dtor = "done")
=============================================================================
