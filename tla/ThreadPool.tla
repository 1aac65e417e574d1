----------------------------- MODULE ThreadPool -----------------------------
(***************************************************************************)
(* basic::ThreadPool (src/src/thread-pool.cpp) and the basic::Thread       *)
(* objects it owns (src/src/thread.cpp): workers take tasks from a bounded *)
(* deque that callers, and the tasks themselves, fill with Run.            *)
(*                                                                         *)
(* A thread that submits or takes evaluates the condition of its loop with *)
(* the mutex held and then sleeps or finishes: one step.  The reads of     *)
(* m_isRunning in runInThread and of m_threads in Run take no mutex and    *)
(* are steps of their own.                                                 *)
(***************************************************************************)
EXTENDS Integers, Sequences, FiniteSets, SequencesExt

CONSTANTS
    Workers,      \* the threads Start creates
    Callers,      \* other threads that call Run
    Tasks,        \* the tasks callers submit, and those the tasks submit
    NoTask,
    Child,        \* the task that a task submits while it runs, or NoTask
    Capacity      \* m_capacity, 0 for unlimited

ASSUME NamesAssumption == Workers \cap Callers = {} /\ NoTask \notin Tasks
ASSUME WorkersAssumption == Workers # {} /\ IsFiniteSet(Workers) /\ IsFiniteSet(Callers)
ASSUME ChildAssumption == Child \in [Tasks -> Tasks \cup {NoTask}]
ASSUME CapacityAssumption == Capacity \in Nat

VARIABLES
    tasks,      \* m_tasks
    isRunning,  \* m_isRunning
    worker,     \* where each worker thread is in runInThread
    submit,     \* where each thread is in Run
    holds,      \* the task a thread is submitting
    job,        \* the task a thread is executing
    submitted,  \* tasks handed to Run
    executed,   \* tasks that returned
    control     \* the owner: before Start, inside it, after it, inside Stop,
                \* after it

vars == <<tasks, isRunning, worker, submit, holds, job, submitted, executed, control>>

Threads == Workers \cup Callers

\* The deque never grows beyond the capacity, also with several submitters
\* woken for one place.
TypeOK ==
    /\ tasks \in Seq(Tasks) /\ (Capacity > 0 => Len(tasks) <= Capacity)
    /\ isRunning \in BOOLEAN
    /\ worker \in [Workers ->
         {"absent", "loop", "take", "asleep", "run", "exited", "joined"}]
    /\ submit \in [Threads -> {"none", "ready", "asleep"}]
    /\ holds \in [Threads -> Tasks \cup {NoTask}]
    /\ job \in [Threads -> Tasks \cup {NoTask}]
    /\ submitted \in SUBSET Tasks
    /\ executed \in SUBSET Tasks
    /\ control \in {"new", "starting", "started", "stopping", "stopped"}

Init ==
    /\ tasks = <<>>
    /\ isRunning = FALSE
    /\ worker = [w \in Workers |-> "absent"]
    /\ submit = [s \in Threads |-> "none"]
    /\ holds = [s \in Threads |-> NoTask]
    /\ job = [s \in Threads |-> NoTask]
    /\ submitted = {}
    /\ executed = {}
    /\ control = "new"

\* m_threads.empty(); Stop never empties it.
NoThreads == \A w \in Workers : worker[w] = "absent"

Full == Capacity > 0 /\ Len(tasks) >= Capacity

\* m_condPush and m_condPop, notify_one.
NotifyWorker ==
    \/ /\ \A w \in Workers : worker[w] # "asleep"
       /\ UNCHANGED worker
    \/ \E w \in Workers :
         /\ worker[w] = "asleep"
         /\ worker' = [worker EXCEPT ![w] = "take"]

NotifySubmitter ==
    \/ /\ \A s \in Threads : submit[s] # "asleep"
       /\ UNCHANGED submit
    \/ \E s \in Threads :
         /\ submit[s] = "asleep"
         /\ submit' = [submit EXCEPT ![s] = "ready"]

-----------------------------------------------------------------------------
(* The owner: Start, Stop, ~ThreadPool                                     *)

StartPool ==
    /\ control = "new"
    /\ control' = "starting"
    /\ isRunning' = TRUE
    /\ UNCHANGED <<tasks, worker, submit, holds, job, submitted, executed>>

\* One turn of Start's loop: a Thread is stored and started.
CreateWorker(w) ==
    /\ control = "starting"
    /\ worker[w] = "absent"
    /\ worker' = [worker EXCEPT ![w] = "loop"]
    /\ control' = IF \E v \in Workers : worker'[v] = "absent"
                  THEN "starting" ELSE "started"
    /\ UNCHANGED <<tasks, isRunning, submit, holds, job, submitted, executed>>

\* Fault: one worker is woken instead of all.
StopNotifiesOne ==
    /\ control = "started"
    /\ control' = "stopping"
    /\ isRunning' = FALSE
    /\ NotifyWorker
    /\ UNCHANGED <<tasks, submit, holds, job, submitted, executed>>

\* Stop up to the joins, also when ~ThreadPool calls it: every worker that
\* waits for a task is woken, no thread that waits for room is.  A Stop before
\* Start finds no thread and leaves no trace; it is left out.
BeginStop ==
    /\ control = "started"
    /\ control' = "stopping"
    /\ isRunning' = FALSE
    /\ worker' = [w \in Workers |-> IF worker[w] = "asleep" THEN "take" ELSE worker[w]]
    /\ UNCHANGED <<tasks, submit, holds, job, submitted, executed>>

JoinWorker(w) ==
    /\ control = "stopping"
    /\ worker[w] = "exited"
    /\ worker' = [worker EXCEPT ![w] = "joined"]
    /\ UNCHANGED <<tasks, isRunning, submit, holds, job, submitted, executed, control>>

\* Fault: the owner does not join the threads.
EndStopEarly ==
    /\ control = "stopping"
    /\ control' = "stopped"
    /\ UNCHANGED <<tasks, isRunning, worker, submit, holds, job, submitted, executed>>

EndStop ==
    /\ control = "stopping"
    /\ \A w \in Workers : worker[w] = "joined"
    /\ control' = "stopped"
    /\ UNCHANGED <<tasks, isRunning, worker, submit, holds, job, submitted, executed>>

-----------------------------------------------------------------------------
(* Run                                                                     *)

Submits(s, t) ==
    /\ submit' = [submit EXCEPT ![s] = "ready"]
    /\ holds' = [holds EXCEPT ![s] = t]
    /\ submitted' = submitted \cup {t}
    /\ UNCHANGED <<tasks, isRunning, worker, job, executed, control>>

\* Tasks that no other task submits.
FromOutside == {t \in Tasks : \A u \in Tasks : Child[u] # t}

CallRun(c, t) ==
    /\ submit[c] = "none" /\ job[c] = NoTask
    /\ t \in FromOutside \ submitted
    /\ ~ NoThreads
    /\ Submits(c, t)

\* A pool without threads executes the task on the caller.  Tasks that submit
\* another one, which would be a call inside this one, are left out.
RunInline(c, t) ==
    /\ submit[c] = "none" /\ job[c] = NoTask
    /\ t \in FromOutside \ submitted
    /\ Child[t] = NoTask
    /\ NoThreads
    /\ job' = [job EXCEPT ![c] = t]
    /\ submitted' = submitted \cup {t}
    /\ UNCHANGED <<tasks, isRunning, worker, submit, holds, executed, control>>

FinishInline(c) ==
    /\ job[c] # NoTask
    /\ executed' = executed \cup {job[c]}
    /\ job' = [job EXCEPT ![c] = NoTask]
    /\ UNCHANGED <<tasks, isRunning, worker, submit, holds, submitted, control>>

\* A task that is executing submits another one to the same pool.
CallRunFromTask(w) ==
    /\ worker[w] = "run"
    /\ submit[w] = "none"
    /\ Child[job[w]] \in Tasks \ submitted
    /\ Submits(w, Child[job[w]])

RunBlocks(s) ==
    /\ submit[s] = "ready"
    /\ Full
    /\ submit' = [submit EXCEPT ![s] = "asleep"]
    /\ UNCHANGED <<tasks, isRunning, worker, holds, job, submitted, executed, control>>

\* push_back of the task that Run was called with.
Enqueue(s) ==
    /\ tasks' = Append(tasks, holds[s])
    /\ submit' = [submit EXCEPT ![s] = "none"]
    /\ holds' = [holds EXCEPT ![s] = NoTask]
    /\ UNCHANGED <<isRunning, job, submitted, executed, control>>

\* Fault: a woken submitter does not look at the capacity again.
RunWithoutRoom(s) == submit[s] = "ready" /\ Enqueue(s) /\ NotifyWorker

\* Fault: no worker is notified.
RunSilently(s) == submit[s] = "ready" /\ ~ Full /\ Enqueue(s) /\ UNCHANGED worker

RunReturns(s) == submit[s] = "ready" /\ ~ Full /\ Enqueue(s) /\ NotifyWorker

-----------------------------------------------------------------------------
(* The worker threads                                                      *)

\* runInThread looks at m_isRunning without the mutex.
WorkerLoop(w) ==
    /\ worker[w] = "loop"
    /\ worker' = [worker EXCEPT ![w] = IF isRunning THEN "take" ELSE "exited"]
    /\ UNCHANGED <<tasks, isRunning, submit, holds, job, submitted, executed, control>>

TakeBlocks(w) ==
    /\ worker[w] = "take"
    /\ tasks = <<>> /\ isRunning
    /\ worker' = [worker EXCEPT ![w] = "asleep"]
    /\ UNCHANGED <<tasks, isRunning, submit, holds, job, submitted, executed, control>>

\* Fault: the task stays in the deque.
TakeWithoutPop(w) ==
    /\ worker[w] = "take"
    /\ tasks # <<>>
    /\ job' = [job EXCEPT ![w] = Head(tasks)]
    /\ worker' = [worker EXCEPT ![w] = "run"]
    /\ UNCHANGED <<tasks, isRunning, submit, holds, submitted, executed, control>>

\* Fault: no submitter is notified.
TakeSilently(w) ==
    /\ worker[w] = "take"
    /\ tasks # <<>>
    /\ job' = [job EXCEPT ![w] = Head(tasks)]
    /\ tasks' = Tail(tasks)
    /\ worker' = [worker EXCEPT ![w] = "run"]
    /\ UNCHANGED <<isRunning, submit, holds, submitted, executed, control>>

TakeTask(w) ==
    /\ worker[w] = "take"
    /\ tasks # <<>>
    /\ job' = [job EXCEPT ![w] = Head(tasks)]
    /\ tasks' = Tail(tasks)
    /\ worker' = [worker EXCEPT ![w] = "run"]
    /\ IF Capacity > 0 THEN NotifySubmitter ELSE UNCHANGED submit
    /\ UNCHANGED <<isRunning, holds, submitted, executed, control>>

\* A stopped pool with an empty deque hands out an empty task.
TakeNothing(w) ==
    /\ worker[w] = "take"
    /\ tasks = <<>> /\ ~ isRunning
    /\ worker' = [worker EXCEPT ![w] = "loop"]
    /\ UNCHANGED <<tasks, isRunning, submit, holds, job, submitted, executed, control>>

\* A task returns once it has submitted its child.
FinishTask(w) ==
    /\ worker[w] = "run"
    /\ submit[w] = "none"
    /\ Child[job[w]] \in submitted \cup {NoTask}
    /\ executed' = executed \cup {job[w]}
    /\ job' = [job EXCEPT ![w] = NoTask]
    /\ worker' = [worker EXCEPT ![w] = "loop"]
    /\ UNCHANGED <<tasks, isRunning, submit, holds, submitted, control>>

-----------------------------------------------------------------------------

SpuriousWorker(w) ==
    /\ worker[w] = "asleep"
    /\ worker' = [worker EXCEPT ![w] = "take"]
    /\ UNCHANGED <<tasks, isRunning, submit, holds, job, submitted, executed, control>>

SpuriousSubmitter(s) ==
    /\ submit[s] = "asleep"
    /\ submit' = [submit EXCEPT ![s] = "ready"]
    /\ UNCHANGED <<tasks, isRunning, worker, holds, job, submitted, executed, control>>

\* The pool was stopped and no thread is inside it.
Finished ==
    /\ control = "stopped"
    /\ \A s \in Threads : submit[s] = "none"
    /\ UNCHANGED vars

\* What the owner does once it called Start or Stop.
Owner == (\E w \in Workers : CreateWorker(w) \/ JoinWorker(w)) \/ EndStop

WorkerStep(w) ==
    \/ WorkerLoop(w) \/ TakeBlocks(w) \/ TakeTask(w) \/ TakeNothing(w)
    \/ CallRunFromTask(w) \/ FinishTask(w)

Run(s) == RunBlocks(s) \/ RunReturns(s)

Next ==
    \/ StartPool \/ BeginStop \/ Owner
    \/ \E w \in Workers : WorkerStep(w) \/ SpuriousWorker(w)
    \/ \E c \in Callers :
         (\E t \in Tasks : CallRun(c, t) \/ RunInline(c, t)) \/ FinishInline(c)
    \/ \E s \in Threads : Run(s) \/ SpuriousSubmitter(s)
    \/ Finished

Spec == Init /\ [][Next]_vars

\* Threads that can go on do, and tasks return.  Nobody has to call Start, Run
\* or Stop, and no sleeper wakes without a notification.
FairSpec ==
    /\ Spec
    /\ WF_vars(Owner)
    /\ \A w \in Workers : WF_vars(WorkerStep(w))
    /\ \A c \in Callers : WF_vars(FinishInline(c))
    /\ \A s \in Threads : WF_vars(Run(s))

-----------------------------------------------------------------------------
(* Safety                                                                  *)

\* Every task handed to Run is at exactly one place: with its submitter, in
\* the deque once, being executed by one thread, or done.
EachTaskOnce ==
    LET held == {s \in Threads : holds[s] # NoTask}
        busy == {s \in Threads : job[s] # NoTask}
    IN  \A t \in Tasks :
          Cardinality({i \in 1..Len(tasks) : tasks[i] = t})
            + Cardinality({s \in held : holds[s] = t})
            + Cardinality({s \in busy : job[s] = t})
            + Cardinality({t} \cap executed)
          = Cardinality({t} \cap submitted)

\* While a worker waits, every task in the deque has a worker awake for it:
\* no notification of m_condPush is lost.
NoStrandedWorker ==
    (\E w \in Workers : worker[w] = "asleep") =>
        /\ Len(tasks) <= Cardinality({w \in Workers : worker[w] = "take"})
        /\ isRunning

\* While a submitter waits, every free place in the deque has a submitter
\* awake for it: no notification of m_condPop is lost.
NoStrandedSubmitter ==
    (\E s \in Threads : submit[s] = "asleep") =>
        Capacity - Len(tasks) <= Cardinality({s \in Threads : submit[s] = "ready"})

\* Once Stop has returned no worker executes a task or ever will.
StoppedMeansQuiet ==
    control = "stopped" =>
        \A w \in Workers : worker[w] = "joined" /\ job[w] = NoTask

-----------------------------------------------------------------------------
(* Liveness                                                                *)

\* A task in the deque of a running pool is executed, unless Stop comes first
\* or every worker executes a task that itself waits for room, for ever.
AcceptedTasksRun ==
    \A t \in Tasks :
        t \in ToSet(tasks) ~>
            \/ t \in executed \/ ~ isRunning
            \/ [](Full /\ \A w \in Workers : submit[w] # "none")

\* Stop joins every worker and returns; only a task that waits for ever for room
\* in its own pool keeps it from returning (Stop does not notify m_condPop).
StopReturnsOrTaskBlocked ==
    (control = "stopping") ~>
        \/ control = "stopped"
        \/ [](Full /\ \E w \in Workers : submit[w] # "none")
=============================================================================
