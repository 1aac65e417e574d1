-------------------------- MODULE ThreadPoolProofs --------------------------
(***************************************************************************)
(* Theorems about ThreadPool, for any number of workers, callers and tasks *)
(* and any capacity.  What the steps do is counted: how many workers are   *)
(* awake to take a task, how many submitters to look for room, and at how  *)
(* many places a task is.                                                  *)
(***************************************************************************)
EXTENDS ThreadPool, FiniteSetTheorems, TLAPS

-----------------------------------------------------------------------------
(* Counting the places of a function that have a value                     *)

At(f, x) == {u \in DOMAIN f : f[u] = x}
Count(f, x) == Cardinality(At(f, x))

LEMMA CountType ==
    ASSUME NEW f, IsFiniteSet(DOMAIN f), NEW x
    PROVE  IsFiniteSet(At(f, x)) /\ Count(f, x) \in Nat
BY FS_Subset, FS_CardinalityType DEF At, Count

\* From f to g the place t, and no other, gets the value y.
Moved(T, f, g, t, y) ==
    DOMAIN f = T /\ DOMAIN g = T /\ t \in T /\ \A u \in T : g[u] = IF u = t THEN y ELSE f[u]

LEMMA CountMoves ==
    ASSUME NEW T, IsFiniteSet(T), NEW f, NEW g, NEW t, NEW y, Moved(T, f, g, t, y), NEW x
    PROVE  /\ Count(f, x) \in Nat
           /\ Count(g, x) = IF f[t] = x /\ y # x THEN Count(f, x) - 1
                            ELSE IF f[t] # x /\ y = x THEN Count(f, x) + 1
                            ELSE Count(f, x)
<1>1. IsFiniteSet(At(f, x)) /\ Count(f, x) \in Nat
  BY CountType DEF Moved
<1>2. CASE f[t] = x /\ y # x
  <2>1. At(g, x) = At(f, x) \ {t} /\ t \in At(f, x)
    BY <1>2 DEF At, Moved
  <2> QED BY <1>1, <1>2, <2>1, FS_RemoveElement DEF Count
<1>3. CASE f[t] # x /\ y = x
  <2>1. At(g, x) = At(f, x) \cup {t} /\ t \notin At(f, x)
    BY <1>3 DEF At, Moved
  <2> QED BY <1>1, <1>3, <2>1, FS_AddElement DEF Count
<1>4. CASE (f[t] = x) <=> (y = x)
  <2>1. At(g, x) = At(f, x)
    BY <1>4 DEF At, Moved
  <2> QED BY <1>1, <1>4, <2>1 DEF Count
<1> QED BY <1>2, <1>3, <1>4

\* push_back and pop_front.
LEMMA CountAppend ==
    ASSUME NEW T, NEW q \in Seq(T), NEW y \in T, NEW x
    PROVE  Count(Append(q, y), x) = IF y = x THEN Count(q, x) + 1 ELSE Count(q, x)
<1> DEFINE n == Len(q) + 1
           g == Append(q, y)
<1>1. /\ Len(q) \in Nat /\ DOMAIN q = 1..Len(q) /\ DOMAIN g = 1..n /\ n \notin DOMAIN q
      /\ g[n] = y /\ \A i \in 1..Len(q) : g[i] = q[i]
  OBVIOUS
<1>2. IsFiniteSet(DOMAIN q)
  BY <1>1, FS_Interval
<1>3. DOMAIN g = DOMAIN q \cup {n}
  BY <1>1
<1> HIDE DEF n, g
<1>4. CASE y = x
  <2>1. At(g, x) = At(q, x) \cup {n} /\ n \notin At(q, x)
    BY <1>1, <1>3, <1>4 DEF At
  <2> QED BY <1>2, <1>4, <2>1, CountType, FS_AddElement DEF Count, g
<1>5. CASE y # x
  <2>1. At(g, x) = At(q, x)
    BY <1>1, <1>3, <1>5 DEF At
  <2> QED BY <1>5, <2>1 DEF Count, g
<1> QED BY <1>4, <1>5

LEMMA CountTail ==
    ASSUME NEW T, NEW q \in Seq(T), q # <<>>, NEW x
    PROVE  Count(Tail(q), x) = IF Head(q) = x THEN Count(q, x) - 1 ELSE Count(q, x)
<1> DEFINE g == Tail(q)
           rest == At(q, x) \ {1}
           move == [i \in At(g, x) |-> i + 1]
<1>1. /\ Len(q) \in Nat /\ Len(q) > 0 /\ DOMAIN q = 1..Len(q) /\ DOMAIN g = 1..Len(q) - 1
      /\ Head(q) = q[1] /\ \A i \in 1..Len(q) - 1 : g[i] = q[i + 1]
  OBVIOUS
<1>2. IsFiniteSet(At(q, x)) /\ IsFiniteSet(At(g, x))
  <2>1. IsFiniteSet(DOMAIN q) /\ IsFiniteSet(DOMAIN g)
    BY <1>1, FS_Interval
  <2> QED BY <2>1, CountType
<1> HIDE DEF g
<1>3. move \in Bijection(At(g, x), rest)
  <2>1. move \in [At(g, x) -> rest]
    BY <1>1 DEF At
  <2>2. \A i, j \in At(g, x) : move[i] = move[j] => i = j
    BY <1>1 DEF At
  <2>3. ASSUME NEW k \in rest PROVE \E i \in At(g, x) : move[i] = k
    <3>1. k \in 2..Len(q) /\ q[k] = x
      BY <1>1 DEF At
    <3>2. k - 1 \in At(g, x)
      BY <1>1, <3>1 DEF At
    <3>3. move[k - 1] = k
      BY <3>1, <3>2
    <3> QED BY <3>2, <3>3
  <2> HIDE DEF move, rest
  <2>4. move \in Injection(At(g, x), rest)
    <3>1. IsInjective(move)
      BY <2>1, <2>2 DEF IsInjective
    <3> QED BY <2>1, <3>1 DEF Injection
  <2>5. move \in Surjection(At(g, x), rest)
    BY <2>1, <2>3 DEF Surjection
  <2> QED BY <2>4, <2>5 DEF Bijection
<1>4. Cardinality(rest) = Cardinality(At(g, x))
  <2> HIDE DEF move, rest
  <2>1. ExistsBijection(At(g, x), rest)
    BY <1>3 DEF ExistsBijection
  <2> QED BY <1>2, <2>1, FS_Bijection
<1>5. 1 \in At(q, x) <=> Head(q) = x
  BY <1>1 DEF At
<1>6. Cardinality(rest) = IF 1 \in At(q, x) THEN Cardinality(At(q, x)) - 1
                          ELSE Cardinality(At(q, x))
  BY <1>2, FS_RemoveElement
<1> QED BY <1>4, <1>5, <1>6 DEF Count, g

-----------------------------------------------------------------------------
(* Types, and where the tasks of the threads are                           *)

\* A worker has a task exactly while it executes one, a submitter exactly while
\* it is in Run.  Stop wakes all who wait for a task, and joins all workers.
PoolInv ==
    /\ TypeOK
    /\ \A w \in Workers : worker[w] = "run" <=> job[w] # NoTask
    /\ \A s \in Threads : submit[s] = "none" <=> holds[s] = NoTask
    /\ control = "stopped" => \A w \in Workers : worker[w] = "joined"
    /\ \A w \in Workers : worker[w] = "asleep" => isRunning
    /\ \A s \in Threads : submit[s] = "asleep" => Capacity > 0

LEMMA Deque ==
    ASSUME NEW q \in Seq(Tasks), NEW t \in Tasks
    PROVE  /\ Append(q, t) \in Seq(Tasks) /\ Len(Append(q, t)) = Len(q) + 1
           /\ q # <<>> => /\ Head(q) \in Tasks
                          /\ Tail(q) \in Seq(Tasks) /\ Len(Tail(q)) = Len(q) - 1
           /\ Len(q) \in Nat /\ (q = <<>> <=> Len(q) = 0)
OBVIOUS

\* The steps of Run, of TakeTask and of the end of a task.
LEMMA RunReturnsSteps ==
    ASSUME PoolInv, NEW s \in Threads, RunReturns(s)
    PROVE  PoolInv'
<1>1. /\ submit[s] = "ready" /\ holds[s] \in Tasks /\ ~ Full
      /\ tasks' = Append(tasks, holds[s])
      /\ submit' = [submit EXCEPT ![s] = "none"] /\ holds' = [holds EXCEPT ![s] = NoTask]
      /\ UNCHANGED <<isRunning, job, submitted, executed, control>>
  BY DEF PoolInv, TypeOK, RunReturns, Enqueue
<1>2. /\ worker' \in [Workers ->
           {"absent", "loop", "take", "asleep", "run", "exited", "joined"}]
      /\ \A w \in Workers : \/ worker'[w] = worker[w]
                            \/ worker[w] = "asleep" /\ worker'[w] = "take"
  BY DEF PoolInv, TypeOK, RunReturns, NotifyWorker
<1>3. /\ tasks' \in Seq(Tasks)
      /\ Capacity > 0 => Len(tasks') <= Capacity
  BY <1>1, Deque, CapacityAssumption DEF PoolInv, TypeOK, Full
<1>4. TypeOK'
  BY <1>1, <1>2, <1>3 DEF PoolInv, TypeOK
<1> QED BY <1>1, <1>2, <1>4, NamesAssumption DEF PoolInv, TypeOK

LEMMA TakeTaskSteps ==
    ASSUME PoolInv, NEW w \in Workers, TakeTask(w)
    PROVE  PoolInv'
<1>1. /\ worker[w] = "take" /\ tasks # <<>> /\ w \in Threads
      /\ tasks' = Tail(tasks) /\ worker' = [worker EXCEPT ![w] = "run"]
      /\ job' = [job EXCEPT ![w] = Head(tasks)]
      /\ UNCHANGED <<isRunning, holds, submitted, executed, control>>
  BY DEF TakeTask, Threads
<1>2. /\ submit' \in [Threads -> {"none", "ready", "asleep"}]
      /\ \A s \in Threads : \/ submit'[s] = submit[s]
                            \/ submit[s] = "asleep" /\ submit'[s] = "ready"
  BY DEF PoolInv, TypeOK, TakeTask, NotifySubmitter
<1>3. /\ Head(tasks) \in Tasks /\ Head(tasks) # NoTask /\ tasks' \in Seq(Tasks)
      /\ Capacity > 0 => Len(tasks') <= Capacity
  BY <1>1, NamesAssumption, CapacityAssumption DEF PoolInv, TypeOK
<1>4. TypeOK'
  BY <1>1, <1>2, <1>3 DEF PoolInv, TypeOK
<1> QED BY <1>1, <1>2, <1>3, <1>4 DEF PoolInv, TypeOK, Threads

LEMMA SubmitsSteps ==
    ASSUME PoolInv, NEW s \in Threads, NEW t \in Tasks, submit[s] = "none", Submits(s, t)
    PROVE  PoolInv'
<1>1. TypeOK'
  BY DEF PoolInv, TypeOK, Submits
<1> QED BY <1>1, NamesAssumption DEF PoolInv, TypeOK, Submits

LEMMA StartsWell == Init => PoolInv
<1> SUFFICES ASSUME Init PROVE PoolInv
  OBVIOUS
<1>1. tasks \in Seq(Tasks) /\ Len(tasks) <= Capacity
  BY CapacityAssumption DEF Init
<1> QED BY <1>1 DEF Init, PoolInv, TypeOK, Threads

THEOREM PoolCorrect == Spec => []PoolInv
<1>1. Init => PoolInv
  BY StartsWell
<1>2. PoolInv /\ [Next]_vars => PoolInv'
  <2> SUFFICES ASSUME PoolInv, [Next]_vars PROVE PoolInv'
    OBVIOUS
  <2>1. CASE StartPool \/ BeginStop \/ EndStop
    BY <2>1 DEF StartPool, BeginStop, EndStop, PoolInv, TypeOK
  <2>2. ASSUME NEW w \in Workers, CreateWorker(w) \/ JoinWorker(w) PROVE PoolInv'
    BY <2>2 DEF CreateWorker, JoinWorker, PoolInv, TypeOK
  <2>3. ASSUME NEW w \in Workers,
               WorkerLoop(w) \/ TakeBlocks(w) \/ TakeNothing(w) \/ SpuriousWorker(w)
        PROVE  PoolInv'
    BY <2>3 DEF WorkerLoop, TakeBlocks, TakeNothing, SpuriousWorker, PoolInv, TypeOK
  <2>4. ASSUME NEW w \in Workers, CallRunFromTask(w) PROVE PoolInv'
    BY <2>4, SubmitsSteps DEF CallRunFromTask, Threads
  <2>5. ASSUME NEW w \in Workers, FinishTask(w) PROVE PoolInv'
    <3>1. w \in Threads /\ job[w] \in Tasks
      BY <2>5 DEF FinishTask, PoolInv, TypeOK, Threads
    <3> QED BY <2>5, <3>1 DEF FinishTask, PoolInv, TypeOK, Threads
  <2>6. ASSUME NEW c \in Callers, NEW t \in Tasks, CallRun(c, t) PROVE PoolInv'
    BY <2>6, SubmitsSteps DEF CallRun, Threads
  <2>7. ASSUME NEW c \in Callers, NEW t \in Tasks, RunInline(c, t) PROVE PoolInv'
    BY <2>7, NamesAssumption DEF RunInline, PoolInv, TypeOK, Threads
  <2>8. ASSUME NEW c \in Callers, FinishInline(c) PROVE PoolInv'
    BY <2>8, NamesAssumption DEF FinishInline, PoolInv, TypeOK, Threads
  <2>9. ASSUME NEW s \in Threads, RunBlocks(s) \/ SpuriousSubmitter(s) PROVE PoolInv'
    BY <2>9 DEF RunBlocks, Full, SpuriousSubmitter, PoolInv, TypeOK
  <2>10. CASE UNCHANGED vars
    BY <2>10 DEF vars, PoolInv, TypeOK
  <2> QED
    BY <2>1, <2>2, <2>3, <2>4, <2>5, <2>6, <2>7, <2>8, <2>9, <2>10, TakeTaskSteps,
       RunReturnsSteps DEF Next, Owner, WorkerStep, Run, Finished
<1> QED BY <1>1, <1>2, PTL DEF Spec

\* Stop has joined every thread when it returns, and none of them has a task.
THEOREM StopIsFinal == Spec => []StoppedMeansQuiet
<1>1. PoolInv => StoppedMeansQuiet
  BY DEF PoolInv, StoppedMeansQuiet
<1> QED BY <1>1, PoolCorrect, PTL

\* Values keep their types, and the deque never grows beyond its capacity,
\* however many submitters are woken for one place.
THEOREM TypeCorrect == Spec => []TypeOK
<1>1. PoolInv => TypeOK
  BY DEF PoolInv
<1> QED BY <1>1, PoolCorrect, PTL

-----------------------------------------------------------------------------
(* No lost notification                                                    *)

\* While a worker waits, every task in the deque has a worker awake for it: no
\* notification of m_condPush is lost, and Stop wakes all.
THEOREM WorkersAreWoken == Spec => []NoStrandedWorker
<1> DEFINE Awake(f) == Count(f, "take")
           Enough == (\E w \in Workers : worker[w] = "asleep") => Len(tasks) <= Awake(worker)
<1>1. PoolInv => (NoStrandedWorker <=> Enough)
  BY DEF PoolInv, TypeOK, NoStrandedWorker, Count, At
<1>2. Init => Enough
  BY DEF Init
<1>3. ASSUME PoolInv, PoolInv', Enough, [Next]_vars PROVE Enough'
  <2>1. /\ DOMAIN worker = Workers /\ IsFiniteSet(Workers) /\ DOMAIN worker' = Workers
        /\ Len(tasks) \in Nat /\ Len(tasks') \in Nat /\ Awake(worker) \in Nat /\ Awake(worker') \in Nat
    BY <1>3, WorkersAssumption, CountType, Deque DEF PoolInv, TypeOK
  <2>2. CASE UNCHANGED <<tasks, worker>>
    BY <1>3, <2>2
  <2>3. ASSUME NEW w \in Workers, NEW pc, tasks' = tasks, worker' = [worker EXCEPT ![w] = pc],
               pc # "asleep", worker[w] # "take"
        PROVE  Enough'
    <3>1. Moved(Workers, worker, worker', w, pc)
      BY <2>1, <2>3 DEF Moved
    <3>2. Awake(worker') = IF pc = "take" THEN Awake(worker) + 1 ELSE Awake(worker)
      BY <2>1, <2>3, <3>1, CountMoves
    <3> QED BY <1>3, <2>1, <2>3, <3>2
  <2>4. CASE BeginStop
    BY <1>3, <2>4 DEF BeginStop, PoolInv, TypeOK
  <2>5. ASSUME NEW w \in Workers, TakeBlocks(w) PROVE Enough'
    BY <2>1, <2>5 DEF TakeBlocks
  <2>6. ASSUME NEW w \in Workers, TakeNothing(w) PROVE Enough'
    BY <1>3, <2>1, <2>6 DEF TakeNothing, PoolInv, TypeOK
  <2>7. ASSUME NEW w \in Workers, TakeTask(w) PROVE Enough'
    <3>1. worker[w] = "take" /\ tasks # <<>> /\ tasks' = Tail(tasks)
          /\ worker' = [worker EXCEPT ![w] = "run"]
      BY <2>7 DEF TakeTask
    <3>2. Moved(Workers, worker, worker', w, "run")
      BY <2>1, <3>1 DEF Moved
    <3>3. Awake(worker') = Awake(worker) - 1
      BY <2>1, <3>1, <3>2, CountMoves
    <3>4. Len(tasks') = Len(tasks) - 1
      BY <1>3, <3>1 DEF PoolInv, TypeOK
    <3> QED BY <1>3, <2>1, <3>1, <3>3, <3>4
  <2>8. ASSUME NEW s \in Threads, RunReturns(s) PROVE Enough'
    <3>1. Len(tasks') = Len(tasks) + 1
      BY <1>3, <2>8 DEF RunReturns, Enqueue, PoolInv, TypeOK
    <3>2. CASE \A w \in Workers : worker[w] # "asleep"
      BY <2>8, <3>2 DEF RunReturns, NotifyWorker
    <3>3. CASE \E w \in Workers : worker[w] = "asleep"
      <4>1. PICK w \in Workers : worker[w] = "asleep" /\ worker' = [worker EXCEPT ![w] = "take"]
        BY <2>8, <3>3 DEF RunReturns, NotifyWorker
      <4>2. Moved(Workers, worker, worker', w, "take")
        BY <2>1, <4>1 DEF Moved
      <4>3. Awake(worker') = Awake(worker) + 1
        BY <2>1, <4>1, <4>2, CountMoves
      <4> QED BY <1>3, <2>1, <3>1, <3>3, <4>3
    <3> QED BY <3>2, <3>3
  <2>9. ASSUME NEW w \in Workers,
               \/ CreateWorker(w) \/ JoinWorker(w) \/ WorkerLoop(w) \/ FinishTask(w)
               \/ SpuriousWorker(w)
        PROVE  Enough'
    <3>1. \E pc \in {"loop", "joined", "take", "exited"} :
            worker' = [worker EXCEPT ![w] = pc] /\ tasks' = tasks /\ worker[w] # "take"
      BY <2>9 DEF CreateWorker, JoinWorker, WorkerLoop, FinishTask, SpuriousWorker
    <3> QED BY <2>3, <3>1
  <2>10. CASE \/ StartPool \/ EndStop \/ Finished \/ UNCHANGED vars
              \/ \E s \in Threads, t \in Tasks : Submits(s, t)
              \/ \E s \in Threads : RunBlocks(s) \/ SpuriousSubmitter(s)
              \/ \E c \in Callers, t \in Tasks : RunInline(c, t)
              \/ \E c \in Callers : FinishInline(c)
    BY <2>2, <2>10 DEF StartPool, EndStop, Finished, vars, Submits, RunBlocks, SpuriousSubmitter,
                       RunInline, FinishInline
  <2>11. \A w \in Workers : CallRunFromTask(w) => \E s \in Threads, t \in Tasks : Submits(s, t)
    BY DEF CallRunFromTask, Threads
  <2>12. \A c \in Callers, t \in Tasks : CallRun(c, t) => \E s \in Threads : Submits(s, t)
    BY DEF CallRun, Threads
  <2> QED
    BY <1>3, <2>4, <2>5, <2>6, <2>7, <2>8, <2>9, <2>10, <2>11, <2>12
       DEF Next, Owner, WorkerStep, Run
<1>4. Init => NoStrandedWorker
  BY DEF Init, NoStrandedWorker
<1>5. PoolInv /\ PoolInv' /\ NoStrandedWorker /\ [Next]_vars => NoStrandedWorker'
  BY <1>1, <1>3, PTL
<1> QED BY <1>4, <1>5, PoolCorrect, PTL DEF Spec

LEMMA ThreadsAreFinite == IsFiniteSet(Threads)
BY WorkersAssumption, FS_Union DEF Threads

\* While a submitter waits, every free place in the deque has a submitter awake
\* for it: no notification of m_condPop is lost.
THEOREM SubmittersAreWoken == Spec => []NoStrandedSubmitter
<1> DEFINE Awake(f) == Count(f, "ready")
           Enough == (\E s \in Threads : submit[s] = "asleep")
                       => Capacity - Len(tasks) <= Awake(submit)
<1>1. PoolInv => (NoStrandedSubmitter <=> Enough)
  BY DEF PoolInv, TypeOK, NoStrandedSubmitter, Count, At
<1>2. ASSUME PoolInv, PoolInv', Enough, [Next]_vars PROVE Enough'
  <2>1. /\ DOMAIN submit = Threads /\ IsFiniteSet(Threads) /\ DOMAIN submit' = Threads
        /\ Len(tasks) \in Nat /\ Len(tasks') \in Nat /\ Capacity \in Nat
        /\ Awake(submit) \in Nat /\ Awake(submit') \in Nat
    BY <1>2, ThreadsAreFinite, CountType, Deque, CapacityAssumption DEF PoolInv, TypeOK
  <2>2. CASE UNCHANGED <<tasks, submit>>
    BY <1>2, <2>2
  <2>3. ASSUME NEW s \in Threads, tasks' = tasks, submit' = [submit EXCEPT ![s] = "ready"],
               submit[s] # "ready"
        PROVE  Enough'
    <3>1. Moved(Threads, submit, submit', s, "ready")
      BY <2>1, <2>3 DEF Moved
    <3>2. Awake(submit') = Awake(submit) + 1
      BY <2>1, <2>3, <3>1, CountMoves
    <3> QED BY <1>2, <2>1, <2>3, <3>2
  <2>4. ASSUME NEW s \in Threads, RunBlocks(s) PROVE Enough'
    BY <2>1, <2>4 DEF RunBlocks, Full
  <2>5. ASSUME NEW s \in Threads, RunReturns(s) PROVE Enough'
    <3>1. submit[s] = "ready" /\ submit' = [submit EXCEPT ![s] = "none"]
      BY <2>5 DEF RunReturns, Enqueue
    <3>2. Moved(Threads, submit, submit', s, "none")
      BY <2>1, <3>1 DEF Moved
    <3>3. Awake(submit') = Awake(submit) - 1
      BY <2>1, <3>1, <3>2, CountMoves
    <3>4. Len(tasks') = Len(tasks) + 1
      BY <1>2, <2>5 DEF RunReturns, Enqueue, PoolInv, TypeOK
    <3> QED BY <1>2, <2>1, <3>1, <3>3, <3>4
  <2>6. ASSUME NEW w \in Workers, TakeTask(w) PROVE Enough'
    <3>1. Len(tasks') = Len(tasks) - 1
      BY <1>2, <2>6 DEF TakeTask, PoolInv, TypeOK
    <3>2. CASE \A s \in Threads : submit[s] # "asleep"
      BY <2>6, <3>2 DEF TakeTask, NotifySubmitter
    <3>3. CASE \E s \in Threads : submit[s] = "asleep"
      <4>1. Capacity > 0
        BY <1>2, <3>3 DEF PoolInv
      <4>2. PICK s \in Threads : submit[s] = "asleep" /\ submit' = [submit EXCEPT ![s] = "ready"]
        BY <2>6, <3>3, <4>1 DEF TakeTask, NotifySubmitter
      <4>3. Moved(Threads, submit, submit', s, "ready")
        BY <2>1, <4>2 DEF Moved
      <4>4. Awake(submit') = Awake(submit) + 1
        BY <2>1, <4>2, <4>3, CountMoves
      <4> QED BY <1>2, <2>1, <3>1, <3>3, <4>4
    <3> QED BY <3>2, <3>3
  <2>7. ASSUME NEW s \in Threads, SpuriousSubmitter(s) PROVE Enough'
    BY <2>3, <2>7 DEF SpuriousSubmitter
  <2>8. ASSUME NEW s \in Threads, NEW t \in Tasks, submit[s] = "none", Submits(s, t)
        PROVE  Enough'
    BY <2>3, <2>8 DEF Submits
  <2>9. ASSUME NEW c \in Callers, NEW t \in Tasks, CallRun(c, t) PROVE Enough'
    BY <2>8, <2>9 DEF CallRun, Threads
  <2>10. ASSUME NEW w \in Workers, CallRunFromTask(w) PROVE Enough'
    BY <2>8, <2>10 DEF CallRunFromTask, Threads
  <2>11. CASE \/ StartPool \/ BeginStop \/ EndStop \/ Finished \/ UNCHANGED vars
              \/ \E w \in Workers : \/ CreateWorker(w) \/ JoinWorker(w) \/ WorkerLoop(w)
                                    \/ TakeBlocks(w) \/ TakeNothing(w) \/ FinishTask(w)
                                    \/ SpuriousWorker(w)
              \/ \E c \in Callers, t \in Tasks : RunInline(c, t)
              \/ \E c \in Callers : FinishInline(c)
    BY <2>2, <2>11 DEF StartPool, BeginStop, EndStop, Finished, vars, CreateWorker, JoinWorker,
         WorkerLoop, TakeBlocks, TakeNothing, FinishTask, SpuriousWorker, RunInline, FinishInline
  <2> QED
    BY <1>2, <2>4, <2>5, <2>6, <2>7, <2>9, <2>10, <2>11 DEF Next, Owner, WorkerStep, Run
<1>3. Init => NoStrandedSubmitter
  BY DEF Init, NoStrandedSubmitter
<1>4. PoolInv /\ PoolInv' /\ NoStrandedSubmitter /\ [Next]_vars => NoStrandedSubmitter'
  BY <1>1, <1>2, PTL
<1> QED BY <1>3, <1>4, PoolCorrect, PTL DEF Spec

-----------------------------------------------------------------------------
(* Every task at one place                                                 *)

In(S, t) == Cardinality({t} \cap S)

LEMMA InOrNot ==
    ASSUME NEW S, NEW t
    PROVE  In(S, t) = IF t \in S THEN 1 ELSE 0
<1>1. CASE t \in S
  <2>1. {t} \cap S = {t}
    BY <1>1
  <2> QED BY <1>1, <2>1, FS_Singleton DEF In
<1>2. CASE t \notin S
  <2>1. {t} \cap S = {}
    BY <1>2
  <2> QED BY <1>2, <2>1, FS_EmptySet DEF In
<1> QED BY <1>1, <1>2

Once(t) ==
    Count(tasks, t) + Count(holds, t) + Count(job, t) + In(executed, t) = In(submitted, t)

LEMMA PlacesAreCounted ==
    ASSUME PoolInv
    PROVE  /\ EachTaskOnce <=> \A t \in Tasks : Once(t)
           /\ \A t : /\ Count(tasks, t) \in Nat /\ Count(holds, t) \in Nat
                     /\ Count(job, t) \in Nat
<1>1. /\ tasks \in Seq(Tasks) /\ DOMAIN tasks = 1..Len(tasks) /\ Len(tasks) \in Nat
      /\ DOMAIN holds = Threads /\ DOMAIN job = Threads
  BY DEF PoolInv, TypeOK
<1>2. /\ IsFiniteSet(DOMAIN tasks) /\ IsFiniteSet(DOMAIN holds) /\ IsFiniteSet(DOMAIN job)
  BY <1>1, ThreadsAreFinite, FS_Interval
<1>3. ASSUME NEW t \in Tasks
      PROVE  /\ {i \in 1..Len(tasks) : tasks[i] = t} = At(tasks, t)
             /\ {s \in {r \in Threads : holds[r] # NoTask} : holds[s] = t} = At(holds, t)
             /\ {s \in {r \in Threads : job[r] # NoTask} : job[s] = t} = At(job, t)
  BY <1>1, <1>3, NamesAssumption DEF At
<1>4. EachTaskOnce <=> \A t \in Tasks : Once(t)
  BY <1>3 DEF EachTaskOnce, Once, Count, In
<1> QED BY <1>2, <1>4, CountType

\* Every task handed to Run is at exactly one place until it is done, whatever
\* tasks submit from inside the pool and whenever Stop comes.
THEOREM TasksAreAtOnePlace == Spec => []EachTaskOnce
<1>1. Init => EachTaskOnce
  <2> SUFFICES ASSUME Init, NEW t \in Tasks PROVE Once(t)
    BY StartsWell, PlacesAreCounted
  <2>1. /\ At(tasks, t) = {} /\ At(holds, t) = {} /\ At(job, t) = {}
        /\ {t} \cap executed = {} /\ {t} \cap submitted = {}
    BY NamesAssumption DEF Init, At
  <2>2. /\ Count(tasks, t) = 0 /\ Count(holds, t) = 0 /\ Count(job, t) = 0
        /\ In(executed, t) = 0 /\ In(submitted, t) = 0
    BY <2>1, FS_EmptySet DEF Count, In
  <2> QED BY <2>2 DEF Once
<1>2. ASSUME PoolInv, PoolInv', EachTaskOnce, [Next]_vars, NEW t \in Tasks
      PROVE  Once(t)'
  <2>1. /\ tasks \in Seq(Tasks) /\ IsFiniteSet(Threads)
        /\ DOMAIN holds = Threads /\ DOMAIN holds' = Threads
        /\ DOMAIN job = Threads /\ DOMAIN job' = Threads
    BY <1>2, ThreadsAreFinite DEF PoolInv, TypeOK
  <2>2. /\ Count(tasks, t) \in Nat /\ Count(holds, t) \in Nat /\ Count(job, t) \in Nat
        /\ Count(tasks, t) + Count(holds, t) + Count(job, t) + In(executed, t) = In(submitted, t)
    BY <1>2, PlacesAreCounted DEF Once
  <2>3. /\ In(executed, t) = (IF t \in executed THEN 1 ELSE 0)
        /\ In(executed', t) = (IF t \in executed' THEN 1 ELSE 0)
        /\ In(submitted, t) = (IF t \in submitted THEN 1 ELSE 0)
        /\ In(submitted', t) = (IF t \in submitted' THEN 1 ELSE 0)
    BY InOrNot
  <2>4. t # NoTask
    BY NamesAssumption
  <2> SUFFICES Count(tasks', t) + Count(holds', t) + Count(job', t) + In(executed', t)
                 = In(submitted', t)
    BY DEF Once
  <2>5. CASE UNCHANGED <<tasks, holds, job, submitted, executed>>
    BY <2>2, <2>5
  <2>6. ASSUME NEW s \in Threads, NEW u \in Tasks, submit[s] = "none", u \notin submitted,
               Submits(s, u)
        PROVE  Count(tasks', t) + Count(holds', t) + Count(job', t) + In(executed', t)
                 = In(submitted', t)
    <3>1. /\ holds[s] = NoTask /\ holds' = [holds EXCEPT ![s] = u]
          /\ submitted' = submitted \cup {u} /\ UNCHANGED <<tasks, job, executed>>
      BY <1>2, <2>6 DEF Submits, PoolInv
    <3>2. Moved(Threads, holds, holds', s, u)
      BY <2>1, <3>1 DEF Moved
    <3>3. Count(holds', t) = IF u = t THEN Count(holds, t) + 1 ELSE Count(holds, t)
      BY <2>1, <2>4, <3>1, <3>2, CountMoves
    <3>4. Count(tasks', t) = Count(tasks, t) /\ Count(job', t) = Count(job, t)
          /\ In(executed', t) = In(executed, t)
      BY <3>1
    <3>5. In(submitted', t) = IF u = t THEN In(submitted, t) + 1 ELSE In(submitted, t)
      BY <2>3, <2>6, <3>1
    <3> QED BY <2>2, <2>3, <3>3, <3>4, <3>5
  <2>7. ASSUME NEW s \in Threads, RunReturns(s)
        PROVE  Count(tasks', t) + Count(holds', t) + Count(job', t) + In(executed', t)
                 = In(submitted', t)
    <3>1. /\ holds[s] \in Tasks /\ tasks' = Append(tasks, holds[s])
          /\ holds' = [holds EXCEPT ![s] = NoTask] /\ UNCHANGED <<job, submitted, executed>>
      BY <1>2, <2>7 DEF RunReturns, Enqueue, PoolInv, TypeOK
    <3>2. Moved(Threads, holds, holds', s, NoTask)
      BY <2>1, <3>1 DEF Moved
    <3>3. Count(holds', t) = IF holds[s] = t THEN Count(holds, t) - 1 ELSE Count(holds, t)
      BY <2>1, <2>4, <3>2, CountMoves
    <3>4. Count(tasks', t) = IF holds[s] = t THEN Count(tasks, t) + 1 ELSE Count(tasks, t)
      BY <2>1, <3>1, CountAppend
    <3>5. Count(job', t) = Count(job, t) /\ In(executed', t) = In(executed, t)
          /\ In(submitted', t) = In(submitted, t)
      BY <3>1
    <3> QED BY <2>2, <2>3, <3>3, <3>4, <3>5
  <2>8. ASSUME NEW w \in Workers, TakeTask(w)
        PROVE  Count(tasks', t) + Count(holds', t) + Count(job', t) + In(executed', t)
                 = In(submitted', t)
    <3>1. /\ job[w] = NoTask /\ tasks # <<>> /\ tasks' = Tail(tasks) /\ w \in Threads
          /\ job' = [job EXCEPT ![w] = Head(tasks)] /\ UNCHANGED <<holds, submitted, executed>>
      BY <1>2, <2>8 DEF TakeTask, PoolInv, Threads
    <3>2. Moved(Threads, job, job', w, Head(tasks))
      BY <2>1, <3>1 DEF Moved
    <3>3. Count(job', t) = IF Head(tasks) = t THEN Count(job, t) + 1 ELSE Count(job, t)
      BY <2>1, <2>4, <3>1, <3>2, CountMoves
    <3>4. Count(tasks', t) = IF Head(tasks) = t THEN Count(tasks, t) - 1 ELSE Count(tasks, t)
      BY <2>1, <3>1, CountTail
    <3>5. Count(holds', t) = Count(holds, t) /\ In(executed', t) = In(executed, t)
          /\ In(submitted', t) = In(submitted, t)
      BY <3>1
    <3> QED BY <2>2, <2>3, <3>3, <3>4, <3>5
  <2>9. ASSUME NEW s \in Threads, NEW u \in Tasks, job[s] = u, job' = [job EXCEPT ![s] = NoTask],
               executed' = executed \cup {u}, UNCHANGED <<tasks, holds, submitted>>
        PROVE  Count(tasks', t) + Count(holds', t) + Count(job', t) + In(executed', t)
                 = In(submitted', t)
    <3>1. Moved(Threads, job, job', s, NoTask)
      BY <2>1, <2>9 DEF Moved
    <3>2. Count(job', t) = IF u = t THEN Count(job, t) - 1 ELSE Count(job, t)
      BY <2>1, <2>4, <2>9, <3>1, CountMoves
    <3>3. Count(job', t) \in Nat
      BY <2>1, CountType
    <3>4. Count(tasks', t) = Count(tasks, t) /\ Count(holds', t) = Count(holds, t)
          /\ In(submitted', t) = In(submitted, t)
      BY <2>9
    <3>5. u = t => t \notin executed
      BY <2>2, <2>3, <3>2, <3>3
    <3>6. In(executed', t) = IF u = t THEN In(executed, t) + 1 ELSE In(executed, t)
      BY <2>3, <2>9, <3>5
    <3> QED BY <2>2, <2>3, <3>2, <3>4, <3>6
  <2>10. ASSUME NEW c \in Callers, NEW u \in Tasks, RunInline(c, u)
         PROVE  Count(tasks', t) + Count(holds', t) + Count(job', t) + In(executed', t)
                  = In(submitted', t)
    <3>1. /\ job[c] = NoTask /\ job' = [job EXCEPT ![c] = u] /\ c \in Threads
          /\ u \notin submitted /\ submitted' = submitted \cup {u}
          /\ UNCHANGED <<tasks, holds, executed>>
      BY <2>10 DEF RunInline, Threads
    <3>2. Moved(Threads, job, job', c, u)
      BY <2>1, <3>1 DEF Moved
    <3>3. Count(job', t) = IF u = t THEN Count(job, t) + 1 ELSE Count(job, t)
      BY <2>1, <2>4, <3>1, <3>2, CountMoves
    <3>4. Count(tasks', t) = Count(tasks, t) /\ Count(holds', t) = Count(holds, t)
          /\ In(executed', t) = In(executed, t)
      BY <3>1
    <3>5. In(submitted', t) = IF u = t THEN In(submitted, t) + 1 ELSE In(submitted, t)
      BY <2>3, <3>1
    <3> QED BY <2>2, <2>3, <3>3, <3>4, <3>5
  <2>11. ASSUME NEW c \in Callers, NEW u \in Tasks, CallRun(c, u)
         PROVE  \E s \in Threads : submit[s] = "none" /\ u \notin submitted /\ Submits(s, u)
    BY <2>11 DEF CallRun, Threads
  <2>12. ASSUME NEW w \in Workers, CallRunFromTask(w)
         PROVE  \E s \in Threads, u \in Tasks :
                  submit[s] = "none" /\ u \notin submitted /\ Submits(s, u)
    BY <2>12 DEF CallRunFromTask, Threads
  <2>13. ASSUME NEW s, (s \in Workers /\ FinishTask(s)) \/ (s \in Callers /\ FinishInline(s))
         PROVE  \E u \in Tasks : /\ s \in Threads /\ job[s] = u /\ job' = [job EXCEPT ![s] = NoTask]
                                 /\ executed' = executed \cup {u}
                                 /\ UNCHANGED <<tasks, holds, submitted>>
    BY <1>2, <2>13 DEF FinishTask, FinishInline, PoolInv, TypeOK, Threads
  <2>14. CASE \/ StartPool \/ BeginStop \/ EndStop \/ Finished \/ UNCHANGED vars
              \/ \E w \in Workers : \/ CreateWorker(w) \/ JoinWorker(w) \/ WorkerLoop(w)
                                    \/ TakeBlocks(w) \/ TakeNothing(w) \/ SpuriousWorker(w)
              \/ \E s \in Threads : RunBlocks(s) \/ SpuriousSubmitter(s)
    BY <2>5, <2>14 DEF StartPool, BeginStop, EndStop, Finished, vars, CreateWorker, JoinWorker,
         WorkerLoop, TakeBlocks, TakeNothing, SpuriousWorker, RunBlocks, SpuriousSubmitter
  <2> QED
    BY <1>2, <2>6, <2>7, <2>8, <2>9, <2>10, <2>11, <2>12, <2>13, <2>14
       DEF Next, Owner, WorkerStep, Run
<1>3. PoolInv /\ PoolInv' /\ EachTaskOnce /\ [Next]_vars => EachTaskOnce'
  <2> SUFFICES ASSUME PoolInv, PoolInv', EachTaskOnce, [Next]_vars PROVE EachTaskOnce'
    OBVIOUS
  <2>1. \A t \in Tasks : Once(t)'
    BY <1>2
  <2>2. (EachTaskOnce <=> \A t \in Tasks : Once(t))'
    BY PlacesAreCounted, PTL
  <2> QED BY <2>1, <2>2
<1> QED BY <1>1, <1>3, PoolCorrect, PTL DEF Spec
=============================================================================
