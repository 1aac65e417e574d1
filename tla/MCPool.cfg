SPECIFICATION FairSpec
CONSTANTS
    Workers = {w1, w2}
    Callers = {c1, c2}
    t1 = t1
    t2 = t2
    t3 = t3
    t4 = t4
    t5 = t5
    Tasks <- MCTasks
    NoTask = NoTask
    Child <- Nested
    Capacity = 1
INVARIANTS
    TypeOK
    EachTaskOnce
    NoStrandedWorker
    NoStrandedSubmitter
    StoppedMeansQuiet
PROPERTIES
    AcceptedTasksRun
    StopReturnsOrTaskBlocked
