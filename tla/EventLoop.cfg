SPECIFICATION FairSpec
CONSTANTS
    Threads <- MCThreads
    Quitters <- MCQuitters
    Tasks <- MCTasks
    LoopThread = loop
    NoThread = nobody
    NoTask = noTask
    NDebug = TRUE
    th1 = th1
    th2 = th2
    t1 = t1
    t2 = t2
    t3 = t3
INVARIANTS
    NoLostWakeup
    PendingIsBacked
    NotifyBounded
PROPERTIES
    QueueStableWhileRunning
    ImplementsTaskQueue
    DeferredTasksRun
    StopEndsDispatch
