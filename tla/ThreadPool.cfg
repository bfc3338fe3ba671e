SPECIFICATION FairSpec
CONSTANTS
    NumThreads = 2
    Tasks <- MCTasks
    NoTask = noTask
    NoThread = nobody
    MaxStarts = 2
    NDebug = TRUE
    t1 = t1
    t2 = t2
    t3 = t3
INVARIANTS
    EnoughAwake
    HolderCleared
PROPERTIES
    ImplementsTaskQueue
    TasksAreFetched
    StopReturnsIfTasksAbound
CHECK_DEADLOCK FALSE
