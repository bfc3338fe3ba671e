SPECIFICATION EltFairSpec
CONSTANTS
    Threads <- MCThreads
    Tasks <- MCTasks
    Quitters <- MCQuitters
    Owner = owner
    LoopThread = loop
    NoThread = nobody
    NoTask = noTask
    NDebug = TRUE
    owner = owner
    th1 = th1
    t1 = t1
    t2 = t2
CHECK_DEADLOCK FALSE
PROPERTIES
    QuitStopsTheLoop
