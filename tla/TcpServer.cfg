SPECIFICATION FairSpec
CONSTANTS
    p1 = p1
    p2 = p2
    p3 = p3
    None = None
    Peers = {p1, p2, p3}
    Fds = {1, 2}
    MaxThreads = 2
INVARIANTS
    ConnsIsExact
    TableIsExact
    LoopsAreBalanced
PROPERTIES
    AcceptedIsRegistered
    ClosedIsRemoved
    SpareAnswersPending
CHECK_DEADLOCK FALSE
