SPECIFICATION FairSpec
CONSTANTS
    None = None
    Base = 0
    Threads <- MCThreads
    Signals = {2}
    MaxEvents = 2
    MaxThreads = 2
    Calls <- MCCalls
    MaxPosts = 4
    MaxStarts = 2
INVARIANTS
    UsesAreSafe
    KilledOnlyIfLate
    CallbackMeansSignal
PROPERTIES
    CallsReturn
CHECK_DEADLOCK FALSE
