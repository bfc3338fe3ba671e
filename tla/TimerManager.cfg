SPECIFICATION BusySpec
CONSTANTS
    a = a
    b = b
    c = c
    NoEntry = NoEntry
    Never = Never
    Second = 2
    Timers = {a, b, c}
    Timeout <- MixedTimeout
    Interval <- MixedInterval
    MaxTime = 7
    MaxWhen = 13
    EpollFails = TRUE
INVARIANTS
    LessThanASecondEarly
    RunningIsNearest
    TableHoldsLiveTimer
    ArmedForNearest
PROPERTIES
    TimersRun
