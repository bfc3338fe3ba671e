SPECIFICATION FairSpec
CONSTANTS
    a = a
    b = b
    c = c
    NoEntry = NoEntry
    Never = Never
    Second = 4
    Timers = {a}
    Timeout <- OnceTimeout
    Interval <- OnceInterval
    MaxTime = 12
    MaxWhen = 22
    EpollFails = FALSE
PROPERTY TimersRun
