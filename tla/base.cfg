CONSTANTS
    FirstYear = 1590
    LastYear = 2410
    StartYears = {1599, 1699, 1799, 1899, 1903, 1969, 1970, 1999, 2035, 2099, 2399}
    Days = 800
    Zones <- MCZones
    Instants <- MCInstants
    LogThreads = {t1, t2}
    rollSize_ = 5
    flushInterval_ = 1
    checkEveryN_ = 2
    kRollPerSeconds_ = 4
    SIZE = 20
    kMaxNumericSize = 13
    Numbers <- MCNumbers
    LineLens = {2}
    MaxNow = 4
    MaxLines = 4
    MaxClockBack = 1
    Channels = {c1, c2, c3}
    ChannelFds = {3, 4, 5}
INIT Init
NEXT Next
CHECK_DEADLOCK FALSE
INVARIANTS CalendarExact LogExact StreamExact PollersExact
