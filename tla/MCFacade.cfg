SPECIFICATION FacadeSpec
CONSTANTS
    Msgs = {m1, m2}
    Buffers = {b1}
    MaxQueue = 2
    MaxLeaks = 1
    MaxTimers = 2
    MaxInterval = 1
    TicksPerMs = 2
    MaxLate = 2
    MaxNested = 2
    PollThreads = {t1, t2}
    PollSockets = {s1, s2}
    PollFds = {f1}
    CtxThreads = {t1, t2}
    MaxInt = 15
    IntSize = 4
    Texts <- SomeTexts
    MaxIds = 3
INVARIANTS BuffersFreedInTime TimersPunctual PollerReportsTruly SocketsMadeRight PrefixKept
