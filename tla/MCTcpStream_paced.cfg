\* Two ticks of run, one of drain, a packet per tick, a window of two.
CONSTANTS
    Tokens = {t1, t2}
    NoToken = NoToken
    Versions = {1}
    ProtocolVersion = 1
    Warmup = 1
    Duration = 1
    Timeout = 1
    Delay = 1
    WindowBudget = 5
    PayloadBytes = 2
    MinWindow = 1
    MaxWindow = 4
    PipeCap = 1
    EchoCap = 1
    MaxSeq = 3
    Horizon = 4
SPECIFICATION FairSpec
INVARIANTS TypeOK WindowBound WarmupIsPrefix PacingSchedule DataOnlyIfAuthorized
PROPERTIES ImplementsContract
