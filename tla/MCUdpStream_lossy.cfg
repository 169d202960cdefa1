\* Any datagram may be lost, delayed, overtaken; one comes twice.
CONSTANTS
    Tokens = {t1, t2}
    NoToken = NoToken
    Versions = {1}
    ProtocolVersion = 1
    Warmup = 0
    Duration = 2
    Timeout = 1
    Delay = 1
    RxCap = 2
    MaxCopies = 1
    MaxSeq = 3
    Horizon = 3
SPECIFICATION FairSpec
INVARIANTS TypeOK EchoOnlyIfAuthorized AckedIsGone
PROPERTIES FirstLossIsGenuine ImplementsContract Termination
