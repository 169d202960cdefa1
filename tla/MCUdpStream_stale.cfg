\* One late echo, no duplicates: is every reported loss one?
CONSTANTS
    Tokens = {t1, t2}
    NoToken = NoToken
    Versions = {1}
    ProtocolVersion = 1
    Warmup = 1
    Duration = 1
    Timeout = 1
    Delay = 1
    RxCap = 2
    MaxCopies = 0
    MaxSeq = 3
    Horizon = 3
SPECIFICATION Spec
PROPERTIES EveryLossIsGenuine
