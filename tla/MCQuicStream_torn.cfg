\* Echoes arrive in pieces, late or not at all.
CONSTANTS
    Tokens = {t1, t2}
    NoToken = NoToken
    Versions = {1}
    ProtocolVersion = 1
    Warmup = 0
    Duration = 2
    Timeout = 1
    Delay = 0
    MaxSeq = 4
    Horizon = 3
SPECIFICATION FairSpec
INVARIANTS TypeOK AcksInStep
PROPERTIES ImplementsContract Termination
