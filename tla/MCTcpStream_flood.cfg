\* No pacing, and a window wider than the buffers of one frame each.
CONSTANTS
    Tokens = {t1, t2}
    NoToken = NoToken
    Versions = {1}
    ProtocolVersion = 1
    Warmup = 1
    Duration = 1
    Timeout = 1
    Delay = 0
    WindowBudget = 9
    PayloadBytes = 2
    MinWindow = 1
    MaxWindow = 4
    PipeCap = 1
    EchoCap = 1
    MaxSeq = 5
    Horizon = 3
SPECIFICATION FairSpec
INVARIANTS Accounting AnswersInOrder NothingDropped
PROPERTIES Termination ServerReleases
