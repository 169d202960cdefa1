\* A stream that has nothing to report after its warm-up.
CONSTANTS
    Streams = 2
    Warmup = 1
    Duration = 0
    Interval = 1
    NoTick = NoTick
    MaxPackets = 2
    Horizon = 2
SPECIFICATION Spec
INVARIANTS ReportHasEveryStream
