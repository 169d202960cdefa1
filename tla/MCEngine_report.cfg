\* Two streams, two packets, each stream with its own warm-up, and late ticks.
CONSTANTS
    Streams = 2
    Warmup = 1
    Duration = 0
    Interval = 1
    NoTick = NoTick
    MaxPackets = 2
    Horizon = 3
SPECIFICATION FairSpec
INVARIANTS TypeOK CountsAddUp IntervalsContiguous CountedExactly NeverReordered ReportIsComplete
PROPERTIES Termination
