\* Every command line of MCCli, five intervals, a dashboard that keeps two.
CONSTANTS
    Window = 2
    MaxIntervals = 5
    AutoMode = AutoMode
    Invalid = Invalid
    Nothing = Nothing
    Kilo = 2
    MaxU64 = 7
    MaxU16 = 3
    AutoRate <- MCAutoRate
    SweepConfigs <- MCSweepConfigs
    Outcomes <- MCOutcomes
    RunCases <- MCRunCases
    SweepCases <- MCSweepCases
SPECIFICATION FairCliSpec
INVARIANTS CliTypeOK ShownInOrder JsonlComplete RateHonoured SweepIsWhole
PROPERTIES MainEnds
