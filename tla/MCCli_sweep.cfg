\* Every command line of MCCli: those of `sweep` matter.
CONSTANTS
    Window = 2
    MaxIntervals = 5
    AutoMode = AutoMode
    Invalid = Invalid
    Nothing = Nothing
    Kilo = 2
    MaxU64 = 7
    MaxU16 = 3
    AutoRate <- MCAutoRate
    SweepConfigs <- MCSweepConfigs
    Outcomes <- MCOutcomes
    RunCases <- MCRunCases
    SweepCases <- MCSweepCases
SPECIFICATION CliSpec
INVARIANTS SweepCommandRuns
