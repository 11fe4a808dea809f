SPECIFICATION Spec
CONSTANTS
    Options <- SharedOptions
    InitialSets <- TwoMaps
    MaxSuites = 3
    Callers = {c1, c2}
    Tests <- MCTests
    FeaturesOf <- MCFeaturesOf
    ParallelTests <- OneParallelTest
    Uses <- MCUses
INVARIANTS
    LoopComputesSelection
    ReportedFeaturesAreTested
    ResultsAreWhole
    FailuresAreRecorded
PROPERTIES
    SuccessMeansPassed
    RunCompletes
\* A process may build its suites and use none of them.
CHECK_DEADLOCK FALSE
