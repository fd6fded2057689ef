\* One engine with two groups of three contexts, and bench_only: the contexts of
\* a group share a command or override it.
CONSTANTS
    Engines = {"sglang"}
    EngineOf <- TwoGroups
    Contexts <- ThreeContexts
    EffectiveCmd <- SharedThenOverride
    External <- MCExternal
    BenchOnly = {TRUE, FALSE}
    HealthFirst = TRUE
    SearchMethod = "stopN"
    StopN = 1
    DefaultInit = 2
    DefaultMax = 3
    Methods <- MCMethods
    InitConcurrents <- MCInitConcurrents
    MaxConcurrents <- MCMaxConcurrents
    StopNs <- MCStopNs
    Capacity = 3
SPECIFICATION FairSpec
INVARIANTS
    TypeOK
    RecordedAsMeasured
    OneSummaryRowEach
    FileLagsByOneRow
    ColoursAreTrue
    LeavesNoContainer
PROPERTIES
    Finishes
\* The run ends.
CHECK_DEADLOCK FALSE
