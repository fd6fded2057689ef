\* The same context twice in one group.
CONSTANTS
    Engines = {"sglang"}
    EngineOf <- OneGroup
    Contexts <- SameContext
    EffectiveCmd <- Shared
    External <- MCExternal
    BenchOnly = {FALSE}
    HealthFirst = TRUE
    SearchMethod = "stopN"
    StopN = 1
    DefaultInit = 2
    DefaultMax = 3
    Methods <- MCMethods
    InitConcurrents <- MCInitConcurrents
    MaxConcurrents <- MCMaxConcurrents
    StopNs <- MCStopNs
    Capacity = 3
SPECIFICATION Spec
INVARIANTS
    ColoursAreTrue
\* The run ends.
CHECK_DEADLOCK FALSE
