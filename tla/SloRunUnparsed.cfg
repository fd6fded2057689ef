\* Two contexts whose commands differ in a --key=value argument.
CONSTANTS
    Engines = {"sglang"}
    EngineOf <- OneGroup
    Contexts <- TwoContexts
    EffectiveCmd <- OverrideEq
    External <- MCExternal
    BenchOnly = {FALSE}
    HealthFirst = TRUE
    SearchMethod = "stopN"
    StopN = 1
    DefaultInit = 2
    DefaultMax = 3
    Methods <- MCMethods
    InitConcurrents <- MCInitConcurrents
    MaxConcurrents <- MCMaxConcurrents
    StopNs <- MCStopNs
    Capacity = 3
SPECIFICATION Spec
INVARIANTS
    RecordedAsMeasured
\* The run ends.
CHECK_DEADLOCK FALSE
