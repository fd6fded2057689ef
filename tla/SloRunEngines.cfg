\* Two engines, the second after a failed start of the first.
CONSTANTS
    Engines = {"sglang", "vllm"}
    EngineOf <- TwoEngines
    Contexts <- TwoContexts
    EffectiveCmd <- PerEngine
    External <- MCExternal
    BenchOnly = {FALSE}
    HealthFirst = TRUE
    SearchMethod = "stopN"
    StopN = 1
    DefaultInit = 2
    DefaultMax = 3
    Methods <- MCMethods
    InitConcurrents <- MCInitConcurrents
    MaxConcurrents <- MCMaxConcurrents
    StopNs <- MCStopNs
    Capacity = 3
SPECIFICATION Spec
INVARIANTS
    RecordedAsMeasured
\* The run ends.
CHECK_DEADLOCK FALSE
