\* Both methods, with and without max_concurrent, against every service.
CONSTANTS
    Methods <- MCMethods
    InitConcurrents <- MCInitConcurrents
    MaxConcurrents <- MCMaxConcurrents
    StopNs <- MCStopNs
    Capacity = 20
SPECIFICATION FairSpec
INVARIANTS
    TypeOK
    WithinMax
    Bracketed
    BestIsTight
    FindsMaximum
PROPERTIES
    Terminates
\* The search ends.
CHECK_DEADLOCK FALSE
