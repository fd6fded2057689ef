\* Two workers, up to three nodes in batches of two, with a name that is
\* configured twice; slow rounds, exceptions, a clock that is set back and a
\* restart.
CONSTANTS
    Workers = {w1, w2}
    NodeLists <- MCNodeLists
    BATCH_SIZE = 2
    UPDATE_INTERVAL = 1
    CpuWeight = 4
    RawLevels = {120}
    MaxClock = 2
    MaxSetbacks = 1
    MaxRestarts = 1
    MaxRaises = 1
SPECIFICATION FairSpec
INVARIANTS
    TypeOK
    OneUpdaterPerNode
    SecondsCountedOnce
    ModesAddUp
    RoundReachesEveryNode
    RoundsKeepPace
PROPERTIES
    EveryRoundEnds
\* The clock is bounded: at its bound the loop sleeps for ever.
CHECK_DEADLOCK FALSE
