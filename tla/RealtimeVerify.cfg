\* Audio of up to two chunks and three other messages, of which the server may
\* leave two unread; a server with and without the model, two events that the
\* client passes over, and every failure of either side.
CONSTANTS
    Capacity = 2
    MaxChunks = 2
    MaxNoise = 2
SPECIFICATION FairSpec
INVARIANTS
    TypeOK
    PassedIsEarned
    FailedIsDeserved
PROPERTIES
    EveryVerificationEnds
\* The script ends.
CHECK_DEADLOCK FALSE
