SPECIFICATION ServerSpec
CONSTANTS
    s1 = s1
    s2 = s2
    Sessions = {s1, s2}
    Paced = FALSE
    MaxPieces <- Pieces
    MaxSends <- Sends
    app = app
    PoolSize = 2
    QueueCapacity = 4
    Vanishing = {}
    Idling = {}
INVARIANT NothingDropped
\* The server stops.
CHECK_DEADLOCK FALSE
