SPECIFICATION ServerSpec
CONSTANTS
    s1 = s1
    s2 = s2
    Sessions = {s1, s2}
    Paced = TRUE
    MaxPieces <- Pieces
    MaxSends <- Sends
    app = app
    PoolSize = 2
    QueueCapacity = 4
    Vanishing = {s1}
    Idling = {s2}
INVARIANTS ServerTypeOK EndToEnd TableAgrees OneWriteInOrder WriterKeepsGoing
\* The server stops.
CHECK_DEADLOCK FALSE
