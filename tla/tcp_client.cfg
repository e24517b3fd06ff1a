SPECIFICATION ClientFairSpec
CONSTANTS
    s1 = s1
    s2 = s2
    Sessions = {s1, s2}
    Paced = TRUE
    MaxPieces <- Pieces
    MaxSends <- Sends
    app = app
    NoSession = NoSession
    QueueCapacity = 1
INVARIANTS ClientTypeOK ReturnedInOrder ServedWhileOpen
PROPERTIES SentGoesOut ThreadsLeave
\* Nobody has to use the client, and it may be destroyed.
CHECK_DEADLOCK FALSE
