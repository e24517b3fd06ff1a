SPECIFICATION FairSpec
CONSTANTS
    Consumers = {c1, c2, c3}
    maxMessageCount = 3
    coverageMode = TRUE
    MaxPush = 7
INVARIANTS TypeOK NoLostWakeup
PROPERTIES ImplementsFifo HeadIsTaken
CHECK_DEADLOCK FALSE
