SPECIFICATION FairSpec
CONSTANTS
    Writers = {main}
    Flushers = {main}
    owner = main
    MayDestroy = TRUE
    NBuf = 3
    buffer_size_ = 2
    MaxMessages = 6
    MaxBacklog = 3
INVARIANTS TypeOK FileIntact
PROPERTIES PendingIsFrozen WriteReturns FlushReturnsOrSticks
CHECK_DEADLOCK FALSE
