SPECIFICATION FairSpec
CONSTANTS
    Writers = {processor}
    Flushers = {timer}
    owner = main
    MayDestroy = FALSE
    NBuf = 3
    buffer_size_ = 9
    MaxMessages = 4
    MaxBacklog = 1
PROPERTIES FlushedReachesFile
CHECK_DEADLOCK FALSE
