SPECIFICATION Spec
CONSTANTS
    Writers = {processor}
    Flushers = {timer}
    owner = main
    MayDestroy = FALSE
    NBuf = 3
    buffer_size_ = 2
    MaxMessages = 5
    MaxBacklog = 1
INVARIANTS NothingLost
CHECK_DEADLOCK FALSE
