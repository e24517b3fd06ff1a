SPECIFICATION FairSpec
CONSTANTS
    Workers = {w1, w2}
    Clients = {t1, t2}
    max_task_num = 4
    TasksMayEnqueue = TRUE
    MaxCalls = 4
INVARIANTS SleepersCovered
PROPERTIES EveryTaskRuns DestructorReturns
CHECK_DEADLOCK FALSE
