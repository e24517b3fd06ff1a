SPECIFICATION FairSpec
CONSTANTS
    Workers = {w1}
    Clients = {t1, t2}
    max_task_num = 1
    TasksMayEnqueue = FALSE
    MaxCalls = 4
PROPERTIES EveryTaskRuns
CHECK_DEADLOCK FALSE
