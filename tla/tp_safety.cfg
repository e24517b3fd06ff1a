SPECIFICATION Spec
CONSTANTS
    Workers = {w1, w2}
    Clients = {t1, t2}
    max_task_num = 2
    TasksMayEnqueue = TRUE
    MaxCalls = 6
SYMMETRY Symmetry
INVARIANTS TypeOK EachTaskOnce DrainedAtDestroy
PROPERTIES ImplementsExecutor
CHECK_DEADLOCK FALSE
