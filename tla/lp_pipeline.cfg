SPECIFICATION FairPipeSpec
CONSTANTS
    Callers = {t1, t2}
    processor = processor
    timer = timer
    Policies = {file, console}
    FlushCallers = {t1}
    MaxMessages = 2
    console = console
INVARIANTS PipeTypeOK CompleteAtDestroy SleepsAreSafe NothingMissing
PROPERTIES PipelineImplementsLog EveryMessageShown TeardownEnds
CHECK_DEADLOCK FALSE
