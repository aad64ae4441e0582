CONSTANTS
    a = a
    b = b
    c = c
    None = None
    Stages = {a, b, c}
    Workflows <- AllWorkflows
    MaxConcurrency = 2
    SinkSuspends = FALSE
    SinkRaises = FALSE
    RunnersFail = {a, b, c}
    CanCancel = TRUE
    CanAbort = TRUE
SPECIFICATION FairSpec
INVARIANTS NothingStranded LogTellsAll
PROPERTIES ImplementsDag Terminates
CHECK_DEADLOCK FALSE
