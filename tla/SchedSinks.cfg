CONSTANTS
    a = a
    b = b
    c = c
    None = None
    Stages = {a, b, c}
    Workflows <- FewWorkflows
    MaxConcurrency = 2
    SinkSuspends = TRUE
    SinkRaises = TRUE
    RunnersFail = {a, b}
    CanCancel = TRUE
    CanAbort = FALSE
SPECIFICATION Spec
INVARIANTS ReturnMeansQuiet OutcomeAccurate
CHECK_DEADLOCK FALSE
