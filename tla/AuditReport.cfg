CONSTANTS
    None = None
    Specialists = {s1}
    MaxConcurrency = 2
    ReleaseFails = FALSE
    DisconnectFails = TRUE
    MaxHead = 1
    MaxBurst = 4
SPECIFICATION FairSpec
INVARIANT ReportAgrees
PROPERTIES ImplementsRun RunEnds
CHECK_DEADLOCK FALSE
