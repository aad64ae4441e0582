CONSTANTS
    None = None
    Specialists = {s1, s2}
    MaxConcurrency = 2
    ReleaseFails = TRUE
    DisconnectFails = FALSE
    MaxHead = 0
    MaxBurst = 4
SPECIFICATION Spec
INVARIANTS WorktreeOutlivesSession CleanEnd StagesTold CancelHonoured
CHECK_DEADLOCK FALSE
