\* Two stages and two workers; queues of two frames.
SPECIFICATION FairSpec
CONSTANTS
    None = None
    a = a
    b = b
    Stages <- MCStages
    Workflows <- MCWorkflows
    MaxConcurrency = 2
    RunnersFail <- MCFail
    QueueCap = 2
    NumTokens = 1
CHECK_DEADLOCK FALSE
INVARIANTS NothingAfterVerdict SuccessIsComplete WrittenIsIndexed
PROPERTIES OthersKept RequestEnds
