CONSTANTS
    N = 4
    Pipelines <- ReusePipelines
    MaxParallel = 2
    MaxRuns = 3
    MaxWakes = 1
    MayCancel = FALSE
    MayFail = TRUE
    FromNode = TRUE
SPECIFICATION FairSpec
INVARIANTS BranchIsKept WorkIsNotRepeated SuccessIsEarned
PROPERTY ExecuteEnds
CHECK_DEADLOCK FALSE
