CONSTANTS
    N = 4
    Pipelines <- AllPipelines
    MaxParallel = 2
    MaxRuns = 1
    MaxWakes = 0
    MayCancel = TRUE
    MayFail = FALSE
    FromNode = FALSE
SPECIFICATION Spec
INVARIANTS NeverBroken UpstreamFirst EndsAsRouted
CHECK_DEADLOCK FALSE
