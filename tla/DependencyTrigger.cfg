CONSTANTS
    Pipelines = {1, 2, 3}
    Callers = {x1}
    MaxEdits = 1
    Kinds <- MCKinds
    Outcomes = {"success", "failed"}
    MaxRuns = 1
SPECIFICATION Spec
PROPERTY TriggersInTargetState
CHECK_DEADLOCK FALSE
