CONSTANTS
    Instances = {i1, i2}
    MaxGen = 2
    MaxSlots = 3
    MaxCatchUp = 2
    MaxBoots = 3
    Mishaps = {"late", "sync", "error"}
SPECIFICATION Spec
INVARIANTS GenerationsDiffer NoHoleIsLeft OwedSliceRuns
CHECK_DEADLOCK FALSE
