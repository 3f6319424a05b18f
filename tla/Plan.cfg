SPECIFICATION Spec
CONSTANTS
    Names = {"r", "a", "b", "c"}
    Versions = {1, 2}
    Root = "r"
    Worlds <- ManyWorlds
    MaxInstalls = 2
CHECK_DEADLOCK FALSE
INVARIANTS
    PlanIsExact
    CycleIsReal
PROPERTIES
    DepsBeforeRock
    InstallEnds
