SPECIFICATION Spec
CONSTANTS
    Names = {"x", "y"}
    Rocks <- All
    Plans <- Pairs
    Modules = {1, 2}
    MaxCalls = 2
CHECK_DEADLOCK FALSE
INVARIANTS
    BuiltAtRoot
    NoTempLeft
    StagedIsOwn
