SPECIFICATION StoreSpec
CONSTANTS
    Writers = {w1}
    Readers = {r1, r2}
    Pieces = 2
    MaxWrites = 4
    Specs <- MCSpecs
    ModuleAt <- MCModuleAt
    StringRank <- MCStringRank
CHECK_DEADLOCK FALSE
INVARIANTS
    ReadWhole
    LastWriteInPlace
    ReadBack
    RemovedIsForgotten
SYMMETRY Symmetric
