SPECIFICATION InstallsOnly
CONSTANTS
    Rocks <- ThreeRocks
    Name <- CatName
    Ver <- CatVer
    Items = {"foo"}
    InitBase <- NoInit
    Declared <- FooDeclared
    Bins <- NoBins
    Staged <- FooStaged
    Wrapped = {}
    UserFiles <- AllFoo
    Clients = {c1}
    MaxFailures = 0
INVARIANTS
    ActiveServed
    ActiveIsBest
    NoModuleLost
PROPERTIES
    UserFileKept
