SPECIFICATION InstallsOnly
CONSTANTS
    Rocks <- TwoVersions
    Name <- CatName
    Ver <- CatVer
    Items = {"foo"}
    InitBase <- NoInit
    Declared <- FooDeclared
    Bins <- NoBins
    Staged <- FooDeclared
    Wrapped = {}
    UserFiles = {}
    Clients = {c1}
    MaxFailures = 0
INVARIANTS
    NoModuleLost
