SPECIFICATION NoAborts
CONSTANTS
    Rocks <- TwoVersions
    Name <- CatName
    Ver <- CatVer
    Items = {"foo"}
    InitBase <- NoInit
    Declared <- FooDeclared
    Bins <- NoBins
    Staged <- NoTargets
    Wrapped = {}
    UserFiles = {}
    Clients = {c1}
    MaxFailures = 0
PROPERTIES
    RemovalSparesOthers
