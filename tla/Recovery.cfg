SPECIFICATION Spec
CONSTANTS
    Rocks <- ThreeRocks
    Name <- CatName
    Ver <- CatVer
    Items = {"foo", "foo.init", "bar"}
    InitBase <- InitOf
    Declared <- MixDeclared
    Bins <- ShareBins
    Staged <- MixStaged
    Wrapped = {"b1"}
    UserFiles <- LuaFoo
    Clients = {c1}
    MaxFailures = 1
INVARIANTS
    TypeOK
    ManifestSound
    SnapshotFresh
PROPERTIES
    RemovalIsClean
    RemovalIsComplete
    InstallTakesEffect
    ImplementsIndex
