SPECIFICATION Spec
CONSTANTS
    WordDelta <- NoLetters
    Names <- NameList
    InName <- Substrings
    Lower <- LowerCase
    Strings <- StringList
    Host = "linux"
    VMVersion <- VMVersions
    Provides = {"lua", "tarantool"}
    Callers = {"c1", "c2"}
    Worlds <- All
    Pieces = 2
    Inodes = {1, 2, 3, 4, 5, 6}
CHECK_DEADLOCK FALSE
INVARIANTS
    ListingExact
    ListingOrdered
    FailureHonest
    DownloadsWhatInstallUses
    SavedWhole
    ReportIsTrue
