SPECIFICATION Spec
CONSTANTS
    Servers = {"dir", "web", "alt"}
    Local = {"dir"}
    Groups <- Merged
    Namespaces = {"base", "ns"}
    Variants <- TwoVariants
    Versions = {"1", "x"}
    Unparsable = {"x"}
    Host = "linux"
    Manifests <- Six
    Offered <- Catalog
    Callers = {"c1", "c2"}
    Sessions <- All
CHECK_DEADLOCK FALSE
INVARIANTS
    CacheHonest
    NoRockHidden
    FirstFoundWins
PROPERTIES
    QueryEnds
