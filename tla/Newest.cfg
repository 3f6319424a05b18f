SPECIFICATION Spec
CONSTANTS
    WordDelta <- Letters
    VersionOf <- MCVersionOf
    Words <- MCWords
    Inputs <- MCInputs
CHECK_DEADLOCK FALSE
INVARIANTS
    OrderLaws
    PicksAgree
    PessimisticIsInterval
    MergedAsUpstream
