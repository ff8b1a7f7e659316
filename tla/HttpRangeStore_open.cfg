SPECIFICATION Spec
CONSTANTS
    Hole = Hole
    CoalesceGap = 1
    Readers = {r1, r2}
    Calls <- SomeCalls
    LastVersion = 2
    Size <- SameSizes
    TailLength = 2
    Exposed <- AllHeaders
    MayIgnoreRanges = FALSE
    OpenFirst = TRUE
INVARIANTS
    CacheInv
    NeverMixesVersions
    AnswersAreExact
PROPERTIES
    CacheOnlyGrows
    ImplementsPromise
