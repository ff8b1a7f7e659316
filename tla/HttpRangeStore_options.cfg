SPECIFICATION FairSpec
CONSTANTS
    Hole = Hole
    CoalesceGap = 1
    Readers = {r1}
    Calls <- OptionCalls
    LastVersion = 2
    Size <- GrownFile
    TailLength = 2
    Exposed <- HiddenRange
    MayIgnoreRanges = TRUE
    OpenFirst = TRUE
PROPERTIES
    ImplementsPromise
    EveryCallEnds
