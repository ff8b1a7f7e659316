SPECIFICATION FairSpec
CONSTANTS
    Ranges = {"r", "s"}
    MaxVersion = 2
    Batches <- ThreeBatches
    RangesOf <- OverlappingRanges
    Unwritable <- ThirdIsNoCsv
    Step = 2
    OtherReads <- SomeOtherReads
    MaxClicks = 4
    MaxMounts = 2
INVARIANTS
    StreamIsInOnePlace
    ExportsAreComplete
    AnswersAreOfTheirRanges
PROPERTY
    PollsEnd
\* a panic stops the page
CHECK_DEADLOCK FALSE
