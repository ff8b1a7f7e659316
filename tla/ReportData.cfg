SPECIFICATION ReportSpec
CONSTANTS
    Comparable <- SomeComparable
    FeaturesOf <- SomeFeatures
    FileFeature = "functional"
    Results <- SomeResults
    Candidates <- SomeCandidates
    LastPublished = 3
INVARIANTS
    RatesAreTrue
    FailuresAreFound
    CommentIsTrue
PROPERTIES
    RefreshKeepsReport
    LogsStayFindable
\* the bound ends the behaviour before the first run is published
CHECK_DEADLOCK FALSE
