SPECIFICATION Spec
CONSTANTS
    Drivers = {"script", "workflow"}
    Interruptions = TRUE
INVARIANTS
    ClusterIsStopped
    ResultsAreOfACluster
    UncutReportsAreComplete
\* the run ends
CHECK_DEADLOCK FALSE
