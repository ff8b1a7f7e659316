SPECIFICATION Spec
CONSTANTS
    Sources <- MCSources
    Endpoints = {"one", "two"}
    Tags = {1}
    Object <- MCObject
    Queries <- MCQueries
    Contents <- MCContents
    U32 = 4
    MaxOpens = 2
    MaxAsks = 2
    MaxMoves = 1
    MaxEndpoints = 1
    MaxClicks = 1
INVARIANTS
    TablesAreOfTheirFiles
    QueriesReadTheirFile
    PanelDescribesItsFile
    PanelShowsItsSelection
PROPERTY LoadsEndInTheOpen
\* the bounds end the behaviour, and a panic stops the page
CHECK_DEADLOCK FALSE
