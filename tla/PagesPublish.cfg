SPECIFICATION PagesSpec
CONSTANTS
    LastCommit = 3
    LastRun = 2
    LookupsFail = TRUE
PROPERTY HistoryIsKept
\* the bounds end the behaviour
CHECK_DEADLOCK FALSE
