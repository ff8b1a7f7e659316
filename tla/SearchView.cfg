SPECIFICATION FairSpec
CONSTANTS
    Queries = {a, b}
    MaxRefreshes = 4
INVARIANTS
    SettledResultsAreCurrent
    SpinnerIsHonest
PROPERTY PanelSettles
\* the bound on refreshes ends the behaviour
CHECK_DEADLOCK FALSE
