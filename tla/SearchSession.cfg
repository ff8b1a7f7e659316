SPECIFICATION FairSpec
CONSTANTS
    Searches = {s1, s2}
    Opener = opener
    LastVersion = 3
    Failures = {TRUE, FALSE}
    Overlaps = {TRUE, FALSE}
INVARIANT RepublicationIsInvisible
PROPERTIES
    SearchesNeverGoBack
    EverySearchEnds
\* the session is not created when its first requests fail
CHECK_DEADLOCK FALSE
