SPECIFICATION FairSpec
CONSTANTS
    Inputs <- MCInputs
    Codecs = {"lz4_raw", "snappy"}
    Sizes <- MCSizes
    MaxReads = 2
    MaxEdits = 3
    MaxClears = 1
INVARIANTS
    SchemasAgree
    OutputIsWhatWasShown
PROPERTIES
    RewritesLeaveTheList
    ButtonComesBack
\* the bounds on drops, edits and clears end the behaviour
CHECK_DEADLOCK FALSE
