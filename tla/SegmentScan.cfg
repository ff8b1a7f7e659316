SPECIFICATION ScanSpec
CONSTANTS
    Hole = Hole
    CoalesceGap = 2
    Length = 6
    Stamps = {1, 2}
INVARIANTS
    CacheIsLastWritten
    ScansAreExact
    PlansAreTight
