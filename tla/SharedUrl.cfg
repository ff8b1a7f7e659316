SPECIFICATION UrlSpec
CONSTANTS
    Queries = {a, b}
    Cases = {x, y}
    Links <- WithoutCase
    MaxEntries = 3
    MaxMoves = 2
INVARIANT UrlNamesThePanel
PROPERTY HistoryIsKept
