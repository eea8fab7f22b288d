\* Four names, two seconds, two findings in a page and in a chunk, one name too many.
SPECIFICATION Spec
CONSTANTS
    Ids <- MCIds
    Limit = 2
    ChunkSize = 2
    MaxScan = 3
    MaxClock = 2
INVARIANTS
    TypeOK
    NothingTwice
    NothingMissed
\* A client ends.
CHECK_DEADLOCK FALSE
