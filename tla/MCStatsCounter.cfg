\* Two version rows, one reader, two requests, one failing statement and one
\* restart: a flush can fail, be repeated and be cut off by a kill.
SPECIFICATION FairSpec
CONSTANTS
    VersionKeys = {v1, v2}
    Readers = {r1}
    MaxRequests = 2
    MaxFailures = 1
    MaxStarts = 1
INVARIANTS
    TypeOK
    Conservation
    ReadNeverAhead
    QuietReadExact
PROPERTIES
    EventuallySaved
    HotImplementsLedger
    VersionsImplementLedger
\* The process may be down for good.
CHECK_DEADLOCK FALSE
