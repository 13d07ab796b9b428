\* One cell, two seeds, two concurrent requests; a write fails, the process
\* dies and starts again, the operator edits the files, or a reload
\* changes the switch: two of these.
SPECIFICATION FairSpec
CONSTANTS
    Cells = {c1}
    HexSeeds = {s1, s2}
    Requests = {p1, p2}
    MaxFailures = 1
    MaxStarts = 2
    MaxEdits = 2
INVARIANTS
    TypeOK
    AcceptedIsDurable
PROPERTIES
    CollectedOnlyGrows
    UnusableKept
    EveryRequestDecided
CHECK_DEADLOCK FALSE
