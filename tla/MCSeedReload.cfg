\* The check is off at the start and switched on by a reload.
SPECIFICATION Spec
CONSTANTS
    Cells = {c1}
    HexSeeds = {s1, s2}
    Requests = {p1, p2}
    MaxFailures = 0
    MaxStarts = 2
    MaxEdits = 3
PROPERTY NoWritesWhenUnusable
CHECK_DEADLOCK FALSE
