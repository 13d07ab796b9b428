\* No failing statement, no restart: the last flush alone is in question.
SPECIFICATION Spec
CONSTANTS
    VersionKeys = {v1}
    Readers = {}
    MaxRequests = 2
    MaxFailures = 0
    MaxStarts = 0
PROPERTY LastFlushIsLast
CHECK_DEADLOCK FALSE
