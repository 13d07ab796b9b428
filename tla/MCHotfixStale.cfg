\* A request reads a file, the file changes, a reload reads it again.
SPECIFICATION Spec
CONSTANTS
    Keys = {k1}
    Contents = {c1, c2}
    Loaders = {p1}
    Reloaders = {signal}
    MaxReloads = 1
    MaxEdits = 2
INVARIANT ReloadTakesEffect
CHECK_DEADLOCK FALSE
