\* Two requests for one or two keys, the signal handler and the REPL reload,
\* one edit.
SPECIFICATION FairSpec
CONSTANTS
    Keys = {k1}
    Contents = {c1, c2}
    Loaders = {p1, p2}
    Reloaders = {signal, repl}
    MaxReloads = 2
    MaxEdits = 1
INVARIANTS
    TypeOK
    ReloadExact
    AnswersAreFresh
PROPERTIES
    EntriesSurvive
    EveryCallReturns
CHECK_DEADLOCK FALSE
