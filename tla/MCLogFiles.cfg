\* Two goroutines and four lines, up to three archives of each of two paths,
\* two failed operations, one kill and two changes of the path.
SPECIFICATION Spec
CONSTANTS
    Paths = {server, data}
    Writers = {w1, w2}
    MaxLines = 4
    MaxArchives = 3
    MaxFailures = 2
    MaxKills = 1
    MaxMoves = 2
SYMMETRY WriterSymmetry
INVARIANTS
    TypeOK
    LinesKept
    LinesOnce
PROPERTIES
    NothingForgotten
    ArchivesKept
    FilesAreJournal
CHECK_DEADLOCK FALSE
