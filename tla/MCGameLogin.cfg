\* Three accounts at most, every kind of request and every admin operation, two
\* requests at a time; the largest int is 2, so that the uids run out.
SPECIFICATION Spec
CONSTANTS
    Names = {alice, bob, carol}
    Players = {p1, p2}
    Admins = {p1, p2}
    AdminOps = {"ban", "unban", "reset", "delete", "create", "rename", "uid"}
    AdminUids = {2}
    BanEnds = {}
    BaseUid = 1
    MaxUid = 2
    TokenTTL = 1
    Zone = 1
    MaxTime = 0
    MaxRequests = 3
    MaxAdminOps = 2
    MaxFailures = 1
SYMMETRY Symmetry
INVARIANTS
    TypeOK
    RevokedNeverAccepted
    EntryNeedsLogin
    CreateNeverConflicts
    BannedUnlessMoved
PROPERTY KeysAreSessions
CHECK_DEADLOCK FALSE
