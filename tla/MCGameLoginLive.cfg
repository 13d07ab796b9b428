\* A request of a client and one of the panel, a clock that passes the end of a
\* ban and of a key, and three admin operations: a ban and two that move uids.
SPECIFICATION FairSpec
CONSTANTS
    Names = {alice, bob}
    Players = {p1}
    Admins = {a1}
    AdminOps = {"ban", "unban", "reset", "delete", "create", "rename", "uid"}
    AdminUids = {2}
    BanEnds = {1}
    BaseUid = 1
    MaxUid = 2
    TokenTTL = 1
    Zone = 0
    MaxTime = 2
    MaxRequests = 2
    MaxAdminOps = 3
    MaxFailures = 1
INVARIANTS PanicsOnlyAfterRemoval BannedUnlessMoved
PROPERTY EveryRequestAnswered
CHECK_DEADLOCK FALSE
