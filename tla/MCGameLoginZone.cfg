\* A timed ban and the clock: the panel shows the ban to end at time 1.
SPECIFICATION Spec
CONSTANTS
    Names = {alice}
    Players = {p1}
    Admins = {}
    AdminOps = {"ban"}
    AdminUids = {}
    BanEnds = {1}
    BaseUid = 1
    MaxUid = 3
    TokenTTL = 1
    Zone = 1
    MaxTime = 2
    MaxRequests = 2
    MaxAdminOps = 1
    MaxFailures = 0
INVARIANT TimedBanEnds
CHECK_DEADLOCK FALSE
