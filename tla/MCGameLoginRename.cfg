\* A rename between two statements of a login.
SPECIFICATION Spec
CONSTANTS
    Names = {alice, bob}
    Players = {p1, p2}
    Admins = {a1}
    AdminOps = {"ban", "rename"}
    AdminUids = {}
    BanEnds = {}
    BaseUid = 1
    MaxUid = 3
    TokenTTL = 1
    Zone = 1
    MaxTime = 0
    MaxRequests = 4
    MaxAdminOps = 1
    MaxFailures = 0
INVARIANT BannedNeverAdmitted
CHECK_DEADLOCK FALSE
