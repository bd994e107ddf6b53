SPECIFICATION FairSpec
CONSTANTS
    None = None
    Session = {s1}
    Socket = {k1, k2}
    RequestId = {r1}
    TTL = 1
    MaxSessions = 1
    DiskErrors = TRUE
    MaxTime = 1
    MaxCrashes = 1
CHECK_DEADLOCK FALSE
INVARIANT StoreCatchesUp
INVARIANT ReplayGuardHolds
INVARIANT RolesAreHeld
PROPERTY ClosedSocketIsReleased
PROPERTY StoreIsDurable
