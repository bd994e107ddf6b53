SPECIFICATION EstateSpec
CONSTANTS
    Nothing = Nothing
    Garbage = Garbage
    Plain = Plain
    k1 = k1
    k2 = k2
    Fp = {k1, k2}
    Live = k1
    Old = k2
    Expected = Nothing
    Expires <- MCExpires
    EXPIRY_WARN = 0
    MAX_BACKUP_AGE = 1
    Retain = 1
    MaxDays = 2
    MaxChanges = 3
    Puts <- MCPuts
    Upkeeps <- MCUpkeeps
    Edits <- MCEdits
CONSTRAINT Apart
CHECK_DEADLOCK FALSE
INVARIANT BillOutlastsLoss
INVARIANT RemovedKeyIsQuarantined
PROPERTY BoundaryHolds
