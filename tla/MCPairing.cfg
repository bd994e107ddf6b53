SPECIFICATION Spec
CONSTANTS
    None = None
    Torn = Torn
    Proc = {p1, p2}
    Enrollment = {e1, e2}
    Nonce = {n1, n2}
    Window = {w1}
    Key = {k1, k2}
    window_ttl = 2
    max_accepts = 1
    throttle_window = 1
    max_attempts = 1
    MaxTime = 1
    MaxAttempts = 2
    MaxCrashes = 1
CONSTRAINT Apart
SYMMETRY Symmetry
CHECK_DEADLOCK FALSE
INVARIANT EvidenceBacked
INVARIANT WindowBounds
INVARIANT SerialStoreIsSafe
