SPECIFICATION Spec
CONSTANTS
    None = None
    Worker = {w1, w2}
    Session = {s1}
    Fingerprint = {f1}
    Nonce = {n1, n2}
    Text <- MCText
    Sig <- MCSig
    REQUIRE_APPROVAL = TRUE
    NONCE_TTL = 1
    Grace = 1
    UseDjango = TRUE
    MaxTime = 2
SYMMETRY Symmetry
INVARIANT NonceConsumedOnce
CHECK_DEADLOCK FALSE
