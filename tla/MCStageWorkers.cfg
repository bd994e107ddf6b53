SPECIFICATION Spec
CONSTANTS
    None = None
    Worker = {w1, w2}
    Session = {s1}
    Fingerprint = {f1, f2}
    Nonce = {n1}
    Text <- MCText
    Sig <- MCSig
    REQUIRE_APPROVAL = TRUE
    NONCE_TTL = 1
    Grace = 2
    UseDjango = TRUE
    MaxTime = 2
SYMMETRY Symmetry
INVARIANT RegistryProven
INVARIANT StageProvenance
PROPERTY PassesOnlyApproved
CHECK_DEADLOCK FALSE
