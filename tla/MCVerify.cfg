SPECIFICATION Spec
CONSTANTS
    None = None
    Fingerprint = {f1, f2}
    Nonce = {n1}
    Claim = {c1}
    QR_PENDING = QR_PENDING
    Text <- MCText
    Proof <- MCProof
    NONCE_TTL = 1
    Grace = 1
    JWT_EXPIRY = 1
    MaxTime = 2
    UseDjango = FALSE
    REQUIRE_APPROVAL = TRUE
SYMMETRY Symmetry
INVARIANT NonceConsumedOnce
INVARIANT TokenProvenance
INVARIANT RevocationTakesEffect
INVARIANT GenuineLoginAccepted
PROPERTY LoginNeedsApproval
