SPECIFICATION Spec
CONSTANTS
    None = None
    Fingerprint = {f1, f2}
    Nonce = {n1}
    Claim = {c1}
    QR_PENDING = QR_PENDING
    Text <- MCText
    Proof <- MCProof
    NONCE_TTL = 1
    Grace = 1
    JWT_EXPIRY = 2
    MaxTime = 3
    UseDjango = FALSE
    REQUIRE_APPROVAL = FALSE
SYMMETRY Symmetry
INVARIANT QrLoginAccepted
