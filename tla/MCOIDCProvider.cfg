SPECIFICATION Spec
CONSTANTS
    None = None
    NONCE_TTL = 0
    Grace = 1
    UseDjango = FALSE
    Fp = {alice, bob}
    Text <- MCText
    Sig <- MCSig
    Client = {c1, c2}
    Verifier = {v1}
    Cred = {k1}
    c1 = c1
    c2 = c2
    v1 = v1
    Begins <- MCBegins
    KeyChanges = {None}
    REQUEST_TTL = 0
    CODE_TTL = 0
    CHALLENGE_TTL = 0
    MaxRequests = 2
    MaxCodes = 2
    MaxNonces = 2
    MaxTickets = 1
    MaxChallenges = 1
    MaxTime = 1
SYMMETRY Symmetry
CHECK_DEADLOCK FALSE
INVARIANT ProofIsOwnAndSingle
INVARIANT TokenBoundToLogin
PROPERTY ImplementsLoginFlow
