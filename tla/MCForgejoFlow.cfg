SPECIFICATION Spec
CONSTANTS
    None = None
    State = {s1, s2}
    Fp = {alice, bob}
    Client = {forgejo, other}
    client_id = forgejo
    Redirect = {home, away}
    forgejo_redirect_uri = home
    TTL = 1
    JWT_TTL = 1
    LIFETIME = 1
    Claims <- MCClaims
    MaxLogins = 2
    MaxTime = 2
SYMMETRY Symmetry
CHECK_DEADLOCK FALSE
INVARIANT TokenIsProvenInTime
PROPERTY ImplementsLoginFlow
