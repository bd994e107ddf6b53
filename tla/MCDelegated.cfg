SPECIFICATION Spec
CONSTANTS
    None = None
    d1 = d1
    d2 = d2
    c1 = c1
    c2 = c2
    p1 = p1
    p2 = p2
    user = user
    guest = guest
    i1 = i1
    x = x
    w = w
    r = r
    Decision = {d1, d2}
    Credential = {c1, c2}
    PrincipalId = {p1, p2}
    Kind = {user, guest}
    enrolled <- MCEnrolled
    Scope <- MCScope
    Issuer = {i1, x}
    OwnIssuer = {i1}
    Update <- MCUpdate
    Root <- MCRoot
    Invocation <- MCInvocation
    Extension <- MCExtension
    Ttl = {2}
    trusted <- MCTrusted
    Foreign <- MCForeign
    MAX_DELEGATION_DEPTH = 1
    MAX_TTL = 2
    MaxEvents = 3
    MaxIssueTime = 0
SYMMETRY Symmetry
CHECK_DEADLOCK FALSE
INVARIANT SingleUse
INVARIANT AllowIsAccountable
INVARIANT ChainsAreMonotonic
