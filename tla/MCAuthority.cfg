SPECIFICATION AuthzSpec
CONSTANTS
    Absent = Absent
    Torn = Torn
    t1 = t1
    t2 = t2
    legacy = legacy
    full = full
    own = own
    peer = peer
    ownfpr = ownfpr
    suffix = suffix
    IssuerText = {ownfpr, suffix}
    OwnName = ownfpr
    named <- MCNamed
    Proc = {p1, p2}
    TokenId = {t1, t2}
    Name = {legacy, full}
    canon <- MCCanon
    Key = {own, peer}
    OwnKey = own
    keyring = {own, peer}
    Requested = {"skgateway.infer", "skcode.inject"}
    Minted <- MCMinted
    Replicas <- MCReplicas
    Assigned <- MCAssigned
    Enrollments <- MCEnrollments
    GraceUntil = 1
    MaxTime = 2
    MaxCommands = 3
SYMMETRY Symmetry
CHECK_DEADLOCK FALSE
INVARIANT CeilingHolds
INVARIANT GrantIsTraceable
INVARIANT CommandsLast
