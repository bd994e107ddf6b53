SPECIFICATION MCSpec
CONSTANTS
    None = None
    Proc = {p1, p2}
    Device = {d1, d2}
    Jti = {j1, j2}
    Nonce = {n1}
    MAX_TTL = 1
    CHALLENGE_TTL = 1
    MaxTime = 1
    MaxJobs = 4
    MaxFaults = 1
    Idle = Idle
    Store = {p1, p2}
    Handset = {d1, d2}
    MaxStoreOps = 3
    MaxStoreFaults = 1
    Writer = {p1, p2}
    Event = {e1, e2}
    MaxEntries = 3
    MaxTampers = 1
    Absent = Absent
    Broken = Broken
    Shell = {p1, p2}
    Path = {q1, q2}
    Module = {m1, m2}
    Key = {op, other}
    Signer = {opfpr}
    Anyone = Anyone
    opfpr = opfpr
    op = op
    keys_named <- MCkeys_named
    MaxCommands = 3
    MaxEdits = 2
    Nil = Nil
    Thread = {p1, p2}
    Peer = {a1}
    STALE = 0
    MaxMeshTime = 1
    MaxMeshOps = 4
    Unset = Unset
    Prover = {d1, d2}
    Challenge = {c1}
    MAX_AGE = 2
    SKEW = 1
    MaxIdTime = 4
    MaxUses = 2
    Missing = Missing
    k1 = k1
    k2 = k2
    k3 = k3
    u1 = u1
    u2 = u2
    Fpr = {k1, k2, k3}
    Uid = {u1, u2}
    uid_of <- MCuid_of
    Keyring0 <- MCKeyring0
    KeyStates <- MCKeyStates
    MaxKeyring = 3
    MaxSeals = 1
    Lost = Lost
    Half = Half
    Nameless = Nameless
    Out = {out}
    Client = {p1, p2}
    Account = {a1, a2}
    profile = a1
    yml0 = a2
    keys0 = {a2}
    Url = {x1, x2}
    host_of <- MChost_of
    EXPIRES_IN = 1
    MaxLoginTime = 1
    MaxLogins = 2
    MaxProfileEdits = 1
    NoClaim = NoClaim
    Cut = Cut
    Steward = {p1, p2}
    RequestId = {r1}
    ClaimId = {l1}
    MaxClaimOps = 3
SYMMETRY Symmetry
CHECK_DEADLOCK FALSE
INVARIANT SessionsStand
INVARIANT DevicesAsIntended
INVARIANT LogIsEvidence
INVARIANT ModulesAreVouchedFor
INVARIANT PeersAreAsProven
INVARIANT ReplayOnlyAtExpiry
INVARIANT SealReportsAreTrue
INVARIANT LoginIsOfOneIdentity
INVARIANT MembersAreApproved
