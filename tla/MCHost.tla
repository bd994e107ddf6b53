------------------------------- MODULE MCHost -------------------------------
(* Host with two processes and two threads.                                 *)
EXTENDS Host, TLC

CONSTANTS k1, k2, k3, u1, u2, op, opfpr

MCuid_of == k1 :> u1 @@ k2 :> u1 @@ k3 :> u2
KeyOf(standing, secret) == [standing |-> standing, secret |-> secret]
MCKeyring0 == k1 :> KeyOf("good", "ready") @@ k2 :> Missing @@ k3 :> KeyOf("good", "ready")
MCKeyStates == {Missing, KeyOf("good", "none"), KeyOf("good", "ready"), KeyOf("good", "locked"),
                KeyOf("revoked", "ready"), KeyOf("expired", "none")}

\* The components touch disjoint state, so that they are explored side by side: one
\* leaves its initial state when no other has.
OpRests == jobs = 0 /\ faults = 0 /\ clock = 0 /\ issued = [n \in Nonce |-> None]
           /\ sessions = [j \in Jti |-> None]
StoreRests == store_ops = 0 /\ store_faults = 0
LogRests == appends = 0 /\ tampers = 0
ModRests == edits = 0 /\ listing = Absent
MeshRests == mesh_ops = 0 /\ mesh_time = 0 /\ presence = NoPeers /\ mdns = NoPeers
IdRests == id_time = 0 /\ challenge = [c \in Challenge |-> Unset]
SealRests == keyring_changes = 0 /\ seals = 0
LoginRests == login_time = 0 /\ logins = 0 /\ profile_edits = 0
ClaimRests == requests = {}
Rest == <<OpRests, StoreRests, LogRests, ModRests, MeshRests, IdRests, SealRests, LoginRests, ClaimRests>>
Alone(i) == \A j \in DOMAIN Rest \ {i} : Rest[j]

\* Challenges, sessions and the files of operator sessions: a challenge is issued only when
\* there is no session and no file was touched, a session is minted before a file is
\* touched, and a file is changed a third time only when no time passes.
Unchallenged == issued = [n \in Nonce |-> None]
OneSession ==
    /\ ~Unchallenged => jobs = 0 /\ faults = 0 /\ sessions = [j \in Jti |-> None]
    /\ sessions # [j \in Jti |-> None] => sessions[CHOOSE j \in Jti : TRUE] # None
    /\ jobs > 0 => \A j \in Jti : sessions[j] # None => j = CHOOSE k \in Jti : TRUE
    /\ jobs > 2 => clock = 0

\* A third command of the module registry comes only where a single file name is in use
\* and one manifest at most was written, and none signed.
OnePath ==
    commands > 2 =>
        /\ edits < 2
        /\ \E p \in Path :
           /\ \A q \in Path \ {p} : manifests[q] = Absent /\ signatures[q] = Absent
           /\ \A s \in Shell : command[s] # Absent =>
                 \A m \in Module : command[s].doc[m] # Absent => command[s].doc[m].sig = p

\* Presence files come, and mDNS finds peers, when no thread is saving, to which neither
\* makes a difference; and the registry is changed a fourth time only without such files.
Quiet ==
    /\ presence' # presence \/ (mdns' \notin {mdns, NoPeers} /\ mesh_ops' = mesh_ops) =>
          (\A t \in Thread : AtRest(t)) /\ mesh_ops < 3
    /\ mesh_ops' > 3 => presence = NoPeers

\* The profile is edited only in behaviours where no time passes, every token is for the
\* cache, and none says how long it is good for.
PlainLogin ==
    profile_edits > 0 =>
        /\ login_time = 0 /\ \A g \in granted : ~g.expires
        /\ \A c \in Client : login[c] # Lost => login[c].output = Lost

MCNext ==
    \/ Alone(1) /\ Operator_step /\ OneSession'
    \/ Alone(2) /\ Store_step
    \/ Alone(3) /\ Log_step
    \/ Alone(4) /\ Module_step /\ OnePath'
    \/ Alone(5) /\ Mesh_step /\ Quiet
    \/ Alone(6) /\ Identity_step
    \/ Alone(7) /\ Seal_step
    \/ Alone(8) /\ Login_step /\ PlainLogin'
    \/ Alone(9) /\ Claim_step

MCSpec == Init /\ [][MCNext]_vars

\* A fingerprint that names the operator's key and no other.
MCkeys_named == opfpr :> {op}

MChost_of == [u \in Url |-> u]

Symmetry == Permutations(Proc) \cup Permutations(Device) \cup Permutations(Path)
=============================================================================
