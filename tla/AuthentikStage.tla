--------------------------- MODULE AuthentikStage ---------------------------
(***************************************************************************)
(* The Authentik flow stage, capauth/authentik/stage.py, as gunicorn runs   *)
(* it: several workers share the Django cache (the nonce store) and the     *)
(* database (the key registry), and a request is a sequence of reads and    *)
(* writes of the two.  Each of them is a step, so the requests interleave   *)
(* wherever the code lets them.                                             *)
(***************************************************************************)
EXTENDS NonceStore, KeyText

CONSTANTS
    Worker,           \* gunicorn workers
    Session,          \* browser sessions, each with one flow plan
    Fingerprint, Nonce,
    Text,             \* public_key texts: with one key, several, or none
    Sig,              \* what is posted as a signature with them
    REQUIRE_APPROVAL, \* require_enrollment_approval of the stage
    MaxTime           \* bound on the clock

\* A signature, with the nonce of the challenge it is over.
Signature == [by : Fingerprint, detached : BOOLEAN, over : Nonce]
\* A row of CapAuthKeyRegistry (last_auth is never read), and for the record the
\* signature it was created upon.
KeyRow == [key : Text, approved : BOOLEAN, linked_to : Fingerprint \cup {None},
           proof : Signature]
\* What get_challenge and challenge_valid stash in plan.context.
Context == [nonce : Nonce, fp : Fingerprint]
IssueRecord == [to : Fingerprint, at : Nat]
\* A full signed response.  sig is None when it is no signature at all, or comes
\* with claims that are not signed well, which ends the same way.
Request == [session : Session, fp : Fingerprint, nonce : Nonce,
            key : Text \cup {None}, sig : Sig]
\* A completed stage: the user it logged in, and for which response.
Login == [user : Fingerprint, fp : Fingerprint, nonce : Nonce, text : Text,
          sig : Signature, checkedAt : Nat]

ASSUME StageAssumption ==
    /\ MaxTime \in Nat
    /\ REQUIRE_APPROVAL \in BOOLEAN /\ UseDjango
    /\ Text \subseteq KeyTexts(Fingerprint) /\ Sig \subseteq Signature \cup {None}
    /\ None \notin Fingerprint /\ None \notin KeyTexts(Fingerprint)
    /\ None \notin KeyRow /\ None \notin Context /\ None \notin IssueRecord
    /\ None \notin NonceRecord(Fingerprint)
    /\ None \notin Request /\ None \notin Signature
    /\ None \notin [record : NonceRecord(Fingerprint), at : Nat]

VARIABLES
    now,
    cache,       \* the Django cache
    registry,    \* Fingerprint -> row or None
    context,     \* plan.context of each session, as the next request loads it
    pc,          \* where each worker is in challenge_valid
    req,         \* the request it handles
    key,         \* the text of keys it verifies with
    over,        \* the nonce of the challenge context it verifies over
    rec,         \* the nonce record it read in consume()
    user,        \* the effective fingerprint of the row it loaded
    logins,      \* completed stages
    issued,      \* history: nonce -> whom and when, or None
    consumed,    \* history: how often consume() accepted the nonce
    approvals,   \* history: fingerprints an admin approved, not removed since
    links        \* history: the links an admin ever made, fingerprint to fingerprint

local == <<req, key, over, rec, user>>
history == <<issued, consumed, approvals, links>>
vars == <<now, cache, registry, context, pc, local, logins, history>>

Init ==
    /\ now = 0
    /\ cache = [n \in Nonce |-> None]
    /\ registry = [f \in Fingerprint |-> None]
    /\ context = [s \in Session |-> None]
    /\ pc = [w \in Worker |-> "idle"]
    /\ req = [w \in Worker |-> None] /\ key = [w \in Worker |-> None]
    /\ over = [w \in Worker |-> None] /\ rec = [w \in Worker |-> None]
    /\ logins = {}
    /\ issued = [n \in Nonce |-> None]
    /\ consumed = [n \in Nonce |-> 0]
    /\ approvals = {} /\ links = {}
    /\ user = [w \in Worker |-> None]

Goto(w, label) == pc' = [pc EXCEPT ![w] = label]

\* challenge_invalid() or stage_ok(): the request is over.
Finish(w) ==
    /\ Goto(w, "idle")
    /\ req' = [req EXCEPT ![w] = None] /\ key' = [key EXCEPT ![w] = None]
    /\ over' = [over EXCEPT ![w] = None] /\ rec' = [rec EXCEPT ![w] = None]
    /\ user' = [user EXCEPT ![w] = None]

-----------------------------------------------------------------------------
\* get_challenge, and challenge_valid on a bare fingerprint: build_challenge()
\* and the stash of it in plan.context.  The session does not notice that the
\* plan was changed in place, so the stash may or may not outlive the request.
get_challenge(s, n, f) ==
    /\ issued[n] = None
    /\ cache' = issue(cache, n, f, now)
    /\ issued' = [issued EXCEPT ![n] = [to |-> f, at |-> now]]
    /\ \E saved \in BOOLEAN :
          context' = IF saved THEN [context EXCEPT ![s] = [nonce |-> n, fp |-> f]]
                              ELSE context
    /\ UNCHANGED <<now, registry, pc, local, logins, consumed, approvals, links>>

\* The challenge a signed response is checked against: the stashed one, else
\* one rebuilt from the nonce record.
ChallengeContext(r) ==
    LET record == peek(cache, r.nonce, now)
    IN  IF context[r.session] # None THEN context[r.session]
        ELSE IF record # None THEN [nonce |-> r.nonce, fp |-> record.fingerprint]
        ELSE None

\* challenge_valid up to the choice of the key: the challenge must be the poster's.
Receive(w, r) ==
    LET c == ChallengeContext(r)
    IN  /\ pc[w] = "idle"
        /\ c # None /\ c.fp = r.fp
        /\ Goto(w, "resolve")
        /\ req' = [req EXCEPT ![w] = r]
        /\ over' = [over EXCEPT ![w] = c.nonce]
        /\ UNCHANGED <<now, cache, registry, context, key, rec, user, logins, history>>

\* The text to verify with: the one that was sent, else the registry is read.
ResolvedKey(r) ==
    IF r.key # None \/ registry[r.fp] = None THEN r.key ELSE registry[r.fp].key

\* A faulty variant: the submitted key is not compared with the fingerprint.
ResolveUncheckedKey(w) ==
    LET k == ResolvedKey(req[w])
    IN  /\ pc[w] = "resolve"
        /\ IF k # None
           THEN /\ Goto(w, "get")
                /\ key' = [key EXCEPT ![w] = k]
                /\ UNCHANGED <<req, over, rec, user>>
           ELSE Finish(w)
        /\ UNCHANGED <<now, cache, registry, context, logins, history>>

\* The key is looked up, when none was sent, and compared with the fingerprint.
Resolve(w) ==
    LET k == ResolvedKey(req[w])
    IN  /\ pc[w] = "resolve"
        /\ IF k # None /\ matches(k, req[w].fp)
           THEN /\ Goto(w, "get")
                /\ key' = [key EXCEPT ![w] = k]
                /\ UNCHANGED <<req, over, rec, user>>
           ELSE Finish(w)
        /\ UNCHANGED <<now, cache, registry, context, logins, history>>

\* consume(): cache.get and the checks on what it returned.
ConsumeGet(w) ==
    /\ pc[w] = "get"
    /\ LET record == peek(cache, req[w].nonce, now)
       IN  IF consumeError(record, req[w].fp, now) = ""
           THEN /\ Goto(w, "set")
                /\ rec' = [rec EXCEPT ![w] = [record |-> record, at |-> now]]
                /\ UNCHANGED <<req, key, over, user>>
           ELSE Finish(w)
    /\ UNCHANGED <<now, cache, registry, context, logins, history>>

\* verify_nonce_signature() on the payload of the challenge context.
SignatureGood(w) ==
    LET sig == req[w].sig
    IN  sig # None /\ sig.over = over[w] /\ verify_signature(sig, key[w])

\* consume(): cache.set; then the signatures, which read no shared state.
ConsumeSet(w) ==
    /\ pc[w] = "set"
    /\ cache' = markUsed(cache, req[w].nonce, rec[w].record, now)
    /\ consumed' = [consumed EXCEPT ![req[w].nonce] = @ + 1]
    /\ IF SignatureGood(w)
       THEN Goto(w, "exists") /\ UNCHANGED local
       ELSE Finish(w)
    /\ UNCHANGED <<now, registry, context, logins, issued, approvals, links>>

\* is_new = not ...filter(fingerprint).exists()
EnrollCheck(w) ==
    /\ pc[w] = "exists"
    /\ Goto(w, IF registry[req[w].fp] = None THEN "create" ELSE "load")
    /\ UNCHANGED <<now, cache, registry, context, local, logins, history>>

\* The row create() inserts: the verified key, approved as the stage says; and a
\* faulty variant, approved whatever it says.
ApprovedRow(w) ==
    [key |-> key[w], approved |-> TRUE, linked_to |-> None, proof |-> req[w].sig]
NewRow(w) ==
    [key |-> key[w], approved |-> ~REQUIRE_APPROVAL, linked_to |-> None, proof |-> req[w].sig]

\* ...objects.create(); the fingerprint is the primary key, so a worker that
\* lost the race gets an IntegrityError and the request fails.
EnrollCreate(w) ==
    /\ pc[w] = "create"
    /\ IF registry[req[w].fp] = None
       THEN /\ registry' = [registry EXCEPT ![req[w].fp] = NewRow(w)]
            /\ Goto(w, "load") /\ UNCHANGED local
       ELSE Finish(w) /\ UNCHANGED registry
    /\ UNCHANGED <<now, cache, context, logins, history>>

\* CapAuthKeyRegistry.effective_fingerprint, of the row of f.
effective_fingerprint(f) ==
    IF registry[f].linked_to = None THEN f ELSE registry[f].linked_to

\* ...objects.get(), and the approval check.
LoadRow(w) ==
    /\ pc[w] = "load"
    /\ IF registry[req[w].fp] # None /\ registry[req[w].fp].approved
       THEN /\ Goto(w, "finish")
            /\ user' = [user EXCEPT ![w] = effective_fingerprint(req[w].fp)]
            /\ UNCHANGED <<req, key, over, rec>>
       ELSE Finish(w)
    /\ UNCHANGED <<now, cache, registry, context, logins, history>>

\* last_auth, get_or_create of the user, and stage_ok(), which ends the plan.
StageOk(w) ==
    /\ pc[w] = "finish"
    /\ logins' = logins \cup {[user |-> user[w], fp |-> req[w].fp, nonce |-> req[w].nonce,
                               text |-> key[w], sig |-> req[w].sig,
                               checkedAt |-> rec[w].at]}
    /\ context' = [context EXCEPT ![req[w].session] = None]
    /\ Finish(w)
    /\ UNCHANGED <<now, cache, registry, history>>

-----------------------------------------------------------------------------
(* The Django admin, through the model (external to the stage).             *)

Approve(f) ==
    /\ registry[f] # None
    /\ registry' = [registry EXCEPT ![f].approved = TRUE]
    /\ approvals' = approvals \cup {f}
    /\ UNCHANGED <<now, cache, context, pc, local, logins, issued, consumed, links>>

Remove(f) ==
    /\ registry[f] # None
    /\ registry' = [registry EXCEPT ![f] = None]
    /\ approvals' = approvals \ {f}
    /\ UNCHANGED <<now, cache, context, pc, local, logins, issued, consumed, links>>

\* Another device of the holder of g.
Link(f, g) ==
    /\ registry[f] # None
    /\ registry' = [registry EXCEPT ![f].linked_to = g]
    /\ links' = links \cup {<<f, g>>}
    /\ UNCHANGED <<now, cache, context, pc, local, logins, issued, consumed, approvals>>

Tick ==
    /\ now < MaxTime
    /\ now' = now + 1
    /\ UNCHANGED <<cache, registry, context, pc, local, logins, history>>

Next ==
    \/ \E s \in Session, n \in Nonce, f \in Fingerprint : get_challenge(s, n, f)
    \/ \E w \in Worker, r \in Request : Receive(w, r)
    \/ \E w \in Worker : Resolve(w) \/ ConsumeGet(w) \/ ConsumeSet(w)
    \/ \E w \in Worker : EnrollCheck(w) \/ EnrollCreate(w)
    \/ \E w \in Worker : LoadRow(w) \/ StageOk(w)
    \/ \E f \in Fingerprint : Approve(f) \/ Remove(f)
    \/ \E f, g \in Fingerprint : f # g /\ Link(f, g)
    \/ Tick

Spec == Init /\ [][Next]_vars

-----------------------------------------------------------------------------
\* Every variable holds a value of its type.
TypeOK ==
    /\ now \in Nat
    /\ cache \in [Nonce -> NonceRecord(Fingerprint) \cup {None}]
    /\ registry \in [Fingerprint -> KeyRow \cup {None}]
    /\ context \in [Session -> Context \cup {None}]
    /\ pc \in [Worker -> {"idle", "resolve", "get", "set", "exists", "create", "load",
                       "finish"}]
    /\ req \in [Worker -> Request \cup {None}]
    /\ key \in [Worker -> Text \cup {None}]
    /\ over \in [Worker -> Nonce \cup {None}]
    /\ rec \in [Worker -> [record : NonceRecord(Fingerprint), at : Nat] \cup {None}]
    /\ user \in [Worker -> Fingerprint \cup {None}]
    /\ logins \subseteq Login
    /\ issued \in [Nonce -> IssueRecord \cup {None}]
    /\ consumed \in [Nonce -> Nat]
    /\ approvals \subseteq Fingerprint
    /\ links \subseteq Fingerprint \X Fingerprint

\* However the workers and the admin interleave, a row comes with a proof: a signature,
\* over a challenge issued to its fingerprint, that was checked against the very text
\* the row keeps, and by that fingerprint's key or by one in a text that passes for it.
RegistryProven ==
    \A f \in Fingerprint : registry[f] # None =>
        LET row == registry[f]
        IN  /\ matches(row.key, f) /\ row.proof.by \in row.key.keys
            /\ SignedFor(f, row.proof, row.key)
            /\ issued[row.proof.over] # None /\ issued[row.proof.over].to = f

\* A login rests on a signature over a challenge issued to the fingerprint that
\* answered, made by its own key or by one in a text that passed for it, and on a nonce
\* issued to it that had not expired when consume() read it; the user is that
\* fingerprint, or one an admin linked it to.
StageProvenance ==
    \A l \in logins :
        /\ SignedFor(l.fp, l.sig, l.text)
        /\ issued[l.sig.over] # None /\ issued[l.sig.over].to = l.fp
        /\ issued[l.nonce] # None /\ issued[l.nonce].to = l.fp
        /\ l.checkedAt <= issued[l.nonce].at + NONCE_TTL
        /\ l.user # l.fp => <<l.fp, l.user>> \in links

\* With REQUIRE_APPROVAL a request gets past the approval check only for a
\* fingerprint an admin approved since its row was last created, although other
\* workers create and admins remove the row while the request is under way.
PassesOnlyApproved ==
    [][\A w \in Worker :
          REQUIRE_APPROVAL /\ pc[w] = "load" /\ pc'[w] = "finish"
              => req[w].fp \in approvals]_vars

\* consume() accepts a nonce at most once.
NonceConsumedOnce == \A n \in Nonce : consumed[n] <= 1
=============================================================================
