---------------------------- MODULE VerifyService ----------------------------
(***************************************************************************)
(* The CapAuth verification service, capauth/service/app.py: challenge,     *)
(* verify, the QR variant of both, and the admin's approve and revoke.      *)
(*                                                                          *)
(* The handlers are coroutines of one event loop and none of them awaits    *)
(* between its first read and its last write, so a handler is one action.   *)
(* What interleaves is the requests: any client may post any combination of *)
(* a fingerprint, a text of keys, a nonce and the signatures that were ever *)
(* made, so responses are lost (never posted), delayed, duplicated, mixed.  *)
(***************************************************************************)
EXTENDS NonceStore, KeyText

CONSTANTS
    Fingerprint,      \* PGP fingerprints; a fingerprint also names its key pair
    Nonce,            \* nonce ids: uuid4 draws, never drawn twice
    Claim,            \* non-empty claims dictionaries a client may assert
    QR_PENDING,       \* the placeholder owner of a QR nonce
    Text,             \* public_key texts: with one key, several, or none
    Proof,            \* what is posted with them: signatures and claims
    JWT_EXPIRY,       \* JWT_EXPIRY_SECONDS
    REQUIRE_APPROVAL, \* CAPAUTH_REQUIRE_APPROVAL
    MaxTime           \* bound on the clock

Signature == Signatures(Fingerprint)
\* A row of enrolled_keys (last_auth is never read).
KeyRow == [key : Text, approved : BOOLEAN]
Owner == Fingerprint \cup {QR_PENDING}
IssueRecord == [to : Owner, at : Nat]
\* What a client posts as proof: the nonce signature (None when it is not one over this
\* challenge), the claims and their signature (None when missing or not over them).
ClientProof == [sig : Signature \cup {None}, claims : Claim \cup {None},
                claimsSig : Signature \cup {None}]
\* A JWT, with the claims, and the text and the signatures it was granted for.
Token == [sub : Fingerprint, nonce : Nonce, iat : Nat, amr : {"pgp", "qr"},
          text : Text, proof : Proof]

ASSUME ServiceAssumption ==
    /\ JWT_EXPIRY \in Nat /\ MaxTime \in Nat /\ REQUIRE_APPROVAL \in BOOLEAN
    /\ QR_PENDING \notin Fingerprint
    /\ Text \subseteq KeyTexts(Fingerprint) /\ Proof \subseteq ClientProof
    /\ None \notin Fingerprint \cup Claim \cup Nat
    /\ None \notin KeyTexts(Fingerprint) /\ None \notin Signature
    /\ None \notin KeyRow /\ None \notin IssueRecord /\ None \notin NonceRecord(Owner)

VARIABLES
    now,          \* the clock
    cache,        \* the nonce store: Nonce -> record or None
    keys,         \* the SQLite key store: Fingerprint -> row or None
    qrResults,    \* _qr_results: QR nonces whose result awaits the desktop
    tokens,       \* JWTs handed out
    issued,       \* history: nonce -> whom and when it was issued, or None
    consumed,     \* history: how often consume() accepted the nonce
    approvals,    \* history: fingerprints the admin approved, not revoked since
    revokedAt     \* history: when a fingerprint without a row was revoked

history == <<issued, consumed, approvals, revokedAt>>
vars == <<now, cache, keys, qrResults, tokens, history>>

Init ==
    /\ now = 0
    /\ cache = [n \in Nonce |-> None]
    /\ keys = [f \in Fingerprint |-> None]
    /\ qrResults = {}
    /\ tokens = {}
    /\ issued = [n \in Nonce |-> None]
    /\ consumed = [n \in Nonce |-> 0]
    /\ approvals = {}
    /\ revokedAt = [f \in Fingerprint |-> 0]

-----------------------------------------------------------------------------
(* Issuing nonces.  uuid4 never repeats: a fresh nonce was never issued.    *)

IssueTo(n, owner) ==
    /\ issued[n] = None
    /\ cache' = issue(cache, n, owner, now)
    /\ issued' = [issued EXCEPT ![n] = [to |-> owner, at |-> now]]
    /\ UNCHANGED <<now, keys, qrResults, tokens, consumed, approvals, revokedAt>>

\* POST /capauth/v1/challenge, through build_challenge().
challenge_endpoint(n, fp) == IssueTo(n, fp)

\* POST /capauth/v1/qr-challenge.
qr_challenge_endpoint(n) == IssueTo(n, QR_PENDING)

-----------------------------------------------------------------------------
(* POST /capauth/v1/verify and /qr-verify/{nonce}.                          *)
(*                                                                          *)
(* A request carries the claimed fingerprint fp, the nonce, a text of keys  *)
(* (None when absent) and a proof.  Every holder signs whatever it is shown.*)

Request ==
    [fp : Fingerprint, nonce : Nonce, key : Text \cup {None}, proof : Proof]

\* The text the handler verifies with: the request's, else the enrolled one.
ResolvedKey(req) ==
    IF req.key # None \/ keys[req.fp] = None THEN req.key ELSE keys[req.fp].key

\* KeyStore.enroll(): INSERT OR REPLACE of a row.
enroll(fp, key, approved) ==
    [keys EXCEPT ![fp] = [key |-> key, approved |-> approved]]

\* A faulty variant: the new key is enrolled as approved whatever the setting.
KeysAfterAutoApproval(req) ==
    IF keys[req.fp] = None THEN enroll(req.fp, ResolvedKey(req), TRUE) ELSE keys

\* The key store once the handler enrolled a fingerprint it did not know.
KeysAfterEnrollment(req) ==
    IF keys[req.fp] = None
    THEN enroll(req.fp, ResolvedKey(req), ~REQUIRE_APPROVAL)
    ELSE keys

\* verify_nonce_signature(), over the payload rebuilt from the nonce record.
verify_nonce_signature(req) == 
    req.proof.sig # None /\ verify_signature(req.proof.sig, ResolvedKey(req))

\* Step 3 of verify_auth_response(): claims need a good signature under that text.
ClaimsAccepted(req) ==
    \/ req.proof.claims = None
    \/ req.proof.claimsSig # None /\ verify_signature(req.proof.claimsSig, ResolvedKey(req))

\* verify_auth_response(): "" or the error code.
verify_auth_response(req) ==
    LET err == consumeError(peek(cache, req.nonce, now), req.fp, now)
    IN  IF err # "" THEN err
        ELSE IF ~verify_nonce_signature(req) THEN "invalid_nonce_signature"
        ELSE IF ~ClaimsAccepted(req) THEN "invalid_claims_signature"
        ELSE ""

\* A faulty variant of the handler's answer: the submitted key is not compared
\* with the fingerprint.
AnswerUncheckedKey(req) ==
    IF ResolvedKey(req) = None THEN "unknown_fingerprint"
    ELSE IF ~KeysAfterEnrollment(req)[req.fp].approved THEN "enrollment_pending"
    ELSE IF peek(cache, req.nonce, now) = None THEN "invalid_nonce"
    ELSE verify_auth_response(req)

\* The handler's answer, early returns first; "" is success.
Answer(req) ==
    IF ResolvedKey(req) = None THEN "unknown_fingerprint"
    ELSE IF ~matches(ResolvedKey(req), req.fp) THEN "invalid_fingerprint"
    ELSE IF ~KeysAfterEnrollment(req)[req.fp].approved THEN "enrollment_pending"
    ELSE IF peek(cache, req.nonce, now) = None THEN "invalid_nonce"
    ELSE verify_auth_response(req)

\* The answers given after consume() accepted, and so burnt, the nonce.
BurningAnswers == {"", "invalid_nonce_signature", "invalid_claims_signature"}

\* What both endpoints do; the JWT only on success.
HandleResponse(req, amr) ==
    LET ans == Answer(req)
    IN  /\ keys' = IF ans \in {"unknown_fingerprint", "invalid_fingerprint"} THEN keys
                   ELSE KeysAfterEnrollment(req)
        /\ cache' = IF ans \in BurningAnswers
                    THEN markUsed(cache, req.nonce, cache[req.nonce], now)
                    ELSE cache
        /\ consumed' = IF ans \in BurningAnswers
                       THEN [consumed EXCEPT ![req.nonce] = @ + 1]
                       ELSE consumed
        /\ tokens' = IF ans = ""
                     THEN tokens \cup {[sub |-> req.fp, nonce |-> req.nonce,
                                        iat |-> now, amr |-> amr,
                                        text |-> ResolvedKey(req), proof |-> req.proof]}
                     ELSE tokens
        /\ revokedAt' = [revokedAt EXCEPT ![req.fp] = IF keys'[req.fp] = None THEN @ ELSE 0]
        /\ UNCHANGED <<now, issued, approvals>>

verify_endpoint(req) ==
    /\ HandleResponse(req, "pgp")
    /\ UNCHANGED qrResults

\* The same, and the result is kept for the desktop that polls qr-status.
qr_verify_endpoint(req) ==
    /\ HandleResponse(req, "qr")
    /\ qrResults' = IF Answer(req) = "" THEN qrResults \cup {req.nonce} ELSE qrResults

\* GET /capauth/v1/qr-status/{nonce}: the result is popped; else the desktop is told
\* whether peek() still finds the nonce.
qr_status_endpoint(n) ==
    /\ qrResults' = qrResults \ {n}
    /\ UNCHANGED <<now, cache, keys, tokens, history>>

-----------------------------------------------------------------------------
(* POST /capauth/v1/keys/approve and /revoke, for the bearer of the admin   *)
(* token; both answer 404 and change nothing for an unknown fingerprint.    *)

approve_key(fp) ==
    /\ keys[fp] # None
    /\ keys' = [keys EXCEPT ![fp].approved = TRUE]
    /\ approvals' = approvals \cup {fp}
    /\ UNCHANGED <<now, cache, qrResults, tokens, issued, consumed, revokedAt>>

revoke_key(fp) ==
    /\ keys[fp] # None
    /\ keys' = [keys EXCEPT ![fp] = None]
    /\ approvals' = approvals \ {fp}
    /\ revokedAt' = [revokedAt EXCEPT ![fp] = now]
    /\ UNCHANGED <<now, cache, qrResults, tokens, issued, consumed>>

\* The process restarts: the dicts are lost, SQLite is not.  The JWTs stay
\* valid (a production service sets CAPAUTH_JWT_SECRET).
Restart ==
    /\ cache' = IF UseDjango THEN cache ELSE [n \in Nonce |-> None]
    /\ qrResults' = {}
    /\ UNCHANGED <<now, keys, tokens, history>>

Tick ==
    /\ now < MaxTime
    /\ now' = now + 1
    /\ UNCHANGED <<cache, keys, qrResults, tokens, history>>

Next ==
    \/ \E n \in Nonce, f \in Fingerprint : challenge_endpoint(n, f)
    \/ \E n \in Nonce : qr_challenge_endpoint(n)
    \/ \E req \in Request : verify_endpoint(req)
    \/ \E req \in Request : qr_verify_endpoint(req)
    \/ \E n \in Nonce : qr_status_endpoint(n)
    \/ \E f \in Fingerprint : approve_key(f)
    \/ \E f \in Fingerprint : revoke_key(f)
    \/ Restart
    \/ Tick

Spec == Init /\ [][Next]_vars

-----------------------------------------------------------------------------
\* A faulty variant: the token is still accepted at its exp.
TokenActiveAtExp(t) == now <= t.iat + JWT_EXPIRY

\* token-info and userinfo: PyJWT accepts the token until its exp.
TokenActive(t) == now < t.iat + JWT_EXPIRY

-----------------------------------------------------------------------------
\* Every variable holds a value of its type.
TypeOK ==
    /\ now \in Nat
    /\ cache \in [Nonce -> NonceRecord(Owner) \cup {None}]
    /\ keys \in [Fingerprint -> KeyRow \cup {None}]
    /\ qrResults \subseteq Nonce
    /\ tokens \subseteq Token
    /\ issued \in [Nonce -> IssueRecord \cup {None}]
    /\ consumed \in [Nonce -> Nat]
    /\ approvals \subseteq Fingerprint
    /\ revokedAt \in [Fingerprint -> Nat]

\* consume() accepts a nonce at most once, whatever requests are replayed, and
\* also when the first use failed on its signature, the record timed out of the
\* cache or the service restarted in between.
NonceConsumedOnce == \A n \in Nonce : consumed[n] <= 1

\* Every JWT goes back to a challenge issued to the very fingerprint it names, within
\* its lifetime, that yielded no other JWT; and to a signature, like the claims in it,
\* of that fingerprint's own key, or else a detached one by a key that stood in a text
\* which PGPy took for the fingerprint's or could not read.  No mix of other people's
\* keys, nonces and signatures, and no key row, gets around this.
TokenProvenance ==
    \A t \in tokens :
        /\ SignedFor(t.sub, t.proof.sig, t.text)
        /\ t.proof.claims # None => SignedFor(t.sub, t.proof.claimsSig, t.text)
        /\ issued[t.nonce] # None
        /\ issued[t.nonce].to = t.sub
        /\ t.iat <= issued[t.nonce].at + NONCE_TTL
        /\ \A u \in tokens : u.nonce = t.nonce => u = t

\* With REQUIRE_APPROVAL no verify succeeds for a fingerprint the admin has not
\* approved since it was last revoked, although verify itself enrolls keys and
\* re-enrolls revoked ones.
LoginNeedsApproval ==
    [][REQUIRE_APPROVAL => \A t \in tokens' \ tokens : t.sub \in approvals]_vars

\* token-info and userinfo never look at the key store, so a JWT outlives the
\* revocation of its key, but never by more than JWT_EXPIRY.
RevocationTakesEffect ==
    \A t \in tokens :
        keys[t.sub] = None /\ TokenActive(t) => now < revokedAt[t.sub] + JWT_EXPIRY

\* The response of the holder of f's key, who signed and sends the key along.
OwnRequest(f, n) ==
    [fp |-> f, nonce |-> n, key |-> KeyOf(f),
     proof |-> [sig |-> [by |-> f, detached |-> FALSE], claims |-> None, claimsSig |-> None]]

\* f is enrolled and approved, and nonce n is one the store still knows, which
\* nobody consumed and whose lifetime is not over.
GenuineResponse(f, n) ==
    /\ keys[f] # None /\ keys[f].approved
    /\ cache[n] # None /\ consumed[n] = 0 /\ now <= issued[n].at + NONCE_TTL

\* verify accepts the genuine response of an approved key holder: whatever other
\* clients posted before, garbage enrolled under this fingerprint included, does
\* not lock the holder out as long as the nonce itself was not consumed.
GenuineLoginAccepted ==
    \A f \in Fingerprint, n \in Nonce :
        GenuineResponse(f, n) /\ issued[n].to = f => Answer(OwnRequest(f, n)) = ""

\* What the comment in qr_verify_endpoint says it does: a QR nonce belongs to
\* nobody and the phone that signed it is accepted without the fingerprint check.
QrLoginAccepted ==
    \A f \in Fingerprint, n \in Nonce :
        GenuineResponse(f, n) /\ issued[n].to = QR_PENDING => Answer(OwnRequest(f, n)) = ""
=============================================================================
