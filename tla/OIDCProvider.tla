---------------------------- MODULE OIDCProvider ----------------------------
(***************************************************************************)
(* The OIDC identity provider, capauth/service/oidc: login requests and     *)
(* authorization codes (store.py), passkeys (passkey.py) and the endpoints  *)
(* (provider.py), on the nonce store and the key registry it shares with    *)
(* the verification service.                                                *)
(*                                                                          *)
(* A handler does not await after it has read its body, so each endpoint is *)
(* one action; but verifying a signature takes time, so complete() and      *)
(* passkey_login_complete() end at a later time than they begin.  Everything*)
(* but the registry and the passkey file is lost in a restart.  Nobody      *)
(* signs with a key, or answers for an authenticator, that is not theirs.   *)
(***************************************************************************)
EXTENDS NonceStore, KeyText, Sequences, FiniteSets

CONSTANTS
    Fp,                \* fingerprints; a fingerprint also names its key pair
    Text,              \* public_key texts: with one key, several, or none
    Sig,               \* signatures that are posted
    Client,            \* registered clients
    Verifier,          \* PKCE code verifiers
    Cred,              \* passkey credentials
    Begins,            \* what the login page is opened with: client and challenge
    KeyChanges,        \* what the registry entry of a key is changed to elsewhere
    REQUEST_TTL, CODE_TTL, CHALLENGE_TTL,
    MaxRequests, MaxCodes, MaxNonces, MaxTickets, MaxChallenges,  \* bounds
    MaxTime            \* bound on the clock

Request == 1..MaxRequests
Code == 1..MaxCodes
Nonce == 1..MaxNonces
Ticket == 1..MaxTickets
Challenge == 1..MaxChallenges

\* What a login is begun with: the challenge is the verifier it was made from, None
\* without PKCE.
Opening == [client : Client, challenge : Verifier \cup {None}]
\* LoginRequest.
\* (redirect_uri, scope, state and the OIDC nonce are carried along unchanged.)
LoginRequest == [client : Client, challenge : Verifier \cup {None}, expires : Nat]
\* The signature a login or a passkey rests on, and the text it was checked against.
Proof == [sig : Sig, text : Text]
\* A row of the key registry.
KeyRow == [text : Text, approved : BOOLEAN]
\* AuthCode.  request and proof are history.
AuthCode == [client : Client, challenge : Verifier \cup {None}, fingerprint : Fp,
             amr : {"pgp", "webauthn"}, expires : Nat, request : Request, proof : Proof]
\* A stored credential, and for the record the proof that opened its registration.
Passkey == [fingerprint : Fp, proof : Proof]
\* What _reg and _auth hold while a ceremony is under way.
Registration == [fingerprint : Fp, proof : Proof, expires : Nat]
Ceremony == [challenge : Challenge, expires : Nat]
\* An authenticator's answer to a challenge (its counter only tells clones apart).
Assertion == [cred : Cred, challenge : Challenge]

ASSUME OIDCAssumption ==
    /\ REQUEST_TTL \in Nat /\ CODE_TTL \in Nat /\ CHALLENGE_TTL \in Nat /\ MaxTime \in Nat
    /\ \A b \in {MaxRequests, MaxCodes, MaxNonces, MaxTickets, MaxChallenges} : b \in Nat
    /\ Begins \subseteq Opening
    /\ Text \subseteq KeyTexts(Fp) /\ Sig \subseteq Signatures(Fp)
    /\ KeyChanges \subseteq KeyRow \cup {None}
    /\ None \notin KeyTexts(Fp) \cup KeyRow
    /\ None \notin Fp \cup Client \cup Verifier \cup Cred \cup Opening \cup LoginRequest \cup AuthCode \cup Passkey
                  \cup Registration \cup Ceremony \cup NonceRecord(Fp)

VARIABLES
    now,
    requests, codes,   \* AuthCodeStore
    made,              \* how many ids of each kind were drawn
    cache,             \* the nonce store
    keys,              \* the key registry: Fp -> row or None
    creds,             \* PasskeyStore._creds
    reg, auth,         \* PasskeyStore._reg and _auth
    assertions,        \* answers of authenticators, on their way
    began,             \* history: request -> its client and challenge, or None
    granted,           \* history: request -> the subject of its code, or None
    tokens,            \* history: the tokens of each request
    uses               \* history: what each nonce was accepted for

vars == <<now, requests, codes, made, cache, keys, creds, reg, auth, assertions,
          began, granted, tokens, uses>>

NoneOf(S) == [x \in S |-> None]

Init ==
    /\ now = 0
    /\ requests = NoneOf(Request) /\ codes = NoneOf(Code)
    /\ made = [request |-> 0, code |-> 0, nonce |-> 0, ticket |-> 0, challenge |-> 0]
    /\ cache = NoneOf(Nonce) /\ keys = NoneOf(Fp)
    /\ creds = NoneOf(Cred)
    /\ reg = NoneOf(Ticket) /\ auth = NoneOf(Request)
    /\ assertions = {}
    /\ began = NoneOf(Request) /\ granted = NoneOf(Request) /\ tokens = [r \in Request |-> << >>]
    /\ uses = [n \in Nonce |-> {}]

Draw(kind, bound) == made[kind] < bound /\ made' = [made EXCEPT ![kind] = @ + 1]
Fresh(kind) == made[kind] + 1

-----------------------------------------------------------------------------
(* store.py                                                                 *)

\* _evict_expired().
evict_expired(table, t) ==
    [x \in DOMAIN table |-> IF table[x] # None /\ table[x].expires < t THEN None ELSE table[x]]

\* get_login_request(): what it finds; an expired request is dropped.
get_login_request(r, t) == IF requests[r] # None /\ t > requests[r].expires THEN None ELSE requests[r]

\* Any call on a request that expired drops it, and fails.
DropExpired(r) ==
    /\ requests[r] # None /\ get_login_request(r, now) = None
    /\ requests' = [requests EXCEPT ![r] = None]
    /\ UNCHANGED <<now, codes, made, cache, keys, creds, reg, auth, began, granted, tokens,
                   uses, assertions>>

\* A faulty variant: the request stays.
pop_login_request_kept(r, t) == requests

\* pop_login_request(): the table without the request.
pop_login_request(r, t) == [requests EXCEPT ![r] = None]

\* consume_code(): the table without the code, whatever comes of it.
consume_code(c) == [codes EXCEPT ![c] = None]

\* A faulty variant: a verifier that is not sent is not checked.
verify_pkce_if_sent(verifier, challenge) == challenge = None \/ verifier \in {None, challenge}

\* verify_pkce(); both methods determine the verifier.
verify_pkce(verifier, challenge) == challenge = None \/ verifier = challenge

-----------------------------------------------------------------------------
(* The nonce store and the proof of possession.                             *)

\* POST /capauth/v1/challenge.
loadChallenge(f) ==
    /\ Draw("nonce", MaxNonces)
    /\ cache' = issue(cache, Fresh("nonce"), f, now)
    /\ UNCHANGED <<now, requests, codes, keys, creds, reg, auth, began, granted, tokens, uses, assertions>>

\* A faulty variant: the text that was sent is not compared.
armor_matches_any(f, armor) == armor # None

\* There is a text of keys, and what is derived from it, if anything, is f.
armor_matches(f, armor) == armor # None /\ matches(armor, f)

\* The text to verify with: the one that was sent, else the enrolled one.
armor_for(f, pub) == IF pub = None /\ keys[f] # None THEN keys[f].text ELSE pub

\* The nonce is spent by verify_auth_response() before the signature is checked.
spend(n, f) ==
    LET rec == peek(cache, n, now) IN
    IF consumeError(rec, f, now) = "" THEN markUsed(cache, n, rec, now) ELSE cache

\* _verify_pgp() for fingerprint f and nonce n, with the signature sig over it; pub is
\* the public_key that was sent, or None.  Approved or not, the key is taken; one that
\* is not known is enrolled, as approved, before the nonce is looked at.
PgpAccepts(f, n, sig, pub) ==
    LET armor == armor_for(f, pub) IN
    /\ armor_matches(f, armor)
    /\ consumeError(peek(cache, n, now), f, now) = ""
    /\ verify_signature(sig, armor)

PgpEffects(f, n, sig, pub, use) ==
    LET armor == armor_for(f, pub)
        known == armor_matches(f, armor)
    IN  /\ keys' = IF known /\ keys[f] = None
                   THEN [keys EXCEPT ![f] = [text |-> armor, approved |-> TRUE]] ELSE keys
        /\ cache' = IF known THEN spend(n, f) ELSE cache
        /\ uses' = IF PgpAccepts(f, n, sig, pub) THEN [uses EXCEPT ![n] = @ \cup {use}] ELSE uses

-----------------------------------------------------------------------------
(* provider.py: the login.                                                  *)

\* GET /oidc/authorize, for a registered client and redirect_uri.
authorize(client, challenge) ==
    /\ Draw("request", MaxRequests)
    /\ requests' = [evict_expired(requests, now) EXCEPT ![Fresh("request")] =
                      [client |-> client, challenge |-> challenge, expires |-> now + REQUEST_TTL]]
    /\ codes' = evict_expired(codes, now)
    /\ began' = [began EXCEPT ![Fresh("request")] = [client |-> client, challenge |-> challenge]]
    /\ UNCHANGED <<now, cache, keys, creds, reg, auth, granted, tokens, uses, assertions>>

\* issue_code() for the request the handler popped at time t.  A request that expired
\* meanwhile is None, and the handler ends in an exception.
GrantCode(r, f, amr, proof, t) ==
    LET req == get_login_request(r, t) IN
    IF req = None
    THEN /\ requests' = [requests EXCEPT ![r] = None]
         /\ UNCHANGED <<codes, made, granted>>
    ELSE /\ Draw("code", MaxCodes)
         /\ requests' = evict_expired(pop_login_request(r, t), t)
         /\ codes' = [evict_expired(codes, t) EXCEPT ![Fresh("code")] =
                        [client |-> req.client, challenge |-> req.challenge, fingerprint |-> f,
                         amr |-> amr, expires |-> t + CODE_TTL, request |-> r, proof |-> proof]]
         /\ granted' = [granted EXCEPT ![r] = f]

\* A handler that began now ends in the same tick or in the next.
EndTimes == {t \in now..(now + 1) : t <= MaxTime}

\* POST /oidc/complete.
complete(r, f, n, sig, pub, t) ==
    /\ get_login_request(r, now) # None
    /\ PgpEffects(f, n, sig, pub, <<"login", r>>)
    /\ IF PgpAccepts(f, n, sig, pub)
       THEN GrantCode(r, f, "pgp", [sig |-> sig, text |-> armor_for(f, pub)], t)
       ELSE UNCHANGED <<requests, codes, made, granted>>
    /\ now' = t
    /\ UNCHANGED <<creds, reg, auth, assertions, began, tokens>>

\* POST /oidc/token: the client authenticated with its secret; the code is spent first.
token(c, client, verifier) ==
    /\ codes[c] # None
    /\ LET rec == codes[c] IN
       IF now <= rec.expires /\ rec.client = client /\ verify_pkce(verifier, rec.challenge)
       THEN tokens' = [tokens EXCEPT ![rec.request] =
                         Append(@, [client |-> client, subject |-> rec.fingerprint, verifier |-> verifier])]
       ELSE UNCHANGED tokens
    /\ codes' = consume_code(c)
    /\ UNCHANGED <<now, requests, made, cache, keys, creds, reg, auth, began, granted, uses, assertions>>

-----------------------------------------------------------------------------
(* Passkeys.                                                                *)

\* POST /oidc/passkey/register/begin, behind a proof with PGP.
passkey_register_begin(f, n, sig, pub) ==
    /\ PgpEffects(f, n, sig, pub, <<"passkey", Fresh("ticket")>>)
    /\ IF PgpAccepts(f, n, sig, pub)
       THEN /\ Draw("ticket", MaxTickets)
            /\ reg' = [reg EXCEPT ![Fresh("ticket")] =
                         [fingerprint |-> f, expires |-> now + CHALLENGE_TTL,
                          proof |-> [sig |-> sig, text |-> armor_for(f, pub)]]]
       ELSE UNCHANGED <<made, reg>>
    /\ UNCHANGED <<now, requests, codes, creds, auth, assertions, began, granted, tokens>>

\* POST /oidc/passkey/register/complete, with a new credential.
passkey_register_complete(t, c) ==
    /\ reg[t] # None /\ creds[c] = None
    /\ reg' = [reg EXCEPT ![t] = None]
    /\ IF now <= reg[t].expires
       THEN creds' = [creds EXCEPT ![c] = [fingerprint |-> reg[t].fingerprint, proof |-> reg[t].proof]]
       ELSE UNCHANGED creds
    /\ UNCHANGED <<now, requests, codes, made, cache, keys, auth, began, granted, tokens, uses, assertions>>

\* POST /oidc/passkey/login/begin: a new challenge replaces the one before.
passkey_login_begin(r) ==
    /\ get_login_request(r, now) # None
    /\ Draw("challenge", MaxChallenges)
    /\ auth' = [auth EXCEPT ![r] = [challenge |-> Fresh("challenge"), expires |-> now + CHALLENGE_TTL]]
    /\ UNCHANGED <<now, requests, codes, cache, keys, creds, reg, began, granted, tokens, uses, assertions>>

\* The browser asks the authenticator.
Answer(c, r) ==
    /\ auth[r] # None
    /\ assertions' = assertions \cup {[cred |-> c, challenge |-> auth[r].challenge]}
    /\ UNCHANGED <<now, requests, codes, made, cache, keys, creds, reg, auth,
                   began, granted, tokens, uses>>

\* complete_authentication() takes the challenge first.
spend_challenge(r) == [auth EXCEPT ![r] = None]

\* complete_authentication(): the answer is to this challenge.
PasskeyAccepts(r, a) ==
    /\ auth[r] # None /\ now <= auth[r].expires
    /\ creds[a.cred] # None
    /\ a.challenge = auth[r].challenge

\* The fingerprint must be enrolled and approved.
PasskeyAllowed(f) == keys[f] # None /\ keys[f].approved

\* POST /oidc/passkey/login/complete.
passkey_login_complete(r, a, t) ==
    /\ a \in assertions /\ get_login_request(r, now) # None
    /\ auth' = spend_challenge(r)
    /\ IF PasskeyAccepts(r, a)
            /\ PasskeyAllowed(creds[a.cred].fingerprint)
       THEN GrantCode(r, creds[a.cred].fingerprint, "webauthn", creds[a.cred].proof, t)
       ELSE UNCHANGED <<requests, codes, made, granted>>
    /\ now' = t
    /\ UNCHANGED <<cache, keys, creds, reg, assertions, began, tokens, uses>>

-----------------------------------------------------------------------------
\* The registry is changed elsewhere: enrolled, approved or revoked.
SetKey(f, row) ==
    /\ keys[f] # row
    /\ keys' = [keys EXCEPT ![f] = row]
    /\ UNCHANGED <<now, requests, codes, made, cache, creds, reg, auth, began, granted, tokens,
                   uses, assertions>>

\* The process restarts: the nonces may be in a cache of their own, and _load() finds
\* the passkeys that were saved (_save() may fail, and only a warning is logged).
Restart(kept) ==
    /\ requests' = NoneOf(Request) /\ codes' = NoneOf(Code)
    /\ reg' = NoneOf(Ticket) /\ auth' = NoneOf(Request)
    /\ cache' = IF UseDjango THEN cache ELSE NoneOf(Nonce)
    /\ creds' = [c \in Cred |-> IF c \in kept THEN creds[c] ELSE None]
    /\ UNCHANGED <<now, made, keys, began, granted, tokens, uses, assertions>>

Tick ==
    /\ now < MaxTime
    /\ now' = now + 1
    /\ UNCHANGED <<requests, codes, made, cache, keys, creds, reg, auth, began, granted, tokens,
                   uses, assertions>>

Next ==
    \/ \E f \in Fp : loadChallenge(f)
    \/ \E b \in Begins : authorize(b.client, b.challenge)
    \/ \E r \in 1..made.request, f \in Fp, n \in 1..made.nonce,
          sig \in Sig, pub \in Text \cup {None}, t \in EndTimes : complete(r, f, n, sig, pub, t)
    \/ \E r \in 1..made.request : DropExpired(r)
    \/ \E c \in 1..made.code, cl \in Client, v \in Verifier \cup {None} : token(c, cl, v)
    \/ \E f \in Fp, n \in 1..made.nonce, sig \in Sig, pub \in Text \cup {None} :
            passkey_register_begin(f, n, sig, pub)
    \/ \E t \in 1..made.ticket, c \in Cred : passkey_register_complete(t, c)
    \/ \E r \in 1..made.request : passkey_login_begin(r)
    \/ \E c \in Cred, r \in 1..made.request : Answer(c, r)
    \/ \E r \in 1..made.request, a \in assertions, t \in EndTimes :
            passkey_login_complete(r, a, t)
    \/ \E f \in Fp, s \in KeyChanges : SetKey(f, s)
    \/ \E kept \in SUBSET Cred : Restart(kept)
    \/ Tick

Spec == Init /\ [][Next]_vars

-----------------------------------------------------------------------------
\* Every variable holds a value of its type.
TypeOK ==
    /\ now \in 0..MaxTime
    /\ requests \in [Request -> LoginRequest \cup {None}]
    /\ codes \in [Code -> AuthCode \cup {None}]
    /\ cache \in [Nonce -> NonceRecord(Fp) \cup {None}]
    /\ keys \in [Fp -> KeyRow \cup {None}]
    /\ creds \in [Cred -> Passkey \cup {None}]
    /\ assertions \subseteq Assertion
    /\ made \in [request : 0..MaxRequests, code : 0..MaxCodes, nonce : 0..MaxNonces,
                 ticket : 0..MaxTickets, challenge : 0..MaxChallenges]
    /\ reg \in [Ticket -> Registration \cup {None}] /\ auth \in [Request -> Ceremony \cup {None}]
    /\ began \in [Request -> Opening \cup {None}]
    /\ granted \in [Request -> Fp \cup {None}]
    /\ tokens \in [Request -> Seq([client : Client, subject : Fp, verifier : Verifier \cup {None}])]
    /\ uses \in [Nonce -> SUBSET (({"login"} \X Request) \cup ({"passkey"} \X Ticket))]

\* A login by its state: its request, its code, or neither.
phaseOf(r) ==
    IF requests[r] # None THEN "pending"
    ELSE IF \E c \in Code : codes[c] # None /\ codes[c].request = r THEN "granted"
    ELSE IF r > made.request THEN "idle" ELSE "over"

Flow == INSTANCE LoginFlow WITH
            Login <- Request, Subject <- Fp, Nobody <- None,
            phase <- [r \in Request |-> phaseOf(r)], subject <- granted,
            tokens <- [r \in Request |-> Len(tokens[r])]

\* The provider implements LoginFlow: a login request is granted once, to one
\* fingerprint, and exchanged for a token once, although both ways to log in, retries,
\* expiry in the middle of a handler and restarts meet on the same request.
ImplementsLoginFlow == Flow!Spec

\* One signature is good for one thing: a nonce is not accepted for two logins, nor
\* for a login and a passkey, with whatever order of calls.
OneProofOneUse == \A n \in Nonce : Cardinality(uses[n]) <= 1

\* A code or a passkey, also one of before a restart, goes back to a signature by the
\* key of the fingerprint it is made out to, or to a detached one by a key in a text
\* which PGPy took for that fingerprint's or could not read.
SubjectIsProven ==
    /\ \A c \in Code : codes[c] # None =>
          SignedFor(codes[c].fingerprint, codes[c].proof.sig, codes[c].proof.text)
    /\ \A c \in Cred : creds[c] # None =>
          SignedFor(creds[c].fingerprint, creds[c].proof.sig, creds[c].proof.text)

\* A token goes to the client that began the login, to a party that knows the verifier
\* when the login was begun with PKCE, and is for the subject that was granted.
TokenBoundToLogin ==
    \A r \in 1..made.request : \A i \in DOMAIN tokens[r] :
        LET tk == tokens[r][i] IN
        /\ tk.client = began[r].client /\ tk.subject = granted[r]
        /\ began[r].challenge # None => tk.verifier = began[r].challenge

\* A login or a passkey rests on such a signature, which served nothing else.
ProofIsOwnAndSingle == OneProofOneUse /\ SubjectIsProven
=============================================================================
