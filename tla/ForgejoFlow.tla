----------------------------- MODULE ForgejoFlow -----------------------------
(***************************************************************************)
(* The login flow of the Forgejo integration: the stores and operations of  *)
(* integrations/forgejo/auth_flow.py and the endpoints of oidc_provider.py. *)
(*                                                                          *)
(* A pending login is filed under the `state` parameter that the client     *)
(* chose, so a second login with the same state replaces the first.  The    *)
(* proof of possession is an access token of the verification service,      *)
(* which stays good for other logins until it expires.  The flow signs its  *)
(* own tokens with the same secret, over claims that come with the request  *)
(* that completes the login.  Endpoints do not await between their reads    *)
(* and writes.  A restart forgets both stores.                              *)
(***************************************************************************)
EXTENDS Integers, Sequences, FiniteSets

CONSTANTS
    None,
    State,             \* values of the state parameter
    Fp,                \* fingerprints
    Client, client_id, \* clients that ask, and the one that is configured
    Redirect, forgejo_redirect_uri,
    TTL,               \* auth_code_ttl, of sessions and of codes
    Claims,            \* what the oidc_claims of a request may set
    JWT_TTL,           \* lifetime of the access tokens of the verification service
    LIFETIME,          \* 3600 seconds, of the tokens of the flow
    MaxLogins, MaxTime \* bounds

Login == 1..MaxLogins

\* The claims of the flow's token that a caller may set: its subject and its expiry, and
\* whether it has an empty audience.  None leaves what the flow put there.
AnyClaims == [sub : Fp \cup {None}, exp : Nat \cup {None}, no_aud : BOOLEAN]

\* _AuthSession and _AuthCodeRecord.  login is history.  The scope, the other claims and
\* the PKCE challenge are carried along unchecked and left out.
AuthSession == [login : Login, expires : Nat]
AuthCodeRecord == [fingerprint : Fp, claims : Claims, client : Client, redirect : Redirect, expires : Nat]

\* A token: capauth_fingerprint, sub, aud and exp, and as history the login it was issued
\* for and when.  One of the verification service is for no login and has no audience.
Token == [fingerprint : Fp, sub : Fp, aud : Client \cup {None}, exp : Nat,
          by : Login \cup {None}, at : Nat]

ASSUME ForgejoAssumption ==
    /\ {TTL, JWT_TTL, LIFETIME, MaxLogins, MaxTime} \subseteq Nat
    /\ client_id \in Client /\ forgejo_redirect_uri \in Redirect /\ Claims \subseteq AnyClaims
    /\ None \notin Fp \cup Redirect \cup Client \cup Nat \cup AuthSession \cup AuthCodeRecord \cup Claims

VARIABLES
    now,
    sessions,  \* _SessionStore: by state
    codes,     \* _CodeStore: by code, and a code is named for its login
    access,    \* tokens signed with capauth_jwt_secret that are about
    begun,     \* history: when each login began, or None
    subject,   \* history: whom it was granted to, when, and with what claims
    granted,
    asked,
    tokens     \* history: of each login, its tokens

vars == <<now, sessions, codes, access, begun, subject, granted, asked, tokens>>

Init ==
    /\ now = 0
    /\ sessions = [s \in State |-> None] /\ codes = [l \in Login |-> None]
    /\ access = {}
    /\ begun = [l \in Login |-> None] /\ subject = [l \in Login |-> None]
    /\ granted = [l \in Login |-> None] /\ asked = [l \in Login |-> None]
    /\ tokens = [l \in Login |-> << >>]

Fresh == Cardinality({l \in Login : begun[l] # None}) + 1

\* _SessionStore.put() and _CodeStore.put() drop what expired.
put(store, key, record) ==
    [k \in DOMAIN store |-> IF k = key THEN record
                            ELSE IF store[k] # None /\ store[k].expires < now THEN None ELSE store[k]]

\* _SessionStore.pop() and _CodeStore.pop(); faulty variants leave the record.
pop_kept(store, key) == store
pop(store, key) == [store EXCEPT ![key] = None]

\* When a session or a code expires.
expires_at == now + TTL

\* The checks of create_session(); an empty redirect_uri is the configured one.
session_allowed(client, redirect) ==
    client = client_id /\ redirect \in {None, forgejo_redirect_uri}

\* GET /authorize with create_session().
authorize(s, client, redirect) ==
    /\ Fresh \in Login
    /\ session_allowed(client, redirect)
    /\ sessions' = put(sessions, s, [login |-> Fresh, expires |-> expires_at])
    /\ begun' = [begun EXCEPT ![Fresh] = now]
    /\ UNCHANGED <<now, codes, access, subject, granted, asked, tokens>>

\* The login page gets a challenge signed and verified (module VerifyService).
Verify(f) ==
    /\ access' = access \cup {[fingerprint |-> f, sub |-> f, aud |-> None, exp |-> now + JWT_TTL,
                               by |-> None, at |-> now]}
    /\ access' # access
    /\ UNCHANGED <<now, sessions, codes, begun, subject, granted, asked, tokens>>

\* Faulty variants: the fingerprint of the request is not compared, or an audience passes.
token_accepted_any(a, f) == now < a.exp /\ a.aud = None
token_accepted_aud(a, f) == now < a.exp /\ a.fingerprint = f

\* pyjwt.decode() wants an unexpired token and, as no audience is named in the call, one
\* without audience.  Its capauth_fingerprint is compared with that of the request.
token_accepted(a, f) == now < a.exp /\ a.aud = None /\ a.fingerprint = f

\* Faulty variant: the session is not looked at again.
session_live_any(session) == TRUE

\* The check of issue_auth_code(), after the session was popped.
session_live(session) == now <= session.expires

\* POST /authorize/complete: get_session() finds expired sessions, too.  The claims c come
\* from the body of the request; only capauth_fingerprint is set from what was checked.
authorize_complete(s, f, a, c) ==
    /\ a \in access /\ token_accepted(a, f)
    /\ sessions[s] # None
    /\ sessions' = pop(sessions, s)
    /\ LET l == sessions[s].login IN
       IF session_live(sessions[s])
       THEN /\ codes' = put(codes, l, [fingerprint |-> f, claims |-> c, client |-> client_id,
                                       redirect |-> forgejo_redirect_uri, expires |-> expires_at])
            /\ subject' = [subject EXCEPT ![l] = f] /\ granted' = [granted EXCEPT ![l] = now]
            /\ asked' = [asked EXCEPT ![l] = c]
       ELSE UNCHANGED <<codes, subject, granted, asked>>
    /\ UNCHANGED <<now, access, begun, tokens>>

\* The checks of exchange_code() on the record that was popped.
grant_valid(rec, client, redirect) ==
    now <= rec.expires /\ rec.client = client /\ redirect \in {None, rec.redirect}

\* POST /token: a client that is not named is the configured one.
named(client) == IF client = None THEN client_id ELSE client

\* The payload of the token, updated with the claims of the record.
token_of(l, rec) ==
    [fingerprint |-> rec.fingerprint,
     sub |-> IF rec.claims.sub = None THEN rec.fingerprint ELSE rec.claims.sub,
     aud |-> IF rec.claims.no_aud THEN None ELSE client_id,
     exp |-> IF rec.claims.exp = None THEN now + LIFETIME ELSE rec.claims.exp,
     by |-> l, at |-> now]

\* exchange_code(): the client is compared before the code is taken.
exchange_code(l, client, redirect) ==
    /\ named(client) = client_id
    /\ codes[l] # None
    /\ codes' = pop(codes, l)
    /\ IF grant_valid(codes[l], named(client), redirect)
       THEN /\ tokens' = [tokens EXCEPT ![l] = Append(@, token_of(l, codes[l]))]
            /\ access' = access \cup {token_of(l, codes[l])}
       ELSE UNCHANGED <<tokens, access>>
    /\ UNCHANGED <<now, sessions, begun, subject, granted, asked>>

Restart ==
    /\ sessions' = [s \in State |-> None] /\ codes' = [l \in Login |-> None]
    /\ UNCHANGED <<now, access, begun, subject, granted, asked, tokens>>

Tick ==
    /\ now < MaxTime
    /\ now' = now + 1
    /\ UNCHANGED <<sessions, codes, access, begun, subject, granted, asked, tokens>>

Next ==
    \/ \E s \in State, c \in Client, u \in Redirect \cup {None} : authorize(s, c, u)
    \/ \E f \in Fp : Verify(f)
    \/ \E s \in State, f \in Fp, a \in access, c \in Claims : authorize_complete(s, f, a, c)
    \/ \E l \in Login, c \in Client \cup {None}, u \in Redirect \cup {None} : exchange_code(l, c, u)
    \/ Restart
    \/ Tick

Spec == Init /\ [][Next]_vars

-----------------------------------------------------------------------------
\* Every variable holds a value of its type.
TypeOK ==
    /\ now \in 0..MaxTime
    /\ sessions \in [State -> AuthSession \cup {None}]
    /\ codes \in [Login -> AuthCodeRecord \cup {None}]
    /\ access \subseteq Token
    /\ begun \in [Login -> Nat \cup {None}] /\ granted \in [Login -> Nat \cup {None}]
    /\ subject \in [Login -> Fp \cup {None}]
    /\ asked \in [Login -> Claims \cup {None}]
    /\ tokens \in [Login -> Seq(Token)]

\* A login by its state: filed under some state parameter, or with a code.
phaseOf(l) ==
    IF \E s \in State : sessions[s] # None /\ sessions[s].login = l THEN "pending"
    ELSE IF codes[l] # None THEN "granted"
    ELSE IF begun[l] = None THEN "idle" ELSE "over"

Flow == INSTANCE LoginFlow WITH
            Subject <- Fp, Nobody <- None,
            phase <- [l \in Login |-> phaseOf(l)], tokens <- [l \in Login |-> Len(tokens[l])]

\* The integration implements LoginFlow: although logins are filed under a value the
\* client chooses, and may replace each other, each is granted once, to one fingerprint,
\* and yields one token.
ImplementsLoginFlow == Flow!Spec

\* The verification service once vouched for this fingerprint.
VouchedFor(f) == \E v \in access : v.by = None /\ v.fingerprint = f

\* The login was completed while a token of the verification service for its fingerprint
\* was good.
FreshlyVouched(l) ==
    \E v \in access : v.by = None /\ v.fingerprint = subject[l] /\ v.at <= granted[l] /\ granted[l] < v.at + JWT_TTL

\* It was completed with a token of the flow itself, of an earlier login of the same
\* fingerprint whose claims emptied the audience.
FromLogin(l) ==
    \E m \in Login : /\ m # l /\ tokens[m] # << >> /\ asked[m].no_aud
                    /\ subject[m] = subject[l] /\ granted[m] <= granted[l]

\* Whatever claims a caller sends, and however often a token of the flow completes the
\* next login: capauth_fingerprint of a token is whom its login was granted to, and the
\* verification service vouched for that fingerprint.  It did so shortly before, unless
\* the claims of an earlier login of that fingerprint emptied the audience of its token.
\* The subject is the fingerprint unless the claims of that very login name another.
TokenIsProven ==
    /\ \A a \in access : VouchedFor(a.fingerprint)
    /\ \A l \in Login : granted[l] # None => FreshlyVouched(l) \/ FromLogin(l)
    /\ \A l \in Login : \A i \in DOMAIN tokens[l] :
          /\ tokens[l][i].fingerprint = subject[l]
          /\ tokens[l][i].sub # subject[l] => tokens[l][i].sub = asked[l].sub

\* A token comes in time: the login was completed within the lifetime of its session
\* and the code exchanged within its own, although get_session() and pop() find records
\* that expired and nobody sweeps them in between.  Counted from the completion it ends
\* with the lifetimes of code and token, unless the claims of that login say otherwise.
TokenIsTimely ==
    \A l \in Login :
        /\ granted[l] # None => granted[l] <= begun[l] + TTL
        /\ \A i \in DOMAIN tokens[l] :
              /\ tokens[l][i].at <= granted[l] + TTL
              /\ asked[l].exp = None => tokens[l][i].exp <= granted[l] + TTL + LIFETIME

\* A token is for somebody who was proven, within the lifetimes of session and code.
TokenIsProvenInTime == TokenIsProven /\ TokenIsTimely
=============================================================================
