------------------------- MODULE OIDCProviderProofs -------------------------
(***************************************************************************)
(* Proofs about the OIDC identity provider, for any number of logins, keys,  *)
(* clients, passkeys, nonces and lifetimes: it implements LoginFlow, a       *)
(* signature serves one purpose, and a token belongs to its login.           *)
(***************************************************************************)
EXTENDS OIDCProvider, FiniteSetTheorems, SequenceTheorems, TLAPS

-----------------------------------------------------------------------------
\* The inductive invariant.

\* A login with a code.
Coded(r) == \E c \in Code : codes[c] # None /\ codes[c].request = r

\* A login that has been granted to nobody.
Untouched(r) == granted[r] = None /\ tokens[r] = << >> /\ ~Coded(r)

\* Ids are drawn in order: nothing is filed under one that was not drawn.
DrawnLink ==
    /\ \A r \in Request : r > made.request => requests[r] = None /\ Untouched(r)
    /\ \A c \in Code : c > made.code => codes[c] = None

\* A pending request is what the login was begun with, and has been granted to nobody.
RequestLink ==
    \A r \in Request : requests[r] # None =>
        /\ Untouched(r) /\ began[r] # None
        /\ began[r].client = requests[r].client /\ began[r].challenge = requests[r].challenge

\* A code is for what the login was begun with and for whom it was granted to; it is the
\* only one of its login and has yielded nothing.
CodeLink ==
    /\ \A c \in Code : codes[c] # None =>
          LET r == codes[c].request IN
          /\ granted[r] = codes[c].fingerprint /\ tokens[r] = << >> /\ began[r] # None
          /\ began[r].client = codes[c].client /\ began[r].challenge = codes[c].challenge
    /\ \A c, d \in Code :
          codes[c] # None /\ codes[d] # None /\ codes[c].request = codes[d].request => c = d

\* A token is for what the login was begun with and for whom it was granted to.
BoundTo(r, tk) ==
    /\ tk.client = began[r].client /\ tk.subject = granted[r]
    /\ began[r].challenge # None => tk.verifier = began[r].challenge
TokenLink == \A r \in Request : \A i \in DOMAIN tokens[r] : BoundTo(r, tokens[r][i])

LoginInv == DrawnLink /\ RequestLink /\ CodeLink /\ TokenLink

\* A nonce that served a purpose is used, or gone; one that was not drawn is neither.
NonceLink ==
    \A n \in Nonce :
        /\ n > made.nonce => cache[n] = None /\ uses[n] = {}
        /\ uses[n] = {} \/ ((\E x : uses[n] = {x}) /\ (cache[n] = None \/ cache[n].used))

\* A proof that counts for the fingerprint f.
ProofOf(f, p) == p \in Proof /\ SignedFor(f, p.sig, p.text)

\* A registration, a passkey and a code rest on a proof for what they are made out to.
SignedLink ==
    /\ \A t \in Ticket : reg[t] # None => ProofOf(reg[t].fingerprint, reg[t].proof)
    /\ \A c \in Code : codes[c] # None => ProofOf(codes[c].fingerprint, codes[c].proof)
    /\ \A c \in Cred : creds[c] # None => ProofOf(creds[c].fingerprint, creds[c].proof)

Inv == TypeOK /\ LoginInv /\ NonceLink /\ SignedLink

-----------------------------------------------------------------------------
\* The steps of the logins, in the terms of LoginFlow.

LoginStep(r) ==
    \/ /\ phaseOf(r) = "idle" /\ phaseOf(r)' = "pending"
       /\ granted'[r] = granted[r] /\ Len(tokens'[r]) = Len(tokens[r])
    \/ /\ phaseOf(r) = "pending" /\ phaseOf(r)' = "granted"
       /\ granted'[r] \in Fp /\ Len(tokens'[r]) = Len(tokens[r])
    \/ /\ phaseOf(r) = "granted" /\ phaseOf(r)' = "over"
       /\ granted'[r] = granted[r] /\ Len(tokens'[r]) = Len(tokens[r]) + 1
    \/ /\ phaseOf(r) \in {"pending", "granted"} /\ phaseOf(r)' = "over"
       /\ granted'[r] = granted[r] /\ Len(tokens'[r]) = Len(tokens[r])
    \/ /\ phaseOf(r)' = phaseOf(r)
       /\ granted'[r] = granted[r] /\ Len(tokens'[r]) = Len(tokens[r])
LoginSteps == \A r \in Request : LoginStep(r)

\* Requests and codes that were dropped (they expired, or the process restarted), apart
\* from one request and one code.
DroppedBut(R, C) ==
    /\ \A r \in Request \ R : requests'[r] \in {requests[r], None}
    /\ \A c \in Code \ C : codes'[c] \in {codes[c], None}

\* None is no record.
LEMMA NotNone == /\ \A x \in LoginRequest : x # None
                 /\ \A x \in AuthCode : x # None
                 /\ \A x \in Passkey : x # None
                 /\ \A x \in Registration : x # None
                 /\ \A x \in Ceremony : x # None
                 /\ \A x \in NonceRecord(Fp) : x # None
                 /\ \A x \in Fp : x # None
                 /\ \A x \in KeyRow : x # None
                 /\ \A x \in Text : x # None
  BY OIDCAssumption

\* The numbers that are drawn.
LEMMA MadeIs ==
  ASSUME TypeOK
  PROVE  /\ made.request \in 0..MaxRequests /\ made.code \in 0..MaxCodes /\ made.nonce \in 0..MaxNonces
         /\ made.ticket \in 0..MaxTickets /\ made.challenge \in 0..MaxChallenges
         /\ MaxRequests \in Nat /\ MaxCodes \in Nat /\ MaxNonces \in Nat /\ MaxTickets \in Nat
         /\ MaxChallenges \in Nat
  BY OIDCAssumption DEF TypeOK

\* The phase of a login.
LEMMA PhaseIs ==
  ASSUME NEW r \in Request
  PROVE  /\ phaseOf(r) = IF requests[r] # None THEN "pending" ELSE IF Coded(r) THEN "granted"
                         ELSE IF r > made.request THEN "idle" ELSE "over"
         /\ phaseOf(r)' = IF requests'[r] # None THEN "pending" ELSE IF Coded(r)' THEN "granted"
                          ELSE IF r > made'.request THEN "idle" ELSE "over"
  BY DEF phaseOf, Coded

\* What is begun: no login is pending or has a code before its id is drawn.
LEMMA Begun ==
  ASSUME TypeOK, LoginInv, NEW r \in Request
  PROVE  /\ requests[r] # None => r <= made.request /\ Untouched(r)
         /\ Coded(r) => r <= made.request
         /\ granted[r] # None => requests[r] = None
  <1>1. made.request \in Nat /\ r \in Nat
    BY MadeIs DEF Request
  <1> QED BY <1>1 DEF LoginInv, DrawnLink, RequestLink, Untouched

\* Dropping requests and codes ends their logins.
LEMMA LoginsDropped ==
  ASSUME TypeOK, LoginInv, UNCHANGED <<began, granted, tokens>>,
         made'.request = made.request, made'.code = made.code, DroppedBut({}, {})
  PROVE  LoginInv' /\ LoginSteps
  <1>1. \A r \in Request : Coded(r)' => Coded(r)
    BY DEF Coded, DroppedBut
  <1>2. \A r \in Request : Untouched(r) => Untouched(r)'
    BY <1>1 DEF Untouched
  <1>3. DrawnLink'
    BY <1>2 DEF LoginInv, DrawnLink, DroppedBut
  <1>4. RequestLink'
    BY <1>2 DEF LoginInv, RequestLink, DroppedBut
  <1>5. CodeLink'
    BY DEF LoginInv, CodeLink, DroppedBut
  <1>6. TokenLink'
    BY DEF LoginInv, TokenLink, BoundTo
  <1>7. ASSUME NEW r \in Request PROVE LoginStep(r)
    <2>1. requests[r] # None => r <= made.request /\ Untouched(r)
      BY Begun
    <2>2. Coded(r) => r <= made.request
      BY Begun
    <2>3. r \in Nat /\ made.request \in Nat /\ requests'[r] \in {requests[r], None}
      BY MadeIs DEF Request, DroppedBut
    <2> QED BY <1>1, <2>1, <2>2, <2>3, PhaseIs DEF LoginStep, Untouched
  <1> QED BY <1>3, <1>4, <1>5, <1>6, <1>7 DEF LoginInv, LoginSteps

\* A request that is drawn begins a login.
LEMMA LoginBegins ==
  ASSUME TypeOK, LoginInv, NEW q \in Request, q = made.request + 1,
         made'.request = q, made'.code = made.code, UNCHANGED <<granted, tokens>>,
         NEW rec \in LoginRequest, requests'[q] = rec, DroppedBut({q}, {}),
         began' = [began EXCEPT ![q] = [client |-> rec.client, challenge |-> rec.challenge]],
         [client |-> rec.client, challenge |-> rec.challenge] # None
  PROVE  LoginInv' /\ LoginSteps
  <1>1. \A r \in Request : Coded(r)' => Coded(r)
    BY DEF Coded, DroppedBut
  <1>2. \A r \in Request : Untouched(r) => Untouched(r)'
    BY <1>1 DEF Untouched
  <1>3. made.request \in Nat /\ Request \subseteq Nat
    BY MadeIs DEF Request
  <1>4. requests[q] = None /\ Untouched(q) /\ rec # None
    BY <1>3, NotNone DEF LoginInv, DrawnLink
  <1>5. /\ began'[q].client = rec.client /\ began'[q].challenge = rec.challenge /\ began'[q] # None
        /\ \A r \in Request : r # q => began'[r] = began[r]
    BY DEF TypeOK
  <1>6. DrawnLink'
    BY <1>2, <1>3 DEF LoginInv, DrawnLink, DroppedBut
  <1>7. RequestLink'
    <2>1. ASSUME NEW r \in Request, requests'[r] # None
          PROVE  /\ Untouched(r)' /\ began'[r] # None
                 /\ began'[r].client = requests'[r].client /\ began'[r].challenge = requests'[r].challenge
      <3>1. CASE r = q
        BY <1>2, <1>4, <1>5, <3>1
      <3>2. CASE r # q
        BY <1>2, <1>5, <2>1, <3>2 DEF LoginInv, RequestLink, DroppedBut
      <3> QED BY <3>1, <3>2
    <2> QED BY <2>1 DEF RequestLink
  <1>8. CodeLink'
    <2>1. ASSUME NEW c \in Code, codes'[c] # None
          PROVE  codes'[c] = codes[c] /\ codes[c] # None /\ codes[c].request # q /\ codes[c].request \in Request
      <3>1. codes'[c] = codes[c] /\ codes[c] # None
        BY <2>1 DEF DroppedBut
      <3>2. codes[c].request \in Request
        BY <3>1 DEF TypeOK, AuthCode
      <3> QED BY <1>4, <3>1, <3>2 DEF Untouched, Coded
    <2> QED BY <1>5, <2>1 DEF LoginInv, CodeLink
  <1>9. TokenLink'
    <2>1. ASSUME NEW r \in Request, NEW i \in DOMAIN tokens[r] PROVE r # q
      BY <1>4 DEF Untouched
    <2> QED BY <1>5, <2>1 DEF LoginInv, TokenLink, BoundTo
  <1>10. ASSUME NEW r \in Request PROVE LoginStep(r)
    <2>1. requests[r] # None => r <= made.request /\ Untouched(r)
      BY Begun
    <2>2. Coded(r) => r <= made.request
      BY Begun
    <2>3. CASE r = q
      BY <1>3, <1>4, <2>3, PhaseIs DEF LoginStep, Untouched
    <2>4. CASE r # q
      <3>1. requests'[r] \in {requests[r], None} /\ (r > made'.request <=> r > made.request)
        BY <1>3, <2>4 DEF DroppedBut
      <3> QED BY <1>1, <1>3, <2>1, <2>2, <3>1, PhaseIs DEF LoginStep, Untouched
    <2> QED BY <2>3, <2>4
  <1> QED BY <1>6, <1>7, <1>8, <1>9, <1>10 DEF LoginInv, LoginSteps

\* A pending request that is popped for a code is granted.
LEMMA LoginGranted ==
  ASSUME TypeOK, LoginInv, NEW q \in Request, requests[q] # None, requests'[q] = None,
         NEW d \in Code, d = made.code + 1, made'.code = d, made'.request = made.request,
         NEW rec \in AuthCode, codes'[d] = rec, rec.request = q,
         rec.client = requests[q].client, rec.challenge = requests[q].challenge,
         granted' = [granted EXCEPT ![q] = rec.fingerprint], DroppedBut({q}, {d}),
         UNCHANGED <<began, tokens>>
  PROVE  LoginInv' /\ LoginSteps
  <1>1. Untouched(q) /\ q <= made.request /\ rec # None /\ rec.fingerprint \in Fp
    BY Begun, NotNone DEF AuthCode
  <1>2. made.code \in Nat /\ Code \subseteq Nat /\ made.request \in Nat /\ Request \subseteq Nat
    BY MadeIs DEF Code, Request
  <1>3. codes[d] = None
    BY <1>2 DEF LoginInv, DrawnLink
  <1>4. /\ granted'[q] = rec.fingerprint
        /\ \A r \in Request : r # q => granted'[r] = granted[r]
    BY DEF TypeOK
  <1>5. /\ Coded(q)'
        /\ \A r \in Request : r # q => (Coded(r)' => Coded(r))
    <2>1. Coded(q)'
      BY <1>1 DEF Coded
    <2>2. ASSUME NEW r \in Request, r # q, NEW c \in Code, codes'[c] # None, codes'[c].request = r
          PROVE  codes[c] # None /\ codes[c].request = r
      <3>1. c # d
        BY <2>2
      <3> QED BY <2>2, <3>1 DEF DroppedBut
    <2> QED BY <2>1, <2>2 DEF Coded
  <1>6. \A r \in Request : r # q /\ Untouched(r) => Untouched(r)'
    BY <1>4, <1>5 DEF Untouched
  <1>7. DrawnLink'
    <2>1. ASSUME NEW r \in Request, r > made'.request PROVE requests'[r] = None /\ Untouched(r)'
      <3>1. r # q
        BY <1>1, <1>2, <2>1
      <3> QED BY <1>6, <2>1, <3>1 DEF LoginInv, DrawnLink, DroppedBut
    <2>2. ASSUME NEW c \in Code, c > made'.code PROVE codes'[c] = None
      <3>1. c # d /\ c > made.code
        BY <1>2, <2>2
      <3> QED BY <3>1 DEF LoginInv, DrawnLink, DroppedBut
    <2> QED BY <2>1, <2>2 DEF DrawnLink
  <1>8. RequestLink'
    <2>1. ASSUME NEW r \in Request, requests'[r] # None PROVE r # q
      BY <2>1
    <2> QED BY <1>6, <2>1 DEF LoginInv, RequestLink, DroppedBut
  <1>9. CodeLink'
    <2>1. ASSUME NEW c \in Code, codes'[c] # None, c # d
          PROVE  codes'[c] = codes[c] /\ codes[c] # None /\ codes[c].request # q /\ codes[c].request \in Request
      <3>1. codes'[c] = codes[c] /\ codes[c] # None
        BY <2>1 DEF DroppedBut
      <3>2. codes[c].request \in Request
        BY <3>1 DEF TypeOK, AuthCode
      <3> QED BY <1>1, <3>1, <3>2 DEF Untouched, Coded
    <2>2. ASSUME NEW c \in Code, codes'[c] # None
          PROVE  LET r == codes'[c].request IN
                 /\ granted'[r] = codes'[c].fingerprint /\ tokens'[r] = << >> /\ began'[r] # None
                 /\ began'[r].client = codes'[c].client /\ began'[r].challenge = codes'[c].challenge
      <3>1. CASE c = d
        BY <1>1, <1>4, <3>1 DEF LoginInv, RequestLink, Untouched
      <3>2. CASE c # d
        BY <1>4, <2>1, <2>2, <3>2 DEF LoginInv, CodeLink
      <3> QED BY <3>1, <3>2
    <2>3. ASSUME NEW c \in Code, NEW e \in Code, codes'[c] # None, codes'[e] # None,
                 codes'[c].request = codes'[e].request
          PROVE  c = e
      BY <2>1, <2>3 DEF LoginInv, CodeLink
    <2> QED BY <2>2, <2>3 DEF CodeLink
  <1>10. TokenLink'
    <2>1. ASSUME NEW r \in Request, NEW i \in DOMAIN tokens[r] PROVE r # q
      BY <1>1 DEF Untouched
    <2> QED BY <1>4, <2>1 DEF LoginInv, TokenLink, BoundTo
  <1>11. ASSUME NEW r \in Request PROVE LoginStep(r)
    <2>1. requests[r] # None => r <= made.request /\ Untouched(r)
      BY Begun
    <2>2. Coded(r) => r <= made.request
      BY Begun
    <2>3. CASE r = q
      BY <1>1, <1>4, <1>5, <2>3, PhaseIs DEF LoginStep
    <2>4. CASE r # q
      <3>1. requests'[r] \in {requests[r], None}
        BY <2>4 DEF DroppedBut
      <3> QED BY <1>2, <1>4, <1>5, <2>1, <2>2, <2>4, <3>1, PhaseIs DEF LoginStep, Untouched
    <2> QED BY <2>3, <2>4
  <1> QED BY <1>7, <1>8, <1>9, <1>10, <1>11 DEF LoginInv, LoginSteps

\* A code that is taken ends its login, with a token or without.
LEMMA LoginRedeemed ==
  ASSUME TypeOK, LoginInv, NEW d \in Code, codes[d] # None, codes' = [codes EXCEPT ![d] = None],
         UNCHANGED <<requests, made, began, granted>>,
         NEW tk, tk.client = codes[d].client, tk.subject = codes[d].fingerprint,
         codes[d].challenge # None => tk.verifier = codes[d].challenge,
         \/ tokens' = tokens
         \/ tokens' = [tokens EXCEPT ![codes[d].request] = Append(@, tk)]
  PROVE  LoginInv' /\ LoginSteps
  <1>1. codes[d] \in AuthCode
    BY DEF TypeOK
  <1>2. PICK q \in Request : q = codes[d].request
    BY <1>1 DEF AuthCode
  <1>3. /\ granted[q] = codes[d].fingerprint /\ tokens[q] = << >> /\ began[q] # None
        /\ began[q].client = codes[d].client /\ began[q].challenge = codes[d].challenge
    BY <1>2 DEF LoginInv, CodeLink
  <1>4. Coded(q) /\ granted[q] # None /\ q <= made.request /\ requests[q] = None
    <2>1. Coded(q) /\ granted[q] # None
      BY <1>1, <1>2, <1>3, NotNone DEF Coded, AuthCode
    <2> QED BY <2>1, Begun
  <1>5. codes'[d] = None /\ \A c \in Code : c # d => codes'[c] = codes[c]
    BY DEF TypeOK
  <1>6. ~Coded(q)' /\ \A r \in Request : r # q => (Coded(r)' <=> Coded(r))
    <2>1. \A c \in Code : codes[c] # None /\ codes[c].request = q => c = d
      BY <1>2 DEF LoginInv, CodeLink
    <2> QED BY <1>2, <1>5, <2>1 DEF Coded
  <1>7. /\ tokens'[q] = << >> \/ tokens'[q] = <<tk>>
        /\ \A r \in Request : r # q => tokens'[r] = tokens[r]
    <2>1. CASE tokens' = tokens
      BY <1>3, <2>1
    <2>2. CASE tokens' = [tokens EXCEPT ![q] = Append(@, tk)]
      <3>1. Append(tokens[q], tk) = <<tk>>
        BY <1>3
      <3> QED BY <2>2, <3>1 DEF TypeOK
    <2> QED BY <1>2, <2>1, <2>2
  <1>8. \A r \in Request : Untouched(r) => r # q /\ Untouched(r)'
    BY <1>4, <1>6, <1>7 DEF Untouched
  <1>9. DrawnLink'
    BY <1>5, <1>8 DEF LoginInv, DrawnLink
  <1>10. RequestLink'
    BY <1>8 DEF LoginInv, RequestLink
  <1>11. CodeLink'
    <2>1. ASSUME NEW c \in Code, codes'[c] # None
          PROVE  codes'[c] = codes[c] /\ codes[c] # None /\ codes[c].request # q /\ codes[c].request \in Request
      <3>1. codes'[c] = codes[c] /\ codes[c] # None /\ c # d
        BY <1>5, <2>1
      <3>2. codes[c].request \in Request
        BY <3>1 DEF TypeOK, AuthCode
      <3> QED BY <1>2, <3>1, <3>2 DEF LoginInv, CodeLink
    <2> QED BY <1>7, <2>1 DEF LoginInv, CodeLink
  <1>12. TokenLink'
    <2>1. ASSUME NEW r \in Request, NEW i \in DOMAIN tokens'[r]
          PROVE  /\ tokens'[r][i].client = began[r].client /\ tokens'[r][i].subject = granted[r]
                 /\ began[r].challenge # None => tokens'[r][i].verifier = began[r].challenge
      <3>1. CASE r = q
        <4>1. tokens'[q] = <<tk>> /\ i = 1
          BY <1>7, <2>1, <3>1
        <4> QED BY <1>3, <3>1, <4>1
      <3>2. CASE r # q
        BY <1>7, <2>1, <3>2 DEF LoginInv, TokenLink, BoundTo
      <3> QED BY <3>1, <3>2
    <2> QED BY <2>1 DEF TokenLink, BoundTo
  <1>13. ASSUME NEW r \in Request PROVE LoginStep(r)
    <2>1. CASE r = q
      <3>1. phaseOf(r) = "granted" /\ phaseOf(r)' = "over"
        <4>1. q \in Nat /\ made.request \in Nat
          BY MadeIs DEF Request
        <4> QED BY <1>4, <1>6, <2>1, <4>1, PhaseIs
      <3>2. Len(tokens[r]) = 0 /\ Len(tokens'[r]) \in {0, 1}
        BY <1>3, <1>7, <2>1
      <3> QED BY <3>1, <3>2 DEF LoginStep
    <2>2. CASE r # q
      BY <1>6, <1>7, <2>2, PhaseIs DEF LoginStep
    <2> QED BY <2>1, <2>2
  <1> QED BY <1>9, <1>10, <1>11, <1>12, <1>13 DEF LoginInv, LoginSteps

-----------------------------------------------------------------------------
\* The pieces of the handlers.

Made == [request : 0..MaxRequests, code : 0..MaxCodes, nonce : 0..MaxNonces,
         ticket : 0..MaxTickets, challenge : 0..MaxChallenges]
Purpose == ({"login"} \X Request) \cup ({"passkey"} \X Ticket)

\* _evict_expired() drops, and does nothing else.
LEMMA EvictIs ==
  ASSUME NEW K, NEW R, NEW table \in [K -> R \cup {None}], NEW t
  PROVE  /\ evict_expired(table, t) \in [K -> R \cup {None}]
         /\ \A x \in K : evict_expired(table, t)[x] \in {table[x], None}
  BY DEF evict_expired

\* GET /oidc/authorize.
LEMMA AuthorizeLogin ==
  ASSUME Inv, NEW b \in Begins, authorize(b.client, b.challenge)
  PROVE  /\ LoginInv' /\ LoginSteps
         /\ requests' \in [Request -> LoginRequest \cup {None}]
         /\ codes' \in [Code -> AuthCode \cup {None}] /\ \A c \in Code : codes'[c] \in {codes[c], None}
         /\ made' \in Made /\ made'.nonce = made.nonce
         /\ began' \in [Request -> Opening \cup {None}]
  <1>1. TypeOK /\ LoginInv /\ now \in Nat
    <2>1. TypeOK /\ LoginInv
      BY DEF Inv
    <2>2. now \in 0..MaxTime /\ MaxTime \in Nat
      BY <2>1, OIDCAssumption DEF TypeOK
    <2> QED BY <2>1, <2>2
  <1>2. b.client \in Client /\ b.challenge \in Verifier \cup {None}
    BY OIDCAssumption DEF Opening
  <1>3. PICK q : q = made.request + 1
    OBVIOUS
  <1>4. /\ made.request < MaxRequests /\ made' = [made EXCEPT !.request = q] /\ Fresh("request") = q
        /\ UNCHANGED <<granted, tokens>>
    BY <1>3 DEF authorize, Draw, Fresh
  <1>5. q \in Request /\ q \in 0..MaxRequests
    BY <1>1, <1>3, <1>4, MadeIs DEF Request
  <1>6. /\ made' \in Made /\ made'.request = q /\ made'.code = made.code /\ made'.nonce = made.nonce
    BY <1>1, <1>4, <1>5 DEF TypeOK, Made
  <1>7. PICK rec \in LoginRequest : /\ rec = [client |-> b.client, challenge |-> b.challenge,
                                              expires |-> now + REQUEST_TTL]
                                    /\ rec.client = b.client /\ rec.challenge = b.challenge
    <2>1. now + REQUEST_TTL \in Nat
      BY <1>1, OIDCAssumption
    <2>2. [client |-> b.client, challenge |-> b.challenge, expires |-> now + REQUEST_TTL] \in LoginRequest
      BY <1>2, <2>1 DEF LoginRequest
    <2> QED BY <2>2
  <1>8. /\ requests' = [evict_expired(requests, now) EXCEPT ![q] = rec]
        /\ codes' = evict_expired(codes, now)
        /\ began' = [began EXCEPT ![q] = [client |-> rec.client, challenge |-> rec.challenge]]
    BY <1>4, <1>7 DEF authorize
  <1>9. /\ codes' \in [Code -> AuthCode \cup {None}] /\ \A c \in Code : codes'[c] \in {codes[c], None}
    <2>1. codes \in [Code -> AuthCode \cup {None}]
      BY <1>1 DEF TypeOK
    <2> QED BY <1>8, <2>1, EvictIs
  <1>10. /\ requests' \in [Request -> LoginRequest \cup {None}] /\ requests'[q] = rec
         /\ \A r \in Request : r # q => requests'[r] \in {requests[r], None}
    <2>1. requests \in [Request -> LoginRequest \cup {None}]
      BY <1>1 DEF TypeOK
    <2>2. /\ evict_expired(requests, now) \in [Request -> LoginRequest \cup {None}]
          /\ \A x \in Request : evict_expired(requests, now)[x] \in {requests[x], None}
      BY <2>1, EvictIs
    <2> QED BY <1>5, <1>8, <2>2
  <1>11. PICK begin \in Opening :
            begin = [client |-> rec.client, challenge |-> rec.challenge]
    BY <1>2, <1>7 DEF Opening
  <1>12. began' \in [Request -> Opening \cup {None}]
    BY <1>1, <1>8, <1>11 DEF TypeOK
  <1>13. begin # None
    BY <1>11, OIDCAssumption
  <1>14. DroppedBut({q}, {})
    BY <1>9, <1>10 DEF DroppedBut
  <1>15. LoginInv' /\ LoginSteps
    BY <1>1, <1>3, <1>4, <1>5, <1>6, <1>8, <1>10, <1>11, <1>13, <1>14, LoginBegins
  <1> QED BY <1>6, <1>9, <1>10, <1>12, <1>15

\* issue_code() for the request that was popped.
LEMMA GrantCodeLogin ==
  ASSUME Inv, NEW r \in Request, requests[r] # None, NEW f \in Fp, NEW amr \in {"pgp", "webauthn"},
         NEW p, ProofOf(f, p), NEW t \in Nat, GrantCode(r, f, amr, p, t), UNCHANGED <<began, tokens>>
  PROVE  /\ LoginInv' /\ LoginSteps
         /\ requests' \in [Request -> LoginRequest \cup {None}]
         /\ codes' \in [Code -> AuthCode \cup {None}]
         /\ \A c \in Code : codes'[c] # None => ProofOf(codes'[c].fingerprint, codes'[c].proof)
         /\ made' \in Made /\ made'.nonce = made.nonce
         /\ granted' \in [Request -> Fp \cup {None}]
  <1>1. TypeOK /\ LoginInv /\ requests \in [Request -> LoginRequest \cup {None}]
        /\ codes \in [Code -> AuthCode \cup {None}] /\ made \in Made
        /\ granted \in [Request -> Fp \cup {None}]
    BY DEF Inv, TypeOK, Made
  <1>2. \A c \in Code : codes[c] # None => ProofOf(codes[c].fingerprint, codes[c].proof)
    BY DEF Inv, SignedLink
  <1>3. CASE get_login_request(r, t) = None
    <2>1. requests' = [requests EXCEPT ![r] = None] /\ UNCHANGED <<codes, made, granted>>
      BY <1>3 DEF GrantCode
    <2>2. requests' \in [Request -> LoginRequest \cup {None}] /\ DroppedBut({}, {})
      BY <1>1, <2>1 DEF DroppedBut
    <2>3. LoginInv' /\ LoginSteps
      BY <1>1, <2>1, <2>2, LoginsDropped
    <2> QED BY <1>1, <1>2, <2>1, <2>2, <2>3
  <1>4. CASE get_login_request(r, t) # None
    <2>1. get_login_request(r, t) = requests[r] /\ requests[r] \in LoginRequest
      BY <1>1, <1>4 DEF get_login_request
    <2>2. PICK d : d = made.code + 1
      OBVIOUS
    <2>3. /\ made.code < MaxCodes /\ made' = [made EXCEPT !.code = d] /\ Fresh("code") = d
          /\ requests' = evict_expired([requests EXCEPT ![r] = None], t)
          /\ granted' = [granted EXCEPT ![r] = f]
      BY <1>4, <2>2 DEF GrantCode, Draw, Fresh, pop_login_request
    <2>4. d \in Code /\ d \in 0..MaxCodes
      BY <1>1, <2>2, <2>3, MadeIs DEF Code
    <2>5. made' \in Made /\ made'.code = d /\ made'.request = made.request /\ made'.nonce = made.nonce
      BY <1>1, <2>3, <2>4 DEF Made
    <2>6. PICK rec \in AuthCode :
             /\ rec = [client |-> requests[r].client, challenge |-> requests[r].challenge, fingerprint |-> f,
                       amr |-> amr, expires |-> t + CODE_TTL, request |-> r, proof |-> p]
             /\ rec.client = requests[r].client /\ rec.challenge = requests[r].challenge
             /\ rec.fingerprint = f /\ rec.request = r /\ rec.proof = p
      <3>1. t + CODE_TTL \in Nat
        BY OIDCAssumption
      <3>2. requests[r].client \in Client /\ requests[r].challenge \in Verifier \cup {None}
        BY <2>1 DEF LoginRequest
      <3>3. [client |-> requests[r].client, challenge |-> requests[r].challenge, fingerprint |-> f,
             amr |-> amr, expires |-> t + CODE_TTL, request |-> r, proof |-> p] \in AuthCode
        BY <3>1, <3>2 DEF AuthCode, ProofOf
      <3> QED BY <3>3
    <2>7. codes' = [evict_expired(codes, t) EXCEPT ![d] = rec]
      BY <1>4, <2>1, <2>3, <2>6 DEF GrantCode
    <2>8. /\ codes' \in [Code -> AuthCode \cup {None}] /\ codes'[d] = rec
          /\ \A c \in Code : c # d => codes'[c] \in {codes[c], None}
      <3>1. /\ evict_expired(codes, t) \in [Code -> AuthCode \cup {None}]
            /\ \A x \in Code : evict_expired(codes, t)[x] \in {codes[x], None}
        BY <1>1, EvictIs
      <3> QED BY <2>4, <2>7, <3>1
    <2>9. /\ requests' \in [Request -> LoginRequest \cup {None}] /\ requests'[r] = None
          /\ \A x \in Request : x # r => requests'[x] \in {requests[x], None}
      <3>1. PICK table \in [Request -> LoginRequest \cup {None}] : table = [requests EXCEPT ![r] = None]
        BY <1>1
      <3>2. table[r] = None /\ \A x \in Request : x # r => table[x] = requests[x]
        BY <1>1, <3>1
      <3>3. /\ evict_expired(table, t) \in [Request -> LoginRequest \cup {None}]
            /\ \A x \in Request : evict_expired(table, t)[x] \in {table[x], None}
        BY <3>1, EvictIs
      <3> QED BY <2>3, <3>1, <3>2, <3>3
    <2>10. granted' \in [Request -> Fp \cup {None}]
      BY <1>1, <2>3
    <2>11. DroppedBut({r}, {d})
      BY <2>8, <2>9 DEF DroppedBut
    <2>12. LoginInv' /\ LoginSteps
      BY <1>1, <2>2, <2>3, <2>4, <2>5, <2>6, <2>8, <2>9, <2>11, LoginGranted
    <2>13. \A c \in Code : codes'[c] # None => ProofOf(codes'[c].fingerprint, codes'[c].proof)
      BY <1>2, <2>6, <2>8
    <2> QED BY <2>5, <2>8, <2>9, <2>10, <2>12, <2>13
  <1> QED BY <1>3, <1>4

\* POST /oidc/token.
LEMMA TokenLogin ==
  ASSUME Inv, NEW c \in Code, NEW client \in Client, NEW verifier \in Verifier \cup {None},
         token(c, client, verifier)
  PROVE  /\ LoginInv' /\ LoginSteps
         /\ codes' \in [Code -> AuthCode \cup {None}] /\ \A d \in Code : codes'[d] \in {codes[d], None}
         /\ tokens' \in [Request -> Seq([client : Client, subject : Fp, verifier : Verifier \cup {None}])]
  <1>1. TypeOK /\ LoginInv /\ codes \in [Code -> AuthCode \cup {None}] /\ codes[c] # None
        /\ codes[c] \in AuthCode /\ codes' = [codes EXCEPT ![c] = None]
        /\ UNCHANGED <<requests, made, began, granted>>
    BY DEF Inv, TypeOK, token, consume_code
  <1>2. /\ codes' \in [Code -> AuthCode \cup {None}] /\ \A d \in Code : codes'[d] \in {codes[d], None}
    BY <1>1
  <1> DEFINE Tk == [client : Client, subject : Fp, verifier : Verifier \cup {None}]
  <1>3. tokens \in [Request -> Seq(Tk)]
    BY <1>1 DEF TypeOK
  <1>4. CASE tokens' = tokens
    <2> DEFINE tk == [client |-> codes[c].client, subject |-> codes[c].fingerprint,
                      verifier |-> codes[c].challenge]
    <2>1. LoginInv' /\ LoginSteps
      <3>1. tk.client = codes[c].client /\ tk.subject = codes[c].fingerprint
            /\ (codes[c].challenge # None => tk.verifier = codes[c].challenge)
        OBVIOUS
      <3> HIDE DEF tk
      <3> QED BY <1>1, <1>4, <3>1, LoginRedeemed
    <2> QED BY <1>2, <1>3, <1>4, <2>1
  <1>5. CASE /\ codes[c].client = client /\ verify_pkce(verifier, codes[c].challenge)
             /\ tokens' = [tokens EXCEPT ![codes[c].request] =
                   Append(@, [client |-> client, subject |-> codes[c].fingerprint, verifier |-> verifier])]
    <2>1. PICK tk \in Tk : /\ tk = [client |-> client, subject |-> codes[c].fingerprint, verifier |-> verifier]
                           /\ tk.client = client /\ tk.subject = codes[c].fingerprint
                           /\ tk.verifier = verifier
      <3>1. codes[c].fingerprint \in Fp
        BY <1>1 DEF AuthCode
      <3>2. [client |-> client, subject |-> codes[c].fingerprint, verifier |-> verifier] \in Tk
        BY <3>1
      <3> QED BY <3>2
    <2>2. tokens' = [tokens EXCEPT ![codes[c].request] = Append(@, tk)]
      BY <1>5, <2>1
    <2>3. codes[c].challenge # None => tk.verifier = codes[c].challenge
      BY <1>5, <2>1 DEF verify_pkce
    <2>4. LoginInv' /\ LoginSteps
      BY <1>1, <1>5, <2>1, <2>2, <2>3, LoginRedeemed
    <2>5. tokens' \in [Request -> Seq(Tk)]
      <3>1. codes[c].request \in Request
        BY <1>1 DEF AuthCode
      <3>2. Append(tokens[codes[c].request], tk) \in Seq(Tk)
        BY <1>3, <2>1, <3>1, AppendProperties
      <3> QED BY <1>3, <2>2, <3>1, <3>2
    <2> QED BY <1>2, <2>4, <2>5
  <1> QED BY <1>4, <1>5 DEF token

\* A good signature under a text that passes for f counts for f.
LEMMA GoodSignature ==
  ASSUME NEW sig \in Sig, NEW text \in Text, NEW f, matches(text, f), verify_signature(sig, text)
  PROVE  SignedFor(f, sig, text)
  <1>1. text \in KeyTexts(Fp)
    BY OIDCAssumption
  <1>2. text.first \subseteq text.keys
    BY <1>1 DEF KeyTexts
  <1> QED BY <1>2 DEF SignedFor, verify_signature, matches, fingerprint_from_armor

\* The text _verify_pgp() takes, sent or enrolled, is one.
LEMMA ArmorIs ==
  ASSUME TypeOK, NEW f \in Fp, NEW pub \in Text \cup {None}
  PROVE  /\ armor_for(f, pub) \in Text \cup {None}
         /\ armor_matches(f, armor_for(f, pub)) => armor_for(f, pub) \in Text
  BY NotNone DEF armor_for, armor_matches, KeyRow, TypeOK

\* What _verify_pgp() accepts is a proof for the fingerprint.
LEMMA PgpCounts ==
  ASSUME TypeOK, NEW f \in Fp, NEW n, NEW sig \in Sig, NEW pub \in Text \cup {None},
         PgpAccepts(f, n, sig, pub)
  PROVE  ProofOf(f, [sig |-> sig, text |-> armor_for(f, pub)])
  <1>1. PICK text : text = armor_for(f, pub)
    OBVIOUS
  <1>2. text \in Text /\ matches(text, f) /\ verify_signature(sig, text)
    BY <1>1, ArmorIs DEF PgpAccepts, armor_matches
  <1>3. SignedFor(f, sig, text)
    BY <1>2, GoodSignature
  <1>4. [sig |-> sig, text |-> text] \in Proof
    BY <1>2 DEF Proof
  <1> QED BY <1>1, <1>3, <1>4 DEF ProofOf

\* _verify_pgp(): it takes only a nonce that served nothing.
LEMMA PgpProof ==
  ASSUME Inv, NEW f \in Fp, NEW n \in 1..made.nonce, NEW sig \in Sig, NEW pub \in Text \cup {None}, NEW use,
         PgpAccepts(f, n, sig, pub) => use \in Purpose,
         PgpEffects(f, n, sig, pub, use), made'.nonce = made.nonce
  PROVE  /\ keys' \in [Fp -> KeyRow \cup {None}]
         /\ cache' \in [Nonce -> NonceRecord(Fp) \cup {None}]
         /\ uses' \in [Nonce -> SUBSET Purpose]
         /\ NonceLink'
  <1>1. TypeOK /\ NonceLink /\ cache \in [Nonce -> NonceRecord(Fp) \cup {None}]
        /\ uses \in [Nonce -> SUBSET Purpose] /\ keys \in [Fp -> KeyRow \cup {None}]
    BY DEF Inv, TypeOK, Purpose
  <1>2. n \in Nonce /\ now \in Nat /\ made.nonce \in Nat /\ Nonce \subseteq Nat /\ n <= made.nonce
    <2>1. made.nonce \in 0..MaxNonces /\ MaxNonces \in Nat
      BY <1>1, MadeIs
    <2>2. now \in 0..MaxTime /\ MaxTime \in Nat
      BY <1>1, OIDCAssumption DEF TypeOK
    <2> QED BY <2>1, <2>2 DEF Nonce
  <1>10. /\ armor_for(f, pub) \in Text \cup {None}
         /\ armor_matches(f, armor_for(f, pub)) => armor_for(f, pub) \in Text
    BY <1>1, ArmorIs
  <1>4. keys' \in [Fp -> KeyRow \cup {None}]
    BY <1>1, <1>10 DEF PgpEffects, KeyRow
  <1>5. CASE consumeError(peek(cache, n, now), f, now) = ""
    <2>1. cache[n] # None /\ peek(cache, n, now) = cache[n] /\ ~cache[n].used
      BY <1>5 DEF peek, consumeError
    <2>2. PICK rec \in NonceRecord(Fp) : rec = cache[n]
      BY <1>1, <1>2, <2>1
    <2>3. PICK e \in Nat : e = timeoutAt(now, Grace)
      BY <1>2, GraceAssumption DEF timeoutAt
    <2>4. PICK new \in NonceRecord(Fp) : new = [rec EXCEPT !.used = TRUE, !.evictAt = e] /\ new.used = TRUE
      <3>1. rec \in [fingerprint : Fp, issuedAt : Nat, used : BOOLEAN, evictAt : Nat]
        BY <2>2 DEF NonceRecord
      <3>2. [rec EXCEPT !.used = TRUE, !.evictAt = e] \in NonceRecord(Fp)
        BY <2>3, <3>1 DEF NonceRecord
      <3>3. [rec EXCEPT !.used = TRUE, !.evictAt = e].used = TRUE
        BY <3>1
      <3> QED BY <3>2, <3>3
    <2>5. spend(n, f) = [cache EXCEPT ![n] = new]
      BY <1>5, <2>1, <2>2, <2>3, <2>4 DEF spend, markUsed
    <2>6. cache' = cache \/ cache' = [cache EXCEPT ![n] = new]
      BY <2>5 DEF PgpEffects
    <2>7. uses[n] = {}
      BY <1>1, <1>2, <2>1 DEF NonceLink
    <2>8. uses' = uses \/ (uses' = [uses EXCEPT ![n] = {use}] /\ use \in Purpose
                             /\ cache' = [cache EXCEPT ![n] = new])
      <3>1. CASE ~PgpAccepts(f, n, sig, pub)
        BY <3>1 DEF PgpEffects
      <3>2. CASE PgpAccepts(f, n, sig, pub)
        <4>1. uses' = [uses EXCEPT ![n] = uses[n] \cup {use}]
          BY <3>2 DEF PgpEffects
        <4>2. uses[n] \cup {use} = {use}
          BY <2>7
        <4>3. cache' = spend(n, f)
          BY <3>2 DEF PgpEffects, PgpAccepts
        <4> QED BY <2>5, <3>2, <4>1, <4>2, <4>3
      <3> QED BY <3>1, <3>2
    <2>9. /\ cache' \in [Nonce -> NonceRecord(Fp) \cup {None}]
          /\ cache'[n] = cache[n] \/ cache'[n].used
          /\ \A m \in Nonce : m # n => cache'[m] = cache[m]
      BY <1>1, <1>2, <2>4, <2>6
    <2>10. /\ uses' \in [Nonce -> SUBSET Purpose]
           /\ uses'[n] = {} \/ (uses'[n] = {use} /\ cache'[n].used)
           /\ \A m \in Nonce : m # n => uses'[m] = uses[m]
      <3>1. CASE uses' = uses
        BY <1>1, <2>7, <3>1
      <3>2. CASE /\ uses' = [uses EXCEPT ![n] = {use}] /\ use \in Purpose
                 /\ cache' = [cache EXCEPT ![n] = new]
        <4>1. cache'[n] = new
          BY <1>1, <1>2, <3>2
        <4>2. {use} \in SUBSET Purpose
          BY <3>2
        <4>3. uses' \in [Nonce -> SUBSET Purpose] /\ uses'[n] = {use}
              /\ \A m \in Nonce : m # n => uses'[m] = uses[m]
          BY <1>1, <1>2, <3>2, <4>2
        <4> QED BY <2>4, <4>1, <4>3
      <3> QED BY <2>8, <3>1, <3>2
    <2>11. NonceLink'
      <3>1. ASSUME NEW m \in Nonce
            PROVE  /\ m > made'.nonce => cache'[m] = None /\ uses'[m] = {}
                   /\ uses'[m] = {} \/ ((\E x : uses'[m] = {x}) /\ (cache'[m] = None \/ cache'[m].used))
        <4>1. CASE m = n
          <5>1. ~(m > made'.nonce)
            BY <1>2, <4>1
          <5>2. uses'[m] = {} \/ (uses'[m] = {use} /\ cache'[m].used)
            BY <2>10, <4>1
          <5> QED BY <5>1, <5>2
        <4>2. CASE m # n
          BY <1>1, <2>9, <2>10, <4>2 DEF NonceLink
        <4> QED BY <4>1, <4>2
      <3> QED BY <3>1 DEF NonceLink
    <2> QED BY <1>4, <2>9, <2>10, <2>11
  <1>6. CASE consumeError(peek(cache, n, now), f, now) # ""
    <2>1. UNCHANGED <<cache, uses>>
      BY <1>6 DEF PgpEffects, PgpAccepts, spend
    <2> QED BY <1>1, <1>4, <2>1 DEF NonceLink
  <1> QED BY <1>5, <1>6

\* The invariant of the next state, from its parts.
LEMMA Parts ==
  ASSUME now' \in 0..MaxTime,
         requests' \in [Request -> LoginRequest \cup {None}], codes' \in [Code -> AuthCode \cup {None}],
         made' \in Made, began' \in [Request -> Opening \cup {None}], granted' \in [Request -> Fp \cup {None}],
         tokens' \in [Request -> Seq([client : Client, subject : Fp, verifier : Verifier \cup {None}])],
         LoginInv', \A c \in Code : codes'[c] # None => ProofOf(codes'[c].fingerprint, codes'[c].proof),
         keys' \in [Fp -> KeyRow \cup {None}],
         cache' \in [Nonce -> NonceRecord(Fp) \cup {None}], uses' \in [Nonce -> SUBSET Purpose], NonceLink',
         creds' \in [Cred -> Passkey \cup {None}], reg' \in [Ticket -> Registration \cup {None}],
         auth' \in [Request -> Ceremony \cup {None}], assertions' \subseteq Assertion,
         \A t \in Ticket : reg'[t] # None => ProofOf(reg'[t].fingerprint, reg'[t].proof),
         \A c \in Cred : creds'[c] # None => ProofOf(creds'[c].fingerprint, creds'[c].proof)
  PROVE  Inv'
  BY DEF Inv, TypeOK, SignedLink, Made, Purpose

\* The parts, in this state.
LEMMA Whole ==
  ASSUME Inv
  PROVE  /\ TypeOK /\ LoginInv /\ NonceLink
         /\ now \in 0..MaxTime /\ now \in Nat /\ MaxTime \in Nat
         /\ requests \in [Request -> LoginRequest \cup {None}] /\ codes \in [Code -> AuthCode \cup {None}]
         /\ made \in Made /\ began \in [Request -> Opening \cup {None}]
         /\ granted \in [Request -> Fp \cup {None}]
         /\ tokens \in [Request -> Seq([client : Client, subject : Fp, verifier : Verifier \cup {None}])]
         /\ \A c \in Code : codes[c] # None => ProofOf(codes[c].fingerprint, codes[c].proof)
         /\ keys \in [Fp -> KeyRow \cup {None}]
         /\ cache \in [Nonce -> NonceRecord(Fp) \cup {None}] /\ uses \in [Nonce -> SUBSET Purpose]
         /\ creds \in [Cred -> Passkey \cup {None}] /\ reg \in [Ticket -> Registration \cup {None}]
         /\ auth \in [Request -> Ceremony \cup {None}] /\ assertions \subseteq Assertion
         /\ \A t \in Ticket : reg[t] # None => ProofOf(reg[t].fingerprint, reg[t].proof)
         /\ \A c \in Cred : creds[c] # None => ProofOf(creds[c].fingerprint, creds[c].proof)
         /\ 1..made.request \subseteq Request /\ 1..made.code \subseteq Code
         /\ 1..made.ticket \subseteq Ticket
  <1>1. TypeOK /\ LoginInv /\ NonceLink /\ SignedLink
    BY DEF Inv
  <1>2. now \in 0..MaxTime /\ now \in Nat /\ MaxTime \in Nat
    <2>1. now \in 0..MaxTime /\ MaxTime \in Nat
      BY <1>1, OIDCAssumption DEF TypeOK
    <2> QED BY <2>1
  <1>3. 1..made.request \subseteq Request /\ 1..made.code \subseteq Code /\ 1..made.ticket \subseteq Ticket
    BY <1>1, MadeIs DEF Request, Code, Ticket
  <1> QED BY <1>1, <1>2, <1>3 DEF TypeOK, SignedLink, Made, Purpose

-----------------------------------------------------------------------------
\* One lemma per handler: it keeps the invariant and moves logins as LoginFlow allows.

LEMMA ChallengeStep ==
  ASSUME Inv, NEW f \in Fp, loadChallenge(f)
  PROVE  Inv' /\ LoginSteps
  <1>1. PICK n : n = made.nonce + 1
    OBVIOUS
  <1>2. /\ made.nonce < MaxNonces /\ made' = [made EXCEPT !.nonce = n] /\ cache' = issue(cache, n, f, now)
        /\ UNCHANGED <<now, requests, codes, keys, creds, reg, auth, began, granted, tokens, uses, assertions>>
    BY <1>1 DEF loadChallenge, Draw, Fresh
  <1>3. n \in Nonce /\ n \in 0..MaxNonces /\ made.nonce \in Nat /\ Nonce \subseteq Nat
    BY <1>1, <1>2, MadeIs, Whole, SMTT(30) DEF Nonce
  <1>4. made' \in Made /\ made'.request = made.request /\ made'.code = made.code /\ made'.nonce = n
    BY <1>2, <1>3, Whole DEF Made
  <1>5. cache' \in [Nonce -> NonceRecord(Fp) \cup {None}] /\ \A m \in Nonce : m # n => cache'[m] = cache[m]
    <2>1. PICK e \in Nat : e = timeoutAt(now, NONCE_TTL + Grace)
      BY Whole, GraceAssumption, TtlAssumption DEF timeoutAt
    <2>2. [fingerprint |-> f, issuedAt |-> now, used |-> FALSE, evictAt |-> e] \in NonceRecord(Fp)
      BY Whole DEF NonceRecord
    <2>3. cache' = [cache EXCEPT ![n] = [fingerprint |-> f, issuedAt |-> now, used |-> FALSE, evictAt |-> e]]
      BY <1>2, <2>1 DEF issue
    <2> QED BY <1>3, <2>2, <2>3, Whole
  <1>6. NonceLink'
    <2>1. NonceLink
      BY Whole
    <2>2. uses[n] = {}
      BY <1>1, <1>3, <2>1 DEF NonceLink
    <2>3. ASSUME NEW m \in Nonce
          PROVE  /\ m > made'.nonce => cache'[m] = None /\ uses'[m] = {}
                 /\ uses'[m] = {} \/ ((\E x : uses'[m] = {x}) /\ (cache'[m] = None \/ cache'[m].used))
      <3>1. CASE m = n
        BY <1>2, <1>3, <1>4, <2>2, <3>1
      <3>2. CASE m # n
        <4>1. cache'[m] = cache[m] /\ uses'[m] = uses[m] /\ (m > made'.nonce => m > made.nonce)
          BY <1>1, <1>2, <1>3, <1>4, <1>5, <3>2
        <4> QED BY <2>1, <4>1 DEF NonceLink
      <3> QED BY <3>1, <3>2
    <2> QED BY <2>3 DEF NonceLink
  <1>7. LoginInv' /\ LoginSteps
    <2>1. DroppedBut({}, {})
      BY <1>2 DEF DroppedBut
    <2> QED BY <1>2, <1>4, <2>1, Whole, LoginsDropped
  <1>8. Inv'
    BY <1>2, <1>4, <1>5, <1>6, <1>7, Whole, Parts
  <1> QED BY <1>7, <1>8

LEMMA AuthorizeStep ==
  ASSUME Inv, NEW b \in Begins, authorize(b.client, b.challenge)
  PROVE  Inv' /\ LoginSteps
  <1>1. UNCHANGED <<now, cache, keys, creds, reg, auth, granted, tokens, uses, assertions>>
    BY DEF authorize
  <1>2. /\ LoginInv' /\ LoginSteps
        /\ requests' \in [Request -> LoginRequest \cup {None}]
        /\ codes' \in [Code -> AuthCode \cup {None}] /\ \A c \in Code : codes'[c] \in {codes[c], None}
        /\ made' \in Made /\ made'.nonce = made.nonce
        /\ began' \in [Request -> Opening \cup {None}]
    BY AuthorizeLogin
  <1>3. NonceLink'
    BY <1>1, <1>2, Whole DEF NonceLink
  <1>4. \A c \in Code : codes'[c] # None => ProofOf(codes'[c].fingerprint, codes'[c].proof)
    BY <1>2, Whole
  <1>5. Inv'
    BY <1>1, <1>2, <1>3, <1>4, Whole, Parts
  <1> QED BY <1>2, <1>5

LEMMA CompleteStep ==
  ASSUME Inv, NEW r \in 1..made.request, NEW f \in Fp, NEW n \in 1..made.nonce, NEW sig \in Sig,
         NEW pub \in Text \cup {None}, NEW t \in EndTimes, complete(r, f, n, sig, pub, t)
  PROVE  Inv' /\ LoginSteps
  <1>1. /\ PgpEffects(f, n, sig, pub, <<"login", r>>) /\ now' = t
        /\ UNCHANGED <<creds, reg, auth, assertions, began, tokens>>
    BY DEF complete
  <1>2. r \in Request /\ requests[r] # None
    BY Whole DEF complete, get_login_request
  <1>3. t \in 0..MaxTime /\ t \in Nat
    BY Whole DEF EndTimes
  <1>4. <<"login", r>> \in Purpose
    BY <1>2 DEF Purpose
  <1>5. /\ LoginInv' /\ LoginSteps
        /\ requests' \in [Request -> LoginRequest \cup {None}]
        /\ codes' \in [Code -> AuthCode \cup {None}]
        /\ \A c \in Code : codes'[c] # None => ProofOf(codes'[c].fingerprint, codes'[c].proof)
        /\ made' \in Made /\ made'.nonce = made.nonce
        /\ granted' \in [Request -> Fp \cup {None}]
    <2>1. CASE PgpAccepts(f, n, sig, pub)
      <3>1. PICK p : p = [sig |-> sig, text |-> armor_for(f, pub)]
        OBVIOUS
      <3>2. GrantCode(r, f, "pgp", p, t)
        BY <2>1, <3>1 DEF complete
      <3>3. ProofOf(f, p)
        BY <2>1, <3>1, Whole, PgpCounts
      <3> QED BY <1>1, <1>2, <1>3, <3>2, <3>3, GrantCodeLogin
    <2>2. CASE ~PgpAccepts(f, n, sig, pub)
      <3>1. UNCHANGED <<requests, codes, made, granted>>
        BY <2>2 DEF complete
      <3>2. DroppedBut({}, {})
        BY <3>1 DEF DroppedBut
      <3>3. LoginInv' /\ LoginSteps
        BY <1>1, <3>1, <3>2, Whole, LoginsDropped
      <3> QED BY <3>1, <3>3, Whole
    <2> QED BY <2>1, <2>2
  <1>6. /\ keys' \in [Fp -> KeyRow \cup {None}]
        /\ cache' \in [Nonce -> NonceRecord(Fp) \cup {None}]
        /\ uses' \in [Nonce -> SUBSET Purpose] /\ NonceLink'
    BY <1>1, <1>4, <1>5, PgpProof
  <1>7. Inv'
    BY <1>1, <1>3, <1>5, <1>6, Whole, Parts
  <1> QED BY <1>5, <1>7

\* What drops requests and codes, and touches nothing else of the logins.
LEMMA DroppingStep ==
  ASSUME Inv, UNCHANGED <<made, began, granted, tokens>>, DroppedBut({}, {}),
         requests' \in [Request -> LoginRequest \cup {None}], codes' \in [Code -> AuthCode \cup {None}],
         now' \in 0..MaxTime, keys' \in [Fp -> KeyRow \cup {None}],
         cache' \in [Nonce -> NonceRecord(Fp) \cup {None}],
         \A n \in Nonce : cache'[n] \in {cache[n], None}, uses' = uses,
         creds' \in [Cred -> Passkey \cup {None}], reg' \in [Ticket -> Registration \cup {None}],
         auth' \in [Request -> Ceremony \cup {None}], assertions' \subseteq Assertion,
         \A t \in Ticket : reg'[t] # None => ProofOf(reg'[t].fingerprint, reg'[t].proof),
         \A c \in Cred : creds'[c] # None => ProofOf(creds'[c].fingerprint, creds'[c].proof)
  PROVE  Inv' /\ LoginSteps
  <1>1. LoginInv' /\ LoginSteps
    BY Whole, LoginsDropped
  <1>2. NonceLink'
    BY Whole DEF NonceLink
  <1>3. \A c \in Code : codes'[c] # None => ProofOf(codes'[c].fingerprint, codes'[c].proof)
    BY Whole DEF DroppedBut
  <1>4. Inv'
    BY <1>1, <1>2, <1>3, Whole, Parts
  <1> QED BY <1>1, <1>4

LEMMA DropStep ==
  ASSUME Inv, NEW r \in Request, DropExpired(r)
  PROVE  Inv' /\ LoginSteps
  <1>1. /\ requests' = [requests EXCEPT ![r] = None]
        /\ UNCHANGED <<now, codes, made, cache, keys, creds, reg, auth, began, granted, tokens, uses, assertions>>
    BY DEF DropExpired
  <1>2. requests' \in [Request -> LoginRequest \cup {None}] /\ DroppedBut({}, {})
    BY <1>1, Whole DEF DroppedBut
  <1> QED BY <1>1, <1>2, Whole, DroppingStep

LEMMA TokenStep ==
  ASSUME Inv, NEW c \in Code, NEW client \in Client, NEW verifier \in Verifier \cup {None},
         token(c, client, verifier)
  PROVE  Inv' /\ LoginSteps
  <1>1. UNCHANGED <<now, requests, made, cache, keys, creds, reg, auth, began, granted, uses, assertions>>
    BY DEF token
  <1>2. /\ LoginInv' /\ LoginSteps
        /\ codes' \in [Code -> AuthCode \cup {None}] /\ \A d \in Code : codes'[d] \in {codes[d], None}
        /\ tokens' \in [Request -> Seq([client : Client, subject : Fp, verifier : Verifier \cup {None}])]
    BY TokenLogin
  <1>3. \A d \in Code : codes'[d] # None => ProofOf(codes'[d].fingerprint, codes'[d].proof)
    BY <1>2, Whole
  <1>4. NonceLink'
    BY <1>1, Whole DEF NonceLink
  <1>5. Inv'
    BY <1>1, <1>2, <1>3, <1>4, Whole, Parts
  <1> QED BY <1>2, <1>5

LEMMA RegisterBeginStep ==
  ASSUME Inv, NEW f \in Fp, NEW n \in 1..made.nonce, NEW sig \in Sig, NEW pub \in Text \cup {None},
         passkey_register_begin(f, n, sig, pub)
  PROVE  Inv' /\ LoginSteps
  <1>1. PICK k : k = made.ticket + 1
    OBVIOUS
  <1>2. /\ PgpEffects(f, n, sig, pub, <<"passkey", k>>)
        /\ UNCHANGED <<now, requests, codes, creds, auth, assertions, began, granted, tokens>>
    BY <1>1 DEF passkey_register_begin, Fresh
  <1>3. /\ PgpAccepts(f, n, sig, pub) => k \in Ticket
        /\ made' \in Made /\ made'.nonce = made.nonce /\ made'.request = made.request
        /\ made'.code = made.code
        /\ reg' \in [Ticket -> Registration \cup {None}]
        /\ \A t \in Ticket : reg'[t] # None => ProofOf(reg'[t].fingerprint, reg'[t].proof)
    <2>1. CASE PgpAccepts(f, n, sig, pub)
      <3>1. PICK p : p = [sig |-> sig, text |-> armor_for(f, pub)]
        OBVIOUS
      <3>6. ProofOf(f, p)
        BY <2>1, <3>1, Whole, PgpCounts
      <3>2. /\ made.ticket < MaxTickets /\ made' = [made EXCEPT !.ticket = k]
            /\ reg' = [reg EXCEPT ![k] = [fingerprint |-> f, proof |-> p, expires |-> now + CHALLENGE_TTL]]
        BY <1>1, <2>1, <3>1 DEF passkey_register_begin, Draw, Fresh
      <3>3. k \in Ticket /\ k \in 0..MaxTickets
        BY <1>1, <3>2, Whole, MadeIs, SMTT(30) DEF Ticket
      <3>4. made' \in Made /\ made'.nonce = made.nonce /\ made'.request = made.request /\ made'.code = made.code
        BY <3>2, <3>3, Whole DEF Made
      <3>5. PICK rec \in Registration : /\ rec = [fingerprint |-> f, proof |-> p, expires |-> now + CHALLENGE_TTL]
                                         /\ ProofOf(rec.fingerprint, rec.proof)
        <4>1. now + CHALLENGE_TTL \in Nat
          BY Whole, OIDCAssumption
        <4>2. [fingerprint |-> f, proof |-> p, expires |-> now + CHALLENGE_TTL] \in Registration
          BY <3>6, <4>1 DEF Registration, ProofOf
        <4> QED BY <3>6, <4>2
      <3> QED BY <3>2, <3>3, <3>4, <3>5, Whole
    <2>2. CASE ~PgpAccepts(f, n, sig, pub)
      BY <2>2, Whole DEF passkey_register_begin
    <2> QED BY <2>1, <2>2
  <1>4. PgpAccepts(f, n, sig, pub) => <<"passkey", k>> \in Purpose
    BY <1>3 DEF Purpose
  <1>5. /\ keys' \in [Fp -> KeyRow \cup {None}]
        /\ cache' \in [Nonce -> NonceRecord(Fp) \cup {None}]
        /\ uses' \in [Nonce -> SUBSET Purpose] /\ NonceLink'
    BY <1>2, <1>3, <1>4, PgpProof
  <1>6. LoginInv' /\ LoginSteps
    <2>1. DroppedBut({}, {})
      BY <1>2 DEF DroppedBut
    <2> QED BY <1>2, <1>3, <2>1, Whole, LoginsDropped
  <1>7. Inv'
    BY <1>2, <1>3, <1>5, <1>6, Whole, Parts
  <1> QED BY <1>6, <1>7

LEMMA RegisterCompleteStep ==
  ASSUME Inv, NEW t \in Ticket, NEW c \in Cred, passkey_register_complete(t, c)
  PROVE  Inv' /\ LoginSteps
  <1>1. /\ reg[t] # None /\ reg' = [reg EXCEPT ![t] = None]
        /\ UNCHANGED <<now, requests, codes, made, cache, keys, auth, began, granted, tokens, uses, assertions>>
    BY DEF passkey_register_complete
  <1>2. PICK rec \in Passkey : /\ rec = [fingerprint |-> reg[t].fingerprint, proof |-> reg[t].proof]
                                /\ ProofOf(rec.fingerprint, rec.proof)
    <2>1. reg[t] \in Registration /\ ProofOf(reg[t].fingerprint, reg[t].proof)
      BY <1>1, Whole
    <2>2. [fingerprint |-> reg[t].fingerprint, proof |-> reg[t].proof] \in Passkey
      BY <2>1 DEF Passkey, Registration
    <2> QED BY <2>1, <2>2
  <1>3. creds' = creds \/ creds' = [creds EXCEPT ![c] = rec]
    BY <1>2 DEF passkey_register_complete
  <1>4. /\ creds' \in [Cred -> Passkey \cup {None}]
        /\ \A d \in Cred : creds'[d] # None => ProofOf(creds'[d].fingerprint, creds'[d].proof)
    BY <1>2, <1>3, Whole
  <1>5. /\ reg' \in [Ticket -> Registration \cup {None}]
        /\ \A u \in Ticket : reg'[u] # None => ProofOf(reg'[u].fingerprint, reg'[u].proof)
    BY <1>1, Whole
  <1>6. DroppedBut({}, {})
    BY <1>1 DEF DroppedBut
  <1> QED BY <1>1, <1>4, <1>5, <1>6, Whole, DroppingStep

LEMMA LoginBeginStep ==
  ASSUME Inv, NEW r \in Request, passkey_login_begin(r)
  PROVE  Inv' /\ LoginSteps
  <1>1. PICK k : k = made.challenge + 1
    OBVIOUS
  <1>2. /\ made.challenge < MaxChallenges /\ made' = [made EXCEPT !.challenge = k]
        /\ auth' = [auth EXCEPT ![r] = [challenge |-> k, expires |-> now + CHALLENGE_TTL]]
        /\ UNCHANGED <<now, requests, codes, cache, keys, creds, reg, began, granted, tokens, uses, assertions>>
    BY <1>1 DEF passkey_login_begin, Draw, Fresh
  <1>3. k \in Challenge /\ k \in 0..MaxChallenges
    BY <1>1, <1>2, Whole, MadeIs, SMTT(30) DEF Challenge
  <1>4. made' \in Made /\ made'.nonce = made.nonce /\ made'.request = made.request /\ made'.code = made.code
    BY <1>2, <1>3, Whole DEF Made
  <1>5. auth' \in [Request -> Ceremony \cup {None}]
    <2>1. now + CHALLENGE_TTL \in Nat
      BY Whole, OIDCAssumption
    <2>2. [challenge |-> k, expires |-> now + CHALLENGE_TTL] \in Ceremony
      BY <1>3, <2>1 DEF Ceremony
    <2> QED BY <1>2, <2>2, Whole
  <1>6. LoginInv' /\ LoginSteps
    <2>1. DroppedBut({}, {})
      BY <1>2 DEF DroppedBut
    <2> QED BY <1>2, <1>4, <2>1, Whole, LoginsDropped
  <1>7. NonceLink'
    BY <1>2, <1>4, Whole DEF NonceLink
  <1>8. Inv'
    BY <1>2, <1>4, <1>5, <1>6, <1>7, Whole, Parts
  <1> QED BY <1>6, <1>8

LEMMA AnswerStep ==
  ASSUME Inv, NEW c \in Cred, NEW r \in Request, Answer(c, r)
  PROVE  Inv' /\ LoginSteps
  <1>1. /\ auth[r] # None /\ assertions' = assertions \cup {[cred |-> c, challenge |-> auth[r].challenge]}
        /\ UNCHANGED <<now, requests, codes, made, cache, keys, creds, reg, auth, began, granted, tokens, uses>>
    BY DEF Answer
  <1>2. [cred |-> c, challenge |-> auth[r].challenge] \in Assertion
    <2>1. auth[r] \in Ceremony
      BY <1>1, Whole
    <2> QED BY <2>1 DEF Ceremony, Assertion
  <1>3. assertions' \subseteq Assertion
    BY <1>1, <1>2, Whole
  <1>4. DroppedBut({}, {})
    BY <1>1 DEF DroppedBut
  <1> QED BY <1>1, <1>3, <1>4, Whole, DroppingStep

LEMMA LoginCompleteStep ==
  ASSUME Inv, NEW r \in 1..made.request, NEW a \in assertions, NEW t \in EndTimes,
         passkey_login_complete(r, a, t)
  PROVE  Inv' /\ LoginSteps
  <1>1. /\ auth' = [auth EXCEPT ![r] = None] /\ now' = t
        /\ UNCHANGED <<cache, keys, creds, reg, assertions, began, tokens, uses>>
    BY DEF passkey_login_complete, spend_challenge
  <1>2. r \in Request /\ requests[r] # None
    BY Whole DEF passkey_login_complete, get_login_request
  <1>3. t \in 0..MaxTime /\ t \in Nat
    BY Whole DEF EndTimes
  <1>4. auth' \in [Request -> Ceremony \cup {None}]
    BY <1>1, Whole
  <1>5. /\ LoginInv' /\ LoginSteps
        /\ requests' \in [Request -> LoginRequest \cup {None}]
        /\ codes' \in [Code -> AuthCode \cup {None}]
        /\ \A c \in Code : codes'[c] # None => ProofOf(codes'[c].fingerprint, codes'[c].proof)
        /\ made' \in Made /\ made'.nonce = made.nonce
        /\ granted' \in [Request -> Fp \cup {None}]
    <2>1. CASE PasskeyAccepts(r, a) /\ PasskeyAllowed(creds[a.cred].fingerprint)
      <3>1. a.cred \in Cred
        BY Whole DEF Assertion
      <3>2. creds[a.cred] \in Passkey /\ ProofOf(creds[a.cred].fingerprint, creds[a.cred].proof)
        BY <2>1, <3>1, Whole DEF PasskeyAccepts
      <3>3. PICK f \in Fp : f = creds[a.cred].fingerprint
        BY <3>2 DEF Passkey
      <3>5. PICK p : p = creds[a.cred].proof
        OBVIOUS
      <3>4. GrantCode(r, f, "webauthn", p, t) /\ ProofOf(f, p)
        BY <2>1, <3>2, <3>3, <3>5 DEF passkey_login_complete
      <3> QED BY <1>1, <1>2, <1>3, <3>4, GrantCodeLogin
    <2>2. CASE ~(PasskeyAccepts(r, a) /\ PasskeyAllowed(creds[a.cred].fingerprint))
      <3>1. UNCHANGED <<requests, codes, made, granted>>
        BY <2>2 DEF passkey_login_complete
      <3>2. DroppedBut({}, {})
        BY <3>1 DEF DroppedBut
      <3>3. LoginInv' /\ LoginSteps
        BY <1>1, <3>1, <3>2, Whole, LoginsDropped
      <3> QED BY <3>1, <3>3, Whole
    <2> QED BY <2>1, <2>2
  <1>6. NonceLink'
    BY <1>1, <1>5, Whole DEF NonceLink
  <1>7. Inv'
    BY <1>1, <1>3, <1>4, <1>5, <1>6, Whole, Parts
  <1> QED BY <1>5, <1>7

LEMMA RestartStep ==
  ASSUME Inv, NEW kept \in SUBSET Cred, Restart(kept)
  PROVE  Inv' /\ LoginSteps
  <1>1. /\ requests' = [r \in Request |-> None] /\ codes' = [c \in Code |-> None]
        /\ reg' = [t \in Ticket |-> None] /\ auth' = [r \in Request |-> None]
        /\ cache' = cache \/ cache' = [n \in Nonce |-> None]
        /\ creds' = [c \in Cred |-> IF c \in kept THEN creds[c] ELSE None]
        /\ UNCHANGED <<now, made, keys, began, granted, tokens, uses, assertions>>
    BY DEF Restart, NoneOf
  <1>2. requests' \in [Request -> LoginRequest \cup {None}] /\ codes' \in [Code -> AuthCode \cup {None}]
        /\ DroppedBut({}, {})
    BY <1>1 DEF DroppedBut
  <1>3. /\ reg' \in [Ticket -> Registration \cup {None}] /\ auth' \in [Request -> Ceremony \cup {None}]
        /\ \A t \in Ticket : reg'[t] = None
    BY <1>1
  <1>4. cache' \in [Nonce -> NonceRecord(Fp) \cup {None}] /\ \A n \in Nonce : cache'[n] \in {cache[n], None}
    BY <1>1, Whole
  <1>5. /\ creds' \in [Cred -> Passkey \cup {None}]
        /\ \A c \in Cred : creds'[c] # None => ProofOf(creds'[c].fingerprint, creds'[c].proof)
    BY <1>1, Whole
  <1> QED BY <1>1, <1>2, <1>3, <1>4, <1>5, Whole, DroppingStep

\* The registry changes, time passes, or nothing happens.
LEMMA QuietStep ==
  ASSUME Inv, \/ \E f \in Fp, s \in KeyChanges : SetKey(f, s)
              \/ Tick
              \/ UNCHANGED vars
  PROVE  Inv' /\ LoginSteps
  <1>1. UNCHANGED <<requests, codes, made, cache, creds, reg, auth, assertions, began, granted, tokens, uses>>
    BY DEF SetKey, Tick, vars
  <1>2. keys' \in [Fp -> KeyRow \cup {None}]
    <2>1. CASE keys' = keys
      BY <2>1, Whole
    <2>2. CASE \E f \in Fp, s \in KeyChanges : SetKey(f, s)
      BY <2>2, Whole, OIDCAssumption DEF SetKey
    <2> QED BY <2>1, <2>2 DEF Tick, vars
  <1>3. now' \in 0..MaxTime
    BY Whole DEF SetKey, Tick, vars
  <1>4. DroppedBut({}, {})
    BY <1>1 DEF DroppedBut
  <1> QED BY <1>1, <1>2, <1>3, <1>4, Whole, DroppingStep

\* Every step keeps the invariant and moves logins as LoginFlow allows.
LEMMA EachStep == Inv /\ [Next]_vars => Inv' /\ LoginSteps
  <1> SUFFICES ASSUME Inv, [Next]_vars PROVE Inv' /\ LoginSteps
    OBVIOUS
  <1>0. 1..made.request \subseteq Request /\ 1..made.code \subseteq Code /\ 1..made.ticket \subseteq Ticket
    BY Whole
  <1>1. CASE \E f \in Fp : loadChallenge(f)
    BY <1>1, ChallengeStep
  <1>2. CASE \E b \in Begins : authorize(b.client, b.challenge)
    BY <1>2, AuthorizeStep
  <1>3. CASE \E r \in 1..made.request, f \in Fp, n \in 1..made.nonce,
              sig \in Sig, pub \in Text \cup {None}, t \in EndTimes : complete(r, f, n, sig, pub, t)
    BY <1>0, <1>3, CompleteStep
  <1>4. CASE \E r \in 1..made.request : DropExpired(r)
    BY <1>0, <1>4, DropStep
  <1>5. CASE \E c \in 1..made.code, cl \in Client, v \in Verifier \cup {None} : token(c, cl, v)
    BY <1>0, <1>5, TokenStep
  <1>6. CASE \E f \in Fp, n \in 1..made.nonce, sig \in Sig, pub \in Text \cup {None} :
                passkey_register_begin(f, n, sig, pub)
    BY <1>0, <1>6, RegisterBeginStep
  <1>7. CASE \E t \in 1..made.ticket, c \in Cred : passkey_register_complete(t, c)
    BY <1>0, <1>7, RegisterCompleteStep
  <1>8. CASE \E r \in 1..made.request : passkey_login_begin(r)
    BY <1>0, <1>8, LoginBeginStep
  <1>9. CASE \E c \in Cred, r \in 1..made.request : Answer(c, r)
    BY <1>0, <1>9, AnswerStep
  <1>10. CASE \E r \in 1..made.request, a \in assertions, t \in EndTimes : passkey_login_complete(r, a, t)
    BY <1>10, LoginCompleteStep
  <1>11. CASE \E kept \in SUBSET Cred : Restart(kept)
    BY <1>11, RestartStep
  <1>12. CASE (\E f \in Fp, s \in KeyChanges : SetKey(f, s)) \/ Tick \/ UNCHANGED vars
    BY <1>12, QuietStep
  <1> QED BY <1>1, <1>2, <1>3, <1>4, <1>5, <1>6, <1>7, <1>8, <1>9, <1>10, <1>11, <1>12 DEF Next

\* The provider begins with nothing.
LEMMA InvInit == Init => Inv
  <1> SUFFICES ASSUME Init PROVE Inv
    OBVIOUS
  <1>1. TypeOK
    <2>1. made \in [request : 0..MaxRequests, code : 0..MaxCodes, nonce : 0..MaxNonces,
                    ticket : 0..MaxTickets, challenge : 0..MaxChallenges]
      <3>1. /\ MaxRequests \in Nat /\ MaxCodes \in Nat /\ MaxNonces \in Nat /\ MaxTickets \in Nat
            /\ MaxChallenges \in Nat
        BY OIDCAssumption
      <3> QED BY <3>1 DEF Init
    <2>2. now \in 0..MaxTime
      BY OIDCAssumption DEF Init
    <2>3. tokens \in [Request -> Seq([client : Client, subject : Fp, verifier : Verifier \cup {None}])]
      BY DEF Init
    <2>4. uses \in [Nonce -> SUBSET (({"login"} \X Request) \cup ({"passkey"} \X Ticket))]
      BY DEF Init
    <2> QED BY <2>1, <2>2, <2>3, <2>4 DEF Init, NoneOf, TypeOK
  <1>2. LoginInv
    BY DEF Init, NoneOf, LoginInv, DrawnLink, RequestLink, CodeLink, TokenLink, Untouched, Coded
  <1>3. NonceLink /\ SignedLink
    BY DEF Init, NoneOf, NonceLink, SignedLink
  <1> QED BY <1>1, <1>2, <1>3 DEF Inv

LEMMA InvAlways == Spec => []Inv
  BY InvInit, EachStep, PTL DEF Spec

-----------------------------------------------------------------------------
\* The theorems.

\* Every variable of the provider always holds a value of its type.
THEOREM OIDCTypeCorrect == Spec => []TypeOK
  <1>1. Inv => TypeOK
    BY DEF Inv
  <1> QED BY <1>1, InvAlways, PTL

\* A nonce is accepted for one login or one passkey and never again, and a code and a
\* passkey are only ever made out to the fingerprint whose key signed (_verify_pgp(),
\* passkey.py), whatever the order of calls, expiry and restarts.
THEOREM ProofsAreOwnAndSingle == Spec => []ProofIsOwnAndSingle
  <1>1. Inv => ProofIsOwnAndSingle
    <2> SUFFICES ASSUME Inv PROVE ProofIsOwnAndSingle
      OBVIOUS
    <2>1. ASSUME NEW n \in Nonce PROVE Cardinality(uses[n]) <= 1
      <3>1. CASE uses[n] = {}
        BY <3>1, FS_EmptySet
      <3>2. CASE \E x : uses[n] = {x}
        <4>1. PICK x : uses[n] = {x}
          BY <3>2
        <4>2. Cardinality({x}) = 1
          BY FS_Singleton
        <4> QED BY <4>1, <4>2
      <3> QED BY <3>1, <3>2 DEF Inv, NonceLink
    <2> QED BY <2>1 DEF Inv, SignedLink, ProofOf, ProofIsOwnAndSingle, SubjectIsProven, OneProofOneUse
  <1> QED BY <1>1, InvAlways, PTL

\* A token of POST /oidc/token always goes to the client that began the login, to a
\* holder of its PKCE verifier, for the subject that was granted.
THEOREM TokensAreBoundToLogins == Spec => []TokenBoundToLogin
  <1>1. Inv => TokenBoundToLogin
    <2> SUFFICES ASSUME Inv PROVE TokenBoundToLogin
      OBVIOUS
    <2>1. 1..made.request \subseteq Request /\ TokenLink
      BY Whole DEF LoginInv
    <2> QED BY <2>1 DEF TokenLink, BoundTo, TokenBoundToLogin
  <1> QED BY <1>1, InvAlways, PTL

\* The provider implements LoginFlow: each step of its stores is a step of the abstract
\* logins, or changes none of them.
THEOREM OIDCImplementsLoginFlow == Spec => ImplementsLoginFlow
  <1>1. Init => Flow!Init
    <2> SUFFICES ASSUME Init PROVE Flow!Init
      OBVIOUS
    <2>1. \A r \in Request : phaseOf(r) = "idle" /\ Len(tokens[r]) = 0
      BY DEF Init, NoneOf, phaseOf, Request
    <2> QED BY <2>1 DEF Flow!Init, Init, NoneOf
  <1>2. Inv /\ [Next]_vars =>
            [Flow!Next]_<<[r \in Request |-> phaseOf(r)], granted, [r \in Request |-> Len(tokens[r])]>>
    <2> SUFFICES ASSUME Inv, [Next]_vars PROVE Flow!Next
      OBVIOUS
    <2>1. TypeOK' /\ \A r \in Request : LoginStep(r)
      BY EachStep DEF Inv, LoginSteps
    <2>2. \A r \in Request : phaseOf(r)' \in {"idle", "pending", "granted", "over"}
      BY DEF phaseOf
    <2>3. \A r \in Request : Len(tokens'[r]) \in Nat
      BY <2>1 DEF TypeOK
    <2> QED BY <2>1, <2>2, <2>3 DEF Flow!Next, Flow!Begin, Flow!Grant, Flow!Redeem, Flow!End, Flow!Stay,
                                    Flow!Phase, LoginStep, TypeOK
  <1> QED BY <1>1, <1>2, InvAlways, PTL DEF Spec, ImplementsLoginFlow, Flow!Spec

=============================================================================
