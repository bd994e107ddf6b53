-------------------------- MODULE ForgejoFlowProofs --------------------------
(***************************************************************************)
(* Proofs about the login flow of the Forgejo integration, for any number of *)
(* logins, state parameters, fingerprints, clients and lifetimes: it         *)
(* implements LoginFlow, and a token is for somebody who was proven in time, *)
(* whatever claims the requests bring.                                        *)
(***************************************************************************)
EXTENDS ForgejoFlow, FiniteSetTheorems, SequenceTheorems, TLAPS

-----------------------------------------------------------------------------
\* The inductive invariant.

\* A login that is filed under some state parameter.
Filed(l) == \E s \in State : sessions[s] # None /\ sessions[s].login = l

\* Logins are numbered in the order they begin.
BegunInOrder == \E n \in 0..MaxLogins : \A l \in Login : begun[l] # None <=> l <= n

\* A login that has not been granted has neither code nor token nor subject.
Untouched(l) == granted[l] = None /\ subject[l] = None /\ asked[l] = None /\ codes[l] = None /\ tokens[l] = << >>

\* A filed login has begun, expires with its session, is not granted, and is filed once.
SessionLink ==
    /\ \A s \in State : sessions[s] # None =>
          LET l == sessions[s].login IN
          begun[l] # None /\ sessions[s].expires = begun[l] + TTL /\ Untouched(l)
    /\ \A s, t \in State :
          sessions[s] # None /\ sessions[t] # None /\ sessions[s].login = sessions[t].login => s = t

\* A code is for whom the login was granted to, expires with it, and has yielded nothing.
CodeLink ==
    \A l \in Login : codes[l] # None =>
        /\ granted[l] # None /\ codes[l].fingerprint = subject[l]
        /\ codes[l].expires = granted[l] + TTL /\ codes[l].claims = asked[l]
        /\ tokens[l] = << >>

\* A login is granted in time.
GrantLink ==
    \A l \in Login :
        /\ begun[l] = None => Untouched(l)
        /\ granted[l] = None => Untouched(l)
        /\ granted[l] # None =>
              /\ begun[l] # None /\ subject[l] # None
              /\ granted[l] <= begun[l] + TTL
              /\ asked[l] # None

\* A token is for whom the login was granted to, and comes in time.
TokenIs(l, t) ==
    /\ t.fingerprint = subject[l] /\ t.at <= granted[l] + TTL
    /\ t.sub # subject[l] => t.sub = asked[l].sub
    /\ asked[l].exp = None => t.exp <= granted[l] + TTL + LIFETIME
TokenLink == \A l \in Login : \A i \in DOMAIN tokens[l] : TokenIs(l, tokens[l][i])

\* A token that is about is one of the verification service, or the flow issued it for a
\* login; it has no audience only if the claims of that login emptied it.
AccessIs(a) ==
    \/ a.by = None /\ a.exp = a.at + JWT_TTL /\ a.at <= now
    \/ /\ a.by \in Login /\ granted[a.by] # None /\ tokens[a.by] # << >>
       /\ a.fingerprint = subject[a.by] /\ (a.aud = None => asked[a.by].no_aud = TRUE)

\* The verification service vouched for whom a token or a login is, and recently for a
\* login that was not completed with the token of another.
VouchLink ==
    /\ \A a \in access : VouchedFor(a.fingerprint) /\ AccessIs(a)
    /\ \A l \in Login : granted[l] # None =>
          VouchedFor(subject[l]) /\ granted[l] <= now /\ (FreshlyVouched(l) \/ FromLogin(l))

Inv == TypeOK /\ BegunInOrder /\ SessionLink /\ CodeLink /\ GrantLink /\ TokenLink /\ VouchLink

-----------------------------------------------------------------------------
\* Facts about the operators.

\* The next login is one that has not begun.
LEMMA FreshIs ==
  ASSUME BegunInOrder
  PROVE  /\ Fresh \in Login => begun[Fresh] = None
         /\ \A l \in Login : begun[l] # None => l < Fresh
         /\ \A l \in Login : l < Fresh => begun[l] # None
         /\ Fresh \in Nat
  <1>1. PICK n \in 0..MaxLogins : \A l \in Login : begun[l] # None <=> l <= n
    BY DEF BegunInOrder
  <1>2. MaxLogins \in Nat /\ n \in Nat
    BY <1>1, ForgejoAssumption
  <1>3. {l \in Login : begun[l] # None} = 1..n
    BY <1>1, <1>2 DEF Login
  <1>4. Cardinality(1..n) = n
    BY <1>2, FS_Interval
  <1>5. Fresh = n + 1
    BY <1>3, <1>4 DEF Fresh
  <1> QED BY <1>1, <1>2, <1>5 DEF Login

\* None is no record and no time.
LEMMA NotNone == /\ \A x \in AuthSession : x # None
                 /\ \A x \in AuthCodeRecord : x # None
                 /\ \A x \in Nat : x # None
                 /\ \A x \in Fp : x # None
                 /\ \A x \in Claims : x # None /\ x \in AnyClaims
                 /\ client_id \in Client /\ client_id # None /\ LIFETIME \in Nat
                 /\ TTL \in Nat /\ JWT_TTL \in Nat /\ MaxTime \in Nat
  BY ForgejoAssumption

\* put() files the record and drops what expired.
LEMMA PutIs ==
  ASSUME NEW K, NEW R, NEW store \in [K -> R \cup {None}], NEW key \in K, NEW record \in R
  PROVE  /\ put(store, key, record) \in [K -> R \cup {None}]
         /\ put(store, key, record)[key] = record
         /\ \A k \in K : k # key => put(store, key, record)[k] \in {store[k], None}
  BY DEF put

\* Who was vouched for stays so: tokens are not taken back, and what a login was granted
\* does not change.
LEMMA VouchStays ==
  ASSUME access \subseteq access',
         \A m \in Login : granted[m] # None =>
             /\ UNCHANGED <<granted[m], subject[m], asked[m]>>
             /\ tokens[m] # << >> => tokens'[m] # << >>,
         \A m \in Login : tokens[m] # << >> => granted[m] # None
  PROVE  /\ \A f : VouchedFor(f) => VouchedFor(f)'
         /\ \A l \in Login : granted[l] # None /\ FreshlyVouched(l) => FreshlyVouched(l)'
         /\ \A l \in Login : granted[l] # None /\ FromLogin(l) => FromLogin(l)'
  <1>1. \A f : VouchedFor(f) => VouchedFor(f)'
    BY DEF VouchedFor
  <1>2. ASSUME NEW l \in Login, granted[l] # None, FreshlyVouched(l) PROVE FreshlyVouched(l)'
    BY <1>2 DEF FreshlyVouched
  <1>3. ASSUME NEW l \in Login, granted[l] # None, FromLogin(l) PROVE FromLogin(l)'
    BY <1>3 DEF FromLogin
  <1> QED BY <1>1, <1>2, <1>3

\* Nothing changes it but tokens and grants.
LEMMA VouchKept ==
  ASSUME Inv, UNCHANGED <<access, subject, granted, asked, tokens>>, now \in Nat, now' \in Nat, now <= now'
  PROVE  VouchLink'
  <1>1. \A a \in access : AccessIs(a) => AccessIs(a)'
    BY DEF AccessIs, Inv, TypeOK, Token
  <1>2. \A l \in Login : granted[l] # None /\ granted[l] <= now => granted[l] <= now'
    BY DEF Inv, TypeOK
  <1>3. \A m \in Login : tokens[m] # << >> => granted[m] # None
    BY DEF Inv, GrantLink, Untouched
  <1>4. /\ \A f : VouchedFor(f) => VouchedFor(f)'
        /\ \A l \in Login : granted[l] # None /\ FreshlyVouched(l) => FreshlyVouched(l)'
        /\ \A l \in Login : granted[l] # None /\ FromLogin(l) => FromLogin(l)'
    BY <1>3, VouchStays
  <1> QED BY <1>1, <1>2, <1>4 DEF VouchLink, Inv

-----------------------------------------------------------------------------
\* The invariant is inductive.

\* It holds at the start.
LEMMA InvInit ==
  ASSUME Init
  PROVE  Inv
  <1>1. TypeOK
    BY NotNone DEF Init, TypeOK
  <1>2. BegunInOrder
    <2>1. 0 \in 0..MaxLogins /\ \A l \in Login : begun[l] # None <=> l <= 0
      BY ForgejoAssumption DEF Init, Login
    <2> QED BY <2>1 DEF BegunInOrder
  <1>3. SessionLink /\ CodeLink /\ GrantLink /\ TokenLink /\ VouchLink
    BY DEF Init, SessionLink, CodeLink, GrantLink, TokenLink, VouchLink, Untouched
  <1> QED BY <1>1, <1>2, <1>3 DEF Inv

\* GET /authorize begins a login of its own, whatever was filed under the state.
LEMMA AuthorizeStep ==
  ASSUME Inv, NEW s \in State, NEW c \in Client, NEW u \in Redirect \cup {None}, authorize(s, c, u)
  PROVE  Inv'
  <1> DEFINE l == Fresh
             rec == [login |-> l, expires |-> expires_at]
  <1>1. /\ TypeOK /\ l \in Login /\ begun[l] = None /\ now \in Nat
        /\ UNCHANGED <<now, codes, access, subject, granted, asked, tokens>>
    BY FreshIs DEF Inv, authorize, TypeOK
  <1>2. /\ begun' \in [Login -> Nat \cup {None}] /\ begun'[l] = now /\ now # None
        /\ \A m \in Login : m # l => begun'[m] = begun[m]
    BY <1>1, NotNone DEF authorize, TypeOK
  <1>3. rec \in AuthSession /\ rec.login = l /\ rec.expires = now + TTL
    BY <1>1, NotNone DEF AuthSession, expires_at
  <1>4. sessions' = put(sessions, s, rec)
    BY DEF authorize
  <1>40. PICK r \in AuthSession : r = rec
    BY <1>3
  <1>5. /\ sessions' \in [State -> AuthSession \cup {None}] /\ sessions'[s] = r
        /\ \A t \in State : t # s => sessions'[t] \in {sessions[t], None}
    <2>1. sessions \in [State -> AuthSession \cup {None}] /\ sessions' = put(sessions, s, r)
      BY <1>1, <1>4, <1>40 DEF TypeOK
    <2> HIDE DEF rec
    <2> QED BY <2>1, PutIs
  <1>50. PICK f \in Login : f = l
    BY <1>1
  <1>51. r.login = f /\ r.expires = now + TTL
    BY <1>3, <1>40, <1>50
  <1>6. TypeOK'
    BY <1>1, <1>2, <1>5 DEF TypeOK
  <1>7. BegunInOrder'
    <2>1. f \in 0..MaxLogins /\ \A m \in Login : begun'[m] # None <=> m <= f
      BY <1>1, <1>2, <1>50, FreshIs, ForgejoAssumption DEF Inv, Login
    <2> QED BY <2>1 DEF BegunInOrder
  <1>8. Untouched(f)' /\ Untouched(f)
    BY <1>1, <1>50 DEF Inv, GrantLink, Untouched
  <1>9. \A m \in Login : Untouched(m) => Untouched(m)'
    BY <1>1 DEF Untouched
  <1>10. SessionLink'
    <2>1. ASSUME NEW t \in State, sessions'[t] # None
          PROVE  \E m \in Login :
                    /\ m = sessions'[t].login /\ begun'[m] # None
                    /\ sessions'[t].expires = begun'[m] + TTL /\ Untouched(m)'
                    /\ t # s => m # f /\ sessions[t] # None /\ sessions'[t] = sessions[t]
      <3>1. CASE t = s
        BY <1>2, <1>5, <1>50, <1>51, <1>8, <3>1, <1>1
      <3>2. CASE t # s
        <4>1. sessions'[t] = sessions[t] /\ sessions[t] # None /\ sessions[t].login \in Login
          BY <1>1, <1>5, <2>1, <3>2 DEF TypeOK, AuthSession
        <4>2. PICK m \in Login : m = sessions[t].login
          BY <4>1
        <4>3. begun[m] # None /\ sessions[t].expires = begun[m] + TTL /\ Untouched(m)
          BY <4>1, <4>2 DEF Inv, SessionLink
        <4>4. m # f /\ begun'[m] = begun[m]
          BY <1>1, <1>2, <1>50, <4>3
        <4> QED BY <1>9, <4>1, <4>2, <4>3, <4>4
      <3> QED BY <3>1, <3>2
    <2>2. ASSUME NEW t \in State, NEW x \in State, sessions'[t] # None, sessions'[x] # None,
                 sessions'[t].login = sessions'[x].login
          PROVE  t = x
      <3>1. sessions'[s].login = f
        BY <1>5, <1>51
      <3>2. CASE t = s \/ x = s
        BY <2>1, <2>2, <3>1, <3>2
      <3>3. CASE t # s /\ x # s
        BY <2>1, <2>2, <3>3 DEF Inv, SessionLink
      <3> QED BY <3>2, <3>3
    <2> QED BY <2>1, <2>2 DEF SessionLink, Untouched
  <1>11. CodeLink' /\ TokenLink' /\ VouchLink'
    <2>1. CodeLink' /\ TokenLink'
      BY <1>1 DEF Inv, CodeLink, TokenLink, TokenIs
    <2> QED BY <1>1, <2>1, VouchKept
  <1>12. GrantLink'
    <2>1. ASSUME NEW m \in Login
          PROVE  /\ begun'[m] = None => Untouched(m)'
                 /\ granted'[m] = None => Untouched(m)'
                 /\ granted'[m] # None =>
                       /\ begun'[m] # None /\ subject'[m] # None
                       /\ granted'[m] <= begun'[m] + TTL
                       /\ asked'[m] # None
      <3>1. CASE m = f
        BY <1>1, <1>8, <3>1 DEF Untouched
      <3>2. CASE m # f
        BY <1>1, <1>2, <1>9, <1>50, <3>2 DEF Inv, GrantLink
      <3> QED BY <3>1, <3>2
    <2> QED BY <2>1 DEF GrantLink
  <1> QED BY <1>6, <1>7, <1>10, <1>11, <1>12 DEF Inv

\* POST /authorize/complete grants the login that is filed under the state, in time.
LEMMA CompleteStep ==
  ASSUME Inv, NEW s \in State, NEW f \in Fp, NEW a \in access, NEW cl \in Claims, authorize_complete(s, f, a, cl)
  PROVE  Inv'
  <1>1. /\ TypeOK /\ sessions[s] # None /\ now \in Nat /\ token_accepted(a, f)
        /\ UNCHANGED <<now, access, begun, tokens>> /\ sessions' = pop(sessions, s)
        /\ sessions[s] \in AuthSession
    BY DEF Inv, authorize_complete, TypeOK
  <1>2. PICK l \in Login : l = sessions[s].login
    BY <1>1 DEF AuthSession
  <1>3. begun[l] # None /\ sessions[s].expires = begun[l] + TTL /\ Untouched(l) /\ begun[l] \in Nat
    BY <1>1, <1>2 DEF Inv, SessionLink, TypeOK
  <1>4. /\ sessions' \in [State -> AuthSession \cup {None}] /\ sessions'[s] = None
        /\ \A t \in State : t # s => sessions'[t] = sessions[t]
    BY <1>1 DEF pop, TypeOK
  <1>5. ASSUME NEW t \in State, sessions'[t] # None
        PROVE  \E m \in Login : /\ m = sessions'[t].login /\ m # l /\ begun[m] # None
                                /\ sessions'[t].expires = begun[m] + TTL /\ Untouched(m)
    <2>1. t # s /\ sessions[t] # None /\ sessions'[t] = sessions[t]
      BY <1>4, <1>5
    <2>2. sessions[t] \in AuthSession
      BY <1>1, <2>1 DEF TypeOK
    <2>3. PICK m \in Login : m = sessions[t].login
      BY <2>2 DEF AuthSession
    <2> QED BY <1>1, <1>2, <2>1, <2>3 DEF Inv, SessionLink
  <1>6. \A t, x \in State :
            sessions'[t] # None /\ sessions'[x] # None /\ sessions'[t].login = sessions'[x].login => t = x
    BY <1>4 DEF Inv, SessionLink
  <1>7. BegunInOrder'
    BY <1>1 DEF Inv, BegunInOrder
  <1>8. CASE UNCHANGED <<codes, subject, granted, asked>>
    <2>1. TypeOK'
      BY <1>1, <1>4, <1>8 DEF TypeOK
    <2>2. CodeLink' /\ GrantLink' /\ TokenLink' /\ VouchLink'
      <3>1. CodeLink' /\ GrantLink' /\ TokenLink'
        BY <1>1, <1>8 DEF Inv, CodeLink, GrantLink, TokenLink, TokenIs, Untouched
      <3> QED BY <1>1, <1>8, <3>1, VouchKept
    <2>3. SessionLink'
      BY <1>1, <1>5, <1>6, <1>8 DEF SessionLink, Untouched
    <2> QED BY <1>7, <2>1, <2>2, <2>3 DEF Inv
  <1>9. CASE /\ session_live(sessions[s])
             /\ codes' = put(codes, l, [fingerprint |-> f, claims |-> cl, client |-> client_id,
                                        redirect |-> forgejo_redirect_uri, expires |-> expires_at])
             /\ subject' = [subject EXCEPT ![l] = f] /\ granted' = [granted EXCEPT ![l] = now]
             /\ asked' = [asked EXCEPT ![l] = cl]
    <2> DEFINE z == [fingerprint |-> f, claims |-> cl, client |-> client_id,
                     redirect |-> forgejo_redirect_uri, expires |-> expires_at]
    <2>1. z \in AuthCodeRecord /\ z.fingerprint = f /\ z.claims = cl /\ z.expires = now + TTL
      BY <1>1, ForgejoAssumption DEF AuthCodeRecord, expires_at
    <2>2. PICK rec \in AuthCodeRecord : rec = z
      BY <2>1
    <2>3. rec.fingerprint = f /\ rec.claims = cl /\ rec.expires = now + TTL /\ codes' = put(codes, l, rec)
      BY <1>9, <2>1, <2>2
    <2> HIDE DEF z
    <2>4. /\ codes' \in [Login -> AuthCodeRecord \cup {None}] /\ codes'[l] = rec
          /\ \A m \in Login : m # l => codes'[m] \in {codes[m], None}
      <3>1. codes \in [Login -> AuthCodeRecord \cup {None}]
        BY <1>1 DEF TypeOK
      <3>2. /\ put(codes, l, rec) \in [Login -> AuthCodeRecord \cup {None}]
            /\ put(codes, l, rec)[l] = rec
            /\ \A m \in Login : m # l => put(codes, l, rec)[m] \in {codes[m], None}
        BY <3>1, PutIs
      <3> QED BY <2>3, <3>2
    <2>5. /\ subject' \in [Login -> Fp \cup {None}] /\ granted' \in [Login -> Nat \cup {None}]
          /\ asked' \in [Login -> Claims \cup {None}]
          /\ subject'[l] = f /\ granted'[l] = now /\ asked'[l] = cl
          /\ now # None /\ f # None /\ cl # None
          /\ \A m \in Login : m # l => /\ subject'[m] = subject[m] /\ granted'[m] = granted[m]
                                      /\ asked'[m] = asked[m]
      BY <1>1, <1>9, NotNone DEF TypeOK
    <2>6. TypeOK'
      BY <1>1, <1>4, <2>4, <2>5 DEF TypeOK
    <2>7. \A m \in Login : m # l /\ Untouched(m) => Untouched(m)'
      BY <1>1, <2>4, <2>5 DEF Untouched
    <2>8. SessionLink'
      <3>1. ASSUME NEW t \in State, sessions'[t] # None
            PROVE  \E m \in Login : /\ m = sessions'[t].login /\ begun'[m] # None
                                    /\ sessions'[t].expires = begun'[m] + TTL /\ Untouched(m)'
        BY <1>1, <1>5, <2>7, <3>1
      <3> QED BY <1>6, <3>1 DEF SessionLink, Untouched
    <2>9. CodeLink'
      <3>1. ASSUME NEW m \in Login, codes'[m] # None
            PROVE  /\ granted'[m] # None /\ codes'[m].fingerprint = subject'[m]
                   /\ codes'[m].expires = granted'[m] + TTL /\ codes'[m].claims = asked'[m]
                   /\ tokens'[m] = << >>
        <4>1. CASE m = l
          BY <1>1, <1>3, <2>3, <2>4, <2>5, <4>1 DEF Untouched
        <4>2. CASE m # l
          <5>1. codes'[m] = codes[m] /\ codes[m] # None
            BY <2>4, <3>1, <4>2
          <5> QED BY <1>1, <2>5, <4>2, <5>1 DEF Inv, CodeLink
        <4> QED BY <4>1, <4>2
      <3> QED BY <3>1 DEF CodeLink
    <2>10. GrantLink'
      <3>1. ASSUME NEW m \in Login
            PROVE  /\ begun'[m] = None => Untouched(m)'
                   /\ granted'[m] = None => Untouched(m)'
                   /\ granted'[m] # None =>
                         /\ begun'[m] # None /\ subject'[m] # None
                         /\ granted'[m] <= begun'[m] + TTL
                         /\ asked'[m] # None
        <4>1. CASE m = l
          <5>1. now <= begun[l] + TTL
            BY <1>3, <1>9 DEF session_live
          <5> QED BY <1>1, <1>3, <2>5, <4>1, <5>1
        <4>2. CASE m # l
          BY <1>1, <2>5, <2>7, <4>2 DEF Inv, GrantLink
        <4> QED BY <4>1, <4>2
      <3> QED BY <3>1 DEF GrantLink
    <2>11. TokenLink'
      <3>1. ASSUME NEW m \in Login, NEW i \in DOMAIN tokens'[m]
            PROVE  TokenIs(m, tokens[m][i])'
        <4>1. m # l
          BY <1>1, <1>3, <3>1 DEF Untouched
        <4> QED BY <1>1, <2>5, <3>1, <4>1 DEF Inv, TokenLink, TokenIs
      <3> QED BY <3>1 DEF TokenLink
    <2>12. VouchLink'
      <3>1. \A m \in Login : granted[m] # None =>
                /\ m # l /\ UNCHANGED <<granted[m], subject[m], asked[m]>> /\ tokens'[m] = tokens[m]
        BY <1>1, <1>3, <2>5 DEF Untouched
      <3>2. \A m \in Login : tokens[m] # << >> => granted[m] # None
        BY DEF Inv, GrantLink, Untouched
      <3>3. /\ \A g : VouchedFor(g) => VouchedFor(g)'
            /\ \A m \in Login : granted[m] # None /\ FreshlyVouched(m) => FreshlyVouched(m)'
            /\ \A m \in Login : granted[m] # None /\ FromLogin(m) => FromLogin(m)'
        BY <1>1, <3>1, <3>2, VouchStays
      <3>4. \A b \in access : VouchedFor(b.fingerprint) /\ AccessIs(b)
        BY DEF Inv, VouchLink
      <3>5. \A b \in access : AccessIs(b)'
        BY <1>1, <3>1, <3>4 DEF AccessIs
      <3>6. a.fingerprint = f /\ now < a.exp /\ a.aud = None /\ a \in Token
        BY <1>1 DEF token_accepted, TypeOK
      <3>7. FreshlyVouched(l)' \/ FromLogin(l)'
        <4>1. CASE a.by = None /\ a.exp = a.at + JWT_TTL /\ a.at <= now
          BY <1>1, <2>5, <3>6, <4>1 DEF FreshlyVouched
        <4>2. CASE /\ a.by \in Login /\ granted[a.by] # None /\ tokens[a.by] # << >>
                   /\ a.fingerprint = subject[a.by] /\ (a.aud = None => asked[a.by].no_aud = TRUE)
          <5>1. PICK m \in Login : m = a.by
            BY <4>2
          <5>2. m # l /\ granted[m] <= now /\ UNCHANGED <<granted[m], subject[m], asked[m], tokens[m]>>
            BY <3>1, <4>2, <5>1 DEF Inv, VouchLink
          <5>3. tokens[m] # << >> /\ asked[m].no_aud = TRUE /\ subject[m] = f
            BY <3>6, <4>2, <5>1
          <5> QED BY <2>5, <5>2, <5>3 DEF FromLogin
        <4> QED BY <3>4, <4>1, <4>2 DEF AccessIs
      <3>8. VouchedFor(f)'
        BY <3>3, <3>4, <3>6
      <3>9. ASSUME NEW m \in Login, granted'[m] # None
            PROVE  VouchedFor(subject[m])' /\ granted'[m] <= now' /\ (FreshlyVouched(m)' \/ FromLogin(m)')
        <4>1. CASE m = l
          BY <1>1, <2>5, <3>7, <3>8, <4>1
        <4>2. CASE m # l
          BY <1>1, <2>5, <3>3, <3>9, <4>2 DEF Inv, VouchLink
        <4> QED BY <4>1, <4>2
      <3> QED BY <1>1, <3>3, <3>4, <3>5, <3>9 DEF VouchLink, VouchedFor
    <2> QED BY <1>7, <2>6, <2>8, <2>9, <2>10, <2>11, <2>12 DEF Inv
  <1> QED BY <1>2, <1>8, <1>9 DEF authorize_complete

\* POST /token takes the code, in time or not, and yields one token at most.
LEMMA ExchangeStep ==
  ASSUME Inv, NEW l \in Login, NEW c \in Client \cup {None}, NEW u \in Redirect \cup {None},
         exchange_code(l, c, u)
  PROVE  /\ Inv'
         /\ tokens[l] = << >> /\ tokens'[l] \in Seq(Token) /\ Len(tokens'[l]) \in {0, 1}
         /\ \A m \in Login : m # l => tokens'[m] = tokens[m]
         /\ codes'[l] = None /\ \A m \in Login : m # l => codes'[m] = codes[m]
  <1>1. /\ TypeOK /\ codes[l] # None /\ now \in Nat /\ codes' = pop(codes, l)
        /\ UNCHANGED <<now, sessions, begun, subject, granted, asked>>
        /\ codes[l] \in AuthCodeRecord
    BY DEF Inv, exchange_code, TypeOK
  <1>2. /\ granted[l] # None /\ codes[l].fingerprint = subject[l]
        /\ codes[l].expires = granted[l] + TTL /\ tokens[l] = << >>
        /\ codes[l].claims = asked[l] /\ asked[l] \in AnyClaims
        /\ granted[l] \in Nat /\ subject[l] \in Fp
    <2>1. /\ granted[l] # None /\ codes[l].fingerprint = subject[l]
          /\ codes[l].expires = granted[l] + TTL /\ tokens[l] = << >>
          /\ codes[l].claims = asked[l]
      BY <1>1 DEF Inv, CodeLink
    <2>2. codes[l].claims \in Claims /\ codes[l].fingerprint \in Fp
      BY <1>1 DEF AuthCodeRecord
    <2> QED BY <1>1, <2>1, <2>2, NotNone DEF TypeOK
  <1>3. /\ codes' \in [Login -> AuthCodeRecord \cup {None}] /\ codes'[l] = None
        /\ \A m \in Login : m # l => codes'[m] = codes[m]
    BY <1>1 DEF pop, TypeOK
  <1>40. /\ token_of(l, codes[l]) \in Token
         /\ token_of(l, codes[l]).by = l /\ token_of(l, codes[l]).fingerprint = subject[l]
         /\ token_of(l, codes[l]).at = now
         /\ asked[l].exp = None => token_of(l, codes[l]).exp = now + LIFETIME
         /\ asked[l].sub = None => token_of(l, codes[l]).sub = subject[l]
         /\ asked[l].sub # None => token_of(l, codes[l]).sub = asked[l].sub
         /\ token_of(l, codes[l]).aud = None => asked[l].no_aud = TRUE
    <2>1. /\ asked[l].sub \in Fp \cup {None} /\ asked[l].exp \in Nat \cup {None} /\ asked[l].no_aud \in BOOLEAN
      BY <1>2 DEF AnyClaims
    <2>2. token_of(l, codes[l]) \in Token
      BY <1>1, <1>2, <2>1, NotNone DEF token_of, Token
    <2>3. /\ token_of(l, codes[l]).by = l /\ token_of(l, codes[l]).fingerprint = subject[l]
          /\ token_of(l, codes[l]).at = now
          /\ asked[l].exp = None => token_of(l, codes[l]).exp = now + LIFETIME
          /\ asked[l].sub = None => token_of(l, codes[l]).sub = subject[l]
          /\ asked[l].sub # None => token_of(l, codes[l]).sub = asked[l].sub
      BY <1>2 DEF token_of
    <2>4. token_of(l, codes[l]).aud = None => asked[l].no_aud = TRUE
      BY <1>2, <2>1, NotNone DEF token_of
    <2> QED BY <2>2, <2>3, <2>4
  <1>4. PICK tok \in Token : tok = token_of(l, codes[l])
    BY <1>40
  <1>41. /\ tok.by = l /\ tok.fingerprint = subject[l] /\ tok.at = now /\ tok \in Token
         /\ asked[l].exp = None => tok.exp = now + LIFETIME
         /\ asked[l].sub = None => tok.sub = subject[l]
         /\ asked[l].sub # None => tok.sub = asked[l].sub
         /\ tok.aud = None => asked[l].no_aud = TRUE
    BY <1>4, <1>40
  <1>5. /\ tokens' \in [Login -> Seq(Token)]
        /\ \A m \in Login : m # l => tokens'[m] = tokens[m]
        /\ \/ tokens'[l] = << >> /\ UNCHANGED <<tokens, access>>
           \/ tokens'[l] = <<tok>> /\ now <= granted[l] + TTL /\ access' = access \cup {tok}
    <2>1. tokens \in [Login -> Seq(Token)]
      BY <1>1 DEF TypeOK
    <2>2. CASE UNCHANGED <<tokens, access>>
      BY <1>2, <2>1, <2>2
    <2>3. CASE /\ tokens' = [tokens EXCEPT ![l] = Append(@, tok)]
               /\ access' = access \cup {tok}
               /\ grant_valid(codes[l], named(c), u)
      <3>1. now <= granted[l] + TTL
        BY <1>2, <2>3 DEF grant_valid
      <3>2. Append(tokens[l], tok) = <<tok>> /\ <<tok>> \in Seq(Token)
        BY <1>2
      <3>3. tokens' = [tokens EXCEPT ![l] = <<tok>>]
        BY <2>3, <3>2
      <3> QED BY <2>1, <2>3, <3>1, <3>2, <3>3
    <2> QED BY <1>4, <2>2, <2>3 DEF exchange_code
  <1>6. TypeOK'
    BY <1>1, <1>3, <1>5, <1>41 DEF TypeOK
  <1>7. BegunInOrder'
    BY <1>1 DEF Inv, BegunInOrder
  <1>8. granted[l] # None /\ \A m \in Login : Untouched(m) => m # l /\ Untouched(m)'
    BY <1>1, <1>2, <1>3, <1>5 DEF Untouched
  <1>9. SessionLink'
    <2>1. ASSUME NEW t \in State, sessions'[t] # None
          PROVE  \E m \in Login : /\ m = sessions'[t].login /\ begun'[m] # None
                                  /\ sessions'[t].expires = begun'[m] + TTL /\ Untouched(m)'
      <3>1. sessions[t] \in AuthSession /\ sessions[t] # None
        BY <1>1, <2>1 DEF TypeOK
      <3>2. PICK m \in Login : m = sessions[t].login
        BY <3>1 DEF AuthSession
      <3> QED BY <1>1, <1>8, <3>1, <3>2 DEF Inv, SessionLink
    <2>2. \A t, x \in State :
            sessions'[t] # None /\ sessions'[x] # None /\ sessions'[t].login = sessions'[x].login => t = x
      BY <1>1 DEF Inv, SessionLink
    <2> QED BY <2>1, <2>2 DEF SessionLink, Untouched
  <1>10. CodeLink'
    BY <1>1, <1>3, <1>5 DEF Inv, CodeLink
  <1>11. GrantLink'
    BY <1>1, <1>8 DEF Inv, GrantLink
  <1>12. TokenLink'
    <2>1. ASSUME NEW m \in Login, NEW i \in DOMAIN tokens'[m]
          PROVE  TokenIs(m, tokens[m][i])'
      <3>1. CASE m = l
        <4>1. tokens'[l] = <<tok>> /\ now <= granted[l] + TTL /\ i = 1
          BY <1>5, <2>1, <3>1
        <4> QED BY <1>1, <1>2, <1>41, <3>1, <4>1, NotNone DEF TokenIs
      <3>2. CASE m # l
        BY <1>1, <1>5, <2>1, <3>2 DEF Inv, TokenLink, TokenIs
      <3> QED BY <3>1, <3>2
    <2> QED BY <2>1 DEF TokenLink
  <1>13. tokens'[l] \in Seq(Token) /\ Len(tokens'[l]) \in {0, 1}
    BY <1>5
  <1>14. VouchLink'
    <2>1. CASE UNCHANGED <<tokens, access>>
      BY <1>1, <2>1, VouchKept
    <2>2. CASE tokens'[l] = <<tok>> /\ access' = access \cup {tok}
      <3>1. \A m \in Login : tokens[m] # << >> => granted[m] # None
        BY DEF Inv, GrantLink, Untouched
      <3>2. \A m \in Login : tokens[m] # << >> => tokens'[m] # << >>
        BY <1>2, <1>5, <2>2
      <3>3. /\ \A g : VouchedFor(g) => VouchedFor(g)'
            /\ \A m \in Login : granted[m] # None /\ FreshlyVouched(m) => FreshlyVouched(m)'
            /\ \A m \in Login : granted[m] # None /\ FromLogin(m) => FromLogin(m)'
        BY <1>1, <2>2, <3>1, <3>2, VouchStays
      <3>4. \A b \in access : VouchedFor(b.fingerprint)' /\ AccessIs(b)'
        BY <1>1, <3>2, <3>3 DEF Inv, VouchLink, AccessIs
      <3>5. AccessIs(tok)'
        BY <1>1, <1>2, <1>41, <2>2 DEF AccessIs
      <3>6. VouchedFor(tok.fingerprint)'
        BY <1>2, <1>41, <3>3 DEF Inv, VouchLink
      <3>7. \A m \in Login : granted'[m] # None =>
                VouchedFor(subject[m])' /\ granted'[m] <= now' /\ (FreshlyVouched(m)' \/ FromLogin(m)')
        BY <1>1, <3>3 DEF Inv, VouchLink
      <3> QED BY <2>2, <3>4, <3>5, <3>6, <3>7 DEF VouchLink, VouchedFor
    <2> QED BY <1>5, <2>1, <2>2
  <1> QED BY <1>2, <1>3, <1>5, <1>6, <1>7, <1>9, <1>10, <1>11, <1>12, <1>13, <1>14 DEF Inv

\* Every step preserves the invariant.
LEMMA InvStep ==
  ASSUME Inv, [Next]_vars
  PROVE  Inv'
  <1>0. TypeOK
    BY DEF Inv
  <1>1. ASSUME NEW f \in Fp, Verify(f) PROVE Inv'
    <2>1. /\ access \subseteq access' /\ UNCHANGED <<now, sessions, codes, begun, subject, granted, asked, tokens>>
      BY <1>1 DEF Verify
    <2>2. TypeOK'
      <3>1. [fingerprint |-> f, sub |-> f, aud |-> None, exp |-> now + JWT_TTL,
             by |-> None, at |-> now] \in Token
        BY <1>0, NotNone DEF TypeOK, Token
      <3> QED BY <1>0, <1>1, <3>1 DEF TypeOK, Verify
    <2>3. BegunInOrder' /\ SessionLink' /\ CodeLink' /\ TokenLink'
      BY <2>1 DEF Inv, BegunInOrder, SessionLink, CodeLink, TokenLink, TokenIs, Untouched
    <2>5. VouchLink'
      <3>1. PICK v \in Token :
                /\ access' = access \cup {v} /\ v.by = None /\ v.fingerprint = f /\ v.aud = None
                /\ v.exp = v.at + JWT_TTL /\ v.at <= now
        <4> DEFINE w == [fingerprint |-> f, sub |-> f, aud |-> None, exp |-> now + JWT_TTL,
                         by |-> None, at |-> now]
        <4>1. w \in Token /\ access' = access \cup {w}
          BY <1>0, <1>1, NotNone DEF Verify, TypeOK, Token
        <4>2. /\ w.by = None /\ w.fingerprint = f /\ w.aud = None
              /\ w.exp = w.at + JWT_TTL /\ w.at <= now
          BY <1>0 DEF TypeOK
        <4> HIDE DEF w
        <4> QED BY <4>1, <4>2
      <3>2. \A m \in Login : tokens[m] # << >> => granted[m] # None
        BY DEF Inv, GrantLink, Untouched
      <3>3. /\ \A g : VouchedFor(g) => VouchedFor(g)'
            /\ \A m \in Login : granted[m] # None /\ FreshlyVouched(m) => FreshlyVouched(m)'
            /\ \A m \in Login : granted[m] # None /\ FromLogin(m) => FromLogin(m)'
        BY <2>1, <3>2, VouchStays
      <3>4. AccessIs(v)' /\ VouchedFor(v.fingerprint)'
        BY <2>1, <3>1 DEF AccessIs, VouchedFor
      <3>5. \A b \in access : VouchedFor(b.fingerprint)' /\ AccessIs(b)'
        BY <2>1, <3>3 DEF Inv, VouchLink, AccessIs
      <3> QED BY <2>1, <3>1, <3>3, <3>4, <3>5 DEF Inv, VouchLink, VouchedFor
    <2>4. GrantLink'
      BY <2>1 DEF Inv, GrantLink, Untouched
    <2> QED BY <2>2, <2>3, <2>4, <2>5 DEF Inv
  <1>2. CASE Restart
    <2>1. TypeOK'
      BY <1>0, <1>2 DEF TypeOK, Restart
    <2>2. BegunInOrder' /\ SessionLink' /\ CodeLink' /\ TokenLink'
      BY <1>2 DEF Inv, Restart, BegunInOrder, SessionLink, CodeLink, TokenLink, TokenIs
    <2>3. \A l \in Login : Untouched(l) => Untouched(l)'
      BY <1>2 DEF Restart, Untouched
    <2>4. GrantLink'
      BY <1>2, <2>3 DEF Inv, Restart, GrantLink
    <2>5. VouchLink'
      BY <1>0, <1>2, VouchKept DEF Restart, TypeOK
    <2> QED BY <2>1, <2>2, <2>4, <2>5 DEF Inv
  <1>3. CASE Tick \/ UNCHANGED vars
    <2>1. UNCHANGED <<sessions, codes, access, begun, subject, granted, asked, tokens>>
      BY <1>3 DEF Tick, vars
    <2>2. TypeOK'
      BY <1>0, <1>3, NotNone DEF TypeOK, Tick, vars
    <2>3. BegunInOrder' /\ SessionLink' /\ CodeLink' /\ TokenLink' /\ GrantLink'
      BY <2>1 DEF Inv, BegunInOrder, SessionLink, CodeLink, TokenLink, TokenIs, GrantLink, Untouched
    <2>4. now \in Nat /\ now' \in Nat /\ now <= now'
      BY <1>0, <1>3, NotNone DEF TypeOK, Tick, vars
    <2>5. VouchLink'
      BY <2>1, <2>4, VouchKept
    <2> QED BY <2>2, <2>3, <2>5 DEF Inv
  <1> QED BY <1>1, <1>2, <1>3, AuthorizeStep, CompleteStep, ExchangeStep DEF Next

\* So it always holds.
LEMMA InvAlways == Spec => []Inv
  <1>1. Inv /\ [Next]_vars => Inv'
    BY InvStep
  <1> QED BY <1>1, InvInit, PTL DEF Spec

-----------------------------------------------------------------------------
\* What follows from it.

\* The variables keep their types.
THEOREM ForgejoTypeCorrect == Spec => []TypeOK
  <1>1. Inv => TypeOK
    BY DEF Inv
  <1> QED BY <1>1, InvAlways, PTL

\* Whatever claims requests bring: the capauth_fingerprint of a token of the Forgejo
\* integration is whom its login was granted to, the verification service vouched for it,
\* and just before unless the claims of an earlier login of the same fingerprint emptied
\* the audience of its token; sub and exp are the flow's own unless the claims of that
\* login set them; and session and code were used within their lifetimes, although expired
\* records stay to be found and a state is used again.
THEOREM TokensAreProvenInTime == Spec => []TokenIsProvenInTime
  <1>1. ASSUME Inv PROVE TokenIsProvenInTime
    <2>1. ASSUME NEW l \in Login, NEW i \in DOMAIN tokens[l]
          PROVE  granted[l] # None
      BY <1>1, <2>1 DEF Inv, GrantLink, Untouched
    <2>2. TokenIsProven
      BY <1>1 DEF Inv, TokenLink, TokenIs, VouchLink, TokenIsProven
    <2>3. TokenIsTimely
      BY <1>1 DEF Inv, TokenLink, TokenIs, GrantLink, TokenIsTimely
    <2> QED BY <2>2, <2>3 DEF TokenIsProvenInTime
  <1> QED BY <1>1, InvAlways, PTL

-----------------------------------------------------------------------------
\* The integration implements LoginFlow.

\* What a step does to one login, in the terms of LoginFlow.
LoginStep(l) ==
    \/ /\ phaseOf(l) = "idle" /\ phaseOf(l)' = "pending"
       /\ subject'[l] = subject[l] /\ Len(tokens'[l]) = Len(tokens[l])
    \/ /\ phaseOf(l) = "pending" /\ phaseOf(l)' = "granted"
       /\ subject'[l] \in Fp /\ Len(tokens'[l]) = Len(tokens[l])
    \/ /\ phaseOf(l) = "granted" /\ phaseOf(l)' = "over"
       /\ subject'[l] = subject[l] /\ Len(tokens'[l]) = Len(tokens[l]) + 1
    \/ /\ phaseOf(l) \in {"pending", "granted"} /\ phaseOf(l)' = "over"
       /\ subject'[l] = subject[l] /\ Len(tokens'[l]) = Len(tokens[l])
    \/ /\ phaseOf(l)' = phaseOf(l)
       /\ subject'[l] = subject[l] /\ Len(tokens'[l]) = Len(tokens[l])

\* A login that is filed or has a code has begun, and not both.
LEMMA PhaseIs ==
  ASSUME Inv, NEW l \in Login
  PROVE  /\ phaseOf(l) \in {"idle", "pending", "granted", "over"}
         /\ Filed(l) => begun[l] # None /\ codes[l] = None
         /\ codes[l] # None => begun[l] # None
         /\ begun[l] = None => ~Filed(l) /\ codes[l] = None
  <1>1. phaseOf(l) \in {"idle", "pending", "granted", "over"}
    BY DEF phaseOf
  <1>2. Filed(l) => begun[l] # None /\ codes[l] = None
    BY DEF Inv, SessionLink, Untouched, Filed
  <1>3. codes[l] # None => begun[l] # None
    BY DEF Inv, CodeLink, GrantLink
  <1> QED BY <1>1, <1>2, <1>3

\* Every step is a step of each login.
LEMMA EachLoginSteps ==
  ASSUME Inv, [Next]_vars, NEW l \in Login
  PROVE  LoginStep(l)
  <1>0. /\ TypeOK /\ Inv'
        /\ Filed(l) => begun[l] # None /\ codes[l] = None
        /\ codes[l] # None => begun[l] # None
        /\ begun[l] = None => ~Filed(l) /\ codes[l] = None
    BY InvStep, PhaseIs DEF Inv
  <1>1. phaseOf(l) = IF Filed(l) THEN "pending" ELSE IF codes[l] # None THEN "granted"
                     ELSE IF begun[l] = None THEN "idle" ELSE "over"
    BY DEF phaseOf, Filed
  <1>2. phaseOf(l)' = IF Filed(l)' THEN "pending" ELSE IF codes'[l] # None THEN "granted"
                      ELSE IF begun'[l] = None THEN "idle" ELSE "over"
    BY DEF phaseOf, Filed
  <1>3. ASSUME NEW s \in State, NEW c \in Client, NEW u \in Redirect \cup {None}, authorize(s, c, u)
        PROVE  LoginStep(l)
    <2>1. /\ UNCHANGED <<codes, subject, tokens>> /\ Fresh \in Login /\ begun[Fresh] = None
          /\ begun' = [begun EXCEPT ![Fresh] = now] /\ now # None
      BY <1>0, <1>3, FreshIs, NotNone DEF authorize, Inv, TypeOK
    <2>2. /\ sessions'[s] # None /\ sessions'[s].login = Fresh
          /\ \A t \in State : t # s => sessions'[t] \in {sessions[t], None}
      <3> DEFINE rec == [login |-> Fresh, expires |-> expires_at]
      <3>1. rec \in AuthSession /\ rec.login = Fresh
        BY <1>0, <2>1, NotNone DEF AuthSession, expires_at, TypeOK
      <3>2. PICK r \in AuthSession : r = rec
        BY <3>1
      <3>3. sessions' = put(sessions, s, r) /\ sessions \in [State -> AuthSession \cup {None}]
        BY <1>0, <1>3, <3>2 DEF authorize, TypeOK
      <3>4. r.login = Fresh /\ r # None
        BY <3>1, <3>2, NotNone
      <3> HIDE DEF rec
      <3>5. /\ put(sessions, s, r)[s] = r
            /\ \A t \in State : t # s => put(sessions, s, r)[t] \in {sessions[t], None}
        BY <3>3, <3>4 DEF put
      <3> QED BY <3>3, <3>4, <3>5
    <2>3. CASE l = Fresh
      <3>1. begun[l] = None /\ Filed(l)'
        BY <2>1, <2>2, <2>3 DEF Filed
      <3> QED BY <1>0, <1>1, <1>2, <2>1, <3>1 DEF LoginStep
    <2>4. CASE l # Fresh
      <3>1. begun'[l] = begun[l]
        BY <1>0, <2>1, <2>4 DEF TypeOK
      <3>2. Filed(l)' => Filed(l)
        BY <2>2, <2>4 DEF Filed
      <3> QED BY <1>0, <1>1, <1>2, <2>1, <3>1, <3>2 DEF LoginStep
    <2> QED BY <2>3, <2>4
  <1>4. ASSUME NEW s \in State, NEW f \in Fp, NEW a \in access, NEW cl \in Claims, authorize_complete(s, f, a, cl)
        PROVE  LoginStep(l)
    <2>1. /\ sessions[s] # None /\ sessions[s] \in AuthSession /\ sessions' = pop(sessions, s)
          /\ UNCHANGED <<begun, tokens>>
      BY <1>0, <1>4 DEF authorize_complete, TypeOK
    <2>2. PICK m \in Login : m = sessions[s].login
      BY <2>1 DEF AuthSession
    <2>3. /\ sessions'[s] = None /\ \A t \in State : t # s => sessions'[t] = sessions[t]
      BY <1>0, <2>1 DEF pop, TypeOK
    <2>4. /\ l = m => Filed(l) /\ ~Filed(l)'
          /\ l # m => (Filed(l)' <=> Filed(l))
      <3>1. \A t \in State : sessions[t] # None /\ sessions[t].login = m => t = s
        BY <2>1, <2>2 DEF Inv, SessionLink
      <3> QED BY <2>1, <2>2, <2>3, <3>1 DEF Filed
    <2>5. CASE UNCHANGED <<codes, subject, granted, asked>>
      BY <1>0, <1>1, <1>2, <2>1, <2>4, <2>5 DEF LoginStep
    <2>6. CASE /\ subject' = [subject EXCEPT ![m] = f]
               /\ codes' = put(codes, m, [fingerprint |-> f, claims |-> cl, client |-> client_id,
                                          redirect |-> forgejo_redirect_uri, expires |-> expires_at])
      <3>1. PICK rec \in AuthCodeRecord : rec = [fingerprint |-> f, claims |-> cl, client |-> client_id,
                                          redirect |-> forgejo_redirect_uri, expires |-> expires_at]
        <4>1. expires_at \in Nat /\ client_id \in Client /\ forgejo_redirect_uri \in Redirect
          BY <1>0, ForgejoAssumption DEF expires_at, TypeOK
        <4> QED BY <4>1 DEF AuthCodeRecord
      <3>2. codes \in [Login -> AuthCodeRecord \cup {None}] /\ codes' = put(codes, m, rec) /\ rec # None
        BY <1>0, <2>6, <3>1, NotNone DEF TypeOK
      <3>3. /\ put(codes, m, rec)[m] = rec
            /\ \A x \in Login : x # m => put(codes, m, rec)[x] \in {codes[x], None}
        BY <3>2 DEF put
      <3>4. codes'[m] # None /\ (l # m => codes'[l] \in {codes[l], None})
        BY <3>2, <3>3
      <3>5. subject'[m] = f /\ (l # m => subject'[l] = subject[l])
        BY <1>0, <2>6 DEF TypeOK
      <3>6. CASE l = m
        BY <1>1, <1>2, <2>1, <2>4, <3>4, <3>5, <3>6 DEF LoginStep
      <3>7. CASE l # m
        BY <1>0, <1>1, <1>2, <2>1, <2>4, <3>4, <3>5, <3>7 DEF LoginStep
      <3> QED BY <3>6, <3>7
    <2> QED BY <1>4, <2>2, <2>5, <2>6 DEF authorize_complete
  <1>5. ASSUME NEW m \in Login, NEW c \in Client \cup {None}, NEW u \in Redirect \cup {None},
               exchange_code(m, c, u)
        PROVE  LoginStep(l)
    <2>1. UNCHANGED <<sessions, begun, subject>> /\ codes[m] # None
      BY <1>5 DEF exchange_code
    <2>2. /\ tokens[m] = << >> /\ Len(tokens'[m]) \in {0, 1} /\ codes'[m] = None
          /\ l # m => tokens'[l] = tokens[l] /\ codes'[l] = codes[l]
      BY <1>5, ExchangeStep
    <2>3. Filed(l)' <=> Filed(l)
      BY <2>1 DEF Filed
    <2>4. CASE l = m
      <3>1. phaseOf(l) = "granted" /\ phaseOf(l)' = "over"
        BY <1>0, <1>1, <1>2, <2>1, <2>2, <2>3, <2>4
      <3>2. Len(tokens[l]) = 0 /\ Len(tokens'[l]) \in {0, 1}
        BY <2>2, <2>4
      <3> QED BY <2>1, <3>1, <3>2 DEF LoginStep
    <2>5. CASE l # m
      BY <1>1, <1>2, <2>1, <2>2, <2>3, <2>5 DEF LoginStep
    <2> QED BY <2>4, <2>5
  <1>6. CASE Restart
    <2>1. UNCHANGED <<begun, subject, tokens>> /\ ~Filed(l)' /\ codes'[l] = None
      BY <1>6 DEF Restart, Filed
    <2> QED BY <1>0, <1>1, <1>2, <2>1 DEF LoginStep
  <1>7. CASE (\E f \in Fp : Verify(f)) \/ Tick \/ UNCHANGED vars
    <2>1. UNCHANGED <<sessions, codes, begun, subject, tokens>>
      BY <1>7 DEF Verify, Tick, vars
    <2>2. Filed(l)' <=> Filed(l)
      BY <2>1 DEF Filed
    <2> QED BY <1>1, <1>2, <2>1, <2>2 DEF LoginStep
  <1> QED BY <1>3, <1>4, <1>5, <1>6, <1>7 DEF Next

\* The Forgejo integration implements LoginFlow: logins that are filed under a value the
\* client chooses, replace each other, expire and are forgotten are each granted once, to
\* one fingerprint, and yield one token at most.
THEOREM ForgejoImplementsLoginFlow == Spec => ImplementsLoginFlow
  <1>1. Init => Flow!Init
    <2> SUFFICES ASSUME Init PROVE Flow!Init
      OBVIOUS
    <2>1. \A l \in Login : phaseOf(l) = "idle" /\ Len(tokens[l]) = 0
      BY DEF Init, phaseOf
    <2> QED BY <2>1 DEF Flow!Init, Init
  <1>2. Inv /\ [Next]_vars =>
            [Flow!Next]_<<[l \in Login |-> phaseOf(l)], subject, [l \in Login |-> Len(tokens[l])]>>
    <2> SUFFICES ASSUME Inv, [Next]_vars PROVE Flow!Next
      OBVIOUS
    <2>1. TypeOK' /\ \A l \in Login : LoginStep(l)
      BY InvStep, EachLoginSteps DEF Inv
    <2>2. \A l \in Login : phaseOf(l)' \in {"idle", "pending", "granted", "over"}
      BY DEF phaseOf
    <2>3. \A l \in Login : Len(tokens'[l]) \in Nat
      BY <2>1 DEF TypeOK
    <2> QED BY <2>1, <2>2, <2>3 DEF Flow!Next, Flow!Begin, Flow!Grant, Flow!Redeem, Flow!End, Flow!Stay,
                                    Flow!Phase, LoginStep, TypeOK
  <1> QED BY <1>1, <1>2, InvAlways, PTL DEF Spec, ImplementsLoginFlow, Flow!Spec

=============================================================================
