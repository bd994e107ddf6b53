------------------------ MODULE VerifyServiceProofs ------------------------
(***************************************************************************)
(* Proofs that the properties of VerifyService hold for every set of        *)
(* fingerprints, nonces and claims, every lifetime and both settings of     *)
(* REQUIRE_APPROVAL and UseDjango.                                          *)
(***************************************************************************)
EXTENDS VerifyService, TLAPS

(* The inductive invariant.  NonceLink ties the cache to the history of what *)
(* was issued and consumed, and TokenLink a JWT to its nonce; ApprovalLink and RevocationLink tie the key rows to the admin's actions.  *)

NonceLink ==
    \A n \in Nonce :
        /\ issued[n] = None => cache[n] = None /\ consumed[n] = 0
        /\ cache[n] # None =>
              /\ cache[n].fingerprint = issued[n].to
              /\ cache[n].issuedAt = issued[n].at
              /\ ~cache[n].used => consumed[n] = 0

\* A JWT was granted in consuming its nonce.
TokenLink == \A t \in tokens : consumed[t.nonce] # 0

ApprovalLink ==
    REQUIRE_APPROVAL =>
        \A f \in Fingerprint : keys[f] # None /\ keys[f].approved => f \in approvals

RevocationLink ==
    \A t \in tokens :
        /\ t.iat <= now
        /\ keys[t.sub] = None => t.iat <= revokedAt[t.sub]

\* A nonce that nobody consumed is unused and in the cache beyond its lifetime.
LiveLink ==
    \A n \in Nonce : cache[n] # None /\ consumed[n] = 0 =>
        /\ ~cache[n].used
        /\ UseDjango => cache[n].evictAt > cache[n].issuedAt + NONCE_TTL

IInv ==
    /\ TypeOK
    /\ LiveLink
    /\ NonceLink
    /\ NonceConsumedOnce
    /\ TokenLink
    /\ TokenProvenance
    /\ ApprovalLink
    /\ RevocationLink

-----------------------------------------------------------------------------
(* What the answer of the handler implies.                                  *)

\* An answer given after the nonce was consumed: the record was there, belonged
\* to the claimed fingerprint, was unused and had not expired.
LEMMA BurningAnswer ==
    ASSUME TypeOK, NEW req \in Request, Answer(req) \in BurningAnswers
    PROVE  /\ cache[req.nonce] # None
           /\ cache[req.nonce].fingerprint = req.fp
           /\ ~cache[req.nonce].used
           /\ now <= cache[req.nonce].issuedAt + NONCE_TTL
<1> DEFINE rec == peek(cache, req.nonce, now)
<1>1. consumeError(rec, req.fp, now) = ""
  BY DEF Answer, verify_auth_response, BurningAnswers, consumeError
<1>2. rec # None /\ rec.fingerprint = req.fp /\ ~rec.used /\ ~(now > expiresAt(rec))
  BY <1>1 DEF consumeError
<1>3. rec = cache[req.nonce]
  BY <1>2 DEF peek
<1>4. cache[req.nonce] \in NonceRecord(Owner)
  BY <1>2, <1>3 DEF TypeOK, Request
<1> QED
  BY <1>2, <1>3, <1>4, TtlAssumption DEF expiresAt, NonceRecord, TypeOK

\* An answer that leaves a row in place: the text that was sent or stored passed the
\* check of the derived fingerprint.
LEMMA AcceptedKey ==
    ASSUME TypeOK, NEW req \in Request,
           Answer(req) \notin {"unknown_fingerprint", "invalid_fingerprint"}
    PROVE  ResolvedKey(req) \in Text /\ matches(ResolvedKey(req), req.fp)
<1>1. ResolvedKey(req) # None /\ matches(ResolvedKey(req), req.fp)
  BY DEF Answer
<1>2. ResolvedKey(req) \in Text
  BY <1>1 DEF ResolvedKey, Request, TypeOK, KeyRow
<1> QED
  BY <1>1, <1>2

\* A good signature that was checked against a matching text is one of fp's, or else a
\* detached one by a key of that text.
LEMMA GoodSignature ==
    ASSUME NEW text, NEW fp, NEW sig, matches(text, fp), verify_signature(sig, text)
    PROVE  SignedFor(fp, sig, text)
BY DEF matches, verify_signature, SignedFor

\* Success: both signatures are what such a signature can be, and the row, enrolled by
\* this very request or before it, is approved.
LEMMA SuccessAnswer ==
    ASSUME TypeOK, NEW req \in Request, Answer(req) = ""
    PROVE  /\ SignedFor(req.fp, req.proof.sig, ResolvedKey(req))
           /\ req.proof.claims # None => SignedFor(req.fp, req.proof.claimsSig, ResolvedKey(req))
           /\ KeysAfterEnrollment(req)[req.fp].approved
<1>1. /\ verify_nonce_signature(req) /\ ClaimsAccepted(req)
      /\ KeysAfterEnrollment(req)[req.fp].approved
  BY DEF Answer, verify_auth_response
<1>2. matches(ResolvedKey(req), req.fp)
  BY AcceptedKey
<1> QED
  BY <1>1, <1>2, GoodSignature DEF verify_nonce_signature, ClaimsAccepted

-----------------------------------------------------------------------------
(* Preservation.  HandleResponse carries the weight: it is what both verify  *)
(* endpoints do.                                                             *)

\* The service starts with empty stores, so nothing is owed an explanation.
LEMMA InitHolds == Init => IInv
<1> SUFFICES ASSUME Init PROVE IInv
  OBVIOUS
<1> USE ServiceAssumption DEF Init
<1>1. TypeOK
  BY DEF TypeOK
<1>2. NonceLink /\ NonceConsumedOnce /\ LiveLink
  BY DEF NonceLink, NonceConsumedOnce, LiveLink
<1>3. TokenLink /\ ApprovalLink
  BY DEF TokenLink, ApprovalLink
<1>4. TokenProvenance /\ RevocationLink
  BY DEF TokenProvenance, RevocationLink
<1> QED
  BY <1>1, <1>2, <1>3, <1>4 DEF IInv

\* Issuing a nonce, for challenge and for qr-challenge.
LEMMA IssuePreserves ==
    ASSUME IInv, NEW n \in Nonce, NEW owner \in Owner, IssueTo(n, owner)
    PROVE  IInv'
<1> USE ServiceAssumption, TtlAssumption, GraceAssumption, DjangoAssumption
<1> DEFINE new == [fingerprint |-> owner, issuedAt |-> now, used |-> FALSE,
                   evictAt |-> timeoutAt(now, NONCE_TTL + Grace)]
           iss == [to |-> owner, at |-> now]
<1>1. /\ cache' = [cache EXCEPT ![n] = new]
      /\ issued' = [issued EXCEPT ![n] = iss]
      /\ issued[n] = None
      /\ UNCHANGED <<now, keys, qrResults, tokens, consumed, approvals, revokedAt>>
  BY DEF IssueTo, issue
<1>2. new \in NonceRecord(Owner) /\ iss \in IssueRecord
  BY DEF IInv, TypeOK, NonceRecord, IssueRecord, timeoutAt
<1>3. TypeOK'
  BY <1>1, <1>2 DEF IInv, TypeOK
<1>4. NonceLink' /\ NonceConsumedOnce'
  BY <1>1, <1>2 DEF IInv, TypeOK, NonceLink, NonceConsumedOnce
<1>5. TokenProvenance'
  BY <1>1, <1>2 DEF IInv, TypeOK, TokenProvenance, Token
<1>6. LiveLink'
  <2>1. /\ ~new.used /\ new.issuedAt = now
        /\ UseDjango => new.evictAt > now + NONCE_TTL
    BY DEF IInv, TypeOK, timeoutAt
  <2> HIDE DEF new
  <2> QED
    BY <1>1, <1>2, <2>1 DEF IInv, TypeOK, LiveLink
<1>7. TokenLink' /\ ApprovalLink' /\ RevocationLink'
  BY <1>1 DEF IInv, TokenLink, ApprovalLink, RevocationLink
<1> QED
  BY <1>3, <1>4, <1>5, <1>6, <1>7 DEF IInv

\* The rows after an enrollment are well-formed and, unless the request was
\* turned away before it, the fingerprint has one.
LEMMA EnrollmentRows ==
    ASSUME IInv, NEW req \in Request
    PROVE  LET rows == KeysAfterEnrollment(req)
           IN  Answer(req) \notin {"unknown_fingerprint", "invalid_fingerprint"} =>
                  /\ rows \in [Fingerprint -> KeyRow \cup {None}]
                  /\ rows[req.fp] \in KeyRow
<1> DEFINE new == [key |-> ResolvedKey(req), approved |-> ~REQUIRE_APPROVAL]
<1>1. req.fp \in Fingerprint
  BY DEF Request
<1> SUFFICES ASSUME Answer(req) \notin {"unknown_fingerprint", "invalid_fingerprint"}
             PROVE  LET rows == KeysAfterEnrollment(req)
                    IN  /\ rows \in [Fingerprint -> KeyRow \cup {None}]
                        /\ rows[req.fp] \in KeyRow
  OBVIOUS
<1>2. ResolvedKey(req) \in Text
  BY AcceptedKey DEF IInv
<1>3. new \in KeyRow
  BY <1>2, ServiceAssumption DEF KeyRow
<1>4. CASE keys[req.fp] = None
  <2>1. KeysAfterEnrollment(req) = [keys EXCEPT ![req.fp] = new]
    BY <1>4 DEF KeysAfterEnrollment, enroll
  <2> HIDE DEF new
  <2> QED
    BY <1>1, <1>3, <2>1 DEF IInv, TypeOK
<1>5. CASE keys[req.fp] # None
  BY <1>1, <1>5 DEF KeysAfterEnrollment, IInv, TypeOK
<1> QED
  BY <1>4, <1>5

\* The body of verify and qr-verify; qrResults is the endpoint's own business.
LEMMA ResponsePreserves ==
    ASSUME IInv, NEW req \in Request, NEW amr \in {"pgp", "qr"},
           HandleResponse(req, amr), qrResults' \subseteq Nonce
    PROVE  IInv'
<1> DEFINE ans == Answer(req)
           rows == KeysAfterEnrollment(req)
           n == req.nonce
           token == [sub |-> req.fp, nonce |-> n, iat |-> now, amr |-> amr,
                     text |-> ResolvedKey(req), proof |-> req.proof]
           burnt == [cache[n] EXCEPT !.used = TRUE, !.evictAt = timeoutAt(now, Grace)]
<1> USE ServiceAssumption, TtlAssumption, GraceAssumption, DjangoAssumption
<1>1. /\ n \in Nonce /\ req.fp \in Fingerprint
      /\ req.proof \in Proof
  BY DEF Request
<1>2. /\ UNCHANGED <<now, issued, approvals>>
      /\ revokedAt' = [revokedAt EXCEPT ![req.fp] = IF keys'[req.fp] = None THEN @ ELSE 0]
  BY DEF HandleResponse
<1>3. ans \in BurningAnswers =>
         /\ cache[n] \in NonceRecord(Owner) /\ burnt \in NonceRecord(Owner)
         /\ cache[n].fingerprint = req.fp /\ ~cache[n].used
         /\ now <= cache[n].issuedAt + NONCE_TTL
         /\ burnt.fingerprint = cache[n].fingerprint
         /\ burnt.issuedAt = cache[n].issuedAt /\ burnt.used
  <2>1. timeoutAt(now, Grace) \in Nat
    BY DEF timeoutAt, IInv, TypeOK
  <2>2. ans \in BurningAnswers =>
           /\ cache[n] \in NonceRecord(Owner)
           /\ cache[n].fingerprint = req.fp /\ ~cache[n].used
           /\ now <= cache[n].issuedAt + NONCE_TTL
    BY BurningAnswer, <1>1 DEF IInv, TypeOK
  <2> QED
    BY <2>1, <2>2 DEF NonceRecord
<1>4. cache' = IF ans \in BurningAnswers THEN [cache EXCEPT ![n] = burnt] ELSE cache
  BY DEF HandleResponse, markUsed
<1>5. consumed' = IF ans \in BurningAnswers
                  THEN [consumed EXCEPT ![n] = consumed[n] + 1] ELSE consumed
  BY DEF HandleResponse
<1>6. tokens' = IF ans = "" THEN tokens \cup {token} ELSE tokens
  BY DEF HandleResponse
<1>7. ans = "" => ans \in BurningAnswers
  BY DEF BurningAnswers
<1>8. /\ ans = "" => token \in Token
      /\ token.sub = req.fp /\ token.nonce = n /\ token.iat = now
      /\ token.text = ResolvedKey(req) /\ token.proof = req.proof
  <2>1. ans = "" => ResolvedKey(req) \in Text
    BY AcceptedKey DEF IInv
  <2> QED
    BY <1>1, <2>1 DEF Token, IInv, TypeOK
<1> HIDE DEF ans, burnt, token
<1>9. NonceLink' /\ NonceConsumedOnce'
  BY <1>1, <1>2, <1>3, <1>4, <1>5 DEF IInv, TypeOK, NonceLink, NonceConsumedOnce
<1>10. ans = "" => /\ SignedFor(token.sub, token.proof.sig, token.text)
                   /\ token.proof.claims # None =>
                         SignedFor(token.sub, token.proof.claimsSig, token.text)
  BY SuccessAnswer, <1>8 DEF IInv, ans
<1>11. ans = "" => /\ issued[n] # None /\ issued[n].to = req.fp
                   /\ now <= issued[n].at + NONCE_TTL
                   /\ \A t \in tokens : t.nonce # n
  <2>1. ans = "" => consumed[n] = 0 /\ cache[n] # None
    BY <1>1, <1>3, <1>7, ServiceAssumption DEF IInv, NonceLink
  <2>2. ans = "" => \A t \in tokens : t.nonce # n
    BY <2>1 DEF IInv, TokenLink
  <2>3. ans = "" => /\ issued[n] # None /\ issued[n].to = cache[n].fingerprint
                    /\ issued[n].at = cache[n].issuedAt
    BY <1>1, <2>1 DEF IInv, NonceLink
  <2> QED
    BY <1>3, <1>7, <2>2, <2>3
<1>12. TokenProvenance' /\ TokenLink'
  <2>1. \A t \in tokens : consumed'[t.nonce] # 0
    <3> SUFFICES ASSUME NEW t \in tokens PROVE consumed'[t.nonce] # 0
      OBVIOUS
    <3>1. t.nonce \in Nonce
      BY DEF IInv, TypeOK, Token
    <3>2. consumed[t.nonce] \in Nat /\ consumed[t.nonce] # 0
      BY <3>1 DEF IInv, TypeOK, TokenLink
    <3>3. PICK c \in Nat : c = consumed[t.nonce] /\ c # 0
      BY <3>2
    <3>4. consumed'[t.nonce] = c \/ consumed'[t.nonce] = c + 1
      BY <1>1, <1>5, <3>1, <3>3 DEF IInv, TypeOK
    <3> QED
      BY <3>3, <3>4
  <2>2. ans = "" => consumed'[token.nonce] # 0
    <3>1. consumed[n] \in Nat /\ (ans = "" => consumed'[n] = consumed[n] + 1)
      BY <1>1, <1>5, <1>7 DEF IInv, TypeOK
    <3>2. PICK c \in Nat : c = consumed[n]
      BY <3>1
    <3>4. c + 1 # 0
      OBVIOUS
    <3>5. ans = "" => consumed'[n] # 0
      BY <3>1, <3>2, <3>4
    <3>3. token.nonce = n
      BY <1>8
    <3> QED
      BY <3>3, <3>5
  <2>3. TokenProvenance'
    BY <1>2, <1>6, <1>8, <1>10, <1>11 DEF IInv, TokenProvenance
  <2> QED
    BY <1>6, <2>1, <2>2, <2>3 DEF TokenLink
<1>13. ans \notin {"unknown_fingerprint", "invalid_fingerprint"} =>
             /\ rows \in [Fingerprint -> KeyRow \cup {None}]
             /\ rows[req.fp] \in KeyRow
  BY EnrollmentRows, <1>1 DEF IInv, ans
<1>15. keys' = IF ans \in {"unknown_fingerprint", "invalid_fingerprint"} THEN keys ELSE rows
  BY Zenon DEF HandleResponse, ans
<1>16. \A f \in Fingerprint : f # req.fp => rows[f] = keys[f]
  BY <1>1 DEF KeysAfterEnrollment, enroll, IInv, TypeOK
<1>17. keys[req.fp] # None => rows = keys
  BY DEF KeysAfterEnrollment
<1>18. keys[req.fp] = None => rows[req.fp].approved = ~REQUIRE_APPROVAL
  BY <1>1 DEF KeysAfterEnrollment, enroll, IInv, TypeOK
<1> HIDE DEF rows
<1>19. keys' \in [Fingerprint -> KeyRow \cup {None}]
  BY <1>13, <1>15 DEF IInv, TypeOK
<1>20. TypeOK'
  <2>2. cache' \in [Nonce -> NonceRecord(Owner) \cup {None}]
    BY <1>3, <1>4 DEF IInv, TypeOK
  <2>3. consumed' \in [Nonce -> Nat]
    BY <1>1, <1>5 DEF IInv, TypeOK
  <2>4. revokedAt' \in [Fingerprint -> Nat]
    BY <1>1, <1>2 DEF IInv, TypeOK
  <2> QED
    BY <1>2, <1>6, <1>8, <1>19, <2>2, <2>3, <2>4 DEF IInv, TypeOK
<1>22. ApprovalLink'
  BY <1>1, <1>2, <1>13, <1>15, <1>16, <1>17, <1>18 DEF IInv, TypeOK, ApprovalLink
<1>23. RevocationLink'
  <2>1. \A f \in Fingerprint : keys'[f] = None => keys[f] = None
    BY <1>1, <1>13, <1>15, <1>16, <1>17 DEF IInv, TypeOK
  <2>2. ans = "" => keys'[req.fp] # None
    BY <1>1, <1>13, <1>15 DEF IInv, TypeOK
  <2>3. now <= now
    BY DEF IInv, TypeOK
  <2>4. \A f \in Fingerprint : keys'[f] = None => revokedAt'[f] = revokedAt[f]
    BY <1>1, <1>2 DEF IInv, TypeOK
  <2> QED
    BY <1>1, <1>2, <1>6, <1>8, <2>1, <2>2, <2>3, <2>4 DEF IInv, TypeOK, RevocationLink, Token
<1>24. LiveLink'
  <2>1. \A m \in Nonce : consumed'[m] = 0 => consumed[m] = 0 /\ cache'[m] = cache[m]
    BY <1>1, <1>4, <1>5 DEF IInv, TypeOK
  <2> QED
    BY <2>1 DEF IInv, LiveLink
<1> QED
  BY <1>9, <1>12, <1>20, <1>22, <1>23, <1>24 DEF IInv

\* Every step keeps the invariant.
LEMMA NextPreserves == IInv /\ [Next]_vars => IInv'
<1> SUFFICES ASSUME IInv, [Next]_vars PROVE IInv'
  OBVIOUS
<1> USE ServiceAssumption
<1>1. CASE \E n \in Nonce, f \in Fingerprint : challenge_endpoint(n, f)
  BY <1>1, IssuePreserves DEF challenge_endpoint, Owner
<1>2. CASE \E n \in Nonce : qr_challenge_endpoint(n)
  BY <1>2, IssuePreserves DEF qr_challenge_endpoint, Owner
<1>3. CASE \E req \in Request : verify_endpoint(req)
  BY <1>3, ResponsePreserves DEF verify_endpoint, IInv, TypeOK
<1>4. CASE \E req \in Request : qr_verify_endpoint(req)
  <2>1. PICK req \in Request : qr_verify_endpoint(req)
    BY <1>4
  <2>2. qrResults' \subseteq Nonce
    BY <2>1 DEF qr_verify_endpoint, Request, IInv, TypeOK
  <2> QED
    BY <2>1, <2>2, ResponsePreserves DEF qr_verify_endpoint
<1>5. CASE \E n \in Nonce : qr_status_endpoint(n)
  BY <1>5 DEF qr_status_endpoint, history, IInv, TypeOK, NonceLink, LiveLink, NonceConsumedOnce,
              TokenLink, TokenProvenance, ApprovalLink, RevocationLink
<1>6. CASE \E f \in Fingerprint : approve_key(f)
  <2>1. PICK f \in Fingerprint : approve_key(f)
    BY <1>6
  <2> DEFINE row == [keys[f] EXCEPT !.approved = TRUE]
  <2>2. keys[f] \in KeyRow
    BY <2>1 DEF approve_key, IInv, TypeOK
  <2>3. row \in KeyRow /\ row.key = keys[f].key
    BY <2>2 DEF KeyRow
  <2>4. /\ keys' = [keys EXCEPT ![f] = row] /\ approvals' = approvals \cup {f}
        /\ UNCHANGED <<now, cache, qrResults, tokens, issued, consumed, revokedAt>>
    BY <2>1 DEF approve_key
  <2> HIDE DEF row
  <2>5. TypeOK' /\ TokenLink' /\ ApprovalLink'
    BY <2>2, <2>3, <2>4 DEF IInv, TypeOK, TokenLink, ApprovalLink
  <2>6. NonceLink' /\ NonceConsumedOnce' /\ TokenProvenance' /\ LiveLink'
    BY <2>4 DEF IInv, NonceLink, LiveLink, NonceConsumedOnce, TokenProvenance
  <2>7. RevocationLink'
    BY <2>2, <2>3, <2>4 DEF IInv, TypeOK, RevocationLink, Token
  <2> QED
    BY <2>5, <2>6, <2>7 DEF IInv
<1>7. CASE \E f \in Fingerprint : revoke_key(f)
  <2>1. PICK f \in Fingerprint : revoke_key(f)
    BY <1>7
  <2>2. TypeOK' /\ TokenLink' /\ ApprovalLink'
    BY <2>1 DEF revoke_key, IInv, TypeOK, TokenLink, ApprovalLink
  <2>3. NonceLink' /\ NonceConsumedOnce' /\ TokenProvenance' /\ LiveLink'
    BY <2>1 DEF revoke_key, IInv, NonceLink, LiveLink, NonceConsumedOnce, TokenProvenance
  <2>4. RevocationLink'
    BY <2>1 DEF revoke_key, IInv, TypeOK, RevocationLink, Token
  <2> QED
    BY <2>2, <2>3, <2>4 DEF IInv
<1>8. CASE Restart
  BY <1>8 DEF Restart, history, IInv, TypeOK, NonceLink, LiveLink, NonceConsumedOnce,
              TokenLink, TokenProvenance, ApprovalLink, RevocationLink
<1>9. CASE Tick
  <2>1. TypeOK' /\ NonceLink' /\ NonceConsumedOnce' /\ TokenLink' /\ TokenProvenance'
        /\ ApprovalLink' /\ LiveLink'
    BY <1>9 DEF Tick, history, IInv, TypeOK, NonceLink, LiveLink, NonceConsumedOnce,
                TokenLink, TokenProvenance, ApprovalLink
  <2>2. RevocationLink'
    BY <1>9 DEF Tick, history, IInv, TypeOK, RevocationLink, Token
  <2> QED
    BY <2>1, <2>2 DEF IInv
<1>10. CASE UNCHANGED vars
  BY <1>10 DEF vars, history, IInv, TypeOK, NonceLink, LiveLink, NonceConsumedOnce,
               TokenLink, TokenProvenance, ApprovalLink, RevocationLink
<1> QED
  BY <1>1, <1>2, <1>3, <1>4, <1>5, <1>6, <1>7, <1>8, <1>9, <1>10 DEF Next

\* The invariant holds from the start and every step of the service keeps it.
LEMMA Invariance == Spec => []IInv
BY InitHolds, NextPreserves, PTL DEF Spec

-----------------------------------------------------------------------------
\* The variables of the verification service keep their types.
THEOREM TypeCorrect == Spec => []TypeOK
<1>1. IInv => TypeOK
  BY DEF IInv
<1> QED
  BY <1>1, Invariance, PTL

\* consume() accepts no nonce twice, whatever is posted and in whatever order.
THEOREM SingleUse == Spec => []NonceConsumedOnce
<1>1. IInv => NonceConsumedOnce
  BY DEF IInv
<1> QED
  BY <1>1, Invariance, PTL

\* Every JWT goes back to a live challenge of its own that yielded no other, and to a
\* signature by its own key, or a detached one by another key of a text that passed as its
\* own.
THEOREM Provenance == Spec => []TokenProvenance
<1>1. IInv => TokenProvenance
  BY DEF IInv
<1> QED
  BY <1>1, Invariance, PTL

\* A JWT outlives the revocation of its key by less than JWT_EXPIRY.
THEOREM Revocation == Spec => []RevocationTakesEffect
<1>1. IInv => RevocationTakesEffect
  BY ServiceAssumption
     DEF IInv, TypeOK, RevocationLink, RevocationTakesEffect, TokenActive, Token
<1> QED
  BY <1>1, Invariance, PTL

\* What the holder of a key sends resolves to the text of that key.
LEMMA OwnRequestIs ==
    ASSUME NEW f \in Fingerprint, NEW n \in Nonce
    PROVE  /\ OwnRequest(f, n).fp = f /\ OwnRequest(f, n).nonce = n
           /\ OwnRequest(f, n).proof.sig = [by |-> f, detached |-> FALSE]
           /\ OwnRequest(f, n).proof.claims = None
           /\ ResolvedKey(OwnRequest(f, n)) = KeyOf(f)
           /\ KeyOf(f) # None /\ [by |-> f, detached |-> FALSE] # None
<1>1. KeyOf(f) \in KeyTexts(Fingerprint)
  BY DEF KeyOf, KeyTexts
<1>2. [by |-> f, detached |-> FALSE] \in Signature
  BY DEF Signature, Signatures
<1>3. KeyOf(f) # None /\ [by |-> f, detached |-> FALSE] # None
  BY <1>1, <1>2, ServiceAssumption
<1> QED
  BY <1>3 DEF OwnRequest, ResolvedKey

\* verify never locks the holder of an approved key out: whatever others posted, the
\* response of the holder is accepted while the nonce lives and nobody consumed it, for
\* either cache behind the nonce store.
THEOREM HolderIsAccepted == Spec => []GenuineLoginAccepted
<1>1. IInv => GenuineLoginAccepted
  <2> SUFFICES ASSUME IInv, NEW f \in Fingerprint, NEW n \in Nonce,
                      GenuineResponse(f, n), issued[n].to = f
               PROVE  Answer(OwnRequest(f, n)) = ""
    BY DEF GenuineLoginAccepted
  <2>1. PICK req : req = OwnRequest(f, n)
    OBVIOUS
  <2>2. /\ req.fp = f /\ req.nonce = n /\ req.proof.claims = None
        /\ req.proof.sig = [by |-> f, detached |-> FALSE] /\ req.proof.sig # None
        /\ ResolvedKey(req) = KeyOf(f) /\ KeyOf(f) # None
    BY <2>1, OwnRequestIs
  <2>3. keys[f] # None /\ keys[f].approved /\ KeysAfterEnrollment(req) = keys
    BY <2>2 DEF GenuineResponse, KeysAfterEnrollment
  <2>4. /\ cache[n] # None /\ cache[n].fingerprint = f /\ ~cache[n].used
        /\ cache[n].issuedAt = issued[n].at /\ now <= issued[n].at + NONCE_TTL
        /\ UseDjango => cache[n].evictAt > cache[n].issuedAt + NONCE_TTL
    BY DEF GenuineResponse, IInv, NonceLink, LiveLink
  <2>5. /\ cache[n].issuedAt \in Nat /\ cache[n].evictAt \in Nat /\ now \in Nat
        /\ NONCE_TTL \in Nat
    <3>1. cache[n] \in NonceRecord(Owner)
      BY <2>4 DEF IInv, TypeOK
    <3> QED
      BY <3>1, TtlAssumption DEF NonceRecord, IInv, TypeOK
  <2>6. peek(cache, n, now) = cache[n]
    BY <2>4, <2>5 DEF peek
  <2>7. consumeError(cache[n], f, now) = ""
    BY <2>4, <2>5 DEF consumeError, expiresAt
  <2>8. verify_auth_response(req) = ""
    <3>1. verify_signature(req.proof.sig, KeyOf(f))
      BY <2>2 DEF verify_signature, fingerprint_from_armor, KeyOf
    <3> QED
      BY <2>2, <2>6, <2>7, <3>1 DEF verify_auth_response, verify_nonce_signature, ClaimsAccepted
  <2>9. Answer(req) = ""
    <3>1. matches(KeyOf(f), f)
      BY DEF matches, fingerprint_from_armor, KeyOf
    <3> QED
      BY <2>2, <2>3, <2>4, <2>6, <2>8, <3>1 DEF Answer
  <2> QED
    BY <2>1, <2>9
<1> QED
  BY <1>1, Invariance, PTL

\* With REQUIRE_APPROVAL, no JWT without an approval that is still in force: a
\* row the request itself enrolled is pending, and any other was approved.
THEOREM Approval == Spec => LoginNeedsApproval
<1> DEFINE Step == REQUIRE_APPROVAL => \A t \in tokens' \ tokens : t.sub \in approvals
<1>1. ASSUME IInv, NEW req \in Request, NEW amr \in {"pgp", "qr"}, HandleResponse(req, amr)
      PROVE  Step
  <2> SUFFICES ASSUME REQUIRE_APPROVAL, NEW t \in tokens' \ tokens
               PROVE  t.sub \in approvals
    OBVIOUS
  <2> DEFINE token == [sub |-> req.fp, nonce |-> req.nonce, iat |-> now, amr |-> amr,
                       text |-> ResolvedKey(req), proof |-> req.proof]
  <2>1. /\ tokens' = IF Answer(req) = "" THEN tokens \cup {token} ELSE tokens
        /\ token.sub = req.fp
    BY <1>1, Zenon DEF HandleResponse
  <2> HIDE DEF token
  <2>2. Answer(req) = "" /\ t.sub = req.fp
    BY <2>1
  <2>3. KeysAfterEnrollment(req)[req.fp].approved
    BY <1>1, <2>2, SuccessAnswer DEF IInv
  <2>4. req.fp \in Fingerprint
    BY DEF Request
  <2>5. keys[req.fp] # None
    <3> SUFFICES ASSUME keys[req.fp] = None PROVE FALSE
      OBVIOUS
    <3>1. KeysAfterEnrollment(req)[req.fp].approved = ~REQUIRE_APPROVAL
      BY <1>1, <2>4 DEF KeysAfterEnrollment, enroll, IInv, TypeOK
    <3> QED
      BY <2>3, <3>1
  <2>6. keys[req.fp].approved
    BY <2>3, <2>5 DEF KeysAfterEnrollment
  <2> QED
    BY <1>1, <2>2, <2>4, <2>5, <2>6 DEF IInv, ApprovalLink
<1>2. IInv /\ [Next]_vars => [Step]_vars
  <2> SUFFICES ASSUME IInv, Next PROVE Step
    OBVIOUS
  <2>1. CASE \E req \in Request : verify_endpoint(req) \/ qr_verify_endpoint(req)
    BY <1>1, <2>1 DEF verify_endpoint, qr_verify_endpoint
  <2>2. CASE UNCHANGED tokens
    BY <2>2
  <2> QED
    BY <2>1, <2>2 DEF Next, challenge_endpoint, qr_challenge_endpoint, IssueTo,
       qr_status_endpoint, approve_key, revoke_key, Restart, Tick
<1> QED
  BY <1>2, Invariance, PTL DEF Spec, LoginNeedsApproval
============================================================================
