------------------------ MODULE AuthentikStageProofs ------------------------
(***************************************************************************)
(* Proofs about the Authentik stage for any number of workers, sessions,    *)
(* fingerprints and nonces, whatever their interleaving.  What is not here  *)
(* is that a nonce is consumed once: with two workers it is not so.         *)
(***************************************************************************)
EXTENDS AuthentikStage, TLAPS

\* A nonce was issued to f.
IssuedTo(n, f) == issued[n] # None /\ issued[n].to = f

\* A record of nonce n, in the cache or read from it some time ago, is the one
\* that was issued.
RecordRight(n, record) ==
    IssuedTo(n, record.fingerprint) /\ record.issuedAt = issued[n].at

CacheLink == \A n \in Nonce : cache[n] # None => RecordRight(n, cache[n])

ContextLink ==
    \A s \in Session : context[s] # None => IssuedTo(context[s].nonce, context[s].fp)

\* What a worker has established when it gets to a label.
Received(w) ==
    /\ req[w] \in Request /\ over[w] \in Nonce
    /\ IssuedTo(over[w], req[w].fp)
KeyChosen(w) == key[w] \in Text /\ matches(key[w], req[w].fp)
NonceChecked(w) ==
    /\ rec[w] \in [record : NonceRecord(Fingerprint), at : Nat]
    /\ RecordRight(req[w].nonce, rec[w].record)
    /\ rec[w].record.fingerprint = req[w].fp
    /\ rec[w].at <= issued[req[w].nonce].at + NONCE_TTL
Proven(w) ==
    /\ req[w].sig \in Signature /\ req[w].sig.over = over[w]
    /\ req[w].sig.by \in key[w].keys /\ SignedFor(req[w].fp, req[w].sig, key[w])
Loaded(w) ==
    user[w] \in Fingerprint /\ (user[w] # req[w].fp => <<req[w].fp, user[w]>> \in links)

\* What is known of a worker at its label.
Progress(w) ==
    /\ pc[w] # "idle" => Received(w)
    /\ pc[w] \notin {"idle", "resolve"} => KeyChosen(w)
    /\ pc[w] \notin {"idle", "resolve", "get"} => NonceChecked(w)
    /\ pc[w] \notin {"idle", "resolve", "get", "set"} => Proven(w)
    /\ pc[w] = "finish" => Loaded(w)

WorkerLink == \A w \in Worker : Progress(w)

\* With REQUIRE_APPROVAL a row is approved by the admin alone.
ApprovalLink ==
    \A f \in Fingerprint :
        REQUIRE_APPROVAL /\ registry[f] # None /\ registry[f].approved => f \in approvals

\* A row is linked by the admin alone.
LinkLink ==
    \A f \in Fingerprint :
        registry[f] # None /\ registry[f].linked_to # None =>
            <<f, registry[f].linked_to>> \in links

RegistryLink == RegistryProven /\ ApprovalLink /\ LinkLink

IInv ==
    /\ TypeOK /\ CacheLink /\ ContextLink /\ WorkerLink
    /\ RegistryLink /\ StageProvenance

-----------------------------------------------------------------------------
\* Nothing is issued, stored or under way at the start.
LEMMA InitHolds == Init => IInv
  <1> SUFFICES ASSUME Init PROVE IInv
    OBVIOUS
  <1> USE StageAssumption DEF Init
  <1>1. TypeOK
    BY DEF TypeOK
  <1>2. CacheLink /\ ContextLink /\ WorkerLink
    BY DEF CacheLink, ContextLink, WorkerLink, Progress
  <1>3. RegistryLink /\ StageProvenance
    BY DEF RegistryLink, RegistryProven, ApprovalLink, LinkLink, StageProvenance
  <1> QED BY <1>1, <1>2, <1>3 DEF IInv

\* consume() lets a record pass when it belongs to the fingerprint and lives.
LEMMA RecordAccepted ==
  ASSUME NEW record, NEW f, NEW t, consumeError(record, f, t) = ""
  PROVE  record # None /\ record.fingerprint = f /\ ~(t > expiresAt(record))
  BY DEF consumeError

\* What is known of a worker rests on its own variables, on what was issued and on the
\* links that were made, which are only added to.
LEMMA StillKnown ==
  ASSUME IInv, NEW v \in Worker,
         issued' = issued, links \subseteq links',
         /\ pc'[v] = pc[v] /\ req'[v] = req[v] /\ key'[v] = key[v]
         /\ over'[v] = over[v] /\ rec'[v] = rec[v] /\ user'[v] = user[v]
  PROVE  Progress(v)'
  BY DEF IInv, WorkerLink, Progress, Received, KeyChosen, NonceChecked, Proven, Loaded,
         IssuedTo, RecordRight

\* A worker that moves on leaves what the others have established alone.
LEMMA OtherWorkers ==
  ASSUME IInv, NEW w \in Worker,
         issued' = issued, links' = links,
         \A v \in Worker : v # w =>
            /\ pc'[v] = pc[v] /\ req'[v] = req[v] /\ key'[v] = key[v]
            /\ over'[v] = over[v] /\ rec'[v] = rec[v] /\ user'[v] = user[v],
         Progress(w)'
  PROVE  WorkerLink'
  BY StillKnown DEF WorkerLink

\* A challenge is issued: what was known of the other nonces still is.
LEMMA ChallengePreserves ==
  ASSUME IInv, NEW s \in Session, NEW n \in Nonce, NEW f \in Fingerprint, get_challenge(s, n, f)
  PROVE  IInv'
  <1> USE StageAssumption, TtlAssumption, GraceAssumption, DjangoAssumption
  <1> DEFINE r == [fingerprint |-> f, issuedAt |-> now, used |-> FALSE,
                   evictAt |-> timeoutAt(now, NONCE_TTL + Grace)]
             i == [to |-> f, at |-> now]
  <1>1. r \in NonceRecord(Fingerprint) /\ i \in IssueRecord
    BY DEF IInv, TypeOK, NonceRecord, IssueRecord, timeoutAt
  <1>2. /\ issued[n] = None
        /\ cache' = [cache EXCEPT ![n] = r]
        /\ issued' = [issued EXCEPT ![n] = i]
        /\ context' \in {context, [context EXCEPT ![s] = [nonce |-> n, fp |-> f]]}
        /\ UNCHANGED <<now, registry, pc, req, key, over, rec, user, logins, consumed,
                       approvals, links>>
    BY DEF get_challenge, issue, local
  <1>3. r.fingerprint = f /\ r.issuedAt = now /\ i.to = f /\ i.at = now
    OBVIOUS
  <1> HIDE DEF r, i
  <1>4. TypeOK'
    BY <1>1, <1>2 DEF IInv, TypeOK, Context
  <1>5. issued \in [Nonce -> IssueRecord \cup {None}]
    BY DEF IInv, TypeOK
  <1>6. ASSUME NEW m \in Nonce, issued[m] # None
        PROVE  issued'[m] = issued[m]
    BY <1>2, <1>5, <1>6
  <1>7. CacheLink'
    <2> SUFFICES ASSUME NEW m \in Nonce, cache'[m] # None
                 PROVE  RecordRight(m, cache[m])'
      BY DEF CacheLink
    <2>1. CASE m = n
      BY <2>1, <1>1, <1>2, <1>3, <1>5 DEF IInv, TypeOK, RecordRight, IssuedTo
    <2>2. CASE m # n
      BY <2>2, <1>2, <1>5 DEF IInv, TypeOK, CacheLink, RecordRight, IssuedTo
    <2> QED BY <2>1, <2>2
  <1>8. ContextLink'
    <2> SUFFICES ASSUME NEW t \in Session, context'[t] # None
                 PROVE  IssuedTo(context[t].nonce, context[t].fp)'
      BY DEF ContextLink
    <2>1. CASE context'[t] = context[t]
      <3>1. context[t] \in Context /\ IssuedTo(context[t].nonce, context[t].fp)
        BY <2>1 DEF IInv, TypeOK, ContextLink
      <3> QED BY <2>1, <3>1, <1>6 DEF IssuedTo, Context
    <2>2. CASE context'[t] = [nonce |-> n, fp |-> f]
      BY <2>2, <1>1, <1>2, <1>3, <1>5 DEF IssuedTo
    <2> QED BY <2>1, <2>2, <1>2 DEF IInv, TypeOK
  <1>9. WorkerLink'
    <2> SUFFICES ASSUME NEW w \in Worker PROVE Progress(w)'
      BY DEF WorkerLink
    <2>1. Progress(w)
      BY DEF IInv, WorkerLink
    <2>2. pc[w] # "idle" => Received(w)'
      BY <2>1, <1>2, <1>6 DEF Progress, Received, IssuedTo
    <2>3. pc[w] \notin {"idle", "resolve", "get"} => NonceChecked(w)'
      BY <2>1, <1>2, <1>6 DEF Progress, Received, NonceChecked, RecordRight, IssuedTo, Request
    <2>4. /\ KeyChosen(w) => KeyChosen(w)'
          /\ Proven(w) => Proven(w)'
          /\ Loaded(w) => Loaded(w)'
      BY <1>2 DEF KeyChosen, Proven, Loaded
    <2> QED BY <1>2, <2>1, <2>2, <2>3, <2>4 DEF Progress
  <1>10. StageProvenance'
    <2> SUFFICES ASSUME NEW l \in logins
                 PROVE  /\ issued'[l.sig.over] = issued[l.sig.over]
                        /\ issued'[l.nonce] = issued[l.nonce]
      BY <1>2 DEF IInv, StageProvenance
    <2>1. l \in Login
      BY DEF IInv, TypeOK
    <2>2. l.nonce \in Nonce /\ l.sig.over \in Nonce
      BY <2>1 DEF Login, Signature
    <2> QED BY <2>2, <1>6 DEF IInv, StageProvenance
  <1>11. RegistryLink'
    <2>1. ASSUME NEW f2 \in Fingerprint, registry[f2] # None
          PROVE  issued'[registry[f2].proof.over] = issued[registry[f2].proof.over]
      <3>1. registry[f2].proof.over \in Nonce
        BY <2>1 DEF IInv, TypeOK, KeyRow, Signature
      <3> QED BY <2>1, <3>1, <1>6 DEF IInv, RegistryLink, RegistryProven
    <2>2. RegistryProven'
      BY <1>2, <2>1 DEF IInv, RegistryLink, RegistryProven
    <2> QED BY <1>2, <2>2 DEF IInv, RegistryLink, ApprovalLink, LinkLink
  <1> QED BY <1>4, <1>7, <1>8, <1>9, <1>10, <1>11 DEF IInv

\* Everything but the workers' own state.
Shared == TypeOK /\ CacheLink /\ ContextLink /\ RegistryLink /\ StageProvenance

\* A step that does not issue, and keeps the shared state right.
LEMMA SharedUnchanged ==
  ASSUME IInv, TypeOK', UNCHANGED <<cache, registry, context, logins, issued, approvals, links>>
  PROVE  Shared'
  BY DEF IInv, Shared, CacheLink, RecordRight, IssuedTo, ContextLink, RegistryLink,
         RegistryProven, ApprovalLink, LinkLink, StageProvenance

\* A request that ends leaves a worker idle, which claims nothing.
LEMMA FinishLink ==
  ASSUME IInv, NEW w \in Worker, Finish(w), issued' = issued, links' = links
  PROVE  WorkerLink'
  <1>1. pc'[w] = "idle"
    BY DEF Finish, Goto, IInv, TypeOK
  <1>2. \A v \in Worker : v # w =>
            /\ pc'[v] = pc[v] /\ req'[v] = req[v] /\ key'[v] = key[v]
            /\ over'[v] = over[v] /\ rec'[v] = rec[v] /\ user'[v] = user[v]
    BY DEF Finish, Goto, IInv, TypeOK
  <1>3. Progress(w)'
    BY <1>1 DEF Progress
  <1> QED BY <1>2, <1>3, OtherWorkers

\* The workers' variables are in their types after the step.
FinishTypes ==
    /\ pc' \in [Worker -> {"idle", "resolve", "get", "set", "exists", "create", "load",
                        "finish"}]
    /\ req' \in [Worker -> Request \cup {None}]
    /\ key' \in [Worker -> Text \cup {None}]
    /\ user' \in [Worker -> Fingerprint \cup {None}]
    /\ over' \in [Worker -> Nonce \cup {None}]
    /\ rec' \in [Worker -> [record : NonceRecord(Fingerprint), at : Nat] \cup {None}]

\* A request that ends keeps the workers' variables in their types.
LEMMA FinishTyped ==
  ASSUME TypeOK, NEW w \in Worker, Finish(w)
  PROVE  FinishTypes
  BY DEF Finish, Goto, TypeOK, FinishTypes

\* A worker that only moves its program counter keeps what it knew.
LEMMA MovePreserves ==
  ASSUME IInv, NEW w \in Worker, NEW l \in {"create", "load"},
         pc[w] \in {"exists", "create"},
         Goto(w, l), UNCHANGED local, issued' = issued, links' = links
  PROVE  WorkerLink'
  <1>1. /\ pc'[w] = l
        /\ \A v \in Worker : v # w => pc'[v] = pc[v]
        /\ UNCHANGED <<req, key, over, rec, user>>
    BY DEF Goto, IInv, TypeOK, local
  <1>2. Received(w) /\ KeyChosen(w) /\ NonceChecked(w) /\ Proven(w)
    BY DEF IInv, WorkerLink, Progress
  <1>3. Received(w)' /\ KeyChosen(w)' /\ NonceChecked(w)' /\ Proven(w)'
    BY <1>1, <1>2 DEF Received, KeyChosen, NonceChecked, Proven, RecordRight, IssuedTo
  <1>4. Progress(w)'
    BY <1>1, <1>3 DEF Progress
  <1> QED BY <1>1, <1>4, OtherWorkers

\* A signed response arrives: the challenge it is checked against, the stashed
\* one or the one rebuilt from the nonce record, was issued to its fingerprint.
LEMMA ReceivePreserves ==
  ASSUME IInv, NEW w \in Worker, NEW r \in Request, Receive(w, r)
  PROVE  IInv'
  <1> USE StageAssumption
  <1>1. PICK c : c = ChallengeContext(r)
    OBVIOUS
  <1>3. /\ c # None /\ c.fp = r.fp
        /\ pc' = [pc EXCEPT ![w] = "resolve"]
        /\ req' = [req EXCEPT ![w] = r]
        /\ over' = [over EXCEPT ![w] = c.nonce]
        /\ UNCHANGED <<now, cache, registry, context, key, rec, user, logins, issued,
                       consumed, approvals, links>>
    BY <1>1 DEF Receive, Goto, history
  <1>4. r.nonce \in Nonce /\ r.fp \in Fingerprint /\ r.session \in Session
    BY DEF Request
  <1>6. c.nonce \in Nonce /\ IssuedTo(c.nonce, r.fp)
    <2>1. CASE context[r.session] # None
      BY <2>1, <1>1, <1>3, <1>4 DEF ChallengeContext, IInv, TypeOK, ContextLink, Context
    <2>2. CASE context[r.session] = None
      <3>1. PICK record : record = peek(cache, r.nonce, now)
        OBVIOUS
      <3>2. record # None /\ c = [nonce |-> r.nonce, fp |-> record.fingerprint]
        BY <2>2, <3>1, <1>1, <1>3 DEF ChallengeContext
      <3>3. record = cache[r.nonce] /\ cache[r.nonce] # None
        BY <3>1, <3>2 DEF peek
      <3> QED BY <3>2, <3>3, <1>3, <1>4 DEF IInv, CacheLink, RecordRight, IssuedTo
    <2> QED BY <2>1, <2>2
  <1>7. TypeOK'
    BY <1>3, <1>4, <1>6 DEF IInv, TypeOK
  <1>8. Shared'
    BY <1>3, <1>7, SharedUnchanged
  <1>9. /\ pc'[w] = "resolve" /\ req'[w] = r /\ over'[w] = c.nonce
        /\ \A v \in Worker : v # w =>
            /\ pc'[v] = pc[v] /\ req'[v] = req[v] /\ key'[v] = key[v]
            /\ over'[v] = over[v] /\ rec'[v] = rec[v] /\ user'[v] = user[v]
    BY <1>3 DEF IInv, TypeOK
  <1>10. Received(w)'
    BY <1>3, <1>6, <1>9 DEF Received, IssuedTo
  <1>11. Progress(w)'
    BY <1>9, <1>10 DEF Progress
  <1>12. WorkerLink'
    BY <1>3, <1>9, <1>11, OtherWorkers
  <1> QED BY <1>8, <1>12 DEF IInv, Shared

\* A text of keys is chosen: one that passes for the fingerprint's.
LEMMA ResolvePreserves ==
  ASSUME IInv, NEW w \in Worker, Resolve(w)
  PROVE  IInv'
  <1> USE StageAssumption
  <1>1. PICK k : k = ResolvedKey(req[w])
    OBVIOUS
  <1>2. UNCHANGED <<now, cache, registry, context, logins, issued, consumed, approvals, links>>
    BY DEF Resolve, history
  <1>3. Received(w)
    BY DEF Resolve, IInv, WorkerLink, Progress
  <1>4. req[w].fp \in Fingerprint /\ req[w].key \in Text \cup {None}
    BY <1>3 DEF Received, Request
  <1>5. CASE k # None /\ matches(k, req[w].fp)
    <2>1. /\ pc' = [pc EXCEPT ![w] = "get"]
          /\ key' = [key EXCEPT ![w] = k]
          /\ UNCHANGED <<req, over, rec, user>>
      BY <1>1, <1>5 DEF Resolve, Goto
    <2>2. k \in Text
      BY <1>1, <1>4, <1>5 DEF ResolvedKey, IInv, TypeOK, KeyRow
    <2>3. TypeOK'
      BY <1>2, <2>1, <2>2 DEF IInv, TypeOK
    <2>4. Shared'
      BY <1>2, <2>3, SharedUnchanged
    <2>5. /\ pc'[w] = "get" /\ key'[w] = k
          /\ \A v \in Worker : v # w => pc'[v] = pc[v] /\ key'[v] = key[v]
      BY <2>1 DEF IInv, TypeOK
    <2>6. Received(w)' /\ KeyChosen(w)'
      BY <1>2, <1>3, <1>5, <2>1, <2>2, <2>5 DEF Received, KeyChosen, IssuedTo
    <2>7. Progress(w)'
      BY <2>5, <2>6 DEF Progress
    <2>8. WorkerLink'
      BY <1>2, <2>1, <2>5, <2>7, OtherWorkers
    <2> QED BY <2>4, <2>8 DEF IInv, Shared
  <1>6. CASE ~(k # None /\ matches(k, req[w].fp))
    <2>1. Finish(w)
      BY <1>1, <1>6 DEF Resolve
    <2>2. FinishTypes
      BY <2>1, FinishTyped DEF IInv
    <2>3. TypeOK'
      BY <1>2, <2>2 DEF IInv, TypeOK, FinishTypes
    <2> QED BY <1>2, <2>1, <2>3, SharedUnchanged, FinishLink DEF IInv, Shared
  <1> QED BY <1>5, <1>6

\* consume() reads a record that lives: the one issued to the fingerprint.
LEMMA ConsumeGetPreserves ==
  ASSUME IInv, NEW w \in Worker, ConsumeGet(w)
  PROVE  IInv'
  <1> USE StageAssumption
  <1>1. PICK record : record = peek(cache, req[w].nonce, now)
    OBVIOUS
  <1>2. UNCHANGED <<now, cache, registry, context, logins, issued, consumed, approvals, links>>
    BY DEF ConsumeGet, history
  <1>3. Received(w) /\ KeyChosen(w)
    BY DEF ConsumeGet, IInv, WorkerLink, Progress
  <1>4. req[w].nonce \in Nonce /\ req[w].fp \in Fingerprint
    BY <1>3 DEF Received, Request
  <1>5. CASE consumeError(record, req[w].fp, now) = ""
    <2> DEFINE read == [record |-> record, at |-> now]
    <2>1. /\ pc' = [pc EXCEPT ![w] = "set"]
          /\ rec' = [rec EXCEPT ![w] = read]
          /\ UNCHANGED <<req, key, over, user>>
      BY <1>1, <1>5 DEF ConsumeGet, Goto
    <2>2. record # None /\ record.fingerprint = req[w].fp /\ ~(now > expiresAt(record))
      BY <1>5, RecordAccepted
    <2>3. record = cache[req[w].nonce]
      BY <1>1, <2>2 DEF peek
    <2>4. record \in NonceRecord(Fingerprint) /\ RecordRight(req[w].nonce, record)
      BY <1>4, <2>2, <2>3 DEF IInv, TypeOK, CacheLink
    <2>5. record.issuedAt \in Nat /\ now \in Nat
      BY <2>4 DEF NonceRecord, IInv, TypeOK
    <2>6. now <= issued[req[w].nonce].at + NONCE_TTL
      BY <2>2, <2>4, <2>5, TtlAssumption DEF RecordRight, expiresAt
    <2>7. /\ read \in [record : NonceRecord(Fingerprint), at : Nat]
          /\ read.record = record /\ read.at = now
      BY <2>4, <2>5
    <2> HIDE DEF read
    <2>8. TypeOK'
      BY <1>2, <2>1, <2>7 DEF IInv, TypeOK
    <2>9. Shared'
      BY <1>2, <2>8, SharedUnchanged
    <2>10. /\ pc'[w] = "set" /\ rec'[w] = read
           /\ \A v \in Worker : v # w => pc'[v] = pc[v] /\ rec'[v] = rec[v]
      BY <2>1 DEF IInv, TypeOK
    <2>11. Received(w)' /\ KeyChosen(w)' /\ NonceChecked(w)'
      BY <1>2, <1>3, <2>1, <2>2, <2>4, <2>6, <2>7, <2>10
         DEF Received, KeyChosen, NonceChecked, RecordRight, IssuedTo
    <2>12. Progress(w)'
      BY <2>10, <2>11 DEF Progress
    <2>13. WorkerLink'
      BY <1>2, <2>1, <2>10, <2>12, OtherWorkers
    <2> QED BY <2>9, <2>13 DEF IInv, Shared
  <1>6. CASE consumeError(record, req[w].fp, now) # ""
    <2>1. Finish(w)
      BY <1>1, <1>6 DEF ConsumeGet
    <2>2. FinishTypes
      BY <2>1, FinishTyped DEF IInv
    <2>3. TypeOK'
      BY <1>2, <2>2 DEF IInv, TypeOK, FinishTypes
    <2> QED BY <1>2, <2>1, <2>3, SharedUnchanged, FinishLink DEF IInv, Shared
  <1> QED BY <1>5, <1>6

\* consume() writes the record back, used; a worker whose signature is good has
\* a signature over the challenge by a key of the text it verifies with.
LEMMA ConsumeSetPreserves ==
  ASSUME IInv, NEW w \in Worker, ConsumeSet(w)
  PROVE  IInv'
  <1> USE StageAssumption
  <1>1. Received(w) /\ KeyChosen(w) /\ NonceChecked(w)
    BY DEF ConsumeSet, IInv, WorkerLink, Progress
  <1>2. req[w].nonce \in Nonce /\ req[w].fp \in Fingerprint /\ req[w] \in Request
    BY <1>1 DEF Received, Request
  <1>3. PICK row \in NonceRecord(Fingerprint) : row = rec[w].record
    BY <1>1 DEF NonceChecked
  <1> DEFINE used == [row EXCEPT !.used = TRUE, !.evictAt = timeoutAt(now, Grace)]
  <1>4. /\ cache' = [cache EXCEPT ![req[w].nonce] = used]
        /\ consumed' = [consumed EXCEPT ![req[w].nonce] = @ + 1]
        /\ UNCHANGED <<now, registry, context, logins, issued, approvals, links>>
    BY <1>3 DEF ConsumeSet, markUsed
  <1>5. timeoutAt(now, Grace) \in Nat
    BY GraceAssumption, DjangoAssumption DEF timeoutAt, IInv, TypeOK
  <1>6. /\ used \in NonceRecord(Fingerprint)
        /\ used.fingerprint = row.fingerprint /\ used.issuedAt = row.issuedAt
    BY <1>3, <1>5 DEF NonceRecord
  <1> HIDE DEF used
  <1>7. RecordRight(req[w].nonce, row)
    BY <1>1, <1>3 DEF NonceChecked
  <1>8. CacheLink'
    <2> SUFFICES ASSUME NEW m \in Nonce, cache'[m] # None
                 PROVE  RecordRight(m, cache[m])'
      BY DEF CacheLink
    <2>1. CASE m = req[w].nonce
      BY <2>1, <1>4, <1>6, <1>7 DEF IInv, TypeOK, RecordRight, IssuedTo
    <2>2. CASE m # req[w].nonce
      BY <2>2, <1>4 DEF IInv, TypeOK, CacheLink, RecordRight, IssuedTo
    <2> QED BY <2>1, <2>2
  <1>9. ContextLink' /\ RegistryLink' /\ StageProvenance'
    BY <1>4 DEF IInv, ContextLink, IssuedTo, RegistryLink, RegistryProven, ApprovalLink,
                LinkLink, StageProvenance
  <1>10. /\ now' \in Nat /\ cache' \in [Nonce -> NonceRecord(Fingerprint) \cup {None}]
         /\ registry' \in [Fingerprint -> KeyRow \cup {None}]
         /\ context' \in [Session -> Context \cup {None}]
         /\ logins' \subseteq Login /\ issued' \in [Nonce -> IssueRecord \cup {None}]
         /\ consumed' \in [Nonce -> Nat] /\ approvals' \subseteq Fingerprint
         /\ links' \subseteq Fingerprint \X Fingerprint
    BY <1>2, <1>4, <1>6 DEF IInv, TypeOK
  <1>11. CASE SignatureGood(w)
    <2>1. /\ pc' = [pc EXCEPT ![w] = "exists"]
          /\ UNCHANGED <<req, key, over, rec, user>>
      BY <1>11 DEF ConsumeSet, Goto, local
    <2>2. TypeOK'
      BY <1>10, <2>1 DEF IInv, TypeOK
    <2>3. Proven(w)
      <3>1. req[w].sig \in Signature
        BY <1>2, <1>11 DEF Request, SignatureGood
      <3>2. req[w].sig.over = over[w] /\ verify_signature(req[w].sig, key[w])
        BY <1>11 DEF SignatureGood
      <3>3. key[w].first \subseteq key[w].keys
        BY <1>1 DEF KeyChosen, KeyTexts
      <3>4. req[w].sig.by \in key[w].keys /\ SignedFor(req[w].fp, req[w].sig, key[w])
        BY <1>1, <3>2, <3>3
           DEF KeyChosen, verify_signature, SignedFor, matches, fingerprint_from_armor
      <3> QED BY <3>1, <3>2, <3>4 DEF Proven
    <2>4. /\ pc'[w] = "exists"
          /\ \A v \in Worker : v # w => pc'[v] = pc[v]
      BY <2>1 DEF IInv, TypeOK
    <2>5. Received(w)' /\ KeyChosen(w)' /\ NonceChecked(w)' /\ Proven(w)'
      BY <1>1, <1>4, <2>1, <2>3
         DEF Received, KeyChosen, NonceChecked, Proven, RecordRight, IssuedTo
    <2>6. Progress(w)'
      BY <2>4, <2>5 DEF Progress
    <2>7. WorkerLink'
      BY <1>4, <2>1, <2>4, <2>6, OtherWorkers
    <2> QED BY <1>8, <1>9, <2>2, <2>7 DEF IInv
  <1>12. CASE ~SignatureGood(w)
    <2>1. Finish(w)
      BY <1>12 DEF ConsumeSet
    <2>2. FinishTypes
      BY <2>1, FinishTyped DEF IInv
    <2>3. TypeOK'
      BY <1>10, <2>2 DEF TypeOK, FinishTypes
    <2> QED BY <1>4, <1>8, <1>9, <2>1, <2>3, FinishLink DEF IInv
  <1> QED BY <1>11, <1>12

\* EnrollCheck only reads the registry.
LEMMA EnrollCheckPreserves ==
  ASSUME IInv, NEW w \in Worker, EnrollCheck(w)
  PROVE  IInv'
  <1>1. UNCHANGED <<now, cache, registry, context, logins, issued, consumed, approvals, links>>
    BY DEF EnrollCheck, history
  <1>2. PICK l \in {"create", "load"} : pc[w] = "exists" /\ Goto(w, l) /\ UNCHANGED local
    BY DEF EnrollCheck
  <1>3. TypeOK'
    BY <1>1, <1>2 DEF IInv, TypeOK, Goto, local
  <1> QED BY <1>1, <1>2, <1>3, SharedUnchanged, MovePreserves DEF IInv, Shared

\* LoadRow takes the user from the row: the fingerprint, or what it is linked to.
LEMMA LoadRowPreserves ==
  ASSUME IInv, NEW w \in Worker, LoadRow(w)
  PROVE  IInv'
  <1> USE StageAssumption
  <1>1. UNCHANGED <<now, cache, registry, context, logins, issued, consumed, approvals, links>>
    BY DEF LoadRow, history
  <1>2. Received(w) /\ KeyChosen(w) /\ NonceChecked(w) /\ Proven(w)
    BY DEF LoadRow, IInv, WorkerLink, Progress
  <1>3. req[w].fp \in Fingerprint
    BY <1>2 DEF Received, Request
  <1>4. PICK u : u = effective_fingerprint(req[w].fp)
    OBVIOUS
  <1>5. CASE Finish(w)
    <2>1. FinishTypes
      BY <1>5, FinishTyped DEF IInv
    <2>2. TypeOK'
      BY <1>1, <2>1 DEF IInv, TypeOK, FinishTypes
    <2> QED BY <1>1, <1>5, <2>2, SharedUnchanged, FinishLink DEF IInv, Shared
  <1>6. CASE ~Finish(w)
    <2>1. /\ registry[req[w].fp] # None
          /\ pc' = [pc EXCEPT ![w] = "finish"]
          /\ user' = [user EXCEPT ![w] = u]
          /\ UNCHANGED <<req, key, over, rec>>
      BY <1>4, <1>6 DEF LoadRow, Goto
    <2>2. u \in Fingerprint /\ (u # req[w].fp => <<req[w].fp, u>> \in links)
      BY <1>3, <1>4, <2>1 DEF effective_fingerprint, IInv, TypeOK, KeyRow, RegistryLink, LinkLink
    <2>3. TypeOK'
      BY <1>1, <2>1, <2>2 DEF IInv, TypeOK
    <2>4. Shared'
      BY <1>1, <2>3, SharedUnchanged
    <2>5. /\ pc'[w] = "finish" /\ user'[w] = u
          /\ \A v \in Worker : v # w => pc'[v] = pc[v] /\ user'[v] = user[v]
      BY <2>1 DEF IInv, TypeOK
    <2>6. /\ Received(w)' /\ KeyChosen(w)' /\ NonceChecked(w)' /\ Proven(w)'
          /\ Loaded(w)'
      BY <1>1, <1>2, <2>1, <2>2, <2>5
         DEF Received, KeyChosen, NonceChecked, Proven, Loaded, RecordRight, IssuedTo
    <2>7. Progress(w)'
      BY <2>5, <2>6 DEF Progress
    <2>8. WorkerLink'
      BY <1>1, <2>1, <2>5, <2>7, OtherWorkers
    <2> QED BY <2>4, <2>8 DEF IInv, Shared
  <1> QED BY <1>5, <1>6

\* The row create() inserts holds the key that was proven.
LEMMA EnrollCreatePreserves ==
  ASSUME IInv, NEW w \in Worker, EnrollCreate(w)
  PROVE  IInv'
  <1> USE StageAssumption
  <1>1. UNCHANGED <<now, cache, context, logins, issued, consumed, approvals, links>>
    BY DEF EnrollCreate, history
  <1>2. pc[w] = "create" /\ Received(w) /\ KeyChosen(w) /\ Proven(w)
    BY DEF EnrollCreate, IInv, WorkerLink, Progress
  <1>3. CASE registry[req[w].fp] = None
    <2> DEFINE row == NewRow(w)
    <2>1. /\ registry' = [registry EXCEPT ![req[w].fp] = row]
          /\ Goto(w, "load") /\ UNCHANGED local
      BY <1>3 DEF EnrollCreate
    <2>2. /\ row \in KeyRow /\ row.linked_to = None /\ (row.approved => ~REQUIRE_APPROVAL)
          /\ row.key = key[w] /\ row.proof = req[w].sig
      BY <1>2 DEF NewRow, KeyRow, KeyChosen, Proven
    <2>3. req[w].fp \in Fingerprint
      BY <1>2 DEF Received, Request
    <2>8. /\ matches(row.key, req[w].fp) /\ row.proof.by \in row.key.keys
          /\ SignedFor(req[w].fp, row.proof, row.key)
          /\ IssuedTo(row.proof.over, req[w].fp)
      BY <1>2, <2>2 DEF KeyChosen, Proven, Received
    <2> HIDE DEF row
    <2>4. TypeOK'
      BY <1>1, <2>1, <2>2, <2>3 DEF IInv, TypeOK, Goto, local
    <2>9. \A f \in Fingerprint :
             registry'[f] = IF f = req[w].fp THEN row ELSE registry[f]
      BY <2>1 DEF IInv, TypeOK
    <2>10. RegistryProven'
      BY <1>1, <2>3, <2>8, <2>9 DEF IInv, RegistryLink, RegistryProven, IssuedTo
    <2>5. RegistryLink'
      BY <1>1, <2>2, <2>3, <2>9, <2>10 DEF IInv, RegistryLink, ApprovalLink, LinkLink
    <2>6. CacheLink' /\ ContextLink' /\ StageProvenance'
      BY <1>1 DEF IInv, CacheLink, RecordRight, ContextLink, IssuedTo, StageProvenance
    <2>7. WorkerLink'
      BY <1>1, <1>2, <2>1, MovePreserves
    <2> QED BY <2>4, <2>5, <2>6, <2>7 DEF IInv
  <1>4. CASE registry[req[w].fp] # None
    <2>1. Finish(w) /\ UNCHANGED registry
      BY <1>4 DEF EnrollCreate
    <2>2. FinishTypes
      BY <2>1, FinishTyped DEF IInv
    <2>3. TypeOK'
      BY <1>1, <2>1, <2>2 DEF IInv, TypeOK, FinishTypes
    <2> QED BY <1>1, <2>1, <2>3, SharedUnchanged, FinishLink DEF IInv, Shared
  <1> QED BY <1>3, <1>4

\* The stage completes: the login records what the worker established.
LEMMA StageOkPreserves ==
  ASSUME IInv, NEW w \in Worker, StageOk(w)
  PROVE  IInv'
  <1> USE StageAssumption
  <1> DEFINE l == [user |-> user[w], fp |-> req[w].fp, nonce |-> req[w].nonce,
                   text |-> key[w], sig |-> req[w].sig, checkedAt |-> rec[w].at]
  <1>1. /\ logins' = logins \cup {l}
        /\ context' = [context EXCEPT ![req[w].session] = None]
        /\ Finish(w)
        /\ UNCHANGED <<now, cache, registry, issued, consumed, approvals, links>>
    BY DEF StageOk, history
  <1>2. Received(w) /\ KeyChosen(w) /\ NonceChecked(w) /\ Proven(w) /\ Loaded(w)
    BY DEF StageOk, IInv, WorkerLink, Progress
  <1>3. req[w].fp \in Fingerprint /\ req[w].nonce \in Nonce /\ rec[w].at \in Nat
    BY <1>2 DEF Received, NonceChecked, Request
  <1>5. /\ l.sig = req[w].sig /\ l.user = user[w] /\ l.fp = req[w].fp /\ l.text = key[w]
        /\ l.nonce = req[w].nonce /\ l.checkedAt = rec[w].at
    OBVIOUS
  <1>6. l \in Login
    BY <1>2, <1>3 DEF Login, KeyChosen, Proven, Loaded
  <1> HIDE DEF l
  <1>7. FinishTypes
    BY <1>1, FinishTyped DEF IInv
  <1>8. TypeOK'
    BY <1>1, <1>6, <1>7 DEF IInv, TypeOK, FinishTypes
  <1>9. StageProvenance'
    <2>1. /\ SignedFor(l.fp, l.sig, l.text)
          /\ issued[l.sig.over] # None /\ issued[l.sig.over].to = l.fp
          /\ issued[l.nonce] # None /\ issued[l.nonce].to = l.fp
          /\ l.checkedAt <= issued[l.nonce].at + NONCE_TTL
          /\ l.user # l.fp => <<l.fp, l.user>> \in links
      BY <1>2, <1>5
         DEF Received, NonceChecked, Proven, Loaded, RecordRight, IssuedTo
    <2> QED BY <1>1, <2>1 DEF IInv, StageProvenance
  <1>10. ContextLink'
    BY <1>1 DEF IInv, TypeOK, ContextLink, IssuedTo
  <1>11. CacheLink' /\ RegistryLink'
    BY <1>1 DEF IInv, CacheLink, RecordRight, IssuedTo, RegistryLink, RegistryProven,
                ApprovalLink, LinkLink
  <1>12. WorkerLink'
    BY <1>1, FinishLink
  <1> QED BY <1>8, <1>9, <1>10, <1>11, <1>12 DEF IInv

\* What a worker established is not about the registry or the time, so the admin
\* and the clock do not disturb it.
LEMMA WorkersUndisturbed ==
  ASSUME IInv, UNCHANGED <<pc, req, key, over, rec, user, issued>>, links \subseteq links'
  PROVE  WorkerLink'
  BY StillKnown DEF WorkerLink

\* An approval and a link keep the row's proof and go on record; a removal ends both.
LEMMA AdminPreserves ==
  ASSUME IInv, NEW f \in Fingerprint, NEW g \in Fingerprint,
         Approve(f) \/ Remove(f) \/ Link(f, g)
  PROVE  IInv'
  <1> USE StageAssumption
  <1>1. /\ UNCHANGED <<now, cache, context, pc, req, key, over, rec, user, logins, issued,
                       consumed>>
        /\ links \subseteq links'
    BY DEF Approve, Remove, Link, local
  <1>2. CacheLink' /\ ContextLink' /\ StageProvenance' /\ WorkerLink'
    BY <1>1, WorkersUndisturbed
       DEF IInv, CacheLink, RecordRight, ContextLink, IssuedTo, StageProvenance
  <1>3. CASE Remove(f)
    <2>1. /\ registry' = [registry EXCEPT ![f] = None] /\ approvals' = approvals \ {f}
          /\ links' = links
      BY <1>3 DEF Remove
    <2>2. TypeOK'
      BY <1>1, <2>1 DEF IInv, TypeOK
    <2>3. RegistryLink'
      BY <1>1, <2>1 DEF IInv, TypeOK, RegistryLink, RegistryProven, ApprovalLink, LinkLink
    <2> QED BY <1>2, <2>2, <2>3 DEF IInv
  <1>4. CASE Approve(f) \/ Link(f, g)
    <2>1. PICK row \in KeyRow : row = registry[f]
      BY <1>4 DEF Approve, Link, IInv, TypeOK
    <2> DEFINE ok == [row EXCEPT !.approved = TRUE]
               ln == [row EXCEPT !.linked_to = g]
    <2>2. /\ ok \in KeyRow /\ ok.linked_to = row.linked_to /\ ok.key = row.key
          /\ ok.proof = row.proof
          /\ ln \in KeyRow /\ ln.linked_to = g /\ ln.key = row.key
          /\ ln.proof = row.proof /\ ln.approved = row.approved
      BY <2>1 DEF KeyRow
    <2>3. \/ /\ registry' = [registry EXCEPT ![f] = ok]
             /\ approvals' = approvals \cup {f} /\ links' = links
          \/ /\ registry' = [registry EXCEPT ![f] = ln]
             /\ approvals' = approvals /\ links' = links \cup {<<f, g>>}
      BY <1>4, <2>1 DEF Approve, Link
    <2> HIDE DEF ok, ln
    <2>4. PICK new \in {ok, ln} :
             /\ registry' = [registry EXCEPT ![f] = new]
             /\ new \in KeyRow /\ new.key = row.key /\ new.proof = row.proof
             /\ new.approved => f \in approvals' \/ row.approved
             /\ new.linked_to # None => <<f, new.linked_to>> \in links' \/ new.linked_to = row.linked_to
             /\ approvals \subseteq approvals' /\ approvals' \subseteq Fingerprint
             /\ links' \subseteq Fingerprint \X Fingerprint
      BY <2>2, <2>3 DEF IInv, TypeOK
    <2>5. TypeOK'
      BY <1>1, <2>4 DEF IInv, TypeOK
    <2>6. \A h \in Fingerprint : registry'[h] = IF h = f THEN new ELSE registry[h]
      BY <2>4 DEF IInv, TypeOK
    <2>7. RegistryProven'
      BY <1>1, <2>1, <2>4, <2>6 DEF IInv, RegistryLink, RegistryProven
    <2>8. ApprovalLink' /\ LinkLink'
      BY <1>1, <2>1, <2>4, <2>6 DEF IInv, RegistryLink, ApprovalLink, LinkLink
    <2> QED BY <1>2, <2>5, <2>7, <2>8 DEF IInv, RegistryLink
  <1> QED BY <1>3, <1>4

\* The clock advances: a record that was read in time was read in time.
LEMMA TickPreserves == IInv /\ Tick => IInv'
  <1> SUFFICES ASSUME IInv, Tick PROVE IInv'
    OBVIOUS
  <1>1. UNCHANGED <<cache, registry, context, pc, req, key, over, rec, user, logins, issued,
                    consumed, approvals, links>>
    BY DEF Tick, local, history
  <1>2. TypeOK'
    BY <1>1 DEF Tick, IInv, TypeOK
  <1> QED BY <1>1, <1>2, SharedUnchanged, WorkersUndisturbed DEF IInv, Shared

\* A step that changes nothing.
LEMMA StutterPreserves == IInv /\ UNCHANGED vars => IInv'
  <1> SUFFICES ASSUME IInv, UNCHANGED vars PROVE IInv'
    OBVIOUS
  <1>1. UNCHANGED <<now, cache, registry, context, pc, req, key, over, rec, user, logins,
                    issued, consumed, approvals, links>>
    BY DEF vars, local, history
  <1>2. TypeOK'
    BY <1>1 DEF IInv, TypeOK
  <1> QED BY <1>1, <1>2, SharedUnchanged, WorkersUndisturbed DEF IInv, Shared

\* Every step of every worker, browser and admin keeps the invariant.
LEMMA Invariance == IInv /\ [Next]_vars => IInv'
  <1> SUFFICES ASSUME IInv, [Next]_vars PROVE IInv'
    OBVIOUS
  <1>1. CASE \E s \in Session, n \in Nonce, f \in Fingerprint : get_challenge(s, n, f)
    BY <1>1, ChallengePreserves
  <1>2. CASE \E w \in Worker, r \in Request : Receive(w, r)
    BY <1>2, ReceivePreserves
  <1>3. CASE \E w \in Worker : Resolve(w) \/ ConsumeGet(w) \/ ConsumeSet(w)
    BY <1>3, ResolvePreserves, ConsumeGetPreserves, ConsumeSetPreserves
  <1>4. CASE \E w \in Worker : EnrollCheck(w) \/ EnrollCreate(w)
    BY <1>4, EnrollCheckPreserves, EnrollCreatePreserves
  <1>5. CASE \E w \in Worker : LoadRow(w) \/ StageOk(w)
    BY <1>5, LoadRowPreserves, StageOkPreserves
  <1>6. CASE \E f \in Fingerprint : Approve(f) \/ Remove(f)
    BY <1>6, AdminPreserves
  <1>9. CASE \E f, g \in Fingerprint : f # g /\ Link(f, g)
    BY <1>9, AdminPreserves
  <1>7. CASE Tick
    BY <1>7, TickPreserves
  <1>8. CASE UNCHANGED vars
    BY <1>8, StutterPreserves
  <1> QED BY <1>1, <1>2, <1>3, <1>4, <1>5, <1>6, <1>7, <1>8, <1>9 DEF Next

\* A worker gets past the approval check in LoadRow only, on a row it finds there.
LEMMA PassesOnRow ==
  ASSUME IInv, [Next]_vars, NEW w \in Worker, REQUIRE_APPROVAL,
         pc[w] = "load", pc'[w] = "finish"
  PROVE  req[w].fp \in approvals
  <1>1. PICK v \in Worker : LoadRow(v) /\ v = w
    <2>1. pc' # pc
      OBVIOUS
    <2>2. PICK v \in Worker : \/ \E r \in Request : Receive(v, r)
                              \/ Resolve(v) \/ ConsumeGet(v) \/ ConsumeSet(v)
                              \/ EnrollCheck(v) \/ EnrollCreate(v)
                              \/ LoadRow(v) \/ StageOk(v)
      BY <2>1 DEF Next, vars, get_challenge, Approve, Remove, Link, Tick
    <2>3. \A u \in Worker : u # v => pc'[u] = pc[u]
      BY <2>2 DEF Receive, Resolve, ConsumeGet, ConsumeSet, EnrollCheck, EnrollCreate, LoadRow, StageOk,
                  Finish, Goto, IInv, TypeOK
    <2>4. v = w
      BY <2>3
    <2>5. LoadRow(v)
      BY <2>2, <2>4 DEF Receive, Resolve, ConsumeGet, ConsumeSet, EnrollCheck, EnrollCreate,
                        StageOk, Finish, Goto, IInv, TypeOK
    <2> QED BY <2>4, <2>5
  <1>2. registry[req[w].fp] # None /\ registry[req[w].fp].approved
    BY <1>1 DEF LoadRow, Finish, Goto, IInv, TypeOK
  <1>3. req[w].fp \in Fingerprint
    BY DEF IInv, WorkerLink, Progress, Received, Request
  <1> QED BY <1>2, <1>3 DEF IInv, RegistryLink, ApprovalLink

-----------------------------------------------------------------------------
\* Every variable of the stage keeps its type, for any number of workers.
THEOREM StageTypeCorrect == Spec => []TypeOK
  <1>1. IInv => TypeOK
    BY DEF IInv
  <1> QED BY InitHolds, Invariance, <1>1, PTL DEF Spec

\* However many workers race through challenge_valid, every row of the key registry
\* was created upon a signature over a challenge issued to its fingerprint, checked
\* against the text the row keeps, and that text passes for the fingerprint's key.
THEOREM RegistryOnlyProven == Spec => []RegistryProven
  <1>1. IInv => RegistryProven
    BY DEF IInv, RegistryLink
  <1> QED BY InitHolds, Invariance, <1>1, PTL DEF Spec

\* Every login of the stage rests on a signature over a challenge issued to the
\* fingerprint that answered, by a key of a text that passed for it, and on a nonce of
\* its own that lived when consume() read it; an admin linked the user, if it differs.
THEOREM LoginProvenance == Spec => []StageProvenance
  <1>1. IInv => StageProvenance
    BY DEF IInv
  <1> QED BY InitHolds, Invariance, <1>1, PTL DEF Spec

\* With require_enrollment_approval no worker passes the approval check for a
\* fingerprint that no admin approved since its row was created.
THEOREM ApprovedOnly == Spec => PassesOnlyApproved
  <1>1. IInv /\ [Next]_vars =>
          [\A w \in Worker : REQUIRE_APPROVAL /\ pc[w] = "load" /\ pc'[w] = "finish"
                              => req[w].fp \in approvals]_vars
    BY PassesOnRow
  <1> QED BY InitHolds, Invariance, <1>1, PTL DEF Spec, PassesOnlyApproved
=============================================================================
