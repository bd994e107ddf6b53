--------------------------- MODULE DelegatedProofs ---------------------------
(***************************************************************************)
(* Proofs about delegated capabilities, for any number of decisions under    *)
(* way, credentials, principals, issuers, depths and changes of the back     *)
(* ends: a credential is used once, what is allowed was true at the moment   *)
(* of its record, and authority never grows along a granted chain.  Then     *)
(* about the decision point, for any number of processes, names, keys,       *)
(* tokens and commands: class ceilings hold, what a decision relies on was   *)
(* signed, and what a command completed lasts.                               *)
(***************************************************************************)
EXTENDS Delegated, Authority, NaturalsInduction, WellFoundedInduction, SequenceTheorems, TLAPS

-----------------------------------------------------------------------------
\* The inductive invariant.

Last(chain) == chain[Len(chain)]

\* What _validate_chain() and the signatures say of a chain apart from its not having
\* expired: nothing that happens later can undo it.
SoundLink(chain, i) ==
    LET c == creds[chain[i]] IN
    /\ c.signer = c.issuer
    /\ c.issued <= now
    /\ c.expires - c.issued <= MAX_TTL
    /\ i > 1 => c.expires <= creds[chain[i - 1]].expires
    /\ MayGrant(c)
    /\ c.depth = i - 1
    /\ i = 1 => c.parent = None
    /\ i > 1 => c.parent = chain[i - 1] /\ is_monotonic(creds[chain[i - 1]], c)
Sound(chain) == Parsed(chain) /\ \A i \in DOMAIN chain : SoundLink(chain, i)
Fresh(chain) == \A i \in DOMAIN chain : creds[chain[i]].expires > now

\* A call goes through its steps in order, on a chain that was parsed; after the first
\* look the chain is sound and the request is the leaf's.
InOrder(k) ==
    /\ Parsed(k.chain)
    /\ k.step = "reserve" => k.phase = 1
    /\ k.step = "audit" => k.phase = 2
    /\ k.step = "issue" => k.phase = 3 /\ k.child # None
    /\ k.step # "principals" => k.todo = {}
    /\ k.child # None => /\ Leaf(k.chain).depth < Leaf(k.chain).max_depth
                         /\ scope_is_monotonic(Leaf(k.chain).scope, k.child.ask.scope)
    /\ k.phase > 1 \/ k.step = "reserve" =>
          Sound(k.chain) /\ Leaf(k.chain).principal = k.principal /\ Leaf(k.chain).scope = k.scope

\* A revision that was read in the refresh before the record and is still the current
\* one vouches for what was checked with it.
Vouched(k) ==
    k.phase = 2 =>
        /\ \A id \in AssertedIds(k) \ k.todo :
              k.seen[id] \in Nat /\ k.seen[id] <= counter /\ (k.seen[id] = counter => Bound(k, id))
        /\ k.step = "audit" => /\ k.revSeen <= revCounter
                               /\ k.revSeen = revCounter => NoneRevoked(k.chain)

\* A call the last refresh is going to stop: something has changed since the refresh
\* before the record, or has expired.
Doomed(k) ==
    \/ \E id \in AssertedIds(k) :
          /\ k.before[id] \in Nat /\ k.before[id] < counter
          /\ id \in k.todo \/ k.seen[id] # k.before[id]
    \/ k.revBefore < revCounter
    \/ ~Fresh(k.chain)

\* What was not true at the record will be noticed before the answer.
Noticed(k) ==
    /\ k.phase = 3 => k.held \/ Doomed(k)
    /\ k.step = "issue" => k.held

CallOK(k) == InOrder(k) /\ Vouched(k) /\ Noticed(k)

\* A granted answer rests on a sound chain and on what was true at its record; the child
\* that was issued with it is a link of the chain in everything but the grant of its issuer.
AnswerOK(a) ==
    /\ Sound(a.chain) /\ a.held
    /\ a.child # None =>
          LET c == creds[a.child] IN
          /\ c # None
          /\ c.issued <= now /\ c.expires - c.issued <= MAX_TTL
          /\ c.expires <= Leaf(a.chain).expires
          /\ c.parent = Last(a.chain)
          /\ is_monotonic(Leaf(a.chain), c)

\* The call, the answer and the records of a decision fit together.
Fits(k, a, r) ==
    /\ k # None => a = None /\ CallOK(k) /\ r = IF k.phase = 3 THEN <<"allow">> ELSE <<>>
    /\ k = None /\ a = None => r = <<>>
    /\ a # None /\ a.allow => AnswerOK(a) /\ r = <<"allow">>

\* A decision has taken a credential from its reservation on.
Takes(k, a, c) ==
    \/ k # None /\ k.phase > 1 /\ Last(k.chain) = c
    \/ a # None /\ a.allow /\ Last(a.chain) = c

\* A call that reserved a credential after its expiry and that the refresh will stop.
Stuck(k, c) == k # None /\ k.phase = 2 /\ k.step = "principals" /\ creds[c].expires < now

TakenIsReserved ==
    \A d \in Decision, c \in Credential :
        Takes(call[d], answer[d], c) => reserved[c] = creds[c].expires \/ creds[c].expires < now
TakenOnce ==
    \A d, e \in Decision, c \in Credential :
        d # e /\ Takes(call[d], answer[d], c) /\ Takes(call[e], answer[e], c)
            => Stuck(call[d], c) \/ Stuck(call[e], c)
AllFit == \A d \in Decision : Fits(call[d], answer[d], audit[d])

Inv == TypeOK /\ AllFit /\ TakenIsReserved /\ TakenOnce

\* What every step leaves: signed credentials, and a revision for each change.
Onward ==
    /\ \A c \in Credential : creds[c] # None => creds'[c] = creds[c]
    /\ now' >= now
    /\ counter' >= counter /\ (counter' = counter => policy' = policy)
    /\ revCounter' >= revCounter /\ (revCounter' = revCounter => revoked' = revoked)

\* A step of one decision, which takes no credential that it had not taken before, and
\* goes on with none if it is stuck.
Becomes(d, k, a, r) ==
    /\ call' = [call EXCEPT ![d] = k]
    /\ answer' = [answer EXCEPT ![d] = a]
    /\ audit' = [audit EXCEPT ![d] = r]
Keeps(d, k, a) ==
    \A c \in Credential : Takes(k, a, c) => Takes(call[d], answer[d], c) /\ ~Stuck(call[d], c)
Moves(d) ==
    /\ TypeOK' /\ Onward /\ UNCHANGED reserved
    /\ \E k \in Call \cup {None}, a \in Answer \cup {None} : \E r :
          Becomes(d, k, a, r) /\ Fits(k, a, r)' /\ Keeps(d, k, a)

-----------------------------------------------------------------------------
\* Facts about the operators.

\* A presented chain is a sequence of credentials that is not empty.
LEMMA ChainIs ==
  ASSUME NEW ch \in Chain
  PROVE  /\ ch \in Seq(Credential) /\ Len(ch) \in Nat /\ Len(ch) >= 1 /\ DOMAIN ch = 1..Len(ch)
         /\ \A i \in 1..Len(ch) : ch[i] \in Credential
         /\ Last(ch) \in Credential
  <1>1. PICK n \in 1..(MAX_DELEGATION_DEPTH + 1) : ch \in [1..n -> Credential]
    BY DEF Chain
  <1>2. n \in Nat /\ n >= 1
    BY DelegatedAssumption
  <1>3. ch \in Seq(Credential)
    BY <1>1, <1>2, IsASeq, ch = [i \in 1..n |-> ch[i]]
  <1>4. Len(ch) = n
    BY <1>1, <1>2, <1>3, LenProperties
  <1> QED BY <1>1, <1>2, <1>3, <1>4 DEF Last

\* The credentials of a parsed chain have their type.
LEMMA ParsedIs ==
  ASSUME TypeOK, NEW ch \in Chain, Parsed(ch)
  PROVE  /\ \A i \in DOMAIN ch : creds[ch[i]] \in Content
         /\ Leaf(ch) = creds[Last(ch)] /\ Leaf(ch) \in Content /\ creds[Last(ch)] # None
         /\ \A i \in DOMAIN ch : creds[ch[i]].principal \in Principal
  <1>1. \A i \in DOMAIN ch : creds[ch[i]] \in Content
    BY ChainIs DEF TypeOK, Parsed
  <1>2. Len(ch) \in DOMAIN ch
    BY ChainIs
  <1>3. Leaf(ch) = creds[Last(ch)] /\ Leaf(ch) \in Content /\ creds[Last(ch)] # None
    BY <1>1, <1>2 DEF Leaf, Last, Parsed
  <1>4. \A i \in DOMAIN ch : creds[ch[i]].principal \in Principal
    BY <1>1 DEF Content
  <1> QED BY <1>1, <1>3, <1>4

\* The parsed chains stay as they are: nobody signs a digest again.
LEMMA ParsedStays ==
  ASSUME TypeOK, Onward, NEW ch \in Chain, Parsed(ch)
  PROVE  /\ \A i \in DOMAIN ch : creds'[ch[i]] = creds[ch[i]] /\ creds[ch[i]] # None
         /\ Parsed(ch)' /\ Leaf(ch)' = Leaf(ch)
  <1>1. \A i \in DOMAIN ch : creds'[ch[i]] = creds[ch[i]] /\ creds[ch[i]] # None
    BY ChainIs DEF Onward, Parsed
  <1>2. Len(ch) \in DOMAIN ch
    BY ChainIs
  <1> QED BY <1>1, <1>2 DEF Parsed, Leaf

\* A sound chain stays sound.
LEMMA SoundStays ==
  ASSUME TypeOK, TypeOK', Onward, NEW ch \in Chain, Sound(ch)
  PROVE  Sound(ch)'
  <1>1. /\ Parsed(ch) /\ Parsed(ch)'
        /\ \A i \in DOMAIN ch : creds'[ch[i]] = creds[ch[i]]
        /\ \A i \in DOMAIN ch : creds[ch[i]] \in Content
    BY ParsedStays, ParsedIs DEF Sound
  <1>2. ASSUME NEW i \in DOMAIN ch PROVE SoundLink(ch, i)'
    <2>1. SoundLink(ch, i)
      BY DEF Sound
    <2>2. creds'[ch[i]] = creds[ch[i]] /\ creds[ch[i]] \in Content
      BY <1>1
    <2>3. creds[ch[i]].issued \in Nat /\ now \in Nat /\ now' \in Nat /\ now <= now'
      BY <2>2 DEF Content, TypeOK, Onward
    <2>4. i > 1 => i - 1 \in DOMAIN ch
      BY ChainIs
    <2>5. i > 1 => creds'[ch[i - 1]] = creds[ch[i - 1]]
      BY <1>1, <2>4
    <2>6. creds[ch[i]].issued <= now'
      BY <2>1, <2>3 DEF SoundLink
    <2> QED BY <2>1, <2>2, <2>5, <2>6 DEF SoundLink, MayGrant
  <1> QED BY <1>1, <1>2 DEF Sound

\* A sound chain that has not expired passes every check, and whatever passes every check
\* is sound.
LEMMA SoundAndFresh ==
  ASSUME TypeOK, NEW ch \in Chain, Parsed(ch)
  PROVE  /\ Sound(ch) /\ Fresh(ch) => validate_chain(ch) /\ validate_chain_time(ch)
         /\ validate_chain_time(ch) => Fresh(ch)
         /\ validate_chain(ch) => validate_chain_time(ch)
         /\ validate_chain(ch) /\ (\A i \in DOMAIN ch : creds[ch[i]].signer = creds[ch[i]].issuer)
              => Sound(ch)
         /\ Sound(ch) => \A i \in DOMAIN ch : creds[ch[i]].signer = creds[ch[i]].issuer
  <1>1. Sound(ch) /\ Fresh(ch) => validate_chain_time(ch)
    BY DEF Sound, SoundLink, Fresh, validate_chain_time
  <1>2. Sound(ch) /\ Fresh(ch) => validate_chain(ch)
    BY <1>1 DEF Sound, SoundLink, validate_chain
  <1>3. validate_chain_time(ch) => Fresh(ch)
    BY DEF validate_chain_time, Fresh
  <1>4. validate_chain(ch) => validate_chain_time(ch)
    BY DEF validate_chain
  <1>5. ASSUME validate_chain(ch), \A i \in DOMAIN ch : creds[ch[i]].signer = creds[ch[i]].issuer
        PROVE  Sound(ch)
    BY <1>5 DEF Sound, SoundLink, validate_chain, validate_chain_time
  <1>6. Sound(ch) => \A i \in DOMAIN ch : creds[ch[i]].signer = creds[ch[i]].issuer
    BY DEF Sound, SoundLink
  <1> QED BY <1>1, <1>2, <1>3, <1>4, <1>5, <1>6

\* What expired stays expired.
LEMMA ExpiredStays ==
  ASSUME TypeOK, TypeOK', Onward, NEW ch \in Chain, Parsed(ch)
  PROVE  /\ ~Fresh(ch) => ~Fresh(ch)'
         /\ \A c \in Credential : creds[c] # None /\ creds[c].expires < now => creds'[c].expires < now'
  <1>1. ASSUME NEW c \in Credential, creds[c] # None
        PROVE  /\ creds'[c] = creds[c] /\ creds[c].expires \in Nat /\ now \in Nat /\ now' \in Nat
               /\ now <= now'
    BY <1>1 DEF Onward, TypeOK, Content
  <1>2. \A c \in Credential : creds[c] # None /\ creds[c].expires < now => creds'[c].expires < now'
    BY <1>1
  <1>3. ASSUME NEW i \in DOMAIN ch, ~(creds[ch[i]].expires > now)
        PROVE  ~(creds'[ch[i]].expires > now')
    <2>1. ch[i] \in Credential /\ creds[ch[i]] # None
      BY ChainIs DEF Parsed
    <2> QED BY <1>1, <1>3, <2>1
  <1> QED BY <1>2, <1>3 DEF Fresh

\* Whom a call asserts depends on its chain and its request alone.
LEMMA AssertedIs ==
  ASSUME TypeOK, NEW k \in Call, Parsed(k.chain)
  PROVE  /\ Asserted(k) \subseteq Principal /\ AssertedIds(k) \subseteq PrincipalId
         /\ \A n \in Call : n.chain = k.chain /\ n.principal = k.principal =>
               Asserted(n) = Asserted(k) /\ AssertedIds(n) = AssertedIds(k)
         /\ \A n \in Call : \A id : n.chain = k.chain /\ n.principal = k.principal =>
               (Bound(n, id) <=> Bound(k, id))
  <1>1. k.chain \in Chain /\ k.principal \in Principal
    BY DEF Call
  <1>2. Asserted(k) \subseteq Principal
    BY <1>1, ParsedIs DEF Asserted
  <1>3. AssertedIds(k) \subseteq PrincipalId
    BY <1>2 DEF AssertedIds, Principal
  <1>4. ASSUME NEW n \in Call, n.chain = k.chain, n.principal = k.principal
        PROVE  Asserted(n) = Asserted(k)
    BY <1>4 DEF Asserted
  <1>5. \A n \in Call : n.chain = k.chain /\ n.principal = k.principal =>
               AssertedIds(n) = AssertedIds(k)
    BY <1>4 DEF AssertedIds
  <1>6. \A n \in Call : \A id : n.chain = k.chain /\ n.principal = k.principal =>
               (Bound(n, id) <=> Bound(k, id))
    BY <1>4 DEF Bound
  <1> QED BY <1>2, <1>3, <1>4, <1>5, <1>6

\* ... and stays the same.
LEMMA AssertedStays ==
  ASSUME TypeOK, Onward, NEW k \in Call, Parsed(k.chain)
  PROVE  /\ Asserted(k)' = Asserted(k) /\ AssertedIds(k)' = AssertedIds(k)
         /\ policy' = policy => \A id : Bound(k, id)' <=> Bound(k, id)
  <1>1. k.chain \in Chain
    BY DEF Call
  <1>2. \A i \in DOMAIN k.chain : creds'[k.chain[i]] = creds[k.chain[i]]
    BY <1>1, ParsedStays
  <1>3. Asserted(k)' = Asserted(k)
    BY <1>2 DEF Asserted
  <1>4. AssertedIds(k)' = AssertedIds(k)
    BY <1>3 DEF AssertedIds
  <1>5. policy' = policy => \A id : Bound(k, id)' <=> Bound(k, id)
    BY <1>3 DEF Bound
  <1> QED BY <1>3, <1>4, <1>5

-----------------------------------------------------------------------------
\* A decision that does not move keeps its place, whatever the others do.

\* A call's order is not disturbed.
LEMMA OrderStays ==
  ASSUME TypeOK, TypeOK', Onward, NEW k \in Call, InOrder(k)
  PROVE  InOrder(k)'
  <1>1. k.chain \in Chain /\ Parsed(k.chain)
    BY DEF Call, InOrder
  <1>2. Parsed(k.chain)' /\ Leaf(k.chain)' = Leaf(k.chain)
    BY <1>1, ParsedStays
  <1>3. Sound(k.chain) => Sound(k.chain)'
    BY <1>1, SoundStays
  <1> QED BY <1>2, <1>3 DEF InOrder

\* A revision is either still current, and then so is what it vouches for, or old.
LEMMA VouchedStays ==
  ASSUME TypeOK, TypeOK', Onward, NEW k \in Call, InOrder(k), Vouched(k)
  PROVE  Vouched(k)'
  <1>1. k.chain \in Chain /\ Parsed(k.chain) /\ k.revSeen \in Nat
    BY DEF Call, InOrder
  <1>2. AssertedIds(k)' = AssertedIds(k) /\ (policy' = policy => \A id : Bound(k, id)' <=> Bound(k, id))
    BY <1>1, AssertedStays
  <1>3. /\ counter \in Nat /\ counter' \in Nat /\ counter <= counter'
        /\ revCounter \in Nat /\ revCounter' \in Nat /\ revCounter <= revCounter'
        /\ counter' = counter => policy' = policy
        /\ revCounter' = revCounter => revoked' = revoked
    BY DEF TypeOK, Onward
  <1>4. ASSUME k.phase = 2, NEW id \in AssertedIds(k)', id \notin k.todo
        PROVE  k.seen[id] \in Nat /\ k.seen[id] <= counter' /\ (k.seen[id] = counter' => Bound(k, id)')
    <2>1. k.seen[id] \in Nat /\ k.seen[id] <= counter /\ (k.seen[id] = counter => Bound(k, id))
      BY <1>2, <1>4 DEF Vouched
    <2> QED BY <1>2, <1>3, <2>1
  <1>5. ASSUME k.phase = 2, k.step = "audit"
        PROVE  k.revSeen <= revCounter' /\ (k.revSeen = revCounter' => NoneRevoked(k.chain)')
    <2>1. k.revSeen <= revCounter /\ (k.revSeen = revCounter => NoneRevoked(k.chain))
      BY <1>5 DEF Vouched
    <2> QED BY <1>1, <1>3, <2>1 DEF NoneRevoked
  <1> QED BY <1>4, <1>5 DEF Vouched

\* What dooms a call does not go away.
LEMMA DoomStays ==
  ASSUME TypeOK, TypeOK', Onward, NEW k \in Call, InOrder(k), Doomed(k)
  PROVE  Doomed(k)'
  <1>1. k.chain \in Chain /\ Parsed(k.chain) /\ k.revBefore \in Nat
    BY DEF Call, InOrder
  <1>2. AssertedIds(k)' = AssertedIds(k)
    BY <1>1, AssertedStays
  <1>3. /\ counter \in Nat /\ counter' \in Nat /\ counter <= counter'
        /\ revCounter \in Nat /\ revCounter' \in Nat /\ revCounter <= revCounter'
    BY DEF TypeOK, Onward
  <1>4. CASE \E id \in AssertedIds(k) :
                /\ k.before[id] \in Nat /\ k.before[id] < counter
                /\ id \in k.todo \/ k.seen[id] # k.before[id]
    BY <1>2, <1>3, <1>4 DEF Doomed
  <1>5. CASE k.revBefore < revCounter
    BY <1>1, <1>3, <1>5 DEF Doomed
  <1>6. CASE ~Fresh(k.chain)
    BY <1>1, <1>6, ExpiredStays DEF Doomed
  <1> QED BY <1>4, <1>5, <1>6 DEF Doomed

\* So a call under way keeps all its invariants.
LEMMA CallStays ==
  ASSUME TypeOK, TypeOK', Onward, NEW k \in Call, CallOK(k)
  PROVE  CallOK(k)'
  <1>1. InOrder(k) /\ Vouched(k) /\ Noticed(k)
    BY DEF CallOK
  <1>2. InOrder(k)' /\ Vouched(k)'
    BY <1>1, OrderStays, VouchedStays
  <1>3. Doomed(k) => Doomed(k)'
    BY <1>1, DoomStays
  <1>4. Noticed(k)'
    BY <1>1, <1>3 DEF Noticed
  <1> QED BY <1>2, <1>4 DEF CallOK

\* The answers that allow are the ones with a chain.
LEMMA AnswerIs ==
  ASSUME NEW a \in Answer, a.allow
  PROVE  a.chain \in Chain /\ a.child \in Credential \cup {None} /\ a.held \in BOOLEAN
  <1>1. a \notin [allow : {FALSE}]
    OBVIOUS
  <1>2. a \in [allow : {TRUE}, chain : Chain, child : Credential \cup {None}, held : BOOLEAN]
    BY <1>1 DEF Answer
  <1> QED BY <1>2

\* A granted answer keeps what it rests on.
LEMMA AnswerStays ==
  ASSUME TypeOK, TypeOK', Onward, NEW a \in Answer, a.allow, AnswerOK(a)
  PROVE  AnswerOK(a)'
  <1>1. a.chain \in Chain /\ a.child \in Credential \cup {None}
    BY AnswerIs
  <1>2. Sound(a.chain) /\ Parsed(a.chain)
    BY DEF AnswerOK, Sound
  <1>3. Sound(a.chain)' /\ Leaf(a.chain)' = Leaf(a.chain)
    BY <1>1, <1>2, SoundStays, ParsedStays
  <1>4. ASSUME a.child # None
        PROVE  /\ creds'[a.child] = creds[a.child] /\ creds[a.child] # None
               /\ creds[a.child].issued <= now'
    <2>1. a.child \in Credential /\ creds[a.child] # None /\ creds[a.child].issued <= now
      BY <1>1, <1>4 DEF AnswerOK
    <2>2. creds[a.child].issued \in Nat /\ now \in Nat /\ now' \in Nat /\ now <= now'
      BY <2>1 DEF TypeOK, Content, Onward
    <2> QED BY <2>1, <2>2 DEF Onward
  <1> QED BY <1>3, <1>4 DEF AnswerOK

\* Call, answer and records go on fitting together.
LEMMA FitStays ==
  ASSUME TypeOK, TypeOK', Onward, NEW k \in Call \cup {None}, NEW a \in Answer \cup {None}, NEW r,
         Fits(k, a, r)
  PROVE  Fits(k, a, r)'
  <1>1. ASSUME k # None PROVE CallOK(k)'
    BY <1>1, CallStays DEF Fits
  <1>2. ASSUME a # None, a.allow PROVE AnswerOK(a)'
    BY <1>2, AnswerStays DEF Fits
  <1> QED BY <1>1, <1>2 DEF Fits

\* A credential that was taken has been signed.
LEMMA TakenIsSigned ==
  ASSUME TypeOK, NEW k \in Call \cup {None}, NEW a \in Answer \cup {None}, NEW r, Fits(k, a, r),
         NEW c, Takes(k, a, c)
  PROVE  c \in Credential /\ creds[c] # None /\ creds[c].expires \in Nat
  <1>1. PICK ch \in Chain : Parsed(ch) /\ Last(ch) = c
    <2>1. CASE k # None /\ Last(k.chain) = c
      BY <2>1 DEF Fits, CallOK, InOrder, Call
    <2>2. CASE a # None /\ a.allow /\ Last(a.chain) = c
      BY <2>2, AnswerIs DEF Fits, AnswerOK, Sound
    <2> QED BY <2>1, <2>2 DEF Takes
  <1>2. c \in Credential /\ creds[c] \in Content /\ creds[c] # None
    BY <1>1, ChainIs, ParsedIs
  <1> QED BY <1>2 DEF Content

-----------------------------------------------------------------------------
\* The steps of a decision.

\* A decision that becomes something that fits has moved.
LEMMA Moved ==
  ASSUME Inv, NEW d \in Decision, NEW k \in Call \cup {None}, NEW a \in Answer \cup {None},
         NEW r \in Seq({"allow", "deny"}), Becomes(d, k, a, r), Fits(k, a, r), Keeps(d, k, a),
         UNCHANGED <<now, creds, backends, reserved>>
  PROVE  Moves(d)
  <1>1. TypeOK /\ UNCHANGED <<policy, counter, revoked, revCounter>>
    BY DEF Inv, backends
  <1>2. TypeOK'
    BY <1>1 DEF TypeOK, Becomes
  <1>3. Onward
    BY <1>1 DEF Onward, TypeOK
  <1>4. Fits(k, a, r)'
    BY <1>1, <1>2, <1>3, FitStays
  <1> QED BY <1>2, <1>3, <1>4 DEF Moves

\* A denial fits whatever was recorded.
LEMMA Denied ==
  ASSUME NEW r
  PROVE  LET a == [allow |-> FALSE]
         IN  /\ a \in Answer \cup {None} /\ Fits(None, a, r)
             /\ \A d \in Decision : Keeps(d, None, a)
  <1> DEFINE a == [allow |-> FALSE]
  <1>1. a \in Answer /\ ~a.allow
    BY DEF Answer
  <1>2. a # None
    BY <1>1, DelegatedAssumption
  <1> HIDE DEF a
  <1>3. Fits(None, a, r) /\ \A d \in Decision : Keeps(d, None, a)
    BY <1>1, <1>2 DEF Fits, Keeps, Takes
  <1> QED BY <1>1, <1>3 DEF a

\* _deny().
LEMMA DenyMoves ==
  ASSUME Inv, NEW d \in Decision, Deny(d), UNCHANGED <<now, creds, backends, reserved>>
  PROVE  Moves(d)
  <1> DEFINE r == Append(audit[d], "deny")
  <1>1. r \in Seq({"allow", "deny"})
    BY DEF Inv, TypeOK
  <1>2. Becomes(d, None, [allow |-> FALSE], r)
    BY DEF Deny, Becomes, Inv, TypeOK
  <1> HIDE DEF r
  <1> QED BY <1>1, <1>2, Denied, Moved

\* AUDIT_UNAVAILABLE.
LEMMA UnavailableMoves ==
  ASSUME Inv, NEW d \in Decision, AuditUnavailable(d)
  PROVE  Moves(d)
  <1>1. audit[d] \in Seq({"allow", "deny"})
    BY DEF Inv, TypeOK
  <1>2. Becomes(d, None, [allow |-> FALSE], audit[d])
    BY DEF AuditUnavailable, Becomes, Inv, TypeOK
  <1>3. UNCHANGED <<now, creds, backends, reserved>>
    BY DEF AuditUnavailable
  <1> QED BY <1>1, <1>2, <1>3, Denied, Moved

\* A call fits with the record of its phase.
LEMMA UnderWay ==
  ASSUME NEW k \in Call, CallOK(k), NEW r, r = IF k.phase = 3 THEN <<"allow">> ELSE <<>>
  PROVE  Fits(k, None, r)
  <1>1. k # None
    BY DelegatedAssumption
  <1> QED BY <1>1 DEF Fits

\* A decision that has not begun has no record.
LEMMA StartMoves ==
  ASSUME Inv, NEW d \in Decision, NEW ch \in Chain, NEW p \in Principal, NEW s \in Scope,
         NEW child \in Child \cup {None}, Start(d, ch, p, s, child),
         child # None => /\ Leaf(ch).depth < Leaf(ch).max_depth
                         /\ scope_is_monotonic(Leaf(ch).scope, child.ask.scope)
  PROVE  Moves(d)
  <1> DEFINE z == [chain |-> ch, principal |-> p, scope |-> s, child |-> child,
                   phase |-> 1, step |-> "principals", todo |-> {},
                   seen |-> NoRevisions, before |-> NoRevisions,
                   revSeen |-> 0, revBefore |-> 0, held |-> FALSE]
             k == [z EXCEPT !.todo = AssertedIds(z)]
  <1>1. TypeOK /\ Parsed(ch)
    BY DEF Inv, Start
  <1>2. NoRevisions \in Revisions
    BY DEF NoRevisions, Revisions
  <1>3. z \in Call /\ z.chain = ch /\ z.child = child /\ z.phase = 1 /\ z.step = "principals"
    BY <1>2 DEF Call
  <1>6. call' = [call EXCEPT ![d] = k]
    BY DEF Start
  <1> HIDE DEF z
  <1>4. AssertedIds(z) \subseteq PrincipalId
    BY <1>1, <1>3, AssertedIs
  <1>5. /\ k \in Call /\ k.chain = ch /\ k.child = child /\ k.phase = 1 /\ k.step = "principals"
    BY <1>3, <1>4 DEF Call
  <1>7. call[d] = None /\ answer[d] = None /\ UNCHANGED <<now, creds, backends, reserved, audit, answer>>
    BY DEF Start
  <1> HIDE DEF k
  <1>8. audit[d] = <<>> /\ audit[d] \in Seq({"allow", "deny"})
    BY <1>1, <1>7 DEF Inv, AllFit, Fits, TypeOK
  <1>9. Becomes(d, k, None, audit[d])
    BY <1>1, <1>6, <1>7 DEF Becomes, TypeOK
  <1>10. CallOK(k)
    BY <1>1, <1>5 DEF CallOK, InOrder, Vouched, Noticed
  <1>11. Fits(k, None, audit[d]) /\ Keeps(d, k, None)
    BY <1>5, <1>8, <1>10 DEF Fits, Keeps, Takes
  <1> QED BY <1>5, <1>7, <1>8, <1>9, <1>11, Moved

\* What the invariant says of a call under way.
LEMMA CallIs ==
  ASSUME Inv, NEW d \in Decision, call[d] # None
  PROVE  /\ call[d] \in Call /\ CallOK(call[d]) /\ answer[d] = None
         /\ audit[d] = IF call[d].phase = 3 THEN <<"allow">> ELSE <<>>
         /\ call[d].chain \in Chain /\ Parsed(call[d].chain)
         /\ audit[d] \in Seq({"allow", "deny"})
  <1>1. call[d] \in Call /\ audit[d] \in Seq({"allow", "deny"})
    BY DEF Inv, TypeOK
  <1>2. CallOK(call[d]) /\ answer[d] = None /\ audit[d] = IF call[d].phase = 3 THEN <<"allow">> ELSE <<>>
    BY DEF Inv, AllFit, Fits
  <1> QED BY <1>1, <1>2 DEF Call, CallOK, InOrder

\* One snapshot of _validate_principals(): the revision it notes vouches for the binding
\* it has just checked, and no stuck call gets past it.
LEMMA ReadPrincipalMoves ==
  ASSUME Inv, NEW d \in Decision, ReadPrincipal(d)
  PROVE  Moves(d)
  <1> DEFINE o == call[d]
             id == NextId(o)
             rest == o.todo \ {id}
             w == [o.seen EXCEPT ![id] = counter]
             st == IF rest = {} THEN "revocation" ELSE "principals"
             k == [o EXCEPT !.todo = rest, !.step = st, !.seen = w]
  <1>1. o # None /\ o.step = "principals" /\ UNCHANGED <<now, creds, backends, reserved>>
    BY DEF ReadPrincipal
  <1>2. TypeOK /\ counter \in Nat
    BY DEF Inv, TypeOK
  <1>3. /\ o \in Call /\ CallOK(o) /\ answer[d] = None /\ o.chain \in Chain /\ Parsed(o.chain)
        /\ audit[d] = IF o.phase = 3 THEN <<"allow">> ELSE <<>>
        /\ audit[d] \in Seq({"allow", "deny"})
    BY <1>1, CallIs
  <1>4. CASE Deny(d)
    BY <1>1, <1>4, DenyMoves
  <1>5. CASE /\ Bound(o, id) /\ (o.phase > 1 => validate_chain(o.chain))
             /\ call' = [call EXCEPT ![d].todo = rest, ![d].step = st, ![d].seen[id] = counter]
             /\ UNCHANGED <<audit, answer>>
    <2>1. call' = [call EXCEPT ![d] = k]
      BY <1>2, <1>5, ZenonT(40) DEF TypeOK
    <2> HIDE DEF id
    <2>2. /\ w \in Revisions
          /\ \A x \in PrincipalId : w[x] = IF x = id THEN counter ELSE o.seen[x]
      BY <1>2, <1>3 DEF Call, Revisions
    <2> HIDE DEF w
    <2>3. /\ k \in Call /\ k.todo = rest /\ k.step = st /\ k.seen = w /\ k.chain = o.chain
          /\ k.principal = o.principal /\ k.scope = o.scope /\ k.child = o.child /\ k.phase = o.phase
          /\ k.before = o.before /\ k.revSeen = o.revSeen /\ k.revBefore = o.revBefore /\ k.held = o.held
      BY <1>3, <2>2 DEF Call
    <2> HIDE DEF k, o
    <2>4. InOrder(k)
      BY <1>3, <1>1, <2>3 DEF CallOK, InOrder
    <2>5. /\ AssertedIds(k) = AssertedIds(o) /\ AssertedIds(k) \subseteq PrincipalId
          /\ \A x : Bound(k, x) <=> Bound(o, x)
      BY <1>2, <1>3, <2>3, AssertedIs
    <2>6. Vouched(k)
      <3>1. ASSUME k.phase = 2, NEW x \in AssertedIds(k), x \notin k.todo
            PROVE  k.seen[x] \in Nat /\ k.seen[x] <= counter /\ (k.seen[x] = counter => Bound(k, x))
        <4>1. CASE x = id
          <5>1. k.seen[x] = counter
            BY <2>2, <2>3, <2>5, <3>1, <4>1
          <5>2. Bound(k, x)
            BY <1>5, <2>5, <4>1
          <5> QED BY <1>2, <5>1, <5>2
        <4>2. CASE x # id
          <5>1. x \in AssertedIds(o) \ o.todo /\ k.seen[x] = o.seen[x]
            BY <2>2, <2>3, <2>5, <3>1, <4>2
          <5> QED BY <1>3, <2>3, <2>5, <3>1, <5>1 DEF CallOK, Vouched
        <4> QED BY <4>1, <4>2
      <3>2. k.step # "audit"
        BY <2>3
      <3> QED BY <3>1, <3>2 DEF Vouched
    <2>7. Noticed(k)
      <3>1. ASSUME k.phase = 3, ~k.held PROVE Doomed(k)
        <4>1. Doomed(o)
          BY <1>3, <2>3, <3>1 DEF CallOK, Noticed
        <4>2. CASE \E x \in AssertedIds(o) :
                      /\ o.before[x] \in Nat /\ o.before[x] < counter
                      /\ x \in o.todo \/ o.seen[x] # o.before[x]
          <5>1. PICK x \in AssertedIds(o) : /\ o.before[x] \in Nat /\ o.before[x] < counter
                                            /\ x \in o.todo \/ o.seen[x] # o.before[x]
            BY <4>2
          <5>2. x \in k.todo \/ k.seen[x] # k.before[x]
            BY <1>2, <2>2, <2>3, <2>5, <5>1
          <5> QED BY <2>3, <2>5, <5>1, <5>2 DEF Doomed
        <4>3. CASE o.revBefore < revCounter \/ ~Fresh(o.chain)
          BY <2>3, <4>3 DEF Doomed
        <4> QED BY <4>1, <4>2, <4>3 DEF Doomed
      <3> QED BY <2>3, <3>1 DEF Noticed
    <2>8. Fits(k, None, audit[d])
      <3>1. CallOK(k)
        BY <2>4, <2>6, <2>7 DEF CallOK
      <3> QED BY <1>3, <2>3, <3>1, UnderWay
    <2>9. Keeps(d, k, None)
      <3>1. ASSUME NEW c \in Credential, Takes(k, None, c)
            PROVE  Takes(call[d], answer[d], c) /\ ~Stuck(call[d], c)
        <4>1. k.phase > 1 /\ Last(k.chain) = c
          BY <3>1 DEF Takes
        <4>2. Takes(o, answer[d], c)
          BY <1>1, <2>3, <4>1 DEF Takes
        <4>3. Fresh(o.chain) /\ Len(o.chain) \in DOMAIN o.chain
          <5>1. validate_chain(o.chain)
            BY <1>5, <2>3, <4>1
          <5>2. Fresh(o.chain)
            BY <1>2, <1>3, <5>1, SoundAndFresh
          <5> QED BY <1>3, <5>2, ChainIs
        <4>4. creds[c].expires > now
          BY <2>3, <4>1, <4>3 DEF Fresh, Last
        <4>5. creds[c].expires \in Nat /\ now \in Nat
          BY <1>2, <1>3, <2>3, <4>1, ParsedIs DEF Content, TypeOK
        <4> QED BY <4>2, <4>4, <4>5 DEF Stuck, o
      <3> QED BY <3>1 DEF Keeps
    <2>10. Becomes(d, k, None, audit[d])
      BY <1>2, <1>3, <1>5, <2>1 DEF Becomes, TypeOK
    <2> QED BY <1>1, <1>3, <2>3, <2>8, <2>9, <2>10, Moved
  <1> QED BY <1>4, <1>5 DEF ReadPrincipal

\* A call that is past its record, and whose chain is still what it was, takes nothing new
\* when it is answered.
LEMMA AllowKeeps ==
  ASSUME Inv, NEW d \in Decision, call[d] # None, call[d].phase = 3,
         NEW x \in Credential \cup {None}, NEW a,
         a = [allow |-> TRUE, chain |-> call[d].chain, child |-> x, held |-> call[d].held]
  PROVE  /\ a \in Answer /\ a # None /\ a.allow /\ a.chain = call[d].chain /\ a.child = x
         /\ a.held = call[d].held
         /\ Keeps(d, None, a)
  <1>1. call[d] \in Call /\ answer[d] = None
    BY CallIs
  <1>2. /\ a \in Answer /\ a.allow /\ a.chain = call[d].chain /\ a.child = x /\ a.held = call[d].held
    BY <1>1 DEF Answer, Call
  <1>3. a # None
    BY <1>2, DelegatedAssumption
  <1>4. Keeps(d, None, a)
    BY <1>1, <1>2 DEF Keeps, Takes, Stuck
  <1> QED BY <1>2, <1>3, <1>4

\* The revocation snapshot: at the last look nothing that was not true at the record gets
\* past the comparison of the revisions.
LEMMA ReadRevocationMoves ==
  ASSUME Inv, NEW d \in Decision, ReadRevocation(d)
  PROVE  Moves(d)
  <1> DEFINE o == call[d]
             st == <<"reserve", "audit", "issue">>[o.phase]
             k == [o EXCEPT !.step = st, !.revSeen = revCounter]
             a == [allow |-> TRUE, chain |-> o.chain, child |-> None, held |-> o.held]
  <1>1. o # None /\ o.step = "revocation" /\ UNCHANGED <<now, creds, backends, reserved>>
    BY DEF ReadRevocation
  <1>2. TypeOK /\ revCounter \in Nat
    BY DEF Inv, TypeOK
  <1>3. /\ o \in Call /\ CallOK(o) /\ answer[d] = None /\ o.chain \in Chain /\ Parsed(o.chain)
        /\ audit[d] = IF o.phase = 3 THEN <<"allow">> ELSE <<>>
        /\ audit[d] \in Seq({"allow", "deny"})
    BY <1>1, CallIs
  <1>4. CASE Deny(d)
    BY <1>1, <1>4, DenyMoves
  <1>5. ASSUME o.phase = 3, validate_chain_time(o.chain), UnchangedSinceRefresh(o)
        PROVE  o.held
    <2>1. o.todo = {} /\ (o.held \/ Doomed(o))
      BY <1>1, <1>3, <1>5 DEF CallOK, InOrder, Noticed
    <2>2. Fresh(o.chain) /\ o.seen = o.before /\ revCounter = o.revBefore
      BY <1>2, <1>3, <1>5, SoundAndFresh DEF UnchangedSinceRefresh
    <2> QED BY <1>2, <2>1, <2>2 DEF Doomed
  <1>6. CASE /\ NoneRevoked(o.chain)
             /\ o.phase = 3 /\ validate_chain_time(o.chain) /\ UnchangedSinceRefresh(o) /\ o.child = None
             /\ Allow(d, None) /\ UNCHANGED audit
    <2>1. Becomes(d, None, a, audit[d])
      BY <1>2, <1>6 DEF Becomes, Allow, TypeOK
    <2>2. /\ a \in Answer /\ a # None /\ a.allow /\ a.chain = o.chain /\ a.child = None
          /\ a.held = o.held /\ Keeps(d, None, a)
      BY <1>1, <1>6, AllowKeeps
    <2> HIDE DEF a
    <2>3. AnswerOK(a)
      BY <1>3, <1>5, <1>6, <2>2 DEF AnswerOK, CallOK, InOrder
    <2>4. Fits(None, a, audit[d])
      BY <1>3, <1>6, <2>2, <2>3 DEF Fits
    <2> QED BY <1>1, <1>3, <2>1, <2>2, <2>4, Moved
  <1>7. CASE /\ NoneRevoked(o.chain)
             /\ o.phase = 1 => validate_chain(o.chain) /\ VerifiedForRequest(o)
             /\ o.phase = 3 => validate_chain_time(o.chain) /\ UnchangedSinceRefresh(o) /\ o.child # None
             /\ call' = [call EXCEPT ![d].step = st, ![d].revSeen = revCounter]
             /\ UNCHANGED <<audit, answer>>
    <2>1. call' = [call EXCEPT ![d] = k]
      BY <1>2, <1>7 DEF TypeOK
    <2>2. /\ o.phase \in 1..3
          /\ o.phase = 1 => st = "reserve"
          /\ o.phase = 2 => st = "audit"
          /\ o.phase = 3 => st = "issue"
          /\ st \in {"reserve", "audit", "issue"}
      <3>1. o.phase \in 1..3
        BY <1>3 DEF Call
      <3>2. o.phase = 1 \/ o.phase = 2 \/ o.phase = 3
        BY <3>1
      <3> QED BY <3>1, <3>2
    <2> HIDE DEF st
    <2>3. /\ k \in Call /\ k.step = st /\ k.todo = o.todo /\ k.seen = o.seen /\ k.chain = o.chain
          /\ k.principal = o.principal /\ k.scope = o.scope /\ k.child = o.child /\ k.phase = o.phase
          /\ k.before = o.before /\ k.revSeen = revCounter /\ k.revBefore = o.revBefore /\ k.held = o.held
      BY <1>2, <1>3, <2>2 DEF Call
    <2> HIDE DEF k, o
    <2>4. InOrder(k)
      <3>1. o.phase = 1 => Sound(o.chain) /\ Leaf(o.chain).principal = o.principal /\ Leaf(o.chain).scope = o.scope
        BY <1>2, <1>3, <1>7, SoundAndFresh DEF VerifiedForRequest
      <3>2. k.todo = {} /\ (o.child # None => /\ Leaf(o.chain).depth < Leaf(o.chain).max_depth
                                              /\ scope_is_monotonic(Leaf(o.chain).scope, o.child.ask.scope))
        BY <1>1, <1>3, <2>3 DEF CallOK, InOrder
      <3>3. o.phase > 1 => Sound(o.chain) /\ Leaf(o.chain).principal = o.principal /\ Leaf(o.chain).scope = o.scope
        BY <1>3 DEF CallOK, InOrder
      <3>4. Sound(k.chain) /\ Leaf(k.chain).principal = k.principal /\ Leaf(k.chain).scope = k.scope
        BY <2>2, <2>3, <3>1, <3>3
      <3> QED BY <1>3, <1>7, <2>2, <2>3, <3>2, <3>4 DEF InOrder
    <2>5. /\ AssertedIds(k) = AssertedIds(o) /\ \A x : Bound(k, x) <=> Bound(o, x)
      BY <1>2, <1>3, <2>3, AssertedIs
    <2>6. Vouched(k)
      BY <1>2, <1>3, <1>7, <2>3, <2>5 DEF CallOK, Vouched
    <2>7. Noticed(k)
      BY <1>5, <1>7, <2>2, <2>3 DEF Noticed
    <2>8. Fits(k, None, audit[d])
      <3>1. CallOK(k)
        BY <2>4, <2>6, <2>7 DEF CallOK
      <3> QED BY <1>3, <2>3, <3>1, UnderWay
    <2>9. Keeps(d, k, None)
      BY <1>1, <2>3 DEF Keeps, Takes, Stuck, o
    <2>10. Becomes(d, k, None, audit[d])
      BY <1>2, <1>3, <1>7, <2>1 DEF Becomes, TypeOK
    <2> QED BY <1>1, <1>3, <2>3, <2>8, <2>9, <2>10, Moved
  <1> QED BY <1>4, <1>6, <1>7 DEF ReadRevocation

\* The record of the decision: what is not true at this moment has changed since it was
\* read, and so the revisions will differ.
LEMMA RecordAllowMoves ==
  ASSUME Inv, NEW d \in Decision, RecordAllow(d)
  PROVE  Moves(d)
  <1> DEFINE o == call[d]
             h == Holds(o)
             t == AssertedIds(o)
             k == [o EXCEPT !.step = "principals", !.phase = 3, !.todo = t, !.seen = NoRevisions,
                            !.before = o.seen, !.revBefore = o.revSeen, !.held = h]
             r == Append(audit[d], "allow")
  <1>1. o # None /\ o.step = "audit" /\ UNCHANGED <<now, creds, backends, reserved, answer>>
    BY DEF RecordAllow
  <1>2. TypeOK /\ revCounter \in Nat /\ counter \in Nat
    BY DEF Inv, TypeOK
  <1>3. /\ o \in Call /\ CallOK(o) /\ answer[d] = None /\ o.chain \in Chain /\ Parsed(o.chain)
        /\ audit[d] = IF o.phase = 3 THEN <<"allow">> ELSE <<>>
    BY <1>1, CallIs
  <1>4. o.phase = 2 /\ o.todo = {} /\ Sound(o.chain) /\ Leaf(o.chain).principal = o.principal
        /\ Leaf(o.chain).scope = o.scope
    BY <1>1, <1>3 DEF CallOK, InOrder
  <1>5. r = <<"allow">> /\ r \in Seq({"allow", "deny"})
    BY <1>3, <1>4
  <1>6. call' = [call EXCEPT ![d] = k] /\ audit' = [audit EXCEPT ![d] = r]
    BY <1>2 DEF RecordAllow, TypeOK
  <1>7. t \subseteq PrincipalId /\ NoRevisions \in Revisions
    <2>2. t \subseteq PrincipalId
      BY <1>2, <1>3, AssertedIs
    <2> QED BY <2>2 DEF NoRevisions, Revisions
  <1>17. h \in BOOLEAN
    BY Zenon DEF Holds
  <1>8. h \/ \/ \E id \in t : o.seen[id] \in Nat /\ o.seen[id] < counter
             \/ o.revSeen < revCounter
             \/ ~Fresh(o.chain)
    <2>1. ASSUME Fresh(o.chain), ~(o.revSeen < revCounter),
                 ~\E id \in t : o.seen[id] \in Nat /\ o.seen[id] < counter
          PROVE  Holds(o)
      <3>1. validate_chain(o.chain) /\ validate_chain_time(o.chain)
            /\ \A i \in DOMAIN o.chain : creds[o.chain[i]].signer = creds[o.chain[i]].issuer
        BY <1>2, <1>3, <1>4, <2>1, SoundAndFresh
      <3>2. VerifiedForRequest(o)
        BY <1>4, <3>1 DEF VerifiedForRequest
      <3>3. o.revSeen \in Nat /\ o.revSeen <= revCounter /\ (o.revSeen = revCounter => NoneRevoked(o.chain))
        BY <1>1, <1>3, <1>4 DEF CallOK, Vouched, Call
      <3>4. NoneRevoked(o.chain)
        BY <1>2, <2>1, <3>3
      <3>5. ASSUME NEW id \in AssertedIds(o) PROVE Bound(o, id)
        <4>1. o.seen[id] \in Nat /\ o.seen[id] <= counter /\ (o.seen[id] = counter => Bound(o, id))
          BY <1>3, <1>4 DEF CallOK, Vouched
        <4> QED BY <1>2, <2>1, <4>1
      <3> QED BY <3>1, <3>2, <3>4, <3>5 DEF Holds
    <2> QED BY <2>1
  <1> HIDE DEF h, t, r
  <1>9. /\ k \in Call /\ k.step = "principals" /\ k.todo = t /\ k.seen = NoRevisions /\ k.chain = o.chain
        /\ k.principal = o.principal /\ k.scope = o.scope /\ k.child = o.child /\ k.phase = 3
        /\ k.before = o.seen /\ k.revBefore = o.revSeen /\ k.held = h
    <2> DEFINE x == [o EXCEPT !.phase = 3]
               y == [x EXCEPT !.step = "principals", !.todo = t]
               z == [y EXCEPT !.seen = NoRevisions, !.before = o.seen, !.revBefore = o.revSeen]
    <2>8. k = [z EXCEPT !.held = h]
      BY <1>3 DEF Call
    <2> HIDE DEF o, k
    <2>9. /\ x \in Call /\ x.phase = 3 /\ x.chain = o.chain
          /\ x.principal = o.principal /\ x.scope = o.scope /\ x.child = o.child
      BY <1>3 DEF Call
    <2> HIDE DEF x
    <2>6. /\ y \in Call /\ y.step = "principals" /\ y.todo = t /\ y.chain = o.chain
          /\ y.principal = o.principal /\ y.scope = o.scope /\ y.child = o.child /\ y.phase = 3
      BY <1>7, <2>9 DEF Call
    <2>7. o.seen \in Revisions /\ o.revSeen \in Nat
      BY <1>3 DEF Call
    <2> HIDE DEF y
    <2>1. /\ z \in Call /\ z.step = "principals" /\ z.todo = t /\ z.seen = NoRevisions /\ z.chain = o.chain
          /\ z.principal = o.principal /\ z.scope = o.scope /\ z.child = o.child /\ z.phase = 3
          /\ z.before = o.seen /\ z.revBefore = o.revSeen
      BY <1>7, <2>6, <2>7 DEF Call
    <2>2. k = [z EXCEPT !.held = h]
      BY <2>8
    <2> HIDE DEF z, k
    <2>3. k \in Call
      BY <1>17, <2>1, <2>2 DEF Call
    <2>4. k.held = h
      BY <1>17, <2>1, <2>2 DEF Call
    <2>5. /\ k.step = z.step /\ k.todo = z.todo /\ k.seen = z.seen /\ k.chain = z.chain
          /\ k.principal = z.principal /\ k.scope = z.scope /\ k.child = z.child /\ k.phase = z.phase
          /\ k.before = z.before /\ k.revBefore = z.revBefore
      BY <2>1, <2>2 DEF Call
    <2> QED BY <2>1, <2>3, <2>4, <2>5
  <1> HIDE DEF k, o
  <1>10. AssertedIds(k) = t
    BY <1>2, <1>3, <1>9, AssertedIs DEF t
  <1>11. InOrder(k)
    BY <1>3, <1>4, <1>9 DEF CallOK, InOrder
  <1>12. Vouched(k)
    BY <1>9 DEF Vouched
  <1>13. Noticed(k)
    <2>1. h \/ Doomed(k)
      BY <1>8, <1>9, <1>10 DEF Doomed
    <2> QED BY <1>9, <2>1 DEF Noticed
  <1>14. Fits(k, None, r)
    <2>1. CallOK(k)
      BY <1>11, <1>12, <1>13 DEF CallOK
    <2> QED BY <1>5, <1>9, <2>1, UnderWay
  <1>15. Keeps(d, k, None)
    BY <1>1, <1>4, <1>9 DEF Keeps, Takes, Stuck, o
  <1>16. Becomes(d, k, None, r)
    BY <1>1, <1>2, <1>3, <1>6 DEF Becomes, TypeOK
  <1> QED BY <1>1, <1>5, <1>9, <1>14, <1>15, <1>16, Moved

\* _issue_child(): the child is cut at its parent's expiry and goes one link further.
LEMMA IssueChildMoves ==
  ASSUME Inv, NEW d \in Decision, NEW ttl \in Ttl, issue_child(d, ttl)
  PROVE  Moves(d)
  <1> DEFINE o == call[d]
             parent == Leaf(o.chain)
             x == expires_at(ttl, parent.expires)
             new == [issuer |-> o.child.issuer, signer |-> o.child.issuer,
                     principal |-> o.child.ask.principal, scope |-> o.child.ask.scope,
                     depth |-> parent.depth + 1, max_depth |-> parent.max_depth,
                     parent |-> o.chain[Len(o.chain)], issued |-> now, expires |-> x]
  <1>1. o # None /\ o.step = "issue" /\ UNCHANGED <<now, backends, reserved, audit>>
    BY DEF issue_child
  <1>2. TypeOK /\ now \in Nat
    BY DEF Inv, TypeOK
  <1>3. /\ o \in Call /\ CallOK(o) /\ answer[d] = None /\ o.chain \in Chain /\ Parsed(o.chain)
        /\ audit[d] = IF o.phase = 3 THEN <<"allow">> ELSE <<>>
        /\ audit[d] \in Seq({"allow", "deny"})
    BY <1>1, CallIs
  <1>4. /\ o.phase = 3 /\ o.child # None /\ o.held /\ Sound(o.chain)
        /\ parent.depth < parent.max_depth /\ scope_is_monotonic(parent.scope, o.child.ask.scope)
    BY <1>1, <1>3 DEF CallOK, InOrder, Noticed
  <1>11. o.phase = 3
    BY <1>4
  <1>5. o.child \in Child /\ o.child.as \in Credential /\ o.child.issuer \in Issuer
        /\ o.child.ask.principal \in Principal /\ o.child.ask.scope \in Scope
    BY <1>3, <1>4, DelegatedAssumption DEF Call, Child
  <1>6. /\ parent \in Content /\ parent.depth \in Nat /\ parent.max_depth \in 0..MAX_DELEGATION_DEPTH
        /\ parent.expires \in Nat
    BY <1>2, <1>3, ParsedIs DEF Content
  <1>7. x \in Nat /\ x <= parent.expires /\ x - now <= MAX_TTL
    <2>1. ttl \in 1..MAX_TTL /\ MAX_TTL \in Nat /\ parent.expires # None
      BY <1>6, DelegatedAssumption
    <2> QED BY <1>2, <1>6, <2>1 DEF expires_at
  <1>8. Last(o.chain) \in Credential /\ o.chain[Len(o.chain)] = Last(o.chain) /\ Last(o.chain) # None
    BY <1>3, ChainIs, DelegatedAssumption DEF Last
  <1>9. CASE Allow(d, None) /\ UNCHANGED creds
    <2> DEFINE a == [allow |-> TRUE, chain |-> o.chain, child |-> None, held |-> o.held]
    <2>1. Becomes(d, None, a, audit[d])
      BY <1>1, <1>2, <1>9 DEF Becomes, Allow, TypeOK
    <2>2. /\ a \in Answer /\ a # None /\ a.allow /\ a.chain = o.chain /\ a.child = None
          /\ a.held = o.held /\ Keeps(d, None, a)
      BY <1>1, <1>11, AllowKeeps
    <2> HIDE DEF a
    <2>3. AnswerOK(a)
      BY <1>4, <2>2 DEF AnswerOK
    <2>4. Fits(None, a, audit[d])
      BY <1>3, <1>4, <2>2, <2>3 DEF Fits
    <2> QED BY <1>1, <1>3, <1>9, <2>1, <2>2, <2>4, Moved
  <1>10. CASE /\ creds[o.child.as] = None /\ creds' = [creds EXCEPT ![o.child.as] = new]
              /\ Allow(d, o.child.as)
    <2>0. PICK a : a = [allow |-> TRUE, chain |-> o.chain, child |-> o.child.as, held |-> o.held]
      OBVIOUS
    <2>1. Becomes(d, None, a, audit[d])
      BY <1>1, <1>2, <1>10, <2>0 DEF Becomes, Allow, TypeOK
    <2>2. /\ a \in Answer /\ a # None /\ a.allow /\ a.chain = o.chain /\ a.child = o.child.as
          /\ a.held = o.held /\ Keeps(d, None, a)
      BY <1>1, <1>5, <1>11, <2>0, AllowKeeps
    <2> HIDE DEF o, parent, x
    <2>3. /\ new.depth = parent.depth + 1 /\ new.max_depth = parent.max_depth
          /\ new.scope = o.child.ask.scope /\ new.parent = Last(o.chain) /\ new.issued = now
          /\ new.expires = x /\ new.issuer = o.child.issuer /\ new.signer = o.child.issuer
          /\ new.principal = o.child.ask.principal
      BY <1>8
    <2>4. new.depth \in 0..MAX_DELEGATION_DEPTH /\ new.depth # 0 /\ new.depth <= new.max_depth
      BY <1>4, <1>6, <2>3, DelegatedAssumption
    <2>5. new \in Content
      <3>1. new \in [issuer : Issuer, signer : Issuer, principal : Principal, scope : Scope,
                     depth : 0..MAX_DELEGATION_DEPTH, max_depth : 0..MAX_DELEGATION_DEPTH,
                     parent : Credential \cup {None}, issued : Nat, expires : Nat]
        BY <1>2, <1>5, <1>6, <1>7, <1>8, <2>4
      <3> QED BY <1>8, <2>3, <2>4, <3>1 DEF Content
    <2>6. new # None
      BY <2>5, DelegatedAssumption
    <2> HIDE DEF new
    <2>7. TypeOK'
      <3>1. creds' \in [Credential -> Content \cup {None}]
        BY <1>2, <1>10, <2>5 DEF TypeOK
      <3>2. UNCHANGED <<policy, counter, revoked, revCounter>>
        BY <1>1 DEF backends
      <3>3. call' \in [Decision -> Call \cup {None}] /\ answer' \in [Decision -> Answer \cup {None}]
        BY <1>2, <2>1, <2>2 DEF TypeOK, Becomes
      <3> QED BY <1>1, <1>2, <3>1, <3>2, <3>3 DEF TypeOK
    <2>8. Onward
      <3>1. \A c \in Credential : creds[c] # None => creds'[c] = creds[c]
        BY <1>2, <1>10 DEF TypeOK
      <3>2. UNCHANGED <<policy, counter, revoked, revCounter>>
        BY <1>1 DEF backends
      <3> QED BY <1>1, <1>2, <3>1, <3>2 DEF Onward, TypeOK
    <2>9. creds'[o.child.as] = new
      BY <1>2, <1>5, <1>10 DEF TypeOK
    <2>10. AnswerOK(a)'
      <3>2. PICK ch \in Chain : ch = o.chain
        BY <1>3
      <3>3. Sound(ch)' /\ Leaf(ch)' = parent
        BY <1>2, <1>3, <1>4, <2>7, <2>8, <3>2, SoundStays, ParsedStays DEF parent
      <3>4. a.chain = ch /\ a.child = o.child.as /\ a.held
        BY <1>4, <2>2, <3>2
      <3>5. is_monotonic(parent, new)
        BY <1>4, <1>6, <2>3, <2>4 DEF is_monotonic
      <3>6. /\ creds'[a.child] = new /\ now' = now /\ new.issued <= now /\ new.expires - new.issued <= MAX_TTL
            /\ new.expires <= parent.expires /\ new.parent = Last(ch)
        BY <1>1, <1>2, <1>7, <2>3, <2>9, <3>2, <3>4
      <3> QED BY <2>6, <3>3, <3>4, <3>5, <3>6 DEF AnswerOK
    <2>11. PICK r : r = audit[d] /\ r = <<"allow">>
      BY <1>3, <1>11
    <2>12. Fits(None, a, r)'
      BY <2>2, <2>10, <2>11 DEF Fits
    <2> QED BY <1>1, <2>1, <2>2, <2>7, <2>8, <2>11, <2>12 DEF Moves
  <1> QED BY <1>9, <1>10 DEF issue_child

\* reserve() of the leaf, when it succeeds.
LEMMA ReserveMoves ==
  ASSUME Inv, NEW d \in Decision, Reserve(d), ~Deny(d)
  PROVE  /\ TypeOK' /\ Onward /\ UNCHANGED <<now, creds>>
         /\ \E k \in Call : /\ Becomes(d, k, None, audit[d]) /\ Fits(k, None, audit[d])'
                            /\ k.phase = 2 /\ k.step = "principals" /\ k.chain = call[d].chain
         /\ ~(reserved[Last(call[d].chain)] # None /\ reserved[Last(call[d].chain)] >= now)
         /\ reserved' = Reservations(Last(call[d].chain))
         /\ call[d].chain \in Chain /\ Parsed(call[d].chain)
  <1> DEFINE o == call[d]
             t == AssertedIds(o)
             x == [o EXCEPT !.phase = 2]
             y == [x EXCEPT !.step = "principals", !.todo = t]
             k == [y EXCEPT !.seen = NoRevisions]
  <1>1. o # None /\ o.step = "reserve" /\ UNCHANGED <<now, creds, backends, audit, answer>>
    BY DEF Reserve
  <1>2. TypeOK /\ now \in Nat
    BY DEF Inv, TypeOK
  <1>3. /\ o \in Call /\ CallOK(o) /\ answer[d] = None /\ o.chain \in Chain /\ Parsed(o.chain)
        /\ audit[d] = IF o.phase = 3 THEN <<"allow">> ELSE <<>>
        /\ audit[d] \in Seq({"allow", "deny"})
    BY <1>1, CallIs
  <1>4. /\ ~(reserved[Last(o.chain)] # None /\ reserved[Last(o.chain)] >= now)
        /\ reserved' = Reservations(Last(o.chain))
        /\ call' = [call EXCEPT ![d].step = "principals", ![d].phase = 2,
                                ![d].seen = NoRevisions, ![d].todo = t]
    BY DEF Reserve, Last
  <1>5. call' = [call EXCEPT ![d] = k]
    BY <1>2, <1>3, <1>4 DEF TypeOK, Call
  <1>6. t \subseteq PrincipalId /\ NoRevisions \in Revisions
    <2>1. t \subseteq PrincipalId
      BY <1>2, <1>3, AssertedIs
    <2> QED BY <2>1 DEF NoRevisions, Revisions
  <1>7. Last(o.chain) \in Credential /\ creds[Last(o.chain)] \in Content
    BY <1>2, <1>3, ChainIs, ParsedIs
  <1> HIDE DEF o, t
  <1>8. /\ x \in Call /\ x.phase = 2 /\ x.chain = o.chain
        /\ x.principal = o.principal /\ x.scope = o.scope /\ x.child = o.child
    BY <1>3 DEF Call
  <1> HIDE DEF x
  <1>9. /\ y \in Call /\ y.step = "principals" /\ y.todo = t /\ y.chain = o.chain
        /\ y.principal = o.principal /\ y.scope = o.scope /\ y.child = o.child /\ y.phase = 2
    BY <1>6, <1>8 DEF Call
  <1> HIDE DEF y
  <1>10. /\ k \in Call /\ k.step = "principals" /\ k.todo = t /\ k.chain = o.chain
         /\ k.principal = o.principal /\ k.scope = o.scope /\ k.child = o.child /\ k.phase = 2
    BY <1>6, <1>9 DEF Call
  <1> HIDE DEF k
  <1>11. AssertedIds(k) = t
    BY <1>2, <1>3, <1>10, AssertedIs DEF t
  <1>12. InOrder(k)
    BY <1>1, <1>3, <1>10 DEF CallOK, InOrder
  <1>13. Vouched(k) /\ Noticed(k)
    BY <1>10, <1>11 DEF Vouched, Noticed
  <1>14. audit[d] = <<>>
    BY <1>1, <1>3 DEF CallOK, InOrder
  <1>15. Fits(k, None, audit[d])
    BY <1>10, <1>12, <1>13, <1>14, UnderWay DEF CallOK
  <1>16. Becomes(d, k, None, audit[d])
    BY <1>1, <1>2, <1>3, <1>5 DEF Becomes, TypeOK
  <1>17. TypeOK'
    <2>1. reserved' \in [Credential -> Nat \cup {None}]
      BY <1>2, <1>4, <1>7 DEF Reservations, TypeOK, Content
    <2>2. UNCHANGED <<policy, counter, revoked, revCounter>>
      BY <1>1 DEF backends
    <2> QED BY <1>1, <1>2, <1>5, <1>10, <2>1, <2>2 DEF TypeOK
  <1>18. Onward
    BY <1>1, <1>2 DEF Onward, TypeOK, backends
  <1>19. PICK n, r : n \in Call /\ n = k /\ r = audit[d]
    BY <1>10
  <1>20. Fits(n, None, r)'
    BY <1>2, <1>15, <1>17, <1>18, <1>19, FitStays
  <1>21. Fits(n, None, audit[d])'
    BY <1>1, <1>19, <1>20
  <1> QED BY <1>1, <1>3, <1>4, <1>10, <1>16, <1>17, <1>18, <1>19, <1>21 DEF o

\* What is signed, changes in a back end or passes by leaves the decisions alone.
LEMMA EnvironmentStep ==
  ASSUME TypeOK, Environment \/ UNCHANGED vars
  PROVE  TypeOK' /\ Onward /\ UNCHANGED <<reserved, call, audit, answer>>
  <1>1. ASSUME NEW c \in Credential, NEW n \in Content, creds[c] = None, creds' = [creds EXCEPT ![c] = n],
               UNCHANGED <<now, backends, reserved, call, audit, answer>>
        PROVE  TypeOK' /\ Onward /\ UNCHANGED <<reserved, call, audit, answer>>
    BY <1>1 DEF TypeOK, Onward, backends
  <1>2. ASSUME NEW c \in Credential, NEW i \in OwnIssuer, NEW root \in Root, NEW ttl \in Ttl,
               issue_root(c, i, root, ttl)
        PROVE  TypeOK' /\ Onward /\ UNCHANGED <<reserved, call, audit, answer>>
    <2> DEFINE x == expires_at(ttl, None)
               n == [issuer |-> i, signer |-> i, principal |-> root.principal,
                     scope |-> root.scope, depth |-> 0, max_depth |-> root.max_depth,
                     parent |-> None, issued |-> now, expires |-> x]
    <2>1. x \in Nat
      BY DelegatedAssumption DEF expires_at, TypeOK
    <2>2. creds' = [creds EXCEPT ![c] = n]
      BY <1>2 DEF issue_root
    <2> HIDE DEF x
    <2>3. /\ root.principal \in Principal /\ root.scope \in Scope
          /\ root.max_depth \in 0..MAX_DELEGATION_DEPTH /\ i \in Issuer /\ now \in Nat
          /\ 0 \in 0..MAX_DELEGATION_DEPTH
      BY DelegatedAssumption DEF TypeOK
    <2>4. n \in [issuer : Issuer, signer : Issuer, principal : Principal, scope : Scope,
                 depth : 0..MAX_DELEGATION_DEPTH, max_depth : 0..MAX_DELEGATION_DEPTH,
                 parent : Credential \cup {None}, issued : Nat, expires : Nat]
      BY <2>1, <2>3
    <2>5. n \in Content
      BY <2>3, <2>4 DEF Content
    <2> HIDE DEF n
    <2> QED BY <1>1, <1>2, <2>2, <2>5 DEF issue_root
  <1>3. ASSUME NEW c \in Credential, NEW f \in Foreign, NEW q \in Credential \cup {None},
               SignForeign(c, f, q)
        PROVE  TypeOK' /\ Onward /\ UNCHANGED <<reserved, call, audit, answer>>
    <2> DEFINE n == [issuer |-> f.issuer, signer |-> f.signer, principal |-> f.principal,
                     scope |-> f.scope, depth |-> f.depth, max_depth |-> f.max_depth,
                     parent |-> q, issued |-> now + f.delay, expires |-> now + f.delay + f.ttl]
    <2>1. /\ f \in [issuer : Issuer, signer : Issuer, principal : Principal, scope : Scope,
                    depth : 0..MAX_DELEGATION_DEPTH, max_depth : 0..MAX_DELEGATION_DEPTH,
                    delay : Nat, ttl : Nat]
          /\ f.depth <= f.max_depth /\ now \in Nat
      BY DelegatedAssumption DEF TypeOK
    <2>2. n \in [issuer : Issuer, signer : Issuer, principal : Principal, scope : Scope,
                 depth : 0..MAX_DELEGATION_DEPTH, max_depth : 0..MAX_DELEGATION_DEPTH,
                 parent : Credential \cup {None}, issued : Nat, expires : Nat]
      BY <2>1
    <2>3. n \in Content
      BY <1>3, <2>1, <2>2 DEF Content, SignForeign
    <2>4. creds' = [creds EXCEPT ![c] = n]
      BY <1>3 DEF SignForeign
    <2> HIDE DEF n
    <2> QED BY <1>1, <1>3, <2>3, <2>4 DEF SignForeign
  <1>4. ASSUME NEW u \in Update, SetPrincipal(u)
        PROVE  TypeOK' /\ Onward /\ UNCHANGED <<reserved, call, audit, answer>>
    <2>1. u.id \in PrincipalId /\ u.policy \in Policy \cup {None}
      BY DelegatedAssumption
    <2> QED BY <1>4, <2>1 DEF SetPrincipal, TypeOK, Onward
  <1>5. ASSUME NEW c \in Credential, Revoke(c)
        PROVE  TypeOK' /\ Onward /\ UNCHANGED <<reserved, call, audit, answer>>
    BY <1>5 DEF Revoke, TypeOK, Onward
  <1>6. CASE Tick
    BY <1>6 DEF Tick, TypeOK, Onward, backends
  <1>7. CASE UNCHANGED vars
    BY <1>7 DEF vars, TypeOK, Onward, backends
  <1> QED BY <1>2, <1>3, <1>4, <1>5, <1>6, <1>7 DEF Environment

\* A decision whose call, answer and records stay goes on fitting, has taken what it had
\* taken, and is stuck if it was.
LEMMA Resting ==
  ASSUME Inv, TypeOK', Onward, NEW e \in Decision,
         call'[e] = call[e], answer'[e] = answer[e], audit'[e] = audit[e]
  PROVE  /\ Fits(call[e], answer[e], audit[e])'
         /\ \A c \in Credential :
               /\ Takes(call[e], answer[e], c)' <=> Takes(call[e], answer[e], c)
               /\ Takes(call[e], answer[e], c) =>
                     /\ creds[c] # None /\ creds'[c] = creds[c] /\ creds[c].expires \in Nat
                     /\ Stuck(call[e], c) => Stuck(call[e], c)'
  <1>1. PICK k, a, r :
            /\ k \in Call \cup {None} /\ a \in Answer \cup {None}
            /\ k = call[e] /\ a = answer[e] /\ r = audit[e] /\ Fits(k, a, r)
    BY DEF Inv, TypeOK, AllFit
  <1>2. Fits(k, a, r)' /\ TypeOK
    BY <1>1, FitStays DEF Inv
  <1>3. Fits(call[e], answer[e], audit[e])'
    BY <1>1, <1>2
  <1>4. ASSUME NEW c \in Credential
        PROVE  Takes(call[e], answer[e], c)' <=> Takes(call[e], answer[e], c)
    BY DEF Takes, Last
  <1>5. ASSUME NEW c \in Credential, Takes(call[e], answer[e], c)
        PROVE  /\ creds[c] # None /\ creds'[c] = creds[c] /\ creds[c].expires \in Nat
               /\ Stuck(call[e], c) => Stuck(call[e], c)'
    <2>1. creds[c] # None /\ creds[c].expires \in Nat
      BY <1>1, <1>2, <1>5, TakenIsSigned
    <2>2. creds'[c] = creds[c] /\ now \in Nat /\ now' \in Nat /\ now <= now'
      BY <1>2, <2>1 DEF Onward, TypeOK
    <2> QED BY <2>1, <2>2 DEF Stuck
  <1> QED BY <1>3, <1>4, <1>5

-----------------------------------------------------------------------------
\* The invariant is inductive.

\* A step of a decision preserves it: what the decision has taken it had taken, and if
\* somebody else had, that one is stuck.
LEMMA MovesStep ==
  ASSUME Inv, NEW d \in Decision, Moves(d)
  PROVE  Inv'
  <1>1. TypeOK /\ TypeOK' /\ Onward /\ reserved' = reserved
    BY DEF Inv, Moves
  <1>2. PICK k, a, r :
            /\ k \in Call \cup {None} /\ a \in Answer \cup {None}
            /\ Becomes(d, k, a, r) /\ Fits(k, a, r)' /\ Keeps(d, k, a)
    BY DEF Moves
  <1>3. /\ call'[d] = k /\ answer'[d] = a /\ audit'[d] = r
        /\ \A e \in Decision \ {d} : call'[e] = call[e] /\ answer'[e] = answer[e] /\ audit'[e] = audit[e]
    BY <1>1, <1>2 DEF Becomes, TypeOK
  <1>4. AllFit'
    <2>1. Fits(call[d], answer[d], audit[d])'
      BY <1>2, <1>3
    <2>2. ASSUME NEW e \in Decision, e # d PROVE Fits(call[e], answer[e], audit[e])'
      BY <1>1, <1>3, <2>2, Resting
    <2> QED BY <2>1, <2>2 DEF AllFit
  <1>5. ASSUME NEW c \in Credential, Takes(call[d], answer[d], c)'
        PROVE  /\ Takes(call[d], answer[d], c) /\ ~Stuck(call[d], c)
               /\ creds'[c] = creds[c] /\ creds[c].expires \in Nat
    <2>1. Takes(k, a, c)
      BY <1>3, <1>5 DEF Takes, Last
    <2>2. Takes(call[d], answer[d], c) /\ ~Stuck(call[d], c)
      BY <1>2, <2>1 DEF Keeps
    <2>3. Fits(call[d], answer[d], audit[d]) /\ call[d] \in Call \cup {None} /\ answer[d] \in Answer \cup {None}
      BY <1>1 DEF Inv, AllFit, TypeOK
    <2>4. creds[c] # None /\ creds[c].expires \in Nat
      BY <1>1, <2>2, <2>3, TakenIsSigned
    <2> QED BY <1>1, <2>2, <2>4 DEF Onward
  <1>6. TakenIsReserved'
    <2>1. ASSUME NEW e \in Decision, NEW c \in Credential, Takes(call[e], answer[e], c)'
          PROVE  (reserved[c] = creds[c].expires \/ creds[c].expires < now)'
      <3>1. Takes(call[e], answer[e], c) /\ creds'[c] = creds[c] /\ creds[c].expires \in Nat
        <4>1. CASE e = d
          BY <1>5, <2>1, <4>1
        <4>2. CASE e # d
          BY <1>1, <1>3, <2>1, <4>2, Resting
        <4> QED BY <4>1, <4>2
      <3>2. reserved[c] = creds[c].expires \/ creds[c].expires < now
        BY <3>1 DEF Inv, TakenIsReserved
      <3>3. now \in Nat /\ now' \in Nat /\ now <= now'
        BY <1>1 DEF TypeOK, Onward
      <3> QED BY <1>1, <3>1, <3>2, <3>3
    <2> QED BY <2>1 DEF TakenIsReserved
  <1>7. TakenOnce'
    <2>1. ASSUME NEW e \in Decision, NEW f \in Decision, NEW c \in Credential, e # f,
                 Takes(call[e], answer[e], c)', Takes(call[f], answer[f], c)', e # d
          PROVE  Stuck(call[e], c)' \/ Stuck(call[f], c)'
      <3>1. Takes(call[e], answer[e], c) /\ (Stuck(call[e], c) => Stuck(call[e], c)')
        BY <1>1, <1>3, <2>1, Resting
      <3>2. CASE f = d
        <4>1. Takes(call[f], answer[f], c) /\ ~Stuck(call[f], c)
          BY <1>5, <2>1, <3>2
        <4> QED BY <2>1, <3>1, <4>1 DEF Inv, TakenOnce
      <3>3. CASE f # d
        <4>1. Takes(call[f], answer[f], c) /\ (Stuck(call[f], c) => Stuck(call[f], c)')
          BY <1>1, <1>3, <2>1, <3>3, Resting
        <4> QED BY <2>1, <3>1, <4>1 DEF Inv, TakenOnce
      <3> QED BY <3>2, <3>3
    <2> QED BY <2>1 DEF TakenOnce
  <1> QED BY <1>1, <1>4, <1>6, <1>7 DEF Inv

\* Whoever reserves a credential that another decision has taken does so after its expiry,
\* and is stuck.
LEMMA ReserveStep ==
  ASSUME Inv, NEW d \in Decision, Reserve(d), ~Deny(d)
  PROVE  Inv'
  <1>0. PICK x : x = Last(call[d].chain)
    OBVIOUS
  <1>1. /\ TypeOK /\ TypeOK' /\ Onward /\ UNCHANGED <<now, creds>>
        /\ ~(reserved[x] # None /\ reserved[x] >= now)
        /\ reserved' = Reservations(x) /\ call[d].chain \in Chain /\ Parsed(call[d].chain)
    BY <1>0, ReserveMoves DEF Inv
  <1>2. PICK k \in Call : /\ Becomes(d, k, None, audit[d]) /\ Fits(k, None, audit[d])'
                          /\ k.phase = 2 /\ k.step = "principals" /\ k.chain = call[d].chain
    BY ReserveMoves
  <1>3. /\ call'[d] = k /\ answer'[d] = None /\ audit'[d] = audit[d]
        /\ \A e \in Decision \ {d} : call'[e] = call[e] /\ answer'[e] = answer[e] /\ audit'[e] = audit[e]
    BY <1>1, <1>2 DEF Becomes, TypeOK
  <1>4. x \in Credential /\ creds[x].expires \in Nat /\ now \in Nat /\ creds[x] # None
    <2>1. x \in Credential /\ creds[x] \in Content /\ creds[x] # None
      BY <1>0, <1>1, ChainIs, ParsedIs
    <2> QED BY <1>1, <2>1 DEF Content, TypeOK
  <1>5. AllFit'
    <2>1. Fits(call[d], answer[d], audit[d])'
      BY <1>2, <1>3
    <2>2. ASSUME NEW e \in Decision, e # d PROVE Fits(call[e], answer[e], audit[e])'
      BY <1>1, <1>3, <2>2, Resting
    <2> QED BY <2>1, <2>2 DEF AllFit
  <1>6. ASSUME NEW c \in Credential, Takes(call[d], answer[d], c)'
        PROVE  c = x
    <2>1. Takes(k, None, c)
      BY <1>3, <1>6 DEF Takes, Last
    <2> QED BY <1>0, <1>2, <2>1 DEF Takes
  <1>7. reserved'[x] = creds[x].expires
    BY <1>1, <1>4 DEF Reservations
  <1>8. TakenIsReserved'
    <2>1. ASSUME NEW e \in Decision, NEW c \in Credential, Takes(call[e], answer[e], c)'
          PROVE  (reserved[c] = creds[c].expires \/ creds[c].expires < now)'
      <3>1. CASE c = x
        BY <1>1, <1>7, <3>1
      <3>2. CASE c # x
        <4>1. e # d
          BY <1>6, <2>1, <3>2
        <4>2. Takes(call[e], answer[e], c) /\ creds[c].expires \in Nat
          BY <1>1, <1>3, <2>1, <4>1, Resting
        <4>3. reserved[c] = creds[c].expires \/ creds[c].expires < now
          BY <4>2 DEF Inv, TakenIsReserved
        <4>4. reserved'[c] = IF reserved[c] # None /\ reserved[c] >= now THEN reserved[c] ELSE None
          BY <1>1, <3>2 DEF Reservations
        <4>5. creds[c].expires # None
          BY <4>2, DelegatedAssumption
        <4> QED BY <1>1, <1>4, <4>2, <4>3, <4>4, <4>5
      <3> QED BY <3>1, <3>2
    <2> QED BY <2>1 DEF TakenIsReserved
  <1>9. ASSUME NEW e \in Decision, e # d, Takes(call[e], answer[e], x)'
        PROVE  Stuck(call[d], x)'
    <2>1. Takes(call[e], answer[e], x)
      BY <1>1, <1>3, <1>4, <1>9, Resting
    <2>2. reserved[x] = creds[x].expires \/ creds[x].expires < now
      BY <1>4, <2>1 DEF Inv, TakenIsReserved
    <2>3. creds[x].expires < now
      BY <1>1, <1>4, <2>2, DelegatedAssumption
    <2>4. k # None
      BY DelegatedAssumption
    <2> QED BY <1>1, <1>2, <1>3, <2>3, <2>4 DEF Stuck
  <1>10. TakenOnce'
    <2>1. ASSUME NEW e \in Decision, NEW f \in Decision, NEW c \in Credential, e # f,
                 Takes(call[e], answer[e], c)', Takes(call[f], answer[f], c)', e # d
          PROVE  Stuck(call[e], c)' \/ Stuck(call[f], c)'
      <3>1. Takes(call[e], answer[e], c) /\ (Stuck(call[e], c) => Stuck(call[e], c)')
        BY <1>1, <1>3, <2>1, Resting
      <3>2. CASE f = d
        <4>1. c = x
          BY <1>6, <2>1, <3>2
        <4> QED BY <1>9, <2>1, <3>2, <4>1
      <3>3. CASE f # d
        <4>1. Takes(call[f], answer[f], c) /\ (Stuck(call[f], c) => Stuck(call[f], c)')
          BY <1>1, <1>3, <2>1, <3>3, Resting
        <4> QED BY <2>1, <3>1, <4>1 DEF Inv, TakenOnce
      <3> QED BY <3>2, <3>3
    <2> QED BY <2>1 DEF TakenOnce
  <1> QED BY <1>1, <1>5, <1>8, <1>10 DEF Inv

\* Every step preserves the invariant.
LEMMA InvStep ==
  ASSUME Inv, [Next]_vars
  PROVE  Inv'
  <1>0. TypeOK
    BY DEF Inv
  <1>1. ASSUME NEW d \in Decision, NEW ch \in Chain, NEW q \in Invocation, authorize(d, ch, q)
        PROVE  Inv'
    <2>1. q.principal \in Principal /\ q.scope \in Scope
      BY DelegatedAssumption
    <2>2. Moves(d)
      BY <1>1, <2>1, StartMoves DEF authorize
    <2> QED BY <2>2, MovesStep
  <1>2. ASSUME NEW d \in Decision, NEW ch \in Chain, NEW x \in Child, delegate(d, ch, x)
        PROVE  Inv'
    <2>1. x.ask.by \in Principal
      BY DelegatedAssumption DEF Child
    <2>2. /\ Leaf(ch).depth < Leaf(ch).max_depth /\ scope_is_monotonic(Leaf(ch).scope, x.ask.scope)
          /\ Start(d, ch, x.ask.by, Leaf(ch).scope, x) /\ Parsed(ch)
      BY <1>2 DEF delegate
    <2>3. Leaf(ch).scope \in Scope
      BY <1>0, <2>2, ParsedIs DEF Content
    <2>4. Moves(d)
      BY <2>1, <2>2, <2>3, StartMoves
    <2> QED BY <2>4, MovesStep
  <1>3. ASSUME NEW d \in Decision, RejectMalformed(d) \/ BackendUnavailable(d) \/ AuditUnavailable(d)
        PROVE  Inv'
    <2>1. Moves(d)
      BY <1>3, DenyMoves, UnavailableMoves DEF RejectMalformed, BackendUnavailable
    <2> QED BY <2>1, MovesStep
  <1>4. ASSUME NEW d \in Decision, ReadPrincipal(d) \/ ReadRevocation(d) \/ RecordAllow(d)
        PROVE  Inv'
    <2>1. Moves(d)
      BY <1>4, ReadPrincipalMoves, ReadRevocationMoves, RecordAllowMoves
    <2> QED BY <2>1, MovesStep
  <1>5. ASSUME NEW d \in Decision, Reserve(d)
        PROVE  Inv'
    <2>1. CASE Deny(d)
      <3>1. UNCHANGED <<now, creds, backends>>
        BY <1>5 DEF Reserve
      <3>2. CASE UNCHANGED reserved
        <4>1. Moves(d)
          BY <2>1, <3>1, <3>2, DenyMoves
        <4> QED BY <4>1, MovesStep
      <3>3. CASE ~UNCHANGED reserved
        <4>1. audit' = audit /\ audit' = [audit EXCEPT ![d] = Append(@, "deny")]
          BY <1>5, <2>1, <3>3 DEF Reserve, Deny
        <4>2. audit[d] \in Seq({"allow", "deny"}) /\ audit'[d] = Append(audit[d], "deny") /\ audit'[d] = audit[d]
          BY <1>0, <4>1 DEF TypeOK
        <4>3. Len(audit[d]) \in Nat /\ Len(Append(audit[d], "deny")) = Len(audit[d]) + 1
          BY <4>2, AppendProperties, LenProperties
        <4> QED BY <4>2, <4>3
      <3> QED BY <3>2, <3>3
    <2>2. CASE ~Deny(d)
      BY <1>5, <2>2, ReserveStep
    <2> QED BY <2>1, <2>2
  <1>6. ASSUME NEW d \in Decision, NEW ttl \in Ttl, issue_child(d, ttl)
        PROVE  Inv'
    BY <1>6, IssueChildMoves, MovesStep
  <1>7. CASE Environment \/ UNCHANGED vars
    <2>1. TypeOK' /\ Onward /\ UNCHANGED <<reserved, call, audit, answer>>
      BY <1>0, <1>7, EnvironmentStep
    <2>2. \A e \in Decision : Fits(call[e], answer[e], audit[e])'
      BY <2>1, Resting
    <2>3. ASSUME NEW e \in Decision, NEW c \in Credential, Takes(call[e], answer[e], c)'
          PROVE  /\ Takes(call[e], answer[e], c) /\ creds'[c] = creds[c] /\ creds[c].expires \in Nat
                 /\ Stuck(call[e], c) => Stuck(call[e], c)'
      BY <2>1, <2>3, Resting
    <2>4. now \in Nat /\ now' \in Nat /\ now <= now'
      BY <1>0, <2>1 DEF TypeOK, Onward
    <2>5. TakenIsReserved'
      <3>1. ASSUME NEW e \in Decision, NEW c \in Credential, Takes(call[e], answer[e], c)'
            PROVE  (reserved[c] = creds[c].expires \/ creds[c].expires < now)'
        <4>1. reserved[c] = creds[c].expires \/ creds[c].expires < now
          BY <2>3, <3>1 DEF Inv, TakenIsReserved
        <4> QED BY <2>1, <2>3, <2>4, <3>1, <4>1
      <3> QED BY <3>1 DEF TakenIsReserved
    <2>6. TakenOnce'
      BY <2>3 DEF Inv, TakenOnce
    <2> QED BY <2>1, <2>2, <2>5, <2>6 DEF Inv, AllFit
  <1> QED BY <1>1, <1>2, <1>3, <1>4, <1>5, <1>6, <1>7 DEF Next

\* It holds at the start.
LEMMA InvInit ==
  ASSUME Init
  PROVE  Inv
  <1>1. policy \in [PrincipalId -> Policy \cup {None}]
    BY DelegatedAssumption DEF Init, Policy
  <1>2. TypeOK
    BY <1>1 DEF Init, TypeOK
  <1>3. ASSUME NEW d \in Decision
        PROVE  call[d] = None /\ answer[d] = None /\ audit[d] = <<>>
    BY DEF Init
  <1>4. AllFit
    BY <1>3 DEF AllFit, Fits
  <1>5. TakenIsReserved /\ TakenOnce
    BY <1>3 DEF TakenIsReserved, TakenOnce, Takes
  <1> QED BY <1>2, <1>4, <1>5 DEF Inv

\* So it always holds.
LEMMA InvAlways == Spec => []Inv
  <1>1. Inv /\ [Next]_vars => Inv'
    BY InvStep
  <1> QED BY <1>1, InvInit, PTL DEF Spec

-----------------------------------------------------------------------------
\* What follows from it.

\* What a granted answer rests on.
LEMMA GrantIs ==
  ASSUME Inv, NEW d \in Granted
  PROVE  /\ d \in Decision /\ answer[d] \in Answer /\ answer[d] # None /\ answer[d].allow
         /\ answer[d].chain \in Chain /\ answer[d].child \in Credential \cup {None}
         /\ AnswerOK(answer[d]) /\ audit[d] = <<"allow">>
         /\ call[d] = None
  <1>1. d \in Decision /\ answer[d] # None /\ answer[d].allow
    BY DEF Granted
  <1>2. answer[d] \in Answer
    BY <1>1 DEF Inv, TypeOK
  <1>3. AnswerOK(answer[d]) /\ audit[d] = <<"allow">> /\ call[d] = None
    BY <1>1 DEF Inv, AllFit, Fits
  <1> QED BY <1>1, <1>2, <1>3, AnswerIs

\* The variables keep their types.
THEOREM DelegatedTypeCorrect == Spec => []TypeOK
  <1>1. Inv => TypeOK
    BY DEF Inv
  <1> QED BY <1>1, InvAlways, PTL

\* A credential is good for one invocation or one delegation, whatever calls overlap and
\* although reserve() forgets what has expired: whoever gets a second reservation gets it
\* after the expiry, and the refresh stops it.
THEOREM LeafIsUsedOnce == Spec => []SingleUse
  <1>1. ASSUME Inv PROVE SingleUse
    <2>1. ASSUME NEW d \in Granted, NEW e \in Granted, d # e,
                 answer[d].chain[Len(answer[d].chain)] = answer[e].chain[Len(answer[e].chain)]
          PROVE  FALSE
      <3> DEFINE c == Last(answer[d].chain)
      <3>1. c \in Credential /\ c = Last(answer[e].chain)
        BY <1>1, <2>1, GrantIs, ChainIs DEF Last
      <3>2. /\ d \in Decision /\ e \in Decision /\ call[d] = None /\ call[e] = None
            /\ Takes(call[d], answer[d], c) /\ Takes(call[e], answer[e], c)
        BY <1>1, <3>1, GrantIs DEF Takes
      <3> HIDE DEF c
      <3>3. Stuck(call[d], c) \/ Stuck(call[e], c)
        BY <1>1, <2>1, <3>1, <3>2 DEF Inv, TakenOnce
      <3> QED BY <3>2, <3>3 DEF Stuck
    <2> QED BY <2>1 DEF SingleUse
  <1> QED BY <1>1, InvAlways, PTL

\* What authorize() allows was all true at the moment of its record, which is the only one,
\* although principals, revocations and clock are read one after the other.
THEOREM AllowStaysAccountable == Spec => []AllowIsAccountable
  <1>1. ASSUME Inv PROVE AllowIsAccountable
    <2>1. ASSUME NEW d \in Granted PROVE answer[d].held /\ audit[d] = <<"allow">>
      BY <1>1, GrantIs DEF AnswerOK
    <2> QED BY <2>1 DEF AllowIsAccountable, AllowedAtOneInstant, AllowIsOnRecord
  <1> QED BY <1>1, InvAlways, PTL

-----------------------------------------------------------------------------
\* Along a chain, by induction: there is no first link that would be broader.

\* A set of natural numbers that is not empty has a least element.
LEMMA LeastOf ==
  ASSUME NEW T \in SUBSET Nat, T # {}
  PROVE  \E x \in T : \A y \in T : x <= y
  <1>1. PICK x \in T : \A y \in T : ~(<<y, x>> \in OpToRel(<, Nat))
    BY NatLessThanWellFounded, WFMin
  <1>2. ASSUME NEW y \in T, y < x PROVE FALSE
    BY <1>1, <1>2 DEF OpToRel
  <1> QED BY <1>2

\* One credential grants no more than another.
Within(c, b) ==
    scope_is_monotonic(b.scope, c.scope) /\ c.expires <= b.expires /\ c.max_depth <= b.max_depth

\* Each credential of a sound chain grants no more than any before it.
LEMMA NarrowsAlong ==
  ASSUME TypeOK, NEW ch \in Chain, Sound(ch), NEW i \in 1..Len(ch), NEW n \in 1..Len(ch), i <= n
  PROVE  Within(creds[ch[n]], creds[ch[i]])
  <1>1. /\ Len(ch) \in Nat /\ DOMAIN ch = 1..Len(ch)
        /\ \A j \in 1..Len(ch) : SoundLink(ch, j) /\ creds[ch[j]] \in Content
    BY ChainIs, ParsedIs DEF Sound
  <1>2. \A j \in 1..Len(ch) : creds[ch[j]].expires \in Nat /\ creds[ch[j]].max_depth \in Nat
    BY <1>1 DEF Content
  <1> DEFINE Bad == {j \in 1..Len(ch) : i <= j /\ ~Within(creds[ch[j]], creds[ch[i]])}
  <1>3. SUFFICES ASSUME Bad # {} PROVE FALSE
    BY <1>1
  <1>4. Bad \in SUBSET Nat
    BY <1>1
  <1>5. PICK j \in Bad : \A m \in Bad : j <= m
    BY <1>3, <1>4, LeastOf
  <1>6. Within(creds[ch[i]], creds[ch[i]])
    BY <1>2 DEF Within, scope_is_monotonic
  <1>7. j \in 1..Len(ch) /\ i <= j /\ j # i
    BY <1>5, <1>6
  <1>8. j - 1 \in 1..Len(ch) /\ i <= j - 1 /\ j > 1 /\ j - 1 < j
    BY <1>1, <1>7
  <1>9. Within(creds[ch[j - 1]], creds[ch[i]])
    BY <1>5, <1>8
  <1>10. /\ creds[ch[j]].expires <= creds[ch[j - 1]].expires
         /\ is_monotonic(creds[ch[j - 1]], creds[ch[j]])
    BY <1>1, <1>7, <1>8 DEF SoundLink
  <1>11. Within(creds[ch[j]], creds[ch[i]])
    <2> DEFINE x == creds[ch[i]]
               y == creds[ch[j - 1]]
               z == creds[ch[j]]
    <2>3. \A v \in {x, y, z} : v.expires \in Int /\ v.max_depth \in Int
      BY <1>2, <1>7, <1>8
    <2>4. /\ y.expires <= x.expires /\ y.max_depth <= x.max_depth
          /\ z.expires <= y.expires /\ z.max_depth <= y.max_depth
      BY <1>9, <1>10 DEF Within, is_monotonic
    <2> HIDE DEF x, y, z
    <2>5. z.expires <= x.expires /\ z.max_depth <= x.max_depth
      BY <2>3, <2>4
    <2>1. creds[ch[j]].expires <= creds[ch[i]].expires /\ creds[ch[j]].max_depth <= creds[ch[i]].max_depth
      BY <2>5 DEF x, z
    <2>2. scope_is_monotonic(creds[ch[i]].scope, creds[ch[j]].scope)
      BY <1>9, <1>10 DEF Within, is_monotonic, scope_is_monotonic
    <2> QED BY <2>1, <2>2 DEF Within
  <1> QED BY <1>5, <1>11

\* A sound chain extended by the child that was issued for it is sound up to the grant of
\* the child's issuer, and it has not expired before the child.
LEMMA ExtendedVerifies ==
  ASSUME TypeOK, NEW ch \in Chain, Sound(ch), NEW x \in Credential, creds[x] # None,
         creds[x].issued <= now, creds[x].expires - creds[x].issued <= MAX_TTL,
         creds[x].expires <= Leaf(ch).expires, creds[x].parent = Last(ch),
         is_monotonic(Leaf(ch), creds[x]), creds[x].expires > now, MayGrant(creds[x])
  PROVE  validate_chain(Append(ch, x))
  <1> DEFINE n == Len(ch)
             e == Append(ch, x)
  <1>1. /\ n \in Nat /\ n >= 1 /\ DOMAIN ch = 1..n /\ Last(ch) = ch[n] /\ ch \in Seq(Credential)
        /\ Leaf(ch) = creds[ch[n]]
    BY ChainIs, ParsedIs DEF Last, Sound
  <1>2. DOMAIN e = 1..(n + 1) /\ e[n + 1] = x /\ \A i \in 1..n : e[i] = ch[i]
    BY <1>1, AppendProperties
  <1>3. \A i \in 1..n : SoundLink(ch, i) /\ creds[ch[i]] \in Content
    BY <1>1, ParsedIs DEF Sound
  <1>4. ASSUME NEW i \in 1..n PROVE creds[ch[i]].expires > now
    <2>1. creds[ch[n]].expires <= creds[ch[i]].expires
      BY <1>1, NarrowsAlong DEF Within
    <2>2. /\ creds[ch[i]].expires \in Nat /\ creds[ch[n]].expires \in Nat /\ creds[x].expires \in Nat
          /\ now \in Nat
      BY <1>1, <1>3 DEF Content, TypeOK
    <2> QED BY <1>1, <2>1, <2>2
  <1>5. creds[ch[n]].depth = n - 1 /\ creds[x].depth = n
    BY <1>1, <1>3 DEF SoundLink, is_monotonic
  <1> HIDE DEF e, n
  <1>6. ASSUME NEW i \in 1..n
        PROVE  LET c == creds[e[i]] IN
               /\ c.expires > now /\ c.issued <= now /\ c.expires - c.issued <= MAX_TTL
               /\ i > 1 => c.expires <= creds[e[i - 1]].expires
               /\ MayGrant(c) /\ c.depth = i - 1 /\ (i = 1 => c.parent = None)
               /\ i > 1 => c.parent = e[i - 1] /\ is_monotonic(creds[e[i - 1]], c)
    <2>1. e[i] = ch[i] /\ (i > 1 => e[i - 1] = ch[i - 1])
      BY <1>1, <1>2
    <2>2. SoundLink(ch, i)
      BY <1>3
    <2> QED BY <1>4, <2>1, <2>2 DEF SoundLink
  <1>7. LET c == creds[e[n + 1]] IN
        /\ c.expires > now /\ c.issued <= now /\ c.expires - c.issued <= MAX_TTL
        /\ c.expires <= creds[e[n]].expires
        /\ MayGrant(c) /\ c.depth = n
        /\ c.parent = e[n] /\ is_monotonic(creds[e[n]], c)
    <2>1. e[n + 1] = x /\ e[n] = ch[n]
      BY <1>1, <1>2
    <2> QED BY <1>1, <1>5, <2>1
  <1>8. ASSUME NEW i \in DOMAIN e
        PROVE  LET c == creds[e[i]] IN
               /\ c.expires > now /\ c.issued <= now /\ c.expires - c.issued <= MAX_TTL
               /\ i > 1 => c.expires <= creds[e[i - 1]].expires
               /\ MayGrant(c) /\ c.depth = i - 1 /\ (i = 1 => c.parent = None)
               /\ i > 1 => c.parent = e[i - 1] /\ is_monotonic(creds[e[i - 1]], c)
    <2>1. CASE i \in 1..n
      BY <1>6, <2>1
    <2>2. CASE i = n + 1
      BY <1>1, <1>7, <2>2
    <2> QED BY <1>1, <1>2, <2>1, <2>2
  <1>9. validate_chain_time(e)
    BY <1>8 DEF validate_chain_time
  <1>10. validate_chain(e)
    BY <1>8, <1>9 DEF validate_chain
  <1> QED BY <1>10 DEF e

\* Along a granted chain authority never grows, whoever signed the links, and a chain that
\* delegate() extended is one that authorize() accepts while the child lives.
THEOREM ChainsStayMonotonic == Spec => []ChainsAreMonotonic
  <1>1. ASSUME Inv PROVE ChainsAreMonotonic
    <2>1. AuthorityNeverGrows
      <3>1. ASSUME NEW d \in Granted
            PROVE  LET root == creds[answer[d].chain[1]]
                       leaf == Leaf(answer[d].chain)
                   IN  /\ scope_is_monotonic(root.scope, leaf.scope)
                       /\ leaf.expires <= root.expires
                       /\ leaf.depth <= root.max_depth
        <4> DEFINE ch == answer[d].chain
        <4>1. ch \in Chain /\ Sound(ch) /\ Parsed(ch) /\ TypeOK
          BY <1>1, GrantIs DEF AnswerOK, Sound, Inv
        <4> HIDE DEF ch
        <4>2. 1 \in 1..Len(ch) /\ Len(ch) \in 1..Len(ch) /\ 1 <= Len(ch)
          BY <4>1, ChainIs
        <4>3. Within(Leaf(ch), creds[ch[1]])
          BY <4>1, <4>2, NarrowsAlong DEF Leaf
        <4>4. creds[ch[1]] \in Content /\ Leaf(ch) \in Content
          BY <4>1, <4>2, ParsedIs, ChainIs
        <4>5. /\ Leaf(ch).depth \in Nat /\ Leaf(ch).max_depth \in Nat /\ creds[ch[1]].max_depth \in Nat
              /\ Leaf(ch).depth <= Leaf(ch).max_depth
          BY <4>4 DEF Content
        <4>6. Leaf(ch).depth <= creds[ch[1]].max_depth
          BY <4>3, <4>5 DEF Within
        <4> QED BY <4>3, <4>6 DEF Within, ch
      <3> QED BY <3>1 DEF AuthorityNeverGrows
    <2>2. DelegatedChainVerifies
      <3>1. ASSUME NEW d \in Granted, answer[d].child # None,
                   creds[answer[d].child].expires > now, MayGrant(creds[answer[d].child])
            PROVE  validate_chain(Append(answer[d].chain, answer[d].child))
        <4>1. /\ answer[d].chain \in Chain /\ AnswerOK(answer[d]) /\ TypeOK
              /\ answer[d].child \in Credential
          BY <1>1, <3>1, GrantIs DEF Inv
        <4> QED BY <3>1, <4>1, ExtendedVerifies DEF AnswerOK
      <3> QED BY <3>1 DEF DelegatedChainVerifies
    <2> QED BY <2>1, <2>2 DEF ChainsAreMonotonic
  <1> QED BY <1>1, InvAlways, PTL

-----------------------------------------------------------------------------
(* The decision point: capauth/authz.py and its files.                      *)

\* Process p runs the command op.
Runs(p, op) == proc[p] # Absent /\ proc[p].op = op

\* What a command is about to write.
CommandsTyped ==
    /\ DOMAIN buffer = Proc
    /\ \A p \in Proc :
        /\ Runs(p, "revoke") => proc[p].token \in TokenId /\ buffer[p] \in SUBSET TokenId
        /\ Runs(p, "assign") => /\ proc[p].assignment \in Assignment
                                /\ proc[p].assignment.class \in ClassName
                                /\ buffer[p] \in Assignments
        /\ Runs(p, "issue") => proc[p].token \in TokenId /\ buffer[p] \in File
        /\ Runs(p, "prune") => proc[p].token \in TokenId

\* Two commands of one kind are an overlap.
Single(op) == op \notin overlap => \A p, q \in Proc : Runs(p, op) /\ Runs(q, op) => p = q

\* The class file has the assignments that were made, and will have them.
ClassesLink ==
    "assign" \notin overlap =>
        /\ classes # Torn => classes = assignedDone
        /\ \A p \in Proc : Runs(p, "assign") =>
              buffer[p] = [assignedDone EXCEPT ![proc[p].assignment.name] = proc[p].assignment.class]

\* Only a process that writes the revocation list leaves it torn, unless it died; the list
\* has the revocations that were made, and will have them.
RevocationsLink ==
    /\ revocations = Torn => damaged \/ \E p \in Proc : Busy(p, "revoke", "write")
    /\ ~damaged /\ "revoke" \notin overlap =>
          /\ revocations # Torn => revokedDone \subseteq revocations
          /\ \A p \in Proc : Runs(p, "revoke") => revokedDone \cup {proc[p].token} \subseteq buffer[p]

\* A token that is being written is nobody else's business.
MintsLink ==
    \A p \in Proc, t \in TokenId : Handles(p, "issue", t) =>
        /\ mintedDone[t] = Absent
        /\ proc[p].step = "truncate" => store[t] = Absent
        /\ proc[p].step = "write" => store[t] = Torn
        /\ \A q \in Proc : Handles(q, "issue", t) => q = p
        /\ \A q \in Proc : ~Handles(q, "prune", t)

\* A token that is about to be unlinked has expired, or was not minted here.
PrunesLink ==
    \A p \in Proc, t \in TokenId : Handles(p, "prune", t) =>
        mintedDone[t] = Absent \/ is_expired(mintedDone[t])

\* What a decision under way began with still stands.
DecisionLink ==
    decision # Absent =>
        /\ decision.revokedBefore \subseteq revokedDone
        /\ LET n == decision.name
               undisputed == n # canon[n] => assignedDone[n] = Absent
           IN  decision.ceiling # Absent /\ undisputed /\ "assign" \notin overlap
               => class_permits(decision.ceiling, decision.cap)

\* The files and those who write them; decisions and what they granted.
FilesInv ==
    /\ CommandsTyped /\ Single("revoke") /\ Single("assign") /\ ClassesLink /\ RevocationsLink
    /\ MintsLink /\ PrunesLink /\ MintedTokenStays
GrantsInv == DecisionLink /\ CeilingHolds /\ RevocationMissedOnlyWhenTorn

\* The inductive invariant of authorization.
AuthzInv == AuthzTypeOK /\ FilesInv /\ GrantsInv

\* It holds at first,
LEMMA AuthzInitHolds == AuthzInit => AuthzInv
<1> SUFFICES ASSUME AuthzInit PROVE AuthzInv
  OBVIOUS
<1>1. AuthzTypeOK
  <2>1. clock \in Nat /\ damaged \in BOOLEAN
    BY DEF AuthzInit
  <2>6. commands \in 0..MaxCommands
    <3>1. MaxCommands \in Nat
      BY AuthorityAssumption
    <3> QED BY <3>1 DEF AuthzInit
  <2>2. store \in [TokenId -> File \cup {Absent, Torn}] /\ mintedDone \in [TokenId -> File \cup {Absent}]
    BY DEF AuthzInit
  <2>3. classes \in Assignments \cup {Torn} /\ assignedDone \in Assignments
    BY DEF AuthzInit, Assignments
  <2>4. device \in [Name -> Mode] /\ proc \in [Proc -> Writer \cup {Absent}]
    BY DEF AuthzInit, Mode
  <2>5. /\ revocations \in SUBSET TokenId /\ revokedDone \subseteq TokenId
        /\ overlap \subseteq {"revoke", "assign", "issue"}
        /\ decision \in DecisionState \cup {Absent} /\ granted \in Grant \cup {Absent}
    BY DEF AuthzInit
  <2> QED BY <2>1, <2>2, <2>3, <2>4, <2>5, <2>6 DEF AuthzTypeOK
<1>2. FilesInv
  BY AuthorityAssumption DEF AuthzInit, FilesInv, CommandsTyped, Runs, Single, ClassesLink, RevocationsLink,
     MintsLink, Handles, PrunesLink, MintedTokenStays
<1>3. GrantsInv
  BY DEF AuthzInit, GrantsInv, DecisionLink, CeilingHolds, RevocationMissedOnlyWhenTorn
<1> QED BY <1>1, <1>2, <1>3 DEF AuthzInv

-----------------------------------------------------------------------------
\* Decisions.

\* A decision leaves the files alone.
LEMMA DecisionReads ==
    ASSUME AuthzInv, UNCHANGED <<clock, files, proc, buffer, commands, history>>,
           decision' \in DecisionState \cup {Absent}, granted' \in Grant \cup {Absent}
    PROVE  AuthzTypeOK' /\ FilesInv'
<1>1. AuthzTypeOK'
  BY DEF AuthzInv, AuthzTypeOK, files, history
<1>2. CommandsTyped' /\ Single("revoke")' /\ Single("assign")' /\ ClassesLink' /\ RevocationsLink'
  BY DEF AuthzInv, FilesInv, files, history, CommandsTyped, Runs, Single, ClassesLink, RevocationsLink, Busy
<1>3. MintsLink' /\ PrunesLink' /\ MintedTokenStays'
  BY DEF AuthzInv, FilesInv, files, history, MintsLink, Handles, PrunesLink, MintedTokenStays, is_expired
<1> QED BY <1>1, <1>2, <1>3 DEF FilesInv

\* A decision that grants nothing, and goes on with what it began with.
LEMMA NothingGranted ==
    ASSUME AuthzInv, UNCHANGED <<clock, files, proc, buffer, commands, history>>,
           granted' = Absent, decision' \in DecisionState \cup {Absent},
           decision' # Absent => /\ decision # Absent
                                 /\ decision'.name = decision.name /\ decision'.cap = decision.cap
                                 /\ decision'.revokedBefore = decision.revokedBefore
                                 /\ decision'.ceiling = decision.ceiling
    PROVE  AuthzInv'
<1>1. AuthzTypeOK' /\ FilesInv'
  BY DecisionReads
<1>2. DecisionLink'
  BY DEF AuthzInv, GrantsInv, DecisionLink, class_permits, history
<1> QED BY <1>1, <1>2 DEF AuthzInv, GrantsInv, CeilingHolds, RevocationMissedOnlyWhenTorn

\* The class that a decision finds is the one that was assigned under the canonical name, when
\* no other was assigned under the other.
LEMMA ClassFound ==
    ASSUME AuthzInv, NEW n \in Name, NEW c \in resolve_identity_class(n), c # Torn,
           assignedDone[canon[n]] # Absent, n # canon[n] => assignedDone[n] = Absent,
           "assign" \notin overlap
    PROVE  c = assignedDone[canon[n]]
<1>1. classes # Torn
  BY DEF resolve_identity_class, load_assignments
<1>2. classes = assignedDone
  BY <1>1 DEF AuthzInv, FilesInv, ClassesLink
<1>3. canon[n] \in Name /\ assignedDone \in Assignments
  BY AuthorityAssumption DEF AuthzInv, AuthzTypeOK
<1>4. {classes[k] : k \in subject_keys(n)} \ {Absent} = {assignedDone[canon[n]]}
  BY <1>2, <1>3 DEF subject_keys
<1> QED BY <1>1, <1>4 DEF resolve_identity_class, load_assignments

\* decide() begins: the class file and the rule.
LEMMA DecideStep ==
    ASSUME AuthzInv, NEW n \in Name, NEW cap \in Requested, decide(n, cap)
    PROVE  AuthzInv'
<1>1. PICK c \in resolve_identity_class(n) :
        IF c = Torn \/ (c # Absent /\ ~class_permits(c, cap)) \/ cap \notin DOMAIN DEFAULT_RULES
        THEN deny
        ELSE Proceed([name |-> n, cap |-> cap, step |-> "devices", class |-> c, read |-> Only({}, store),
                      began |-> clock, revokedBefore |-> revokedDone, ceiling |-> assignedDone[canon[n]]])
  BY DEF decide
<1>2. UNCHANGED <<clock, files, proc, buffer, commands, history>>
  BY DEF decide
<1>3. CASE deny
  BY <1>2, <1>3, NothingGranted DEF deny
<1>4. CASE ~deny
  <2> DEFINE new == [name |-> n, cap |-> cap, step |-> "devices", class |-> c, read |-> Only({}, store),
                     began |-> clock, revokedBefore |-> revokedDone, ceiling |-> assignedDone[canon[n]]]
  <2>1. c # Torn /\ (c # Absent => class_permits(c, cap)) /\ decision' = new /\ granted' = Absent
    BY <1>1, <1>4 DEF Proceed
  <2>2. c \in ClassName \cup {Absent}
    BY <2>1 DEF resolve_identity_class, load_assignments
  <2>3. assignedDone[canon[n]] \in ClassName \cup {Absent} /\ revokedDone \in SUBSET TokenId
    BY AuthorityAssumption DEF AuthzInv, AuthzTypeOK, Assignments
  <2>4. Only({}, store) \in Reads
    BY DEF Only, Reads
  <2>5. /\ new \in DecisionState /\ new.name = n /\ new.cap = cap /\ new.revokedBefore = revokedDone
        /\ new.ceiling = assignedDone[canon[n]]
    <3>1. clock \in Nat
      BY DEF AuthzInv, AuthzTypeOK
    <3> QED BY <2>2, <2>3, <2>4, <3>1 DEF DecisionState
  <2> HIDE DEF new
  <2>6. AuthzTypeOK' /\ FilesInv'
    BY <1>2, <2>1, <2>5, DecisionReads
  <2>7. ASSUME assignedDone[canon[n]] # Absent, n # canon[n] => assignedDone[n] = Absent, "assign" \notin overlap
        PROVE  class_permits(assignedDone[canon[n]], cap)
    <3>1. c = assignedDone[canon[n]]
      BY <2>1, <2>7, ClassFound
    <3> QED BY <2>1, <2>7, <3>1
  <2>8. DecisionLink'
    BY <1>2, <2>1, <2>5, <2>7 DEF DecisionLink, history, class_permits
  <2> QED BY <2>1, <2>6, <2>8 DEF AuthzInv, GrantsInv, CeilingHolds,
                                  RevocationMissedOnlyWhenTorn
<1> QED BY <1>3, <1>4

\* decide() goes on with the devices,
LEMMA ReadDevicesStep ==
    ASSUME AuthzInv, ReadDevices
    PROVE  AuthzInv'
<1>1. PICK d \in DecisionState : d = decision
  BY DEF ReadDevices, At, AuthzInv, AuthzTypeOK
<1>2. PICK e : e = [d EXCEPT !.step = "tokens"]
  OBVIOUS
<1>3. /\ e \in DecisionState /\ e.name = d.name /\ e.cap = d.cap
      /\ e.revokedBefore = d.revokedBefore /\ e.ceiling = d.ceiling
  BY <1>2 DEF DecisionState
<1>4. /\ UNCHANGED <<clock, files, proc, buffer, commands, history>> /\ decision # Absent
      /\ granted' = Absent /\ decision' \in {Absent, e}
  BY <1>1, <1>2 DEF ReadDevices, At, deny, Proceed
<1> QED BY <1>1, <1>3, <1>4, NothingGranted

\* with the tokens,
LEMMA ReadTokensStep ==
    ASSUME AuthzInv, ReadTokens
    PROVE  AuthzInv'
<1>1. PICK d \in DecisionState : d = decision
  BY DEF ReadTokens, At, AuthzInv, AuthzTypeOK
<1> DEFINE usable == {t \in subject_tokens(decision.name) :
                        has_capability(store[t], decision.cap) /\ is_active(store[t])}
<1> HIDE DEF usable
<1>2. PICK e : e = [d EXCEPT !.step = "revocation", !.read = Only(usable, store)]
  OBVIOUS
<1> USE DEF usable
<1>3. Only(usable, store) \in Reads
  <2>1. \A t \in usable : t \in TokenId /\ store[t] \in File
    BY DEF subject_tokens, AuthzInv, AuthzTypeOK
  <2> QED BY <2>1 DEF Only, Reads
<1>4. /\ e \in DecisionState /\ e.name = d.name /\ e.cap = d.cap
      /\ e.revokedBefore = d.revokedBefore /\ e.ceiling = d.ceiling
  BY <1>2, <1>3 DEF DecisionState
<1>5. /\ UNCHANGED <<clock, files, proc, buffer, commands, history>> /\ decision # Absent
      /\ granted' = Absent /\ decision' \in {Absent, e}
  BY <1>1, <1>2 DEF ReadTokens, At, deny, Proceed
<1> QED BY <1>1, <1>4, <1>5, NothingGranted

\* What is granted rests on tokens that the revocation list, as it was read, does not have,
\* and that were signed by the issuer they name or are unsigned under the grace.
LEMMA AllowStep ==
    ASSUME AuthzInv, decision # Absent, NEW relied \in SUBSET Held(decision.read), allow(relied),
           relied \cap load_revocation_list = {},
           \A t \in relied : \/ signature_verifies(decision.read[t])
                             \/ decision.read[t].signer = Absent /\ legacy_grace,
           UNCHANGED <<clock, files, proc, buffer, commands, history>>
    PROVE  AuthzInv'
<1>1. PICK d \in DecisionState : d = decision
  BY DEF AuthzInv, AuthzTypeOK
<1> DEFINE new == [name |-> d.name, cap |-> d.cap, relied |-> Only(relied, d.read), at |-> clock,
                   torn |-> revocations = Torn, began |-> d.began, revokedBefore |-> d.revokedBefore, ceiling |-> d.ceiling]
<1>2. decision' = Absent /\ granted' = new
  BY <1>1 DEF allow
<1>3. d.read \in Reads /\ d.name \in Name /\ d.cap \in Requested /\ d.revokedBefore \in SUBSET TokenId
  BY DEF DecisionState
<1>4. PICK r : r = Only(relied, d.read)
  OBVIOUS
<1>5. r \in Reads /\ Held(r) = relied /\ \A t \in relied : r[t] = d.read[t]
  <2>1. relied \subseteq TokenId /\ \A t \in relied : d.read[t] # Absent
    BY <1>1 DEF Held
  <2> QED BY <1>3, <1>4, <2>1 DEF Only, Reads, Held
<1>6. /\ new \in Grant /\ new.name = d.name /\ new.cap = d.cap /\ new.relied = r /\ new.at = clock
      /\ new.torn <=> revocations = Torn
      /\ new.revokedBefore = d.revokedBefore /\ new.ceiling = d.ceiling
  BY <1>3, <1>4, <1>5 DEF Grant, DecisionState, AuthzInv, AuthzTypeOK
<1> HIDE DEF new
<1>7. AuthzTypeOK' /\ FilesInv'
  BY <1>2, <1>6, DecisionReads
<1>8. CeilingHolds'
  BY <1>1, <1>2, <1>6 DEF AuthzInv, GrantsInv, DecisionLink, CeilingHolds, class_permits, history
<1>10. RevocationMissedOnlyWhenTorn'
  <2>1. ASSUME ~damaged, "revoke" \notin overlap, revocations # Torn
        PROVE  relied \cap d.revokedBefore = {}
    <3>1. revokedDone \subseteq load_revocation_list
      BY <2>1 DEF AuthzInv, FilesInv, RevocationsLink, load_revocation_list
    <3>2. d.revokedBefore \subseteq revokedDone
      BY <1>1 DEF AuthzInv, GrantsInv, DecisionLink
    <3> QED BY <3>1, <3>2
  <2>2. Held(granted.relied)' = relied
    BY <1>2, <1>5, <1>6 DEF Held
  <2> QED BY <1>2, <1>6, <2>1, <2>2 DEF RevocationMissedOnlyWhenTorn, history
<1> QED BY <1>2, <1>7, <1>8, <1>10 DEF AuthzInv, GrantsInv, DecisionLink

\* and with the revocation list and the signatures.
LEMMA ReadRevocationsStep ==
    ASSUME AuthzInv, ReadRevocations
    PROVE  AuthzInv'
<1> DEFINE usable == Held(decision.read) \ load_revocation_list
           verified == {t \in usable : signature_verifies(decision.read[t])}
           invalid == {t \in usable : decision.read[t].signer # Absent} \ verified
<1>1. UNCHANGED <<clock, files, proc, buffer, commands, history>> /\ decision # Absent
  BY DEF ReadRevocations, At
<1>2. \/ allow(verified) \/ deny
      \/ allow(usable) /\ invalid = {} /\ legacy_grace
  BY DEF ReadRevocations
<1>3. CASE deny
  BY <1>1, <1>3, NothingGranted DEF deny
<1>4. CASE allow(verified)
  BY <1>1, <1>4, AllowStep
<1>5. CASE allow(usable) /\ invalid = {} /\ legacy_grace
  <2>1. \A t \in usable : signature_verifies(decision.read[t]) \/ decision.read[t].signer = Absent
    BY <1>5
  <2> QED BY <1>1, <1>5, <2>1, AllowStep
<1> QED BY <1>2, <1>3, <1>4, <1>5

-----------------------------------------------------------------------------
\* Commands.

\* No command takes back what a decision rests on.
LEMMA GrantsFrame ==
    ASSUME AuthzInv, UNCHANGED verdict, revokedDone \subseteq revokedDone', damaged => damaged',
           overlap \subseteq overlap',
           \A n \in Name : assignedDone'[n] = Absent => assignedDone[n] = Absent
    PROVE  GrantsInv'
<1>1. decision' = decision /\ granted' = granted
  BY DEF verdict
<1>2. decision # Absent => decision.name \in Name
  BY DEF AuthzInv, AuthzTypeOK, DecisionState
<1>3. granted # Absent => granted.name \in Name
  BY DEF AuthzInv, AuthzTypeOK, Grant
<1>4. DecisionLink'
  BY <1>1, <1>2 DEF AuthzInv, GrantsInv, DecisionLink, class_permits
<1>5. CeilingHolds'
  BY <1>1, <1>3 DEF AuthzInv, GrantsInv, CeilingHolds, class_permits
<1>7. RevocationMissedOnlyWhenTorn'
  BY <1>1 DEF AuthzInv, GrantsInv, RevocationMissedOnlyWhenTorn, Held
<1> QED BY <1>4, <1>5, <1>7 DEF GrantsInv

\* What a command that starts changes.
LEMMA Started ==
    ASSUME AuthzInv, NEW p \in Proc, NEW op \in {"revoke", "assign", "issue"},
           NEW t \in TokenId \cup {Absent}, NEW a \in Assignment \cup {Absent}, NEW content,
           StartWriter(p, op, t, a, content)
    PROVE  /\ AuthzTypeOK' /\ GrantsInv' /\ Single("revoke")' /\ Single("assign")'
           /\ DOMAIN buffer' = Proc /\ buffer'[p] = content /\ proc'[p] # Absent /\ proc[p] = Absent
           /\ proc'[p].op = op /\ proc'[p].step = "truncate" /\ proc'[p].token = t /\ proc'[p].assignment = a
           /\ \A q \in Proc \ {p} : proc'[q] = proc[q] /\ buffer'[q] = buffer[q]
           /\ overlap \subseteq overlap'
           /\ op \notin overlap' => \A q \in Proc : ~Runs(q, op)
           /\ UNCHANGED <<clock, files, revokedDone, assignedDone, mintedDone, damaged>>
<1> DEFINE w == [op |-> op, step |-> "truncate", token |-> t, assignment |-> a]
<1>1. w \in Writer /\ w.op = op /\ w.step = "truncate" /\ w.token = t /\ w.assignment = a
  BY DEF Writer
<1>2. /\ proc' = [proc EXCEPT ![p] = w] /\ buffer' = [buffer EXCEPT ![p] = content] /\ proc[p] = Absent
      /\ commands < MaxCommands /\ commands' = commands + 1
      /\ overlap' = overlap \cup {c \in {op} : \E q \in Proc : proc[q] # Absent /\ proc[q].op = op}
      /\ UNCHANGED <<clock, files, verdict, revokedDone, assignedDone, mintedDone, damaged>>
  BY DEF StartWriter, Counted
<1> HIDE DEF w
<1>3. /\ proc \in [Proc -> Writer \cup {Absent}] /\ DOMAIN buffer = Proc /\ w # Absent
      /\ commands \in 0..MaxCommands /\ overlap \subseteq {"revoke", "assign", "issue"}
  BY <1>1, AuthorityAssumption DEF AuthzInv, AuthzTypeOK, FilesInv, CommandsTyped
<1>4. /\ proc' \in [Proc -> Writer \cup {Absent}] /\ proc'[p] = w /\ DOMAIN buffer' = Proc /\ buffer'[p] = content
      /\ \A q \in Proc \ {p} : proc'[q] = proc[q] /\ buffer'[q] = buffer[q]
  BY <1>1, <1>2, <1>3
<1>5. commands' \in 0..MaxCommands /\ overlap' \subseteq {"revoke", "assign", "issue"} /\ overlap \subseteq overlap'
  <2>1. MaxCommands \in Nat
    BY AuthorityAssumption
  <2>2. commands' \in 0..MaxCommands
    BY <1>2, <1>3, <2>1
  <2> QED BY <1>2, <1>3, <2>2
<1>6. AuthzTypeOK'
  BY <1>2, <1>4, <1>5 DEF AuthzInv, AuthzTypeOK, files, verdict
<1>7. GrantsInv'
  BY <1>2, <1>5, GrantsFrame
<1>8. op \notin overlap' => \A q \in Proc : ~Runs(q, op)
  BY <1>2 DEF Runs
<1>9. ASSUME NEW o \in {"revoke", "assign"}, Single(o) PROVE Single(o)'
  <2> SUFFICES ASSUME o \notin overlap', NEW q \in Proc, NEW r \in Proc, Runs(q, o)', Runs(r, o)' PROVE q = r
    BY DEF Single
  <2>1. o \notin overlap
    BY <1>5
  <2>2. CASE o = op
    <3>1. \A z \in Proc \ {p} : ~Runs(z, o)'
      BY <1>4, <1>8, <2>2 DEF Runs
    <3> QED BY <3>1
  <2>3. CASE o # op
    <3>1. \A z \in Proc : Runs(z, o)' => Runs(z, o)
      BY <1>1, <1>4, <2>3 DEF Runs
    <3> QED BY <1>9, <2>1, <3>1 DEF Single
  <2> QED BY <2>2, <2>3
<1>10. Single("revoke")' /\ Single("assign")'
  BY <1>9 DEF AuthzInv, FilesInv
<1> QED BY <1>1, <1>2, <1>3, <1>4, <1>5, <1>6, <1>7, <1>8, <1>10

\* revoke_token() reads the list that has every revocation that was made.
LEMMA RevokeStep ==
    ASSUME AuthzInv, NEW p \in Proc, NEW t \in TokenId, revoke_token(p, t)
    PROVE  AuthzInv'
<1>1. StartWriter(p, "revoke", t, Absent, RevocationsWith(t))
  BY DEF revoke_token
<1>2. RevocationsWith(t) \in SUBSET TokenId
  BY DEF RevocationsWith, load_revocation_list, AuthzInv, AuthzTypeOK
<1>3. /\ AuthzTypeOK' /\ GrantsInv' /\ Single("revoke")' /\ Single("assign")'
      /\ DOMAIN buffer' = Proc /\ buffer'[p] = RevocationsWith(t) /\ proc'[p] # Absent /\ proc[p] = Absent
      /\ proc'[p].op = "revoke" /\ proc'[p].step = "truncate" /\ proc'[p].token = t
      /\ \A q \in Proc \ {p} : proc'[q] = proc[q] /\ buffer'[q] = buffer[q]
      /\ overlap \subseteq overlap'
      /\ "revoke" \notin overlap' => \A q \in Proc : ~Runs(q, "revoke")
      /\ UNCHANGED <<clock, files, revokedDone, assignedDone, mintedDone, damaged>>
  BY <1>1, Started
<1>4. CommandsTyped'
  BY <1>2, <1>3 DEF AuthzInv, FilesInv, CommandsTyped, Runs
<1>5. ClassesLink'
  <2>1. \A q \in Proc : Runs(q, "assign")' => q # p /\ Runs(q, "assign")
    BY <1>3 DEF Runs
  <2>2. classes' = classes /\ assignedDone' = assignedDone /\ ("assign" \in overlap => "assign" \in overlap')
    BY <1>3 DEF files
  <2>3. ClassesLink
    BY DEF AuthzInv, FilesInv
  <2>4. ASSUME "assign" \notin overlap', NEW q \in Proc, Runs(q, "assign")'
        PROVE  buffer'[q] = [assignedDone' EXCEPT ![proc'[q].assignment.name] = proc'[q].assignment.class]
    <3>1. buffer[q] = [assignedDone EXCEPT ![proc[q].assignment.name] = proc[q].assignment.class]
      BY <2>1, <2>2, <2>3, <2>4 DEF ClassesLink
    <3>2. buffer'[q] = buffer[q] /\ proc'[q] = proc[q]
      BY <1>3, <2>1, <2>4
    <3> QED BY <2>2, <3>1, <3>2
  <2> QED BY <2>2, <2>3, <2>4 DEF ClassesLink
<1>6. RevocationsLink'
  <2>1. revocations' = revocations /\ revokedDone' = revokedDone /\ damaged' = damaged
    BY <1>3 DEF files
  <2>2. revocations = Torn => damaged \/ \E q \in Proc : Busy(q, "revoke", "write")'
    BY <1>3 DEF AuthzInv, FilesInv, RevocationsLink, Busy
  <2>3. ASSUME ~damaged, "revoke" \notin overlap' PROVE revokedDone \cup {t} \subseteq RevocationsWith(t)
    <3>1. revocations # Torn
      BY <1>3, <2>3 DEF AuthzInv, FilesInv, RevocationsLink, Busy, Runs
    <3> QED BY <1>3, <2>3, <3>1 DEF AuthzInv, FilesInv, RevocationsLink, RevocationsWith, load_revocation_list
  <2>4. ASSUME ~damaged, "revoke" \notin overlap', NEW q \in Proc, Runs(q, "revoke")' PROVE q = p
    BY <1>3, <2>4 DEF Runs
  <2>5. ~damaged /\ "revoke" \notin overlap' /\ revocations # Torn => revokedDone \subseteq revocations
    BY <1>3 DEF AuthzInv, FilesInv, RevocationsLink
  <2> QED BY <1>3, <2>1, <2>2, <2>3, <2>4, <2>5 DEF RevocationsLink
<1>7. MintsLink'
  BY <1>3 DEF AuthzInv, FilesInv, MintsLink, Handles, files
<1>8. PrunesLink' /\ MintedTokenStays'
  BY <1>3 DEF AuthzInv, FilesInv, PrunesLink, MintedTokenStays, Handles, files, is_expired
<1> QED BY <1>3, <1>4, <1>5, <1>6, <1>7, <1>8 DEF AuthzInv, FilesInv

\* assign_identity_class() reads the map that has every assignment that was made.
LEMMA AssignStep ==
    ASSUME AuthzInv, NEW p \in Proc, NEW a \in Assigned, assign_identity_class(p, a)
    PROVE  AuthzInv'
<1> DEFINE new == [load_assignments EXCEPT ![a.name] = a.class]
<1>1. StartWriter(p, "assign", Absent, a, new) /\ a.class \in ClassName /\ classes # Torn
  BY DEF assign_identity_class, known_class, load_assignments
<1>2. a \in Assignment /\ a.name \in Name
  BY AuthorityAssumption DEF Assignment
<1>3. new \in Assignments /\ load_assignments = classes
  BY <1>1, <1>2 DEF load_assignments, AuthzInv, AuthzTypeOK, Assignments
<1>4. "assign" \notin overlap => new = [assignedDone EXCEPT ![a.name] = a.class]
  BY <1>1, <1>3 DEF AuthzInv, FilesInv, ClassesLink
<1> HIDE DEF new
<1>5. /\ AuthzTypeOK' /\ GrantsInv' /\ Single("revoke")' /\ Single("assign")'
      /\ DOMAIN buffer' = Proc /\ buffer'[p] = new /\ proc'[p] # Absent /\ proc[p] = Absent
      /\ proc'[p].op = "assign" /\ proc'[p].step = "truncate" /\ proc'[p].assignment = a
      /\ \A q \in Proc \ {p} : proc'[q] = proc[q] /\ buffer'[q] = buffer[q]
      /\ overlap \subseteq overlap'
      /\ UNCHANGED <<clock, files, revokedDone, assignedDone, mintedDone, damaged>>
  BY <1>1, <1>2, Started
<1>6. CommandsTyped'
  BY <1>1, <1>2, <1>3, <1>5 DEF AuthzInv, FilesInv, CommandsTyped, Runs
<1>7. ClassesLink'
  <2>1. \A q \in Proc \ {p} : Runs(q, "assign")' => Runs(q, "assign")
    BY <1>5 DEF Runs
  <2>2. classes' = classes /\ assignedDone' = assignedDone /\ ("assign" \in overlap => "assign" \in overlap')
    BY <1>5 DEF files
  <2>3. ClassesLink
    BY DEF AuthzInv, FilesInv
  <2>4. ASSUME "assign" \notin overlap', NEW q \in Proc, Runs(q, "assign")'
        PROVE  buffer'[q] = [assignedDone' EXCEPT ![proc'[q].assignment.name] = proc'[q].assignment.class]
    <3>1. CASE q = p
      BY <1>4, <1>5, <2>2, <2>4, <3>1
    <3>2. CASE q # p
      <4>1. buffer[q] = [assignedDone EXCEPT ![proc[q].assignment.name] = proc[q].assignment.class]
        BY <2>1, <2>2, <2>3, <2>4, <3>2 DEF ClassesLink
      <4>2. buffer'[q] = buffer[q] /\ proc'[q] = proc[q]
        BY <1>5, <3>2
      <4> QED BY <2>2, <4>1, <4>2
    <3> QED BY <3>1, <3>2
  <2>5. classes' # Torn /\ "assign" \notin overlap' => classes' = assignedDone'
    BY <2>2, <2>3 DEF ClassesLink
  <2> QED BY <2>4, <2>5 DEF ClassesLink
<1>8. RevocationsLink'
  BY <1>5 DEF AuthzInv, FilesInv, RevocationsLink, Runs, Busy, files
<1>9. MintsLink'
  BY <1>5 DEF AuthzInv, FilesInv, MintsLink, Handles, files
<1>10. PrunesLink' /\ MintedTokenStays'
  BY <1>5 DEF AuthzInv, FilesInv, PrunesLink, MintedTokenStays, Handles, files, is_expired
<1> QED BY <1>5, <1>6, <1>7, <1>8, <1>9, <1>10 DEF AuthzInv, FilesInv

\* issue_token() takes an id that nobody writes or unlinks.
LEMMA IssueStep ==
    ASSUME AuthzInv, NEW p \in Proc, NEW t \in TokenId, NEW m \in Minted, issue_token(p, t, m)
    PROVE  AuthzInv'
<1> DEFINE new == mint_audience_token(m)
<1>1. /\ StartWriter(p, "issue", t, Absent, new) /\ store[t] = Absent /\ mintedDone[t] = Absent
      /\ \A q \in Proc : ~Handles(q, "issue", t) /\ ~Handles(q, "prune", t)
  BY DEF issue_token
<1>2. m.subject \in Name /\ m.capabilities \in SUBSET STRING /\ m.ttl \in Nat \cup {Absent}
  BY AuthorityAssumption DEF Mint
<1>3. (IF m.ttl \in {Absent, 0} THEN Absent ELSE clock + m.ttl) \in Nat \cup {Absent}
  BY <1>2 DEF AuthzInv, AuthzTypeOK
<1>4. new \in File
  BY <1>2, <1>3, AuthorityAssumption DEF mint_audience_token, apply_signature, File
<1> HIDE DEF new
<1>5. /\ AuthzTypeOK' /\ GrantsInv' /\ Single("revoke")' /\ Single("assign")'
      /\ DOMAIN buffer' = Proc /\ buffer'[p] = new /\ proc'[p] # Absent /\ proc[p] = Absent
      /\ proc'[p].op = "issue" /\ proc'[p].step = "truncate" /\ proc'[p].token = t
      /\ \A q \in Proc \ {p} : proc'[q] = proc[q] /\ buffer'[q] = buffer[q]
      /\ overlap \subseteq overlap'
      /\ UNCHANGED <<clock, files, revokedDone, assignedDone, mintedDone, damaged>>
  BY <1>1, Started
<1>6. CommandsTyped'
  BY <1>4, <1>5 DEF AuthzInv, FilesInv, CommandsTyped, Runs
<1>7. ClassesLink'
  <2>1. \A q \in Proc : Runs(q, "assign")' => q # p /\ Runs(q, "assign")
    BY <1>5 DEF Runs
  <2>2. classes' = classes /\ assignedDone' = assignedDone /\ ("assign" \in overlap => "assign" \in overlap')
    BY <1>5 DEF files
  <2>3. ClassesLink
    BY DEF AuthzInv, FilesInv
  <2>4. ASSUME "assign" \notin overlap', NEW q \in Proc, Runs(q, "assign")'
        PROVE  buffer'[q] = [assignedDone' EXCEPT ![proc'[q].assignment.name] = proc'[q].assignment.class]
    <3>1. buffer[q] = [assignedDone EXCEPT ![proc[q].assignment.name] = proc[q].assignment.class]
      BY <2>1, <2>2, <2>3, <2>4 DEF ClassesLink
    <3>2. buffer'[q] = buffer[q] /\ proc'[q] = proc[q]
      BY <1>5, <2>1, <2>4
    <3> QED BY <2>2, <3>1, <3>2
  <2> QED BY <2>2, <2>3, <2>4 DEF ClassesLink
<1>8. RevocationsLink'
  BY <1>5 DEF AuthzInv, FilesInv, RevocationsLink, Runs, Busy, files
<1>9. MintsLink'
  BY <1>1, <1>5 DEF AuthzInv, FilesInv, MintsLink, Handles, files
<1>10. PrunesLink' /\ MintedTokenStays'
  BY <1>5 DEF AuthzInv, FilesInv, PrunesLink, MintedTokenStays, Handles, files, is_expired
<1> QED BY <1>5, <1>6, <1>7, <1>8, <1>9, <1>10 DEF AuthzInv, FilesInv


\* A process that truncates its file goes on to write it.
LEMMA TruncateFrame ==
    ASSUME AuthzInv, NEW p \in Proc, NEW op \in {"revoke", "assign", "issue"}, Busy(p, op, "truncate"),
           Truncated(p)
    PROVE  /\ proc' \in [Proc -> Writer \cup {Absent}] /\ proc'[p] # Absent /\ proc[p] # Absent
           /\ proc'[p].op = op /\ proc[p].op = op /\ proc'[p].step = "write" /\ proc[p].step = "truncate"
           /\ proc'[p].token = proc[p].token /\ proc'[p].assignment = proc[p].assignment
           /\ \A q \in Proc \ {p} : proc'[q] = proc[q]
           /\ UNCHANGED <<clock, device, buffer, verdict, commands, history>>
           /\ CommandsTyped' /\ Single("revoke")' /\ Single("assign")' /\ GrantsInv'
<1>1. proc \in [Proc -> Writer \cup {Absent}] /\ proc[p] # Absent /\ proc[p].op = op /\ proc[p].step = "truncate"
  BY DEF AuthzInv, AuthzTypeOK, Busy
<1>2. PICK w \in Writer : w = proc[p]
  BY <1>1
<1>3. PICK v : v = [w EXCEPT !.step = "write"]
  OBVIOUS
<1>4. v \in Writer /\ v.op = w.op /\ v.step = "write" /\ v.token = w.token /\ v.assignment = w.assignment
  BY <1>3 DEF Writer
<1>5. proc' = [proc EXCEPT ![p] = v] /\ UNCHANGED <<clock, device, buffer, verdict, commands, history>>
  BY <1>2, <1>3 DEF Truncated
<1>6. v # Absent
  BY <1>4, AuthorityAssumption
<1>7. /\ proc' \in [Proc -> Writer \cup {Absent}] /\ proc'[p] = v
      /\ \A q \in Proc \ {p} : proc'[q] = proc[q]
  BY <1>1, <1>4, <1>5
<1>8. \A q \in Proc : /\ proc'[q] # Absent <=> proc[q] # Absent
                      /\ proc'[q].op = proc[q].op /\ proc'[q].token = proc[q].token
                      /\ proc'[q].assignment = proc[q].assignment
  BY <1>1, <1>2, <1>4, <1>6, <1>7
<1>9. CommandsTyped'
  BY <1>5, <1>8 DEF AuthzInv, FilesInv, CommandsTyped, Runs
<1>10. Single("revoke")' /\ Single("assign")'
  BY <1>5, <1>8 DEF AuthzInv, FilesInv, Single, Runs, history
<1>11. GrantsInv'
  BY <1>5, GrantsFrame DEF history
<1> QED BY <1>1, <1>2, <1>4, <1>5, <1>6, <1>7, <1>9, <1>10, <1>11

\* The revocation list is torn while its writer is at work.
LEMMA TruncateRevocationsStep ==
    ASSUME AuthzInv, NEW p \in Proc, TruncateRevocations(p)
    PROVE  AuthzInv'
<1>1. Busy(p, "revoke", "truncate") /\ revocations' = Torn /\ Truncated(p) /\ UNCHANGED <<store, classes>>
  BY DEF TruncateRevocations
<1>2. /\ proc' \in [Proc -> Writer \cup {Absent}] /\ proc'[p] # Absent /\ proc[p] # Absent
      /\ proc'[p].op = "revoke" /\ proc[p].op = "revoke" /\ proc'[p].step = "write"
      /\ proc'[p].token = proc[p].token
      /\ \A q \in Proc \ {p} : proc'[q] = proc[q]
      /\ UNCHANGED <<clock, device, buffer, verdict, commands, history>>
      /\ CommandsTyped' /\ Single("revoke")' /\ Single("assign")' /\ GrantsInv'
  BY <1>1, TruncateFrame
<1>3. AuthzTypeOK'
  BY <1>1, <1>2 DEF AuthzInv, AuthzTypeOK, verdict, history
<1>4. ClassesLink'
  BY <1>1, <1>2 DEF AuthzInv, FilesInv, ClassesLink, Runs, history
<1>5. RevocationsLink'
  BY <1>1, <1>2 DEF AuthzInv, FilesInv, RevocationsLink, Runs, Busy, history
<1>6. MintsLink'
  BY <1>1, <1>2 DEF AuthzInv, FilesInv, MintsLink, Handles, history
<1>7. PrunesLink' /\ MintedTokenStays'
  BY <1>1, <1>2 DEF AuthzInv, FilesInv, PrunesLink, MintedTokenStays, Handles, history, is_expired
<1> QED BY <1>2, <1>3, <1>4, <1>5, <1>6, <1>7 DEF AuthzInv, FilesInv

\* So is the class file.
LEMMA TruncateClassesStep ==
    ASSUME AuthzInv, NEW p \in Proc, TruncateClasses(p)
    PROVE  AuthzInv'
<1>1. Busy(p, "assign", "truncate") /\ classes' = Torn /\ Truncated(p) /\ UNCHANGED <<store, revocations>>
  BY DEF TruncateClasses
<1>2. /\ proc' \in [Proc -> Writer \cup {Absent}] /\ proc'[p] # Absent /\ proc[p] # Absent
      /\ proc'[p].op = "assign" /\ proc[p].op = "assign" /\ proc'[p].assignment = proc[p].assignment
      /\ \A q \in Proc \ {p} : proc'[q] = proc[q]
      /\ UNCHANGED <<clock, device, buffer, verdict, commands, history>>
      /\ CommandsTyped' /\ Single("revoke")' /\ Single("assign")' /\ GrantsInv'
  BY <1>1, TruncateFrame
<1>3. AuthzTypeOK'
  BY <1>1, <1>2 DEF AuthzInv, AuthzTypeOK, verdict, history
<1>4. ClassesLink'
  BY <1>1, <1>2 DEF AuthzInv, FilesInv, ClassesLink, Runs, history
<1>5. RevocationsLink'
  BY <1>1, <1>2 DEF AuthzInv, FilesInv, RevocationsLink, Runs, Busy, history
<1>6. MintsLink'
  BY <1>1, <1>2 DEF AuthzInv, FilesInv, MintsLink, Handles, history
<1>7. PrunesLink' /\ MintedTokenStays'
  BY <1>1, <1>2 DEF AuthzInv, FilesInv, PrunesLink, MintedTokenStays, Handles, history, is_expired
<1> QED BY <1>2, <1>3, <1>4, <1>5, <1>6, <1>7 DEF AuthzInv, FilesInv

\* The file of a token that is issued is torn, and no other process has it.
LEMMA TruncateTokenStep ==
    ASSUME AuthzInv, NEW p \in Proc, TruncateToken(p)
    PROVE  AuthzInv'
<1>1. /\ Busy(p, "issue", "truncate") /\ store' = [store EXCEPT ![proc[p].token] = Torn]
      /\ Truncated(p) /\ UNCHANGED <<revocations, classes>>
  BY DEF TruncateToken
<1>2. /\ proc' \in [Proc -> Writer \cup {Absent}] /\ proc'[p] # Absent /\ proc[p] # Absent
      /\ proc'[p].op = "issue" /\ proc[p].op = "issue" /\ proc'[p].step = "write" /\ proc[p].step = "truncate"
      /\ proc'[p].token = proc[p].token
      /\ \A q \in Proc \ {p} : proc'[q] = proc[q]
      /\ UNCHANGED <<clock, device, buffer, verdict, commands, history>>
      /\ CommandsTyped' /\ Single("revoke")' /\ Single("assign")' /\ GrantsInv'
  BY <1>1, TruncateFrame
<1>3. PICK t \in TokenId : t = proc[p].token
  BY <1>2 DEF AuthzInv, FilesInv, CommandsTyped, Runs
<1>4. /\ store' \in [TokenId -> File \cup {Absent, Torn}] /\ store'[t] = Torn
      /\ \A u \in TokenId \ {t} : store'[u] = store[u]
  BY <1>1, <1>3 DEF AuthzInv, AuthzTypeOK
<1>5. /\ mintedDone[t] = Absent
      /\ \A q \in Proc : (Handles(q, "issue", t) => q = p) /\ ~Handles(q, "prune", t)
  BY <1>2, <1>3 DEF AuthzInv, FilesInv, MintsLink, Handles
<1>6. AuthzTypeOK'
  BY <1>1, <1>2, <1>4 DEF AuthzInv, AuthzTypeOK, verdict, history
<1>7. ClassesLink'
  BY <1>1, <1>2 DEF AuthzInv, FilesInv, ClassesLink, Runs, history
<1>8. RevocationsLink'
  BY <1>1, <1>2 DEF AuthzInv, FilesInv, RevocationsLink, Runs, Busy, history
<1>9. MintsLink'
  <2> SUFFICES ASSUME NEW r \in Proc, NEW u \in TokenId, Handles(r, "issue", u)'
               PROVE  /\ mintedDone'[u] = Absent
                      /\ proc'[r].step = "truncate" => store'[u] = Absent
                      /\ proc'[r].step = "write" => store'[u] = Torn
                      /\ \A q \in Proc : Handles(q, "issue", u)' => q = r
                      /\ \A q \in Proc : ~Handles(q, "prune", u)'
    BY DEF MintsLink
  <2>1. \A q \in Proc, o \in {"issue", "prune"} : Handles(q, o, u)' <=> Handles(q, o, u)
    BY <1>2 DEF Handles
  <2>2. /\ mintedDone[u] = Absent
        /\ proc[r].step = "truncate" => store[u] = Absent
        /\ proc[r].step = "write" => store[u] = Torn
        /\ \A q \in Proc : (Handles(q, "issue", u) => q = r) /\ ~Handles(q, "prune", u)
    BY <2>1 DEF AuthzInv, FilesInv, MintsLink
  <2>3. CASE u = t
    BY <1>2, <1>4, <1>5, <2>1, <2>2, <2>3 DEF history
  <2>4. CASE u # t
    <3>1. r # p
      BY <1>3, <2>1, <2>4 DEF Handles
    <3> QED BY <1>2, <1>4, <2>1, <2>2, <2>4, <3>1 DEF history
  <2> QED BY <2>3, <2>4
<1>10. PrunesLink' /\ MintedTokenStays'
  BY <1>2, <1>4, <1>5 DEF AuthzInv, FilesInv, PrunesLink, MintedTokenStays, Handles, history, is_expired
<1> QED BY <1>2, <1>6, <1>7, <1>8, <1>9, <1>10 DEF AuthzInv, FilesInv

\* A process that has done, or died.
LEMMA EndFrame ==
    ASSUME AuthzInv, NEW p \in Proc, proc[p] # Absent, proc' = [proc EXCEPT ![p] = Absent],
           buffer' = [buffer EXCEPT ![p] = Absent], overlap' = overlap
    PROVE  /\ proc' \in [Proc -> Writer \cup {Absent}] /\ proc'[p] = Absent
           /\ \A q \in Proc \ {p} : proc'[q] = proc[q] /\ buffer'[q] = buffer[q]
           /\ CommandsTyped' /\ Single("revoke")' /\ Single("assign")'
<1>1. proc \in [Proc -> Writer \cup {Absent}] /\ DOMAIN buffer = Proc
  BY DEF AuthzInv, AuthzTypeOK, FilesInv, CommandsTyped
<1>2. /\ proc' \in [Proc -> Writer \cup {Absent}] /\ proc'[p] = Absent /\ DOMAIN buffer' = Proc
      /\ \A q \in Proc \ {p} : proc'[q] = proc[q] /\ buffer'[q] = buffer[q]
  BY <1>1
<1>3. CommandsTyped'
  BY <1>2 DEF AuthzInv, FilesInv, CommandsTyped, Runs
<1>4. Single("revoke")' /\ Single("assign")'
  BY <1>2 DEF AuthzInv, FilesInv, Single, Runs
<1> QED BY <1>2, <1>3, <1>4

\* The list that revoke_token() writes has what was revoked before and what it revokes.
LEMMA WriteRevocationsStep ==
    ASSUME AuthzInv, NEW p \in Proc, WriteRevocations(p)
    PROVE  AuthzInv'
<1>1. /\ Busy(p, "revoke", "write") /\ revocations' = buffer[p] /\ revokedDone' = revokedDone \cup {proc[p].token}
      /\ proc' = [proc EXCEPT ![p] = Absent] /\ buffer' = [buffer EXCEPT ![p] = Absent]
      /\ UNCHANGED <<clock, device, verdict, commands, store, classes, assignedDone, mintedDone, damaged, overlap>>
  BY DEF WriteRevocations, Written
<1>2. Runs(p, "revoke") /\ proc[p] # Absent /\ proc[p].token \in TokenId /\ buffer[p] \in SUBSET TokenId
  BY <1>1 DEF AuthzInv, FilesInv, CommandsTyped, Runs, Busy
<1>3. /\ proc' \in [Proc -> Writer \cup {Absent}] /\ proc'[p] = Absent
      /\ \A q \in Proc \ {p} : proc'[q] = proc[q] /\ buffer'[q] = buffer[q]
      /\ CommandsTyped' /\ Single("revoke")' /\ Single("assign")'
  BY <1>1, <1>2, EndFrame
<1>4. AuthzTypeOK'
  BY <1>1, <1>2, <1>3 DEF AuthzInv, AuthzTypeOK, verdict
<1>5. GrantsInv'
  BY <1>1, GrantsFrame
<1>6. ClassesLink'
  BY <1>1, <1>3 DEF AuthzInv, FilesInv, ClassesLink, Runs
<1>7. RevocationsLink'
  <2>1. revocations' # Torn
    BY <1>1, <1>2, AuthorityAssumption
  <2>2. ASSUME ~damaged, "revoke" \notin overlap
        PROVE  /\ revokedDone' \subseteq revocations'
               /\ \A q \in Proc : ~Runs(q, "revoke")'
    <3>1. \A q \in Proc : ~Runs(q, "revoke")'
      BY <1>2, <1>3, <2>2 DEF AuthzInv, FilesInv, Single, Runs
    <3>2. revokedDone \subseteq buffer[p] /\ proc[p].token \in buffer[p]
      BY <1>2, <2>2 DEF AuthzInv, FilesInv, RevocationsLink
    <3> QED BY <1>1, <3>1, <3>2
  <2> QED BY <1>1, <2>1, <2>2 DEF RevocationsLink
<1>8. MintsLink'
  BY <1>1, <1>3 DEF AuthzInv, FilesInv, MintsLink, Handles
<1>9. PrunesLink' /\ MintedTokenStays'
  BY <1>1, <1>3 DEF AuthzInv, FilesInv, PrunesLink, MintedTokenStays, Handles, is_expired
<1> QED BY <1>3, <1>4, <1>5, <1>6, <1>7, <1>8, <1>9 DEF AuthzInv, FilesInv


\* The map that is written is the one there was and the new assignment.
LEMMA WriteClassesStep ==
    ASSUME AuthzInv, NEW p \in Proc, WriteClasses(p)
    PROVE  AuthzInv'
<1>1. PICK a : a = proc[p].assignment
  OBVIOUS
<1>2. /\ Busy(p, "assign", "write") /\ classes' = buffer[p]
      /\ assignedDone' = [assignedDone EXCEPT ![a.name] = a.class]
      /\ proc' = [proc EXCEPT ![p] = Absent] /\ buffer' = [buffer EXCEPT ![p] = Absent]
      /\ UNCHANGED <<clock, device, verdict, commands, store, revocations, revokedDone, mintedDone, damaged, overlap>>
  BY <1>1 DEF WriteClasses, Written
<1>3. /\ Runs(p, "assign") /\ proc[p] # Absent /\ a.name \in Name /\ a.class \in ClassName
      /\ buffer[p] \in Assignments
  BY <1>1, <1>2 DEF AuthzInv, FilesInv, CommandsTyped, Runs, Busy, Assignment
<1>4. assignedDone' \in Assignments /\ \A n \in Name : assignedDone'[n] = Absent => assignedDone[n] = Absent
  <2>1. a.class # Absent
    BY <1>3, AuthorityAssumption
  <2> QED BY <1>2, <1>3, <2>1 DEF AuthzInv, AuthzTypeOK, Assignments
<1>5. /\ proc' \in [Proc -> Writer \cup {Absent}] /\ proc'[p] = Absent
      /\ \A q \in Proc \ {p} : proc'[q] = proc[q] /\ buffer'[q] = buffer[q]
      /\ CommandsTyped' /\ Single("revoke")' /\ Single("assign")'
  BY <1>2, <1>3, EndFrame
<1>6. AuthzTypeOK'
  BY <1>2, <1>3, <1>4, <1>5 DEF AuthzInv, AuthzTypeOK, verdict
<1>7. GrantsInv'
  BY <1>2, <1>4, GrantsFrame
<1>8. ClassesLink'
  <2>1. ASSUME "assign" \notin overlap
        PROVE  classes' = assignedDone' /\ \A q \in Proc : ~Runs(q, "assign")'
    <3>1. \A q \in Proc : ~Runs(q, "assign")'
      BY <1>3, <1>5, <2>1 DEF AuthzInv, FilesInv, Single, Runs
    <3> QED BY <1>1, <1>2, <1>3, <2>1, <3>1 DEF AuthzInv, FilesInv, ClassesLink
  <2> QED BY <1>2, <2>1 DEF ClassesLink
<1>9. RevocationsLink'
  BY <1>2, <1>5 DEF AuthzInv, FilesInv, RevocationsLink, Runs, Busy
<1>10. MintsLink'
  BY <1>2, <1>5 DEF AuthzInv, FilesInv, MintsLink, Handles
<1>11. PrunesLink' /\ MintedTokenStays'
  BY <1>2, <1>5 DEF AuthzInv, FilesInv, PrunesLink, MintedTokenStays, Handles, is_expired
<1> QED BY <1>5, <1>6, <1>7, <1>8, <1>9, <1>10, <1>11 DEF AuthzInv, FilesInv

\* The token that is written is in the store.
LEMMA WriteTokenStep ==
    ASSUME AuthzInv, NEW p \in Proc, WriteToken(p)
    PROVE  AuthzInv'
<1>1. /\ Busy(p, "issue", "write")
      /\ store' = [store EXCEPT ![proc[p].token] = IF @ = Absent THEN Absent ELSE buffer[p]]
      /\ mintedDone' = [mintedDone EXCEPT ![proc[p].token] = buffer[p]]
      /\ proc' = [proc EXCEPT ![p] = Absent] /\ buffer' = [buffer EXCEPT ![p] = Absent]
      /\ UNCHANGED <<clock, device, verdict, commands, revocations, classes, revokedDone, assignedDone, damaged, overlap>>
  BY DEF WriteToken, Written
<1>2. proc[p] # Absent /\ proc[p].op = "issue" /\ proc[p].step = "write" /\ proc[p].token \in TokenId
      /\ buffer[p] \in File
  BY <1>1 DEF AuthzInv, FilesInv, CommandsTyped, Runs, Busy
<1>3. PICK t \in TokenId : t = proc[p].token
  BY <1>2
<1>4. /\ store[t] = Torn
      /\ \A q \in Proc : (Handles(q, "issue", t) => q = p) /\ ~Handles(q, "prune", t)
  BY <1>2, <1>3 DEF AuthzInv, FilesInv, MintsLink, Handles
<1>5. /\ store' \in [TokenId -> File \cup {Absent, Torn}] /\ store'[t] = buffer[p]
      /\ \A u \in TokenId \ {t} : store'[u] = store[u]
  BY <1>1, <1>2, <1>3, <1>4, AuthorityAssumption DEF AuthzInv, AuthzTypeOK
<1>6. /\ mintedDone' \in [TokenId -> File \cup {Absent}] /\ mintedDone'[t] = buffer[p]
      /\ \A u \in TokenId \ {t} : mintedDone'[u] = mintedDone[u]
  BY <1>1, <1>2, <1>3 DEF AuthzInv, AuthzTypeOK
<1>7. /\ proc' \in [Proc -> Writer \cup {Absent}] /\ proc'[p] = Absent
      /\ \A q \in Proc \ {p} : proc'[q] = proc[q] /\ buffer'[q] = buffer[q]
      /\ CommandsTyped' /\ Single("revoke")' /\ Single("assign")'
  BY <1>1, <1>2, EndFrame
<1>8. AuthzTypeOK'
  BY <1>1, <1>5, <1>6, <1>7 DEF AuthzInv, AuthzTypeOK, verdict
<1>9. GrantsInv'
  BY <1>1, GrantsFrame
<1>10. ClassesLink'
  BY <1>1, <1>7 DEF AuthzInv, FilesInv, ClassesLink, Runs
<1>11. RevocationsLink'
  BY <1>1, <1>2, <1>7 DEF AuthzInv, FilesInv, RevocationsLink, Runs, Busy
<1>12. \A q \in Proc, u \in TokenId, o \in {"issue", "prune"} : Handles(q, o, u)' => Handles(q, o, u) /\ q # p /\ u # t
  BY <1>4, <1>7 DEF Handles
<1>13. MintsLink'
  BY <1>5, <1>6, <1>7, <1>12 DEF AuthzInv, FilesInv, MintsLink
<1>14. PrunesLink'
  BY <1>1, <1>6, <1>12 DEF AuthzInv, FilesInv, PrunesLink, is_expired
<1>15. MintedTokenStays'
  BY <1>1, <1>5, <1>6 DEF AuthzInv, FilesInv, MintedTokenStays, is_expired
<1> QED BY <1>7, <1>8, <1>9, <1>10, <1>11, <1>13, <1>14, <1>15 DEF AuthzInv, FilesInv

\* What prune_expired_tokens() finds expired was not minted here, or has expired.
LEMMA PruneStep ==
    ASSUME AuthzInv, NEW p \in Proc, NEW t \in TokenId, prune(p, t)
    PROVE  AuthzInv'
<1> DEFINE w == [op |-> "prune", step |-> "write", token |-> t, assignment |-> Absent]
<1>1. /\ Prunable(t) /\ proc[p] = Absent /\ proc' = [proc EXCEPT ![p] = w]
      /\ commands < MaxCommands /\ commands' = commands + 1
      /\ UNCHANGED <<clock, files, buffer, verdict, history>>
  BY DEF prune, Counted
<1>2. w \in Writer /\ w.op = "prune" /\ w.token = t
  BY DEF Writer
<1> HIDE DEF w
<1>3. /\ proc' \in [Proc -> Writer \cup {Absent}] /\ proc'[p] = w
      /\ \A q \in Proc \ {p} : proc'[q] = proc[q]
  BY <1>1, <1>2 DEF AuthzInv, AuthzTypeOK
<1>4. commands' \in 0..MaxCommands
  <2>1. MaxCommands \in Nat /\ commands \in 0..MaxCommands
    BY AuthorityAssumption DEF AuthzInv, AuthzTypeOK
  <2> QED BY <1>1, <2>1
<1>5. AuthzTypeOK'
  BY <1>1, <1>3, <1>4 DEF AuthzInv, AuthzTypeOK, files, verdict, history
<1>6. GrantsInv'
  BY <1>1, GrantsFrame DEF history
<1>7. \A q \in Proc, o \in {"revoke", "assign", "issue"} : Runs(q, o)' => Runs(q, o) /\ q # p
  BY <1>2, <1>3 DEF Runs
<1>8. CommandsTyped'
  <2>1. DOMAIN buffer = Proc
    BY DEF AuthzInv, FilesInv, CommandsTyped
  <2> QED BY <1>1, <1>2, <1>3, <1>7, <2>1 DEF AuthzInv, FilesInv, CommandsTyped, Runs
<1>9. Single("revoke")' /\ Single("assign")'
  BY <1>1, <1>7 DEF AuthzInv, FilesInv, Single, history
<1>10. ClassesLink'
  BY <1>1, <1>3, <1>7 DEF AuthzInv, FilesInv, ClassesLink, files, history
<1>11. RevocationsLink'
  BY <1>1, <1>3, <1>7 DEF AuthzInv, FilesInv, RevocationsLink, Busy, files, history
<1>12. store[t] \in File /\ store[t].expires \in Nat /\ clock > store[t].expires /\ store[t].expires # Absent
  <2>1. store[t] \in File /\ store[t].expires # Absent /\ clock > store[t].expires
    BY <1>1 DEF Prunable, is_expired, AuthzInv, AuthzTypeOK
  <2> QED BY <2>1 DEF File
<1>13. \A q \in Proc : ~Handles(q, "issue", t)
  <2>1. store[t] # Torn /\ store[t] # Absent
    BY <1>1 DEF Prunable
  <2> SUFFICES ASSUME NEW q \in Proc, Handles(q, "issue", t) PROVE FALSE
    OBVIOUS
  <2>2. proc[q].step \in {"truncate", "write"}
    BY DEF Handles, AuthzInv, AuthzTypeOK, Writer
  <2> QED BY <2>1, <2>2 DEF AuthzInv, FilesInv, MintsLink
<1>14. MintsLink'
  BY <1>1, <1>2, <1>3, <1>13 DEF AuthzInv, FilesInv, MintsLink, Handles, files, history
<1>15. mintedDone[t] = Absent \/ is_expired(mintedDone[t])
  <2>1. is_expired(store[t])
    BY <1>12 DEF is_expired, AuthzInv, AuthzTypeOK
  <2> QED BY <2>1 DEF AuthzInv, FilesInv, MintedTokenStays
<1>16. PrunesLink' /\ MintedTokenStays'
  BY <1>1, <1>2, <1>3, <1>15 DEF AuthzInv, FilesInv, PrunesLink, MintedTokenStays, Handles, files, history, is_expired
<1> QED BY <1>5, <1>6, <1>8, <1>9, <1>10, <1>11, <1>14, <1>16 DEF AuthzInv, FilesInv

\* It is still so when the file is unlinked.
LEMMA UnlinkStep ==
    ASSUME AuthzInv, NEW p \in Proc, Unlink(p)
    PROVE  AuthzInv'
<1>1. /\ Busy(p, "prune", "write") /\ store' = [store EXCEPT ![proc[p].token] = Absent]
      /\ proc' = [proc EXCEPT ![p] = Absent] /\ buffer' = [buffer EXCEPT ![p] = Absent]
      /\ UNCHANGED <<clock, device, verdict, commands, revocations, classes, history>>
  BY DEF Unlink, Written
<1>2. proc[p] # Absent /\ proc[p].op = "prune" /\ proc[p].token \in TokenId
  BY <1>1 DEF AuthzInv, FilesInv, CommandsTyped, Runs, Busy
<1>3. PICK t \in TokenId : t = proc[p].token
  BY <1>2
<1>4. /\ mintedDone[t] = Absent \/ is_expired(mintedDone[t])
      /\ \A q \in Proc : ~Handles(q, "issue", t)
  BY <1>2, <1>3 DEF AuthzInv, FilesInv, MintsLink, PrunesLink, Handles
<1>5. /\ store' \in [TokenId -> File \cup {Absent, Torn}]
      /\ \A u \in TokenId \ {t} : store'[u] = store[u]
  BY <1>1, <1>3 DEF AuthzInv, AuthzTypeOK
<1>6. overlap' = overlap /\ revokedDone' = revokedDone /\ assignedDone' = assignedDone /\ damaged' = damaged
      /\ mintedDone' = mintedDone
  BY <1>1 DEF history
<1>7. /\ proc' \in [Proc -> Writer \cup {Absent}] /\ proc'[p] = Absent
      /\ \A q \in Proc \ {p} : proc'[q] = proc[q] /\ buffer'[q] = buffer[q]
      /\ CommandsTyped' /\ Single("revoke")' /\ Single("assign")'
  BY <1>1, <1>2, <1>6, EndFrame
<1>8. AuthzTypeOK'
  BY <1>1, <1>5, <1>6, <1>7 DEF AuthzInv, AuthzTypeOK, verdict
<1>9. GrantsInv'
  BY <1>1, <1>6, GrantsFrame
<1>10. ClassesLink'
  BY <1>1, <1>6, <1>7 DEF AuthzInv, FilesInv, ClassesLink, Runs
<1>11. RevocationsLink'
  BY <1>1, <1>2, <1>6, <1>7 DEF AuthzInv, FilesInv, RevocationsLink, Runs, Busy
<1>12. MintsLink'
  BY <1>4, <1>5, <1>6, <1>7 DEF AuthzInv, FilesInv, MintsLink, Handles
<1>13. PrunesLink' /\ MintedTokenStays'
  BY <1>1, <1>4, <1>5, <1>6, <1>7 DEF AuthzInv, FilesInv, PrunesLink, MintedTokenStays, Handles, is_expired
<1> QED BY <1>7, <1>8, <1>9, <1>10, <1>11, <1>12, <1>13 DEF AuthzInv, FilesInv

\* A process that dies is remembered only when it leaves the revocation list torn.
LEMMA CrashStep ==
    ASSUME AuthzInv, NEW p \in Proc, Crash(p)
    PROVE  AuthzInv'
<1>1. /\ proc[p] # Absent /\ proc' = [proc EXCEPT ![p] = Absent] /\ buffer' = [buffer EXCEPT ![p] = Absent]
      /\ damaged' = (damaged \/ Busy(p, "revoke", "write"))
      /\ UNCHANGED <<clock, files, verdict, commands, revokedDone, assignedDone, mintedDone, overlap>>
  BY DEF Crash
<1>2. /\ proc' \in [Proc -> Writer \cup {Absent}] /\ proc'[p] = Absent
      /\ \A q \in Proc \ {p} : proc'[q] = proc[q] /\ buffer'[q] = buffer[q]
      /\ CommandsTyped' /\ Single("revoke")' /\ Single("assign")'
  BY <1>1, EndFrame
<1>3. AuthzTypeOK'
  BY <1>1, <1>2 DEF AuthzInv, AuthzTypeOK, files, verdict
<1>4. GrantsInv'
  BY <1>1, GrantsFrame
<1>5. ClassesLink'
  BY <1>1, <1>2 DEF AuthzInv, FilesInv, ClassesLink, Runs, files
<1>6. RevocationsLink'
  BY <1>1, <1>2 DEF AuthzInv, FilesInv, RevocationsLink, Runs, Busy, files
<1>7. MintsLink'
  BY <1>1, <1>2 DEF AuthzInv, FilesInv, MintsLink, Handles, files
<1>8. PrunesLink' /\ MintedTokenStays'
  BY <1>1, <1>2 DEF AuthzInv, FilesInv, PrunesLink, MintedTokenStays, Handles, files, is_expired
<1> QED BY <1>2, <1>3, <1>4, <1>5, <1>6, <1>7, <1>8 DEF AuthzInv, FilesInv

\* A file that arrives is of a token that is not minted here, or brings back one that is.
LEMMA ReplicateStep ==
    ASSUME AuthzInv, NEW t \in TokenId, NEW f \in Replicas \cup {mintedDone[t]}, Replicate(t, f)
    PROVE  AuthzInv'
<1>0. f \in File /\ (mintedDone[t] # Absent => f = mintedDone[t])
  BY AuthorityAssumption DEF Replicate, AuthzInv, AuthzTypeOK
<1>1. /\ store[t] = Absent /\ \A q \in Proc : ~Handles(q, "issue", t)
      /\ store' = [store EXCEPT ![t] = f]
      /\ UNCHANGED <<clock, revocations, classes, device, proc, buffer, verdict, commands, history>>
  BY DEF Replicate
<1>2. /\ store' \in [TokenId -> File \cup {Absent, Torn}] /\ store'[t] = f
      /\ \A u \in TokenId \ {t} : store'[u] = store[u]
  BY <1>0, <1>1 DEF AuthzInv, AuthzTypeOK
<1>3. AuthzTypeOK'
  BY <1>1, <1>2 DEF AuthzInv, AuthzTypeOK, verdict, history
<1>4. GrantsInv'
  BY <1>1, GrantsFrame DEF history
<1>5. CommandsTyped' /\ Single("revoke")' /\ Single("assign")' /\ ClassesLink' /\ RevocationsLink'
  BY <1>1 DEF AuthzInv, FilesInv, history, CommandsTyped, Runs, Single, ClassesLink, RevocationsLink, Busy
<1>6. MintsLink' /\ PrunesLink' /\ MintedTokenStays'
  BY <1>0, <1>1, <1>2 DEF AuthzInv, FilesInv, history, MintsLink, Handles, PrunesLink, MintedTokenStays, is_expired
<1> QED BY <1>3, <1>4, <1>5, <1>6 DEF AuthzInv, FilesInv

\* Devices come and go.
LEMMA EnrolledStep ==
    ASSUME AuthzInv, NEW n \in Name, NEW mode \in Mode, Enrolled(n, mode)
    PROVE  AuthzInv'
<1>1. /\ device' = [device EXCEPT ![n] = mode]
      /\ UNCHANGED <<clock, store, revocations, classes, proc, buffer, verdict, commands, history>>
  BY DEF Enrolled
<1>2. device' \in [Name -> Mode]
  BY <1>1 DEF AuthzInv, AuthzTypeOK
<1>3. AuthzTypeOK'
  BY <1>1, <1>2 DEF AuthzInv, AuthzTypeOK, verdict, history
<1>4. GrantsInv'
  BY <1>1, GrantsFrame DEF history
<1>5. CommandsTyped' /\ Single("revoke")' /\ Single("assign")' /\ ClassesLink' /\ RevocationsLink'
  BY <1>1 DEF AuthzInv, FilesInv, history, CommandsTyped, Runs, Single, ClassesLink, RevocationsLink, Busy
<1>6. MintsLink' /\ PrunesLink' /\ MintedTokenStays'
  BY <1>1 DEF AuthzInv, FilesInv, history, MintsLink, Handles, PrunesLink, MintedTokenStays, is_expired
<1> QED BY <1>3, <1>4, <1>5, <1>6 DEF AuthzInv, FilesInv

\* What has expired stays expired.
LEMMA ClockStep ==
    ASSUME AuthzInv, ClockTick
    PROVE  AuthzInv'
<1>1. clock' = clock + 1 /\ UNCHANGED <<files, proc, buffer, verdict, commands, history>> /\ clock \in Nat
  BY DEF ClockTick, AuthzInv, AuthzTypeOK
<1>2. AuthzTypeOK'
  BY <1>1 DEF AuthzInv, AuthzTypeOK, files, verdict, history
<1>3. GrantsInv'
  BY <1>1, GrantsFrame DEF history
<1>4. CommandsTyped' /\ Single("revoke")' /\ Single("assign")' /\ ClassesLink' /\ RevocationsLink'
  BY <1>1 DEF AuthzInv, FilesInv, files, history, CommandsTyped, Runs, Single, ClassesLink, RevocationsLink, Busy
<1>5. \A f \in File : is_expired(f) => is_expired(f)'
  BY <1>1 DEF is_expired, File
<1>6. \A t \in TokenId : mintedDone'[t] = mintedDone[t] /\ mintedDone[t] \in File \cup {Absent}
  BY <1>1 DEF AuthzInv, AuthzTypeOK, history
<1>7. \A t \in TokenId : mintedDone[t] # Absent /\ is_expired(mintedDone[t]) => is_expired(mintedDone[t])'
  BY <1>1, <1>5, <1>6 DEF is_expired, history
<1>8. MintsLink'
  BY <1>1 DEF AuthzInv, FilesInv, files, history, MintsLink, Handles
<1>9. PrunesLink' /\ MintedTokenStays'
  BY <1>1, <1>6, <1>7 DEF AuthzInv, FilesInv, files, Handles, PrunesLink, MintedTokenStays
<1> QED BY <1>2, <1>3, <1>4, <1>8, <1>9 DEF AuthzInv, FilesInv

\* and every step keeps it.
LEMMA AuthzStep == AuthzInv /\ [AuthzNext]_authz_vars => AuthzInv'
<1> SUFFICES ASSUME AuthzInv, [AuthzNext]_authz_vars PROVE AuthzInv'
  OBVIOUS
<1>1. CASE AuthzNext
  <2>1. ASSUME NEW e \in Enrollments, Enrolled(e.name, e.mode) PROVE AuthzInv'
    <3>1. e.name \in Name /\ e.mode \in Mode
      BY AuthorityAssumption
    <3> QED BY <2>1, <3>1, EnrolledStep
  <2> QED BY <1>1, <2>1, DecideStep, ReadDevicesStep, ReadTokensStep, ReadRevocationsStep, RevokeStep,
             TruncateRevocationsStep, WriteRevocationsStep, AssignStep, TruncateClassesStep, WriteClassesStep,
             IssueStep, TruncateTokenStep, WriteTokenStep, PruneStep, UnlinkStep, CrashStep, ReplicateStep,
             ClockStep DEF AuthzNext
<1>2. CASE UNCHANGED authz_vars
  <2>1. /\ UNCHANGED <<clock, files, proc, buffer, commands, history, verdict>>
    BY <1>2 DEF authz_vars
  <2>2. AuthzTypeOK' /\ FilesInv'
    BY <2>1, DecisionReads DEF verdict, AuthzInv, AuthzTypeOK
  <2>3. GrantsInv'
    BY <2>1, GrantsFrame DEF history
  <2> QED BY <2>2, <2>3 DEF AuthzInv
<1> QED BY <1>1, <1>2

\* The tables, the files, the decisions and the commands have their types.
THEOREM AuthzTypeCorrect == AuthzSpec => []AuthzTypeOK
<1>1. AuthzInv => AuthzTypeOK
  BY DEF AuthzInv
<1> QED BY <1>1, AuthzInitHolds, AuthzStep, PTL DEF AuthzSpec

\* decide() never allows a subject what the class assigned under its canonical name denies,
\* whatever tokens are replicated in and whichever process dies with a file half written.
THEOREM CeilingsHold == AuthzSpec => []CeilingHolds
<1>1. AuthzInv => CeilingHolds
  BY DEF AuthzInv, GrantsInv
<1> QED BY <1>1, AuthzInitHolds, AuthzStep, PTL DEF AuthzSpec

-----------------------------------------------------------------------------
\* Where tokens come from.

\* A file that carries this agent's signature is the one issue_token() returned under its
\* id, and that is what is about to be written, or was: a token that was asked for.
StoreTrace == \A t \in TokenId :
    store[t] \notin {Absent, Torn} /\ store[t].signer = OwnKey => store[t] = mintedDone[t]
BufferTrace == \A p \in Proc :
    Runs(p, "issue") /\ buffer[p].signer = OwnKey => AskedFor(buffer[p])
MintTrace == \A t \in TokenId :
    mintedDone[t] # Absent /\ mintedDone[t].signer = OwnKey => AskedFor(mintedDone[t])
FilesTrace == StoreTrace /\ BufferTrace /\ MintTrace

\* What a decision has read grants what it is about, since it began, and is such a file.
ReadTrace ==
    decision # Absent =>
        /\ decision.began \in Nat /\ decision.began <= clock
        /\ \A t \in TokenId : decision.read[t] # Absent =>
              LET f == decision.read[t] IN
              /\ f.subject \in subject_keys(decision.name) /\ has_capability(f, decision.cap)
              /\ f.expires # Absent => decision.began <= f.expires
              /\ f.from # Absent => f.from <= clock
              /\ f.signer = OwnKey => f = mintedDone[t]
VerdictTrace == ReadTrace /\ GrantIsTraceable

TraceInv == FilesTrace /\ VerdictTrace

\* Only a mint under way changes where tokens come from.
LEMMA FilesTraceKept ==
    ASSUME TraceInv, UNCHANGED <<store, mintedDone>>,
           \A p \in Proc : Runs(p, "issue")' => Runs(p, "issue") /\ buffer'[p] = buffer[p]
    PROVE  FilesTrace'
<1>1. StoreTrace' /\ MintTrace'
  BY DEF TraceInv, FilesTrace, StoreTrace, MintTrace, AskedFor
<1>2. BufferTrace'
  BY DEF TraceInv, FilesTrace, BufferTrace, AskedFor
<1> QED BY <1>1, <1>2 DEF FilesTrace

\* What was read and granted stays traced while the clock advances and mints return.
LEMMA VerdictTraceKept ==
    ASSUME AuthzInv, TraceInv, UNCHANGED verdict, clock' \in Nat, clock <= clock',
           \A t \in TokenId : mintedDone[t] # Absent => mintedDone'[t] = mintedDone[t]
    PROVE  VerdictTrace'
<1>1. decision' = decision /\ granted' = granted /\ clock \in Nat
  BY DEF verdict, AuthzInv, AuthzTypeOK
<1>2. ReadTrace'
  <2> SUFFICES ASSUME decision # Absent PROVE ReadTrace'
    BY <1>1 DEF ReadTrace
  <2>1. decision.read \in Reads
    BY DEF AuthzInv, AuthzTypeOK, DecisionState
  <2>2. ASSUME NEW t \in TokenId, decision.read[t] # Absent, decision.read[t].from # Absent
        PROVE  decision.read[t].from <= clock'
    <3>1. decision.read[t].from \in Nat /\ decision.read[t].from <= clock
      BY <2>1, <2>2 DEF TraceInv, VerdictTrace, ReadTrace, Reads, File
    <3> QED BY <1>1, <3>1
  <2>3. decision.began \in Nat /\ decision.began <= clock'
    BY <1>1 DEF TraceInv, VerdictTrace, ReadTrace
  <2>4. \A t \in TokenId : decision.read[t] # Absent /\ decision.read[t].signer = OwnKey =>
            decision.read[t] = mintedDone'[t]
    BY DEF TraceInv, VerdictTrace, ReadTrace
  <2> QED BY <1>1, <2>2, <2>3, <2>4 DEF TraceInv, VerdictTrace, ReadTrace, has_capability, subject_keys
<1>3. GrantIsTraceable'
  <2> SUFFICES ASSUME granted # Absent PROVE GrantIsTraceable'
    BY <1>1 DEF GrantIsTraceable
  <2>1. ASSUME NEW t \in Held(granted.relied), granted.relied[t] = mintedDone[t]
        PROVE  granted.relied[t] = mintedDone'[t]
    BY <2>1 DEF Held
  <2> QED BY <1>1, <2>1 DEF TraceInv, VerdictTrace, GrantIsTraceable, Held, AskedFor, has_capability, subject_keys
<1> QED BY <1>2, <1>3 DEF VerdictTrace

\* A decision that grants nothing, and goes on with what it read, or with nothing.
LEMMA DecisionTrace ==
    ASSUME AuthzInv, TraceInv, UNCHANGED <<clock, files, proc, buffer, commands, history>>, ReadTrace',
           granted' = Absent
    PROVE  TraceInv'
<1>1. FilesTrace'
  BY FilesTraceKept DEF files, history, Runs
<1>2. GrantIsTraceable'
  BY DEF GrantIsTraceable
<1> QED BY <1>1, <1>2 DEF TraceInv, VerdictTrace

\* decide() has read nothing when it begins.
LEMMA DecideTrace ==
    ASSUME AuthzInv, TraceInv, NEW n \in Name, NEW cap \in Requested, decide(n, cap)
    PROVE  TraceInv'
<1>1. PICK c : \/ deny
               \/ Proceed([name |-> n, cap |-> cap, step |-> "devices", class |-> c, read |-> Only({}, store),
                           began |-> clock, revokedBefore |-> revokedDone, ceiling |-> assignedDone[canon[n]]])
  BY DEF decide
<1>2. UNCHANGED <<clock, files, proc, buffer, commands, history>> /\ clock \in Nat
  BY DEF decide, AuthzInv, AuthzTypeOK
<1>3. CASE deny
  BY <1>2, <1>3, DecisionTrace DEF deny, ReadTrace
<1>4. CASE Proceed([name |-> n, cap |-> cap, step |-> "devices", class |-> c, read |-> Only({}, store),
                    began |-> clock, revokedBefore |-> revokedDone, ceiling |-> assignedDone[canon[n]]])
  <2>1. decision'.began = clock /\ decision'.read = Only({}, store) /\ granted' = Absent
    BY <1>4 DEF Proceed
  <2>2. \A t \in TokenId : decision'.read[t] = Absent
    BY <2>1 DEF Only
  <2> QED BY <1>2, <2>1, <2>2, DecisionTrace DEF ReadTrace
<1> QED BY <1>1, <1>3, <1>4

\* The devices are of no account here.
LEMMA ReadDevicesTrace ==
    ASSUME AuthzInv, TraceInv, ReadDevices
    PROVE  TraceInv'
<1>1. PICK d \in DecisionState : d = decision
  BY DEF ReadDevices, At, AuthzInv, AuthzTypeOK
<1>2. PICK e : e = [d EXCEPT !.step = "tokens"]
  OBVIOUS
<1>3. e.name = d.name /\ e.cap = d.cap /\ e.read = d.read /\ e.began = d.began
  BY <1>2 DEF DecisionState
<1>4. /\ UNCHANGED <<clock, files, proc, buffer, commands, history>> /\ decision # Absent
      /\ granted' = Absent /\ decision' \in {Absent, e}
  BY <1>1, <1>2 DEF ReadDevices, At, deny, Proceed
<1>5. ReadTrace'
  BY <1>1, <1>3, <1>4 DEF TraceInv, VerdictTrace, ReadTrace, history, has_capability, subject_keys
<1> QED BY <1>4, <1>5, DecisionTrace

\* The tokens that are read are active then, and grant the capability to the subject.
LEMMA ReadTokensTrace ==
    ASSUME AuthzInv, TraceInv, ReadTokens
    PROVE  TraceInv'
<1>1. PICK d \in DecisionState : d = decision
  BY DEF ReadTokens, At, AuthzInv, AuthzTypeOK
<1> DEFINE usable == {t \in subject_tokens(decision.name) :
                        has_capability(store[t], decision.cap) /\ is_active(store[t])}
<1> HIDE DEF usable
<1>2. PICK e : e = [d EXCEPT !.step = "revocation", !.read = Only(usable, store)]
  OBVIOUS
<1> USE DEF usable
<1>3. e.name = d.name /\ e.cap = d.cap /\ e.read = Only(usable, store) /\ e.began = d.began
  BY <1>2 DEF DecisionState
<1>4. /\ UNCHANGED <<clock, files, proc, buffer, commands, history>> /\ decision # Absent
      /\ granted' = Absent /\ decision' \in {Absent, e}
  BY <1>1, <1>2 DEF ReadTokens, At, deny, Proceed
<1>5. d.began \in Nat /\ d.began <= clock /\ clock \in Nat
  BY <1>1, <1>4 DEF TraceInv, VerdictTrace, ReadTrace, AuthzInv, AuthzTypeOK
<1>6. ASSUME NEW t \in TokenId, Only(usable, store)[t] # Absent
      PROVE  /\ Only(usable, store)[t] = store[t] /\ store[t].subject \in subject_keys(d.name)
             /\ has_capability(store[t], d.cap)
             /\ store[t].expires # Absent => d.began <= store[t].expires
             /\ store[t].from # Absent => store[t].from <= clock
             /\ store[t].signer = OwnKey => store[t] = mintedDone[t]
  <2>1. t \in usable /\ Only(usable, store)[t] = store[t]
    BY <1>6 DEF Only
  <2>2. /\ store[t] \in File /\ store[t] \notin {Absent, Torn} /\ store[t].subject \in subject_keys(d.name)
        /\ has_capability(store[t], d.cap) /\ is_active(store[t])
    BY <1>1, <2>1 DEF subject_tokens, AuthzInv, AuthzTypeOK
  <2>3. store[t].signer = OwnKey => store[t] = mintedDone[t]
    BY <2>2 DEF TraceInv, FilesTrace, StoreTrace
  <2>4. store[t].expires \in Nat \cup {Absent} /\ store[t].from \in Nat \cup {Absent}
    BY <2>2 DEF File
  <2> QED BY <1>5, <2>1, <2>2, <2>3, <2>4 DEF is_active, is_expired
<1> HIDE DEF usable
<1>7. ReadTrace'
  <2>1. CASE decision' = Absent
    BY <2>1 DEF ReadTrace
  <2>2. CASE decision' = e
    <3>1. clock' = clock /\ mintedDone' = mintedDone
      BY <1>4 DEF history
    <3> QED BY <1>3, <1>5, <1>6, <2>2, <3>1 DEF ReadTrace, has_capability, subject_keys
  <2> QED BY <1>4, <2>1, <2>2
<1> QED BY <1>4, <1>7, DecisionTrace

\* What is granted rests on tokens that were read, and verify or are unsigned in time.
LEMMA AllowTrace ==
    ASSUME AuthzInv, TraceInv, decision # Absent, NEW relied \in SUBSET Held(decision.read), allow(relied),
           relied # {},
           \A t \in relied : \/ signature_verifies(decision.read[t])
                             \/ decision.read[t].signer = Absent /\ legacy_grace,
           UNCHANGED <<clock, files, proc, buffer, commands, history>>
    PROVE  TraceInv'
<1>1. PICK d \in DecisionState : d = decision
  BY DEF AuthzInv, AuthzTypeOK
<1>2. /\ decision' = Absent /\ granted'.name = d.name /\ granted'.cap = d.cap
      /\ granted'.relied = Only(relied, d.read) /\ granted'.at = clock /\ granted'.began = d.began
  BY <1>1 DEF allow
<1>3. d.read \in Reads /\ clock' = clock /\ mintedDone' = mintedDone
  BY DEF DecisionState, history
<1>4. Held(Only(relied, d.read)) = relied /\ \A t \in relied : Only(relied, d.read)[t] = d.read[t]
  <2>1. relied \subseteq TokenId /\ \A t \in relied : d.read[t] # Absent
    BY <1>1 DEF Held
  <2> QED BY <1>3, <2>1 DEF Only, Reads, Held
<1>5. ASSUME NEW t \in relied
      PROVE  LET f == d.read[t] IN
             /\ f.subject \in subject_keys(d.name) /\ has_capability(f, d.cap)
             /\ f.expires # Absent => d.began <= f.expires
             /\ f.from # Absent => f.from <= clock
             /\ \/ f.signer = Absent /\ clock < GraceUntil
                \/ f.issuer \in IssuerText /\ named[f.issuer] \cap keyring # {OwnKey}
                \/ f = mintedDone[t] /\ f.signer = OwnKey /\ AskedFor(f)
  <2>1. t \in TokenId /\ d.read[t] # Absent /\ d.read[t] \in File
    BY <1>1, <1>3 DEF Held, Reads
  <2>2. /\ d.read[t].subject \in subject_keys(d.name) /\ has_capability(d.read[t], d.cap)
        /\ d.read[t].expires # Absent => d.began <= d.read[t].expires
        /\ d.read[t].from # Absent => d.read[t].from <= clock
        /\ d.read[t].signer = OwnKey => d.read[t] = mintedDone[t]
    BY <1>1, <2>1 DEF TraceInv, VerdictTrace, ReadTrace
  <2>3. CASE d.read[t].signer = Absent /\ legacy_grace
    BY <2>2, <2>3 DEF legacy_grace
  <2>4. CASE signature_verifies(d.read[t])
    <3>1. d.read[t].issuer \in IssuerText /\ d.read[t].signer \in named[d.read[t].issuer] \cap keyring
      BY <2>1, <2>4 DEF signature_verifies, File
    <3>2. CASE named[d.read[t].issuer] \cap keyring = {OwnKey}
      <4>1. d.read[t].signer = OwnKey /\ d.read[t] = mintedDone[t]
        BY <2>2, <3>1, <3>2
      <4>2. AskedFor(d.read[t])
        BY <2>1, <4>1 DEF TraceInv, FilesTrace, MintTrace
      <4> QED BY <2>2, <4>1, <4>2
    <3> QED BY <2>2, <3>1, <3>2
  <2> QED BY <1>1, <2>3, <2>4
<1>6. GrantIsTraceable'
  <2> SUFFICES ASSUME granted' # Absent PROVE GrantIsTraceable'
    BY DEF GrantIsTraceable
  <2>1. Held(granted.relied)' = relied
    BY <1>2, <1>4 DEF Held
  <2>2. \A t \in relied : granted'.relied[t] = d.read[t]
    BY <1>2, <1>4
  <2>3. granted'.name = d.name /\ granted'.cap = d.cap /\ granted'.at = clock /\ granted'.began = d.began
    BY <1>2
  <2> QED BY <1>3, <1>5, <2>1, <2>2, <2>3 DEF GrantIsTraceable, AskedFor, has_capability, subject_keys
<1>7. FilesTrace'
  BY FilesTraceKept DEF files, history, Runs
<1>8. ReadTrace'
  BY DEF allow, ReadTrace
<1> QED BY <1>6, <1>7, <1>8 DEF TraceInv, VerdictTrace

\* decide() ends.
LEMMA ReadRevocationsTrace ==
    ASSUME AuthzInv, TraceInv, ReadRevocations
    PROVE  TraceInv'
<1> DEFINE usable == Held(decision.read) \ load_revocation_list
           verified == {t \in usable : signature_verifies(decision.read[t])}
           invalid == {t \in usable : decision.read[t].signer # Absent} \ verified
<1>1. UNCHANGED <<clock, files, proc, buffer, commands, history>> /\ decision # Absent
  BY DEF ReadRevocations, At
<1>2. \/ allow(verified) /\ verified # {}
      \/ deny
      \/ allow(usable) /\ usable # {} /\ invalid = {} /\ legacy_grace
  BY DEF ReadRevocations
<1>3. CASE deny
  BY <1>1, <1>3, DecisionTrace DEF deny, ReadTrace
<1>4. CASE allow(verified) /\ verified # {}
  BY <1>1, <1>4, AllowTrace
<1>5. CASE allow(usable) /\ usable # {} /\ invalid = {} /\ legacy_grace
  <2>1. \A t \in usable : signature_verifies(decision.read[t]) \/ decision.read[t].signer = Absent
    BY <1>5
  <2> QED BY <1>1, <1>5, <2>1, AllowTrace
<1> QED BY <1>2, <1>3, <1>4, <1>5

\* issue_token() signs only on request, and for what it was asked.
LEMMA IssueTrace ==
    ASSUME AuthzInv, TraceInv, NEW p \in Proc, NEW t \in TokenId, NEW m \in Minted, issue_token(p, t, m)
    PROVE  TraceInv'
<1>1. /\ buffer' = [buffer EXCEPT ![p] = mint_audience_token(m)]
      /\ proc' = [proc EXCEPT ![p] = [op |-> "issue", step |-> "truncate", token |-> t, assignment |-> Absent]]
      /\ UNCHANGED <<clock, files, verdict, revokedDone, assignedDone, mintedDone, damaged>>
  BY DEF issue_token, StartWriter
<1>2. DOMAIN buffer = Proc /\ proc \in [Proc -> Writer \cup {Absent}] /\ clock \in Nat
  BY DEF AuthzInv, AuthzTypeOK, FilesInv, CommandsTyped
<1>3. /\ buffer'[p] = mint_audience_token(m)
      /\ \A q \in Proc \ {p} : buffer'[q] = buffer[q] /\ proc'[q] = proc[q]
  BY <1>1, <1>2
<1>4. mint_audience_token(m).signer = OwnKey => AskedFor(mint_audience_token(m))
  <2>1. m.sign \in BOOLEAN /\ OwnKey # Absent
    BY AuthorityAssumption DEF Mint
  <2>2. /\ mint_audience_token(m).signer = (IF m.sign THEN OwnKey ELSE Absent)
        /\ mint_audience_token(m).subject = m.subject /\ mint_audience_token(m).capabilities = m.capabilities
    BY DEF mint_audience_token, apply_signature
  <2> QED BY <2>1, <2>2 DEF AskedFor
<1>5. BufferTrace'
  BY <1>3, <1>4 DEF TraceInv, FilesTrace, BufferTrace, Runs, AskedFor
<1>6. StoreTrace' /\ MintTrace'
  BY <1>1 DEF TraceInv, FilesTrace, StoreTrace, MintTrace, AskedFor, files
<1>7. VerdictTrace'
  BY <1>1, <1>2, VerdictTraceKept
<1> QED BY <1>5, <1>6, <1>7 DEF TraceInv, FilesTrace

\* The token that is written is the one that was asked for.
LEMMA WriteTokenTrace ==
    ASSUME AuthzInv, TraceInv, NEW p \in Proc, WriteToken(p)
    PROVE  TraceInv'
<1>1. /\ Busy(p, "issue", "write")
      /\ store' = [store EXCEPT ![proc[p].token] = IF @ = Absent THEN Absent ELSE buffer[p]]
      /\ mintedDone' = [mintedDone EXCEPT ![proc[p].token] = buffer[p]]
      /\ proc' = [proc EXCEPT ![p] = Absent] /\ buffer' = [buffer EXCEPT ![p] = Absent]
      /\ UNCHANGED <<clock, verdict>>
  BY DEF WriteToken, Written
<1>2. Runs(p, "issue") /\ proc[p].token \in TokenId /\ clock \in Nat
  BY <1>1 DEF AuthzInv, AuthzTypeOK, FilesInv, CommandsTyped, Runs, Busy
<1>3. PICK t \in TokenId : t = proc[p].token
  BY <1>2
<1>4. /\ mintedDone[t] = Absent /\ mintedDone'[t] = buffer[p] /\ store'[t] \in {Absent, buffer[p]}
      /\ \A u \in TokenId \ {t} : mintedDone'[u] = mintedDone[u] /\ store'[u] = store[u]
  BY <1>1, <1>2, <1>3 DEF AuthzInv, AuthzTypeOK, FilesInv, MintsLink, Handles, Runs
<1>5. buffer[p].signer = OwnKey => AskedFor(buffer[p])
  BY <1>2 DEF TraceInv, FilesTrace, BufferTrace
<1>6. StoreTrace' /\ MintTrace'
  BY <1>4, <1>5 DEF TraceInv, FilesTrace, StoreTrace, MintTrace, AskedFor
<1>7. BufferTrace'
  <2>1. \A q \in Proc : Runs(q, "issue")' => Runs(q, "issue") /\ buffer'[q] = buffer[q]
    BY <1>1 DEF Runs, AuthzInv, AuthzTypeOK, FilesInv, CommandsTyped
  <2> QED BY <2>1 DEF TraceInv, FilesTrace, BufferTrace, AskedFor
<1>8. VerdictTrace'
  <2>1. \A u \in TokenId : mintedDone[u] # Absent => mintedDone'[u] = mintedDone[u]
    BY <1>4
  <2> QED BY <1>1, <1>2, <2>1, VerdictTraceKept
<1> QED BY <1>6, <1>7, <1>8 DEF TraceInv, FilesTrace

\* A file that is torn, unlinked or replicated carries no new signature of this agent.
LEMMA StoreStepTrace ==
    ASSUME AuthzInv, TraceInv, NEW t \in TokenId, NEW f, store' = [store EXCEPT ![t] = f],
           f \in {Absent, Torn} \/ f \in Replicas \/ f = mintedDone[t],
           \A p \in Proc : Runs(p, "issue")' => Runs(p, "issue") /\ buffer'[p] = buffer[p],
           UNCHANGED <<clock, verdict, mintedDone>>
    PROVE  TraceInv'
<1>1. f \notin {Absent, Torn} /\ f.signer = OwnKey => f = mintedDone[t]
  BY AuthorityAssumption
<1>2. store'[t] = f /\ \A u \in TokenId \ {t} : store'[u] = store[u]
  BY DEF AuthzInv, AuthzTypeOK
<1>3. StoreTrace'
  BY <1>1, <1>2 DEF TraceInv, FilesTrace, StoreTrace
<1>4. BufferTrace' /\ MintTrace'
  BY DEF TraceInv, FilesTrace, BufferTrace, MintTrace, AskedFor
<1>5. VerdictTrace'
  BY VerdictTraceKept DEF AuthzInv, AuthzTypeOK
<1> QED BY <1>3, <1>4, <1>5 DEF TraceInv, FilesTrace

\* Every step keeps tokens traced.
LEMMA TraceStep ==
    ASSUME AuthzInv, TraceInv, [AuthzNext]_authz_vars
    PROVE  TraceInv'
<1>0. DOMAIN buffer = Proc /\ proc \in [Proc -> Writer \cup {Absent}] /\ clock \in Nat
  BY DEF AuthzInv, AuthzTypeOK, FilesInv, CommandsTyped
<1>1. ASSUME UNCHANGED <<store, mintedDone, verdict>>, clock' \in Nat, clock <= clock',
             \A p \in Proc : Runs(p, "issue")' => Runs(p, "issue") /\ buffer'[p] = buffer[p]
      PROVE  TraceInv'
  BY <1>1, FilesTraceKept, VerdictTraceKept DEF TraceInv
<1>2. ASSUME NEW p \in Proc, NEW t \in TokenId, revoke_token(p, t) PROVE TraceInv'
  BY <1>0, <1>1, <1>2 DEF revoke_token, StartWriter, Runs, files
<1>3. ASSUME NEW p \in Proc, NEW a \in Assigned, assign_identity_class(p, a) PROVE TraceInv'
  BY <1>0, <1>1, <1>3 DEF assign_identity_class, StartWriter, Runs, files
<1>4. ASSUME NEW p \in Proc, NEW op \in {"revoke", "assign", "issue"}, Busy(p, op, "truncate"), Truncated(p)
      PROVE  /\ \A q \in Proc : Runs(q, "issue")' => Runs(q, "issue") /\ buffer'[q] = buffer[q]
             /\ UNCHANGED <<clock, verdict, mintedDone>>
  BY <1>0, <1>4 DEF Truncated, Busy, Runs, Writer, history
<1>5. ASSUME NEW p \in Proc, TruncateRevocations(p) \/ TruncateClasses(p) PROVE TraceInv'
  BY <1>0, <1>1, <1>4, <1>5 DEF TruncateRevocations, TruncateClasses
<1>6. ASSUME NEW p \in Proc, TruncateToken(p) PROVE TraceInv'
  <2>1. PICK t \in TokenId : t = proc[p].token
    BY <1>6 DEF TruncateToken, Busy, AuthzInv, FilesInv, CommandsTyped, Runs
  <2> QED BY <1>4, <1>6, <2>1, StoreStepTrace DEF TruncateToken
<1>7. ASSUME NEW p \in Proc, Written(p) \/ Crash(p)
      PROVE  /\ \A q \in Proc : Runs(q, "issue")' => Runs(q, "issue") /\ buffer'[q] = buffer[q]
             /\ UNCHANGED <<clock, verdict>>
  BY <1>0, <1>7 DEF Written, Crash, Runs
<1>8. ASSUME NEW p \in Proc, WriteRevocations(p) \/ WriteClasses(p) \/ Crash(p) PROVE TraceInv'
  <2>1. UNCHANGED <<store, mintedDone>> /\ (Written(p) \/ Crash(p))
    BY <1>8 DEF WriteRevocations, WriteClasses, Crash, files
  <2> QED BY <1>0, <1>1, <1>7, <2>1
<1>9. ASSUME NEW p \in Proc, NEW t \in TokenId, prune(p, t) PROVE TraceInv'
  BY <1>0, <1>1, <1>9 DEF prune, Runs, files, history
<1>10. ASSUME NEW p \in Proc, Unlink(p) PROVE TraceInv'
  <2>1. PICK t \in TokenId : t = proc[p].token
    BY <1>10 DEF Unlink, Busy, AuthzInv, FilesInv, CommandsTyped, Runs
  <2> QED BY <1>7, <1>10, <2>1, StoreStepTrace DEF Unlink, history
<1>11. ASSUME NEW t \in TokenId, NEW f \in Replicas \cup {mintedDone[t]}, Replicate(t, f) PROVE TraceInv'
  BY <1>11, StoreStepTrace DEF Replicate, history, Runs
<1>12. ASSUME NEW e \in Enrollments, Enrolled(e.name, e.mode) PROVE TraceInv'
  BY <1>0, <1>1, <1>12 DEF Enrolled, Runs, history
<1>13. CASE ClockTick
  BY <1>0, <1>1, <1>13 DEF ClockTick, Runs, files, history
<1>14. CASE UNCHANGED authz_vars
  BY <1>0, <1>1, <1>14 DEF authz_vars, Runs, files, history
<1>15. CASE AuthzNext
  BY <1>2, <1>3, <1>5, <1>6, <1>8, <1>9, <1>10, <1>11, <1>12, <1>13, <1>15, DecideTrace, ReadDevicesTrace,
     ReadTokensTrace, ReadRevocationsTrace, IssueTrace, WriteTokenTrace DEF AuthzNext
<1> QED BY <1>14, <1>15

\* What a decision relies on and names this agent alone as its issuer is a token that this
\* agent was asked for and returned, or an unsigned one under the grace; none had expired
\* when the decision began.  So it is for any keyring, any matching of texts and keys, and
\* any files that replication brings, brings back, or finds pruned.
THEOREM GrantsAreTraceable == AuthzSpec => []GrantIsTraceable
<1>1. AuthzInit => TraceInv
  <2> SUFFICES ASSUME AuthzInit PROVE TraceInv
    OBVIOUS
  <2>1. FilesTrace
    BY DEF AuthzInit, FilesTrace, StoreTrace, BufferTrace, MintTrace, Runs
  <2>2. VerdictTrace
    BY DEF AuthzInit, VerdictTrace, ReadTrace, GrantIsTraceable
  <2> QED BY <2>1, <2>2 DEF TraceInv
<1>2. TraceInv => GrantIsTraceable
  BY DEF TraceInv, VerdictTrace
<1>3. AuthzInv /\ TraceInv /\ [AuthzNext]_authz_vars => AuthzInv' /\ TraceInv'
  BY AuthzStep, TraceStep
<1> QED BY <1>1, <1>2, <1>3, AuthzInitHolds, PTL DEF AuthzSpec

-----------------------------------------------------------------------------
\* Commands last.

\* prune_expired_tokens() never unlinks a token that was minted and has not expired, and a
\* revocation that returned is missed only for a list that is torn, lost or written twice at once.
THEOREM CommandsOutlast == AuthzSpec => []CommandsLast
<1>1. AuthzInv => CommandsLast
  BY DEF AuthzInv, FilesInv, GrantsInv, CommandsLast
<1> QED BY <1>1, AuthzInitHolds, AuthzStep, PTL DEF AuthzSpec
=============================================================================
