------------------------------ MODULE Delegated ------------------------------
(***************************************************************************)
(* Delegated capabilities, capauth/delegated.py: signed chains of           *)
(* single-use credentials, the CapabilityAuthorizer that decides on them    *)
(* and the DelegatingCapabilityIssuer that extends them.                    *)
(*                                                                          *)
(* Threads share one authorizer.  Its back ends (the in-memory ones of the  *)
(* module) lock each call, not the decision: authorize() is split at every  *)
(* call of a back end, and policies change, credentials are revoked and     *)
(* time passes in between.  A call is named by its decision id, a uuid4;    *)
(* why it is denied is left out, that it is denied and audited is not.      *)
(***************************************************************************)
EXTENDS Integers, Sequences

CONSTANTS
    None,
    Decision,         \* decision ids: the calls that are made
    Credential,       \* credential digests: each names one signed credential
    PrincipalId, Kind,     \* Kind stands for a principal's subject and kind
    enrolled,         \* the principals bound at the start: id -> kind
    Scope,            \* scopes; "what" stands for the five exact fields
    Issuer,           \* keys that sign credentials
    OwnIssuer,        \*   ... those this deployment signs with, by CapabilityIssuer
    Root, Invocation, Extension,  \* what is asked of issue_root, authorize, delegate
    Update,           \* the policies that are set (None: removed)
    Ttl,              \* the lifetimes that are asked for
    trusted,          \* the issuer policy: issuer -> what it may grant to whom
    Foreign,          \* what is signed by others than CapabilityIssuer
    MAX_DELEGATION_DEPTH, MAX_TTL,
    MaxEvents, MaxIssueTime   \* bounds: see Undisturbed; roots are signed early

Principal == [id : PrincipalId, kind : Kind]
\* The signed content of a credential, and the key whose signature is on it.  The
\* schema ties a parent to a depth above 0 and bounds the depth.
Content ==
    {c \in [issuer : Issuer, signer : Issuer, principal : Principal, scope : Scope,
            depth : 0..MAX_DELEGATION_DEPTH, max_depth : 0..MAX_DELEGATION_DEPTH,
            parent : Credential \cup {None}, issued : Nat, expires : Nat] :
        (c.depth = 0 <=> c.parent = None) /\ c.depth <= c.max_depth}
\* PresentedCapability, the root first.  It refuses a repeated text, not a repeated
\* credential: the same envelope with other spacing is another text.
Chain == UNION {[1..n -> Credential] : n \in 1..(MAX_DELEGATION_DEPTH + 1)}
Child == [ask : Extension, issuer : OwnIssuer, as : Credential]
Policy == [kind : Kind, active : BOOLEAN]
Revisions == [PrincipalId -> Nat \cup {None}]
\* A call under way: the chain, the request, what delegate() will issue; the phase
\* (first look, refresh before the audit record, refresh after it), what it does
\* next, and the revisions it saw in this phase and in the one before.
Call == [chain : Chain, principal : Principal, scope : Scope, child : Child \cup {None},
         phase : 1..3,
         step : {"principals", "revocation", "reserve", "audit", "issue"},
         todo : SUBSET PrincipalId, seen : Revisions, before : Revisions,
         revSeen : Nat, revBefore : Nat, held : BOOLEAN]
Answer == [allow : {FALSE}]
          \cup [allow : {TRUE}, chain : Chain, child : Credential \cup {None}, held : BOOLEAN]

ASSUME DelegatedAssumption ==
    /\ MAX_DELEGATION_DEPTH \in Nat /\ MAX_TTL \in Nat /\ MaxEvents \in Nat /\ MaxIssueTime \in Nat
    /\ enrolled \in [PrincipalId -> Kind] /\ OwnIssuer \subseteq Issuer /\ Ttl \subseteq 1..MAX_TTL
    /\ Update \subseteq [id : PrincipalId, policy : Policy \cup {None}]
    /\ \A s \in Scope : DOMAIN s = {"what", "resource", "constraints"}
    /\ \A i \in Issuer : DOMAIN trusted[i] = {"what", "kinds"}
    /\ Root \subseteq [principal : Principal, scope : Scope, max_depth : 0..MAX_DELEGATION_DEPTH]
    /\ Invocation \subseteq [principal : Principal, scope : Scope]
    /\ Extension \subseteq [by : Principal, principal : Principal, scope : Scope]
    /\ Foreign \subseteq [issuer : Issuer, signer : Issuer, principal : Principal, scope : Scope,
                        depth : 0..MAX_DELEGATION_DEPTH, max_depth : 0..MAX_DELEGATION_DEPTH,
                        delay : Nat, ttl : Nat]
    /\ \A f \in Foreign : f.depth <= f.max_depth
    /\ None \notin Credential \cup PrincipalId \cup Content \cup Policy \cup Call \cup Child \cup Nat
    /\ None \notin Answer

VARIABLES
    now,
    creds,        \* the credentials signed so far: credential -> content or None
    policy,       \* InMemoryPrincipalPolicyBackend: id -> policy or None
    counter,      \*   ... and its _counter
    revoked,      \* InMemoryRevocationBackend
    revCounter,   \*   ... and its _counter
    reserved,     \* InMemoryReplayBackend: credential -> expiry or None
    call,         \* the calls under way: decision -> call or None
    audit,        \* InMemoryAuditSink: decision -> what was recorded, in order
    answer        \* decision -> None, a denial, or the granted call

backends == <<policy, counter, revoked, revCounter>>
vars == <<now, creds, backends, reserved, call, audit, answer>>

NoRevisions == [p \in PrincipalId |-> None]

Init ==
    /\ now = 0
    /\ creds = [c \in Credential |-> None]
    /\ policy = [p \in PrincipalId |-> [kind |-> enrolled[p], active |-> TRUE]]
    /\ counter = 0
    /\ revoked = {}
    /\ revCounter = 0
    /\ reserved = [c \in Credential |-> None]
    /\ call = [d \in Decision |-> None]
    /\ audit = [d \in Decision |-> <<>>]
    /\ answer = [d \in Decision |-> None]

-----------------------------------------------------------------------------
(* The checks on a chain.                                                   *)

\* parse_presented_token() of every text: only what somebody signed, in the closed
\* envelope and with the digest of its own content, is a credential.
Parsed(chain) == \A i \in DOMAIN chain : creds[chain[i]] # None

Leaf(chain) == creds[chain[Len(chain)]]

\* _scope_is_monotonic().
scope_is_monotonic(parent, child) ==
    /\ parent.what = child.what
    /\ parent.resource # None => child.resource = parent.resource
    /\ parent.constraints \subseteq child.constraints

\* A faulty variant: only the depth is compared.
is_monotonic_in_depth(parent, child) == child.depth = parent.depth + 1

\* _is_monotonic().
is_monotonic(parent, child) ==
    /\ child.depth = parent.depth + 1
    /\ child.max_depth <= parent.max_depth
    /\ parent.depth < parent.max_depth
    /\ scope_is_monotonic(parent.scope, child.scope)

\* _validate_chain_time().
validate_chain_time(chain) ==
    \A i \in DOMAIN chain :
        LET c == creds[chain[i]] IN
        /\ c.expires > now
        /\ c.issued <= now
        /\ c.expires - c.issued <= MAX_TTL
        /\ i > 1 => c.expires <= creds[chain[i - 1]].expires

\* What an IssuerGrant of the (static) issuer policy covers; an issuer without a
\* grant covers nothing.
MayGrant(c) ==
    c.scope.what \in trusted[c.issuer].what /\ c.principal.kind \in trusted[c.issuer].kinds

\* _validate_chain().
validate_chain(chain) ==
    /\ validate_chain_time(chain)
    /\ \A i \in DOMAIN chain :
        LET c == creds[chain[i]] IN
        /\ MayGrant(c)
        /\ c.depth = i - 1
        /\ i = 1 => c.parent = None
        /\ i > 1 => /\ c.parent = chain[i - 1]
                    /\ is_monotonic(creds[chain[i - 1]], c)

\* The principals a call asserts, and whether one of them is bound as asserted.
Asserted(k) == {creds[k.chain[i]].principal : i \in DOMAIN k.chain} \cup {k.principal}
Bound(k, id) ==
    /\ policy[id] # None /\ policy[id].active
    /\ \A p \in Asserted(k) : p.id = id => p.kind = policy[id].kind
AssertedIds(k) == {p.id : p \in Asserted(k)}

NoneRevoked(chain) == \A i \in DOMAIN chain : chain[i] \notin revoked

\* What the first look checks once the revocations are known: every signature, by
\* the issuer's own key, the time again, and the request against the leaf.
VerifiedForRequest(k) ==
    /\ \A i \in DOMAIN k.chain : creds[k.chain[i]].signer = creds[k.chain[i]].issuer
    /\ validate_chain_time(k.chain)
    /\ Leaf(k.chain).principal = k.principal
    /\ Leaf(k.chain).scope = k.scope

-----------------------------------------------------------------------------
(* Ending a call.  _deny() raises whether or not its record was written: the *)
(* model always writes it, nothing else depends on it.                      *)

Deny(d) ==
    /\ call' = [call EXCEPT ![d] = None]
    /\ answer' = [answer EXCEPT ![d] = [allow |-> FALSE]]
    /\ audit' = [audit EXCEPT ![d] = Append(@, "deny")]

\* Return of the decision to allow; held says what was true when it was recorded.
Allow(d, issuedChild) ==
    /\ call' = [call EXCEPT ![d] = None]
    /\ answer' = [answer EXCEPT ![d] =
                    [allow |-> TRUE, chain |-> call[d].chain, child |-> issuedChild, held |-> call[d].held]]

-----------------------------------------------------------------------------
(* CapabilityAuthorizer.authorize(), one action per call of a back end.     *)

Start(d, chain, p, s, child) ==
    /\ call[d] = None /\ answer[d] = None
    /\ Parsed(chain)
    /\ LET k == [chain |-> chain, principal |-> p, scope |-> s, child |-> child,
                 phase |-> 1, step |-> "principals", todo |-> {},
                 seen |-> NoRevisions, before |-> NoRevisions,
                 revSeen |-> 0, revBefore |-> 0, held |-> FALSE]
       IN  call' = [call EXCEPT ![d] = [k EXCEPT !.todo = AssertedIds(k)]]
    /\ UNCHANGED <<now, creds, backends, reserved, audit, answer>>

\* MISSING_CREDENTIAL and MALFORMED_CREDENTIAL.
RejectMalformed(d) ==
    /\ call[d] = None /\ answer[d] = None
    /\ Deny(d)
    /\ UNCHANGED <<now, creds, backends, reserved>>

authorize(d, chain, request) == Start(d, chain, request.principal, request.scope, None)

\* The principal whose policy is read next: in the order of the chain, the request
\* last, each id once.
NextId(k) ==
    LET id(i) == IF i > Len(k.chain) THEN k.principal.id ELSE creds[k.chain[i]].principal.id
        i == CHOOSE i \in 1..(Len(k.chain) + 1) :
                id(i) \in k.todo /\ \A j \in 1..(i - 1) : id(j) \notin k.todo
    IN  id(i)

\* One snapshot of _validate_principals().  A refresh runs _validate_chain() before
\* it, which reads the clock alone.
ReadPrincipal(d) ==
    /\ call[d] # None /\ call[d].step = "principals"
    /\ LET id == NextId(call[d])
           rest == call[d].todo \ {id}
       IN  IF Bound(call[d], id) /\ (call[d].phase > 1 => validate_chain(call[d].chain))
           THEN /\ call' = [call EXCEPT
                                ![d].todo = rest,
                                ![d].step = IF rest = {} THEN "revocation" ELSE "principals",
                                ![d].seen[id] = counter]
                /\ UNCHANGED <<audit, answer>>
           ELSE Deny(d)
    /\ UNCHANGED <<now, creds, backends, reserved>>

\* A faulty variant: the revisions are not compared.
UnchangedSinceRefreshAny(k) == TRUE

\* The revisions of the last refresh are those of the one before the record.
UnchangedSinceRefresh(k) == k.seen = k.before /\ revCounter = k.revBefore

\* The revocation snapshot, and what follows it without another back end: at the
\* first look the chain, the signatures and the request (_validate_chain() goes
\* before the snapshot and reads the clock alone), at the last one the time again
\* and CURRENT_STATE_CHANGED.
ReadRevocation(d) ==
    LET k == call[d] IN
    /\ k # None /\ k.step = "revocation"
    /\ IF \/ ~NoneRevoked(k.chain)
          \/ k.phase = 1 /\ ~(validate_chain(k.chain) /\ VerifiedForRequest(k))
          \/ k.phase = 3 /\ ~(validate_chain_time(k.chain) /\ UnchangedSinceRefresh(k))
       THEN Deny(d)
       ELSE IF k.phase = 3 /\ k.child = None THEN Allow(d, None) /\ UNCHANGED audit
       ELSE /\ call' = [call EXCEPT ![d].step = <<"reserve", "audit", "issue">>[k.phase],
                                 ![d].revSeen = revCounter]
            /\ UNCHANGED <<audit, answer>>
    /\ UNCHANGED <<now, creds, backends, reserved>>

\* A faulty variant: the reservation lasts until the decision, not until the
\* credential expires.
ReservationsUntilNow(c) ==
    [x \in Credential |-> IF x = c THEN now
                          ELSE IF reserved[x] # None /\ reserved[x] >= now THEN reserved[x]
                          ELSE None]

\* InMemoryReplayBackend.reserve() when it succeeds: what has expired is dropped.
Reservations(c) ==
    [x \in Credential |-> IF x = c THEN creds[c].expires
                          ELSE IF reserved[x] # None /\ reserved[x] >= now THEN reserved[x]
                          ELSE None]

\* reserve() of the leaf.  The check of the time that follows it is the first thing
\* the refresh does too.
Reserve(d) ==
    /\ call[d] # None /\ call[d].step = "reserve"
    /\ LET c == call[d].chain[Len(call[d].chain)] IN
       IF reserved[c] # None /\ reserved[c] >= now
       THEN Deny(d) /\ UNCHANGED reserved
       ELSE /\ reserved' = Reservations(c)
            /\ call' = [call EXCEPT ![d].step = "principals", ![d].phase = 2,
                                 ![d].seen = NoRevisions, ![d].todo = AssertedIds(call[d])]
            /\ UNCHANGED <<audit, answer>>
    /\ UNCHANGED <<now, creds, backends>>

\* All that the decision claims, true at this very moment.
Holds(k) ==
    /\ validate_chain(k.chain) /\ VerifiedForRequest(k) /\ NoneRevoked(k.chain)
    /\ \A id \in AssertedIds(k) : Bound(k, id)

\* A faulty variant: a sink that fails is ignored.
AuditUnavailableIgnored(d) ==
    /\ call[d] # None /\ call[d].step = "audit"
    /\ call' = [call EXCEPT ![d].step = "principals", ![d].phase = 3,
                            ![d].todo = AssertedIds(call[d]), ![d].seen = NoRevisions,
                            ![d].before = call[d].seen, ![d].revBefore = call[d].revSeen,
                            ![d].held = Holds(call[d])]
    /\ UNCHANGED <<now, creds, backends, reserved, audit, answer>>

\* The decision to allow is recorded before it is returned.
RecordAllow(d) ==
    /\ call[d] # None /\ call[d].step = "audit"
    /\ audit' = [audit EXCEPT ![d] = Append(@, "allow")]
    /\ call' = [call EXCEPT ![d].step = "principals", ![d].phase = 3,
                            ![d].todo = AssertedIds(call[d]), ![d].seen = NoRevisions,
                            ![d].before = call[d].seen, ![d].revBefore = call[d].revSeen,
                            ![d].held = Holds(call[d])]
    /\ UNCHANGED <<now, creds, backends, reserved, answer>>

\* AUDIT_UNAVAILABLE: denied, nothing recorded.
AuditUnavailable(d) ==
    /\ call[d] # None /\ call[d].step = "audit"
    /\ call' = [call EXCEPT ![d] = None]
    /\ answer' = [answer EXCEPT ![d] = [allow |-> FALSE]]
    /\ UNCHANGED <<now, creds, backends, reserved, audit>>

\* A back end raises: BACKEND_UNAVAILABLE.
BackendUnavailable(d) ==
    /\ call[d] # None /\ call[d].step \in {"principals", "revocation", "reserve"}
    /\ Deny(d)
    /\ UNCHANGED <<now, creds, backends, reserved>>

-----------------------------------------------------------------------------
(* CapabilityIssuer and DelegatingCapabilityIssuer.                         *)

\* A faulty variant: the child's lifetime is not cut at the parent's.
expires_at_of_ttl(ttl, parentExpires) == now + ttl

\* _issue(): the expiry, cut at the parent's.
expires_at(ttl, parentExpires) ==
    IF parentExpires # None /\ parentExpires < now + ttl THEN parentExpires ELSE now + ttl

\* issue_root().
issue_root(c, i, root, ttl) ==
    /\ creds[c] = None /\ now <= MaxIssueTime
    /\ creds' = [creds EXCEPT ![c] =
                    [issuer |-> i, signer |-> i, principal |-> root.principal,
                     scope |-> root.scope, depth |-> 0, max_depth |-> root.max_depth,
                     parent |-> None, issued |-> now,
                     expires |-> expires_at(ttl, None)]]
    /\ UNCHANGED <<now, backends, reserved, call, audit, answer>>

\* delegate(): the parent must be able to delegate this scope; then it is authorized
\* like an invocation, which uses it up.
delegate(d, chain, child) ==
    /\ Parsed(chain)
    /\ Leaf(chain).depth < Leaf(chain).max_depth
    /\ scope_is_monotonic(Leaf(chain).scope, child.ask.scope)
    /\ creds[child.as] = None
    /\ Start(d, chain, child.ask.by, Leaf(chain).scope, child)

\* _issue_child(), after authorize() returned.
issue_child(d, ttl) ==
    /\ call[d] # None /\ call[d].step = "issue"
    /\ LET k == call[d]
           parent == Leaf(k.chain)
           expires == expires_at(ttl, parent.expires)
       IN  IF expires > now /\ creds[k.child.as] = None
           THEN /\ creds' = [creds EXCEPT ![k.child.as] =
                               [issuer |-> k.child.issuer, signer |-> k.child.issuer,
                                principal |-> k.child.ask.principal, scope |-> k.child.ask.scope,
                                depth |-> parent.depth + 1, max_depth |-> parent.max_depth,
                                parent |-> k.chain[Len(k.chain)], issued |-> now,
                                expires |-> expires]]
                /\ Allow(d, k.child.as)
           ELSE Allow(d, None) /\ UNCHANGED creds
    /\ UNCHANGED <<now, backends, reserved, audit>>

\* Signatures made by anybody with any tool: a forged issuer, a trusted issuer that
\* signs a broader child, a credential dated ahead or living too long.
SignForeign(c, f, parent) ==
    /\ creds[c] = None /\ now <= MaxIssueTime /\ parent # c /\ (f.depth = 0 <=> parent = None)
    /\ creds' = [creds EXCEPT ![c] =
                    [issuer |-> f.issuer, signer |-> f.signer, principal |-> f.principal,
                     scope |-> f.scope, depth |-> f.depth, max_depth |-> f.max_depth,
                     parent |-> parent, issued |-> now + f.delay,
                     expires |-> now + f.delay + f.ttl]]
    /\ UNCHANGED <<now, backends, reserved, call, audit, answer>>

-----------------------------------------------------------------------------
(* The back ends' own operations.  The bound counts a change twice, a tick   *)
(* once: many ticks or a change and its undoing, not both.                   *)

Undisturbed == now + 2 * (counter + revCounter) < MaxEvents

\* InMemoryPrincipalPolicyBackend.set() and remove().
SetPrincipal(u) ==
    /\ Undisturbed
    /\ policy' = [policy EXCEPT ![u.id] = u.policy]
    /\ counter' = counter + 1
    /\ UNCHANGED <<now, creds, revoked, revCounter, reserved, call, audit, answer>>

Revoke(c) ==
    /\ Undisturbed
    /\ revoked' = revoked \cup {c}
    /\ revCounter' = revCounter + 1
    /\ UNCHANGED <<now, creds, policy, counter, reserved, call, audit, answer>>

Tick ==
    /\ Undisturbed
    /\ now' = now + 1
    /\ UNCHANGED <<creds, backends, reserved, call, audit, answer>>

Environment ==
    \/ \E c \in Credential, i \in OwnIssuer, root \in Root, ttl \in Ttl :
          issue_root(c, i, root, ttl)
    \/ \E c \in Credential, f \in Foreign, q \in Credential \cup {None} : SignForeign(c, f, q)
    \/ \E u \in Update : SetPrincipal(u)
    \/ \E c \in Credential : Revoke(c)
    \/ Tick

Next ==
    \/ \E d \in Decision, ch \in Chain, r \in Invocation : authorize(d, ch, r)
    \/ \E d \in Decision, ch \in Chain, k \in Child : delegate(d, ch, k)
    \/ \E d \in Decision : RejectMalformed(d)
    \/ \E d \in Decision : ReadPrincipal(d)
    \/ \E d \in Decision : ReadRevocation(d)
    \/ \E d \in Decision : Reserve(d)
    \/ \E d \in Decision : RecordAllow(d)
    \/ \E d \in Decision : AuditUnavailable(d)
    \/ \E d \in Decision : BackendUnavailable(d)
    \/ \E d \in Decision, ttl \in Ttl : issue_child(d, ttl)
    \/ Environment

Spec == Init /\ [][Next]_vars

-----------------------------------------------------------------------------
Granted == {d \in Decision : answer[d] # None /\ answer[d].allow}

\* Every variable holds a value of its type.
TypeOK ==
    /\ now \in Nat /\ counter \in Nat /\ revCounter \in Nat
    /\ creds \in [Credential -> Content \cup {None}]
    /\ policy \in [PrincipalId -> Policy \cup {None}]
    /\ revoked \subseteq Credential
    /\ reserved \in [Credential -> Nat \cup {None}]
    /\ call \in [Decision -> Call \cup {None}]
    /\ audit \in [Decision -> Seq({"allow", "deny"})]
    /\ answer \in [Decision -> Answer \cup {None}]

\* "reserve its leaf exactly once": a credential is good for one invocation or one
\* delegation, whatever calls overlap and although the replay back end forgets a
\* reservation once the credential has expired.
SingleUse ==
    \A d, e \in Granted :
        answer[d].chain[Len(answer[d].chain)] = answer[e].chain[Len(answer[e].chain)] => d = e

\* authorize() reads the policy of each principal, the revocations and the clock one
\* after the other.  What it allows was nevertheless all true at one moment, that of
\* the audit record: every principal of the chain bound and active, nothing in the
\* chain revoked or expired, every link signed and monotonic.
AllowedAtOneInstant == \A d \in Granted : answer[d].held

\* Along a granted chain authority never grows: the leaf is within the scope, the
\* lifetime and the depth the root was signed for, whoever signed what is in between.
AuthorityNeverGrows ==
    \A d \in Granted :
        LET root == creds[answer[d].chain[1]]
            leaf == Leaf(answer[d].chain)
        IN  /\ scope_is_monotonic(root.scope, leaf.scope)
            /\ leaf.expires <= root.expires
            /\ leaf.depth <= root.max_depth

\* A decision that was returned to allow is on record, as the only record of it: a
\* record to allow that was overtaken by a change is never acted upon.
AllowIsOnRecord == \A d \in Granted : audit[d] = <<"allow">>

\* What delegate() issues is what authorize() accepts: until the child expires, the
\* chain extended by it is valid, provided the issuer may grant what it signed.
DelegatedChainVerifies ==
    \A d \in Granted :
        LET a == answer[d] IN
        a.child # None =>
            LET c == creds[a.child] IN
            c.expires > now /\ MayGrant(c) => validate_chain(Append(a.chain, a.child))

\* An answer to allow can be defended afterwards: all that it rests on was true at the
\* moment of its audit record, and that record is the only one of the decision.
AllowIsAccountable == AllowedAtOneInstant /\ AllowIsOnRecord

\* Issuer and authorizer agree on what a chain may be: it never grants more than its root,
\* and what delegate() adds to one that was granted keeps it valid.
ChainsAreMonotonic == AuthorityNeverGrows /\ DelegatedChainVerifies
=============================================================================
