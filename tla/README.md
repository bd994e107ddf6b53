# CapAuth in TLA+

CapAuth replaces passwords by OpenPGP signatures: a server issues a challenge,
the holder of a key signs it, and the server turns the signature into a login
(a JWT, an Authentik session, an OIDC code). Around that core the repository
has a broker that connects a browser to a remote signer, a device-pairing
kernel, capability tokens with an authorization decision point, and libraries
for key custody, transparency logs, peers and membership.

This directory holds a TLA+ model of the parts with state and concurrency, the
TLC configurations that check it on small instances, and TLAPS proofs for any
number of clients, processes, keys and restarts. `PROJECT.json` maps every definition to
the source lines it stands for, and lists the hazards the properties are for.

## 1. Inventory

Paths are below `src/src/capauth/`.

| Component | State | Operations | Talks to | Hard part |
|---|---|---|---|---|
| Nonce store (`authentik/nonce_store.py`) | nonce id -> record, in the Django cache or in a dict | `issue`, `peek`, `consume` | called by the service, the stage and the OIDC provider | `consume` is a get, checks, and a set |
| Verification service (`service/app.py`) | nonces, key rows (SQLite), QR results, JWTs in the field | challenge, verify, QR challenge / verify / status, approve, revoke, token-info | nonce store, key store, verifier | responses replayed, mixed, late; enrollment before verification |
| Key store (`service/keystore.py`) | fingerprint -> row | enroll (replace), approve, revoke, update_last_auth | service | re-enrollment after revocation |
| Authentik stage (`authentik/stage.py`) | nonces, `CapAuthKeyRegistry`, `plan.context` per session | get_challenge, challenge_valid | nonce store, Django ORM, admin | several gunicorn workers; a session that may be stale |
| Bunker broker (`service/bunker.py`) | sessions, peers, replay guard, write queue, store file | create_session, join, relay, leave, `_gc`, `_persist`, `_load_store` | websockets, writer thread, disk | awaits outside the lock, crash between send and write |
| Web push (`service/push.py`) | subscriptions | subscribe, notify | bunker | best effort |
| OIDC provider (`service/oidc/`) | login requests, authorization codes, passkeys and their challenges | authorize, complete, passkey registration and login, token | nonce store, key registry, browser | single use, PKCE binding, expiry in the middle of a handler |
| Forgejo integration (`integrations/forgejo/`) | sessions by `state`, codes | authorize, complete, token | verification service, Forgejo | a login filed under a name the client chose |
| Pairing kernel (`pairing/`) | pairing window, peer files, pending enrollments | open/close window, enroll_device, approve, revoke, list | disk without a lock | read-modify-write of files, crash between two writes |
| Operator sessions (`pairing/operator_session.py`) | approval and revocation files, challenges, device store | mint, verify, approve, revoke, unrevoke, issue/consume challenge | disk, threads | files that cannot be read count as empty; two store instances on one file |
| Authorization (`authz.py`, `tokens.py`, `identity_class.py`) | token files, revocation list, class assignments, devices | decide, issue, revoke, verify, prune, assign | Syncthing, other processes | a decision reads four files one after the other |
| Delegated capabilities (`delegated.py`) | policies, revocations, reservations, audit | issue_root, delegate, authorize | back ends, threads | each back-end call is locked, the decision is not |
| Key transparency (`key_transparency.py`) | append-only log | append, verify, audit | processes | history must not be rewritten or lost |
| Manifest, custody, estate, seal | module registry, key files, archives, evidence, keyring | register, verify-all, doctor, retire, seal, unseal | operator, gpg, Syncthing | what is read at different times is judged together |
| Mesh, discovery, sync | peer registry and file, presence files, shared folder | announce, discover, verify, remove, sync | threads, network | saves outside the lock; ignore rules before sharing |
| Identity, login, membership | replay guard, token files, claim files | challenge, verify; do_login, load_cached_token; request, approve, revoke, verify | services, stewards | clocks read twice, profiles read twice, files cut short |
| Nextcloud app, browser extension, phone signer, CLI, scripts, deployment, trust graph, crypto back ends | see section 6 | | | |

What makes each part correct: a nonce is worth at most one login, and only for
the fingerprint it was issued to, within its lifetime; a login needs a
signature by that fingerprint's key and, where configured, an approval that is
still in force; a revocation takes effect within a bounded time; the broker
relays a request to a signer at most once, never strands a role and loses no
committed session; a pairing needs a live window and a trusted proof, and a
revoked device stays revoked; an authorization code yields one token, for the
client and the subject of its login; a decision to allow rests on facts that
held together at one moment; a file that was torn or lost never grants
anything; and what a tool reports as verified, valid, signed or clean is so.

## 2. Plan

Modules, in the order in which they matter:

1. `KeyText`, `NonceStore`, `VerifyService`, `VerifyServiceProofs`.
2. `AuthentikStage`, `AuthentikStageProofs`: the same nonce store under
   concurrent workers.
3. `Bunker`: broker, writer thread, network, crash.
4. `Pairing`, `PairingProofs`: window, kernel and file store with crashes and
   two processes.
5. `LoginFlow`, what an authorization-code provider promises, and the two that
   implement it: `OIDCProvider` (on `NonceStore`) and `ForgejoFlow`.
6. `Authority` and `Delegated`: who may do what.
7. `Custody` and, on it, `Estate`: the identity of a host, its doctors, the
   retirement of keys, the shared folder.
8. `Host`, which composes `OperatorSession`, `DeviceStore`, `KeyLog`,
   `ModuleRegistry`, `PeerMesh`, `IdentityChallenge`, `Seal`, `LoginClient` and
   `Membership`: what the processes of one host share.

All of these are written, and every safety property that a passing run checks
is a theorem (section 5). What is left, should the project grow: the proofs could
be read together (that `VerifyService` keeps the promise `ForgejoFlow` takes from
it, as an abstract specification of a proof of possession), and the parts listed
in section 6 could be modelled.

## 3. What is modelled

`KeyText` is what `verifier.py` makes of a text of public keys. PGPy derives the
fingerprint from the first key, or derives none, and the comparison with the claimed
fingerprint is then skipped; gpg imports every key of the text and takes a detached
signature by any of them, while a signed message goes to PGPy and its first key. So a
text is a record of the key PGPy reads first and the set gpg finds, and a good signature
says no more than `SignedFor`: it is the fingerprint's own, or a detached one by a key in
a text that passed for the fingerprint's. The service, the stage and the OIDC provider
share these operators, and their properties say exactly this much of a login.

`NonceStore` is stateless: `issue`, `peek`, `consumeError` (the checks of
`consume`) and `markUsed` (its write) are operators on a cache, so that the
service can run a whole `consume` in one step and the stage can be interrupted
in the middle. `UseDjango` chooses the back end: the Django cache drops a record
at its timeout, which is later than the nonce's lifetime (`Grace`, at least one
tick); the dict never does.

`VerifyService`. The handlers are coroutines of one event loop and do not await
between their first read and their last write, so each is one action. A request
(`Request`) is any combination of a claimed fingerprint, a nonce, a key text, a
signature and signed claims; a signature is represented by the key that made it
over the challenge of the posted nonce and by its form, so nobody forges but anybody
may replay, mix or delay. A text that is posted is preferred to the enrolled one. `Answer` has the early returns of
`verify_endpoint` in their order, `HandleResponse` the effects of each, which
include enrollment before any signature is checked and the burning of a nonce
whose signature turns out wrong. `Restart` loses the dicts and keeps SQLite.
History variables record to whom and when a nonce was issued, how often it was
consumed, and the admin's approvals and revocations.

`AuthentikStage`. `challenge_valid` is split at every access to the shared cache
and registry (`Receive`, which peeks, `Resolve`, which reads the row whose text is
used, `ConsumeGet`, `ConsumeSet`, `EnrollCheck`, `EnrollCreate`, `LoadRow`, `StageOk`),
and the workers interleave there. The user who is logged in is `effective_fingerprint`:
the fingerprint that answered, or the one an admin linked it to. A
signature carries the challenge it is over, since here the challenge comes from
`plan.context` and the nonce from the response. Django only saves a session it
sees modified, so a change made inside the plan may or may not survive the
request: `get_challenge` chooses.

`Bunker`. A handler runs from one await to the next in one action; its awaited
sends are an outbox that is drained while other handlers run. The writer thread
takes snapshots from a queue and writes them, in order; a write may fail
(`WriteFails`), which the code only logs. `Restart` kills the sockets, the queue
and the handlers, and reloads what is on disk and not expired.

`Pairing`. The window is an object of one process, so `open`, `close` and
`enroll_device` (gated by a window, or ungated as the command line calls it) are
one action each. The store is files without a lock: `approve` and `revoke` are
split into `ReadPeer`, `TruncatePeer`, `WritePeer` and, for `approve`,
`FinishApprove`, which deletes the pending enrollment; `write_text` truncates
before it writes, so a process that dies in between (`Crash`) leaves a torn file,
which the next reader takes for an empty one. A request says who signed the
challenge of its mode. History variables record how each enrollment came about,
by which window, what was approved, and whether two operations ever overlapped.
The attempts a window counts are a set of timed attempts, of which it forgets the
old ones as the code does when it is asked.

`LoginFlow` is the abstract specification of a provider: a login is idle,
pending, granted, over; it is granted once, to one subject, and yields at most
one token; a step may end any number of logins (sweeps, restarts).
`OIDCProvider` has the endpoints of `provider.py`, one action each, on the
stores of `store.py` and `passkey.py`; `complete` and `passkey_login_complete`
end at a later time than they begin, because they check the request at their
head and pop it behind the verification. A login's phase is read off the
stores: its request is there, a code of it is there, or neither. `ForgejoFlow`
files a login under the `state` the client chose, so that one login may replace
another; its proof is an access token of the verification service, or one of its own,
which is the same to it. The claims a caller sends go into the token last
(`payload.update`), and so may replace the subject, the expiry and the audience; the
`capauth_fingerprint` they do not reach.

`Delegated`. Threads share one authorizer. `authorize` is split at every call of
a back end (the policy of each principal, the revocations, the reservation, the
audit record, the last comparison of revisions), and policies change, credentials
are revoked, back ends fail and time passes in between; `delegate` is the same
decision followed by the signature of a child. A credential is named by its
digest; what it says is fixed when it is signed, and somebody else may sign
chains of any shape. `held`, as history, says whether everything was true at the
moment of the audit record. One signed payload has one signature text, back-end
calls are atomic, and the validation of a chain, which reads nothing shared, is
one step with the next read. `Undisturbed` bounds how much happens at once.

`Authority`. Everything is a file: tokens, the revocation list, the class
assignments, the devices. `decide` reads them one after the other (`decide`,
`ReadDevices`, `ReadTokens`, `ReadRevocations`); a writer truncates and writes,
and may die in between; token files are replicated into the store by anybody
(`Replicas`). The rule tables and class ceilings are those of the source. One
decision is followed at a time, as decisions do not write; that `is_revoked`
reads the list once per token is merged into one read. `overlap` remembers the
commands of which two were under way at once. The id of a token is a digest of
its payload, the time of issue included (`_compute_token_id`), so `issue_token`
takes an id under which no file is, is being written, or is about to be unlinked.
The issuer a token declares is a text that names every key whose fingerprint it is a
suffix of, or that is a suffix of it (`named`).

`Custody` holds what one host has (`PutFile`, `Upkeep`, `Backup`, `Tick`) and
`doctor`, which only reads and so is a function of the state; its snapshots are
a set of records with their times, of which the newest is looked for, and which the
backup script drops by age. `Doctor` remembers, as history, the last clean bill. A
revocation certificate is a signature over a key, a subkey or a user id, as the doctor
counts any of these. `Estate`
adds the audit in its three reads, the operator who retires a key, records evidence and
removes copies on it, and `capauth sync` with the ignore file and what Syncthing
then carries away.

`Host` composes nine parts that share processes and not state:

- `OperatorSession`: challenges are consumed by a call of their own, and minting a
  session takes none; a change reads the whole file and replaces it later; a file
  that cannot be read counts as empty (`Fault`); `verify` reads two files three
  times (`VerifyBegin`, `VerifyNext`). A row that was lost by a change made to
  an empty reading, and that a later change makes anew, is remembered (`anew`).
- `DeviceStore`: instances with copies of their own, which read again before a
  change.
- `KeyLog`: lines with the hash of the one before; processes that read the same
  last line, crashes with half a line or a line without its end (`Torn`),
  rewriting of an entry (`Tamper`) or of all that follow it with fresh hashes
  (`Relink`). The hash is injective.
- `ModuleRegistry`: the registry is read whole and written in place; verify-all
  reads registry, manifests and signatures, which may be in files of other names, one
  after the other, and either expects a signer or takes any key gpg knows, as it does
  unless told otherwise.
- `PeerMesh`: changes under a lock, saves in steps of their own; three discovery
  back ends; a presence file has a time of its own and says what it likes, `verified`
  included, as may a caller of `add_peer`; a peer found by mDNS is one object in the
  listener and in the registry (`shared`), so what is set of one is set of the other.
- `IdentityChallenge`: the clock is read for the age check, which a caller may waive,
  and again by the replay guard.
- `Seal`: every call of gpg is a step (the recipients, the signer's fingerprint, the
  message), the keyring changes in between, and a failed signature may lead to a second
  try without one.
- `LoginClient`: `do_login` step by step, with the profile read twice, replies
  lost, output to the cache or elsewhere (`--output-token`), token files cut short or
  written by two processes at once, and tokens that say how long they are good for and
  tokens that do not.
- `Membership`: claim files written in place by several stewards, and the copies
  members carry away, altered or stripped of their signature.

## 4. Runs

Each run is one question; a property with named parts is the conjunction of
them, and the parts are stated, with their comments, above it in its module.

| Run | Expect | Checks | What it shows |
|---|---|---|---|
| `verify` | pass | `NonceConsumedOnce`, `TokenProvenance`, `RevocationTakesEffect`, `GenuineLoginAccepted`, `LoginNeedsApproval` | two key holders, one nonce, approval required, texts of one key and of several: no order of replays, enrollments, approvals, revocations and restarts yields a second use, a login on somebody else's nonce or without a signature by a key in a text that passed for the fingerprint's, or one without approval; a genuine holder is not locked out |
| `qr_login` | violation | `QrLoginAccepted` | the QR login never succeeds: the nonce is issued to `QR_PENDING`, `consume` compares it with the phone's fingerprint |
| `stage_workers` | pass | `RegistryProven`, `StageProvenance`, `PassesOnlyApproved` | two workers: registry rows, logins and approvals stay right under every interleaving |
| `stage_race` | violation | `NonceConsumedOnce` | two workers consume one nonce: both read before either writes |
| `bunker` | pass | `StoreCatchesUp`, `ReplayGuardHolds`, `RolesAreHeld`, `ClosedSocketIsReleased`, `StoreIsDurable` | the newest snapshot is always the truth; the replay guard holds across restarts except for what the crash lost; roles are never stranded and are released in the end; what was admitted becomes durable and what was written comes back |
| `pairing` | pass | `EvidenceBacked`, `WindowBounds`, `SerialStoreIsSafe` | a device only counts for a mode whose evidence was presented, reopening a window does not lift its limits, and a store used by one process at a time loses nothing, a revocation least of all |
| `delegated` | pass | `SingleUse`, `AllowIsAccountable`, `ChainsAreMonotonic` | a credential is good once although reservations are forgotten at expiry; what is allowed was all true at the moment of its only audit record; chains never grow, and what is issued verifies |
| `authority` | pass | `CeilingHolds`, `GrantIsTraceable`, `CommandsLast` | a class is a ceiling under either name; replicated files grant nothing in this agent's name by being there, and what a decision relied on was valid from its beginning to its end; pruning loses no mint, and a revocation is only missed for a torn list |
| `oidc` | pass | `ProofIsOwnAndSingle`, `TokenBoundToLogin`, `ImplementsLoginFlow` | two logins, passkeys, texts with another key in front, expiry inside a handler and restarts: the provider implements `LoginFlow`, and codes and passkeys go back to one signature each |
| `forgejo` | pass | `TokenIsProvenInTime`, `ImplementsLoginFlow` | logins that share a state parameter, and claims that replace subject, expiry or audience: the integration implements `LoginFlow`, too; whom a token is for was vouched for |
| `estate` | pass | `BillOutlastsLoss`, `RemovedKeyIsQuarantined`, `BoundaryHolds` | what a clean bill of custody is still worth after losses, rotations and backups without the key; retirement loses no key; no secret leaves the host once the ignore file was in order |
| `host` | pass | `SessionsStand`, `DevicesAsIntended`, `LogIsEvidence`, `ModulesAreVouchedFor`, `PeersAreAsProven`, `ReplayOnlyAtExpiry`, `SealReportsAreTrue`, `LoginIsOfOneIdentity`, `MembersAreApproved` | two processes without a common lock: revoked stays refused, stale copies undo nothing, no entry is lost unnoticed, and what is reported verified, valid or signed is what was found so |

Every module also has a type invariant. Those of all components but the nine parts
of `Host` are theorems (section 5; of the nine, the types a proof needs are part of
its invariant). All hold in the instances below (add `INVARIANT TypeOK` to a cfg)
and are left out of the standing runs, which are about behaviour.

Many properties of files without a lock exclude what the code does not
protect against, and say so by a history variable: `clash`, `raced`, `overlap`,
`disturbed`, `out_of_order`, `damaged`, `blind`, `edited`. What happens in the excluded
cases is listed at the end of section 6.

### Bounds

Time, crashes, commands and sets are bounded by constants that appear in guards
(`MaxTime`, `MaxCrashes`, `MaxCommands`, ...). Two fingerprints are enough for one
client to use another's key, nonce or signature, or to put it into one text with its own;
lifetimes of one tick with a
clock that goes one past them reach "before", "exactly at" and "after" each
deadline. `verify` has one nonce; that a response names the wrong nonce is
covered by the theorems, which hold for any number. Two workers suffice for a
race of a get and a set; `stage_workers` has one nonce, as two are out of reach
with two workers, and the theorems of `AuthentikStageProofs` cover any number.
The pairing window's limits are 1 and there are two enrollments, so each limit
is reached and exceeded; `Apart` (in `MCPairing`) explores the window with
nothing approved, and approvals without a window, as the two share no more than
the enrollments. The broker has two sockets, a client and a signer before or
after a crash, one session and one request; its cap on the number of sessions
needs two and is not checked. `delegated` has two overlapping decisions on a root and a
child; `authority` two processes, one subject under two names, two tokens, an issuer that
names two keys, and replicated files that expire, are unsigned, are not valid yet, or are
signed by another key than they say; `oidc` two logins, two subjects, two clients and one
passkey, all lifetimes 0 and a grace of one tick, so that an expiry can fall inside a
handler; `forgejo` two logins under one or two state
values, with no claims, a subject, or an expiry and an empty audience. In `estate`, `Apart` (in `MCEstate`) explores audits on a host on which only
keys are moved, and the custody checks on one that is not audited. `MCHost`
lets one part of the host leave its initial state only while the other eight
rest (`Alone`), which loses nothing as they share no state, follows two
operator sessions only as long as no file was changed, and changes a file a third and
fourth time (which a lost row that is made anew takes) only when no time passes
(`OneSession`); a third command of the module registry comes only with one file name and
before anything is signed (`OnePath`), presence files only between saves (`Quiet`), and
the profile is edited only where tokens go to the cache and no time passes
(`PlainLogin`). Each of these combinations holds by the theorems. Symmetry is used on sets
of model values in runs without liveness properties only.

### Fairness

`FairSpec` of the broker assumes weak fairness of three things: a handler's
pending send ends (the event loop runs ready tasks, and `_safe_send` returns
also when the peer is gone), a handler whose socket closed runs its `finally`
block, and the writer thread, a daemon that blocks on the queue, is scheduled.
Nothing is assumed of peers, the network, the clock or crashes. The other
components promise nothing that must eventually happen without their callers.

Deadlock is checked for the verification service only, which always accepts
another request: a system whose clock, nonces and commands are used up, or whose
sockets are gone, may stop.

## 5. Proofs

Every invariant and action property of the passing runs is a theorem, for every
value of the constants that the assumptions named in the modules admit: any
number of clients, processes, keys, nonces, tokens, commands, restarts and
lifetimes. The runs show the same statements on small instances, and the mutants
show that they can fail. Only the two liveness properties stay with TLC.

The assumptions are of three kinds: bounds and lifetimes are naturals; the
placeholders for "nothing", "torn" and "pending" are none of the values they stand
beside; and what the code itself guarantees of a parameter (the own key is in the
keyring, nobody else signs with it, a canonical name is its own canonical name, the
cache outlives a nonce by at least one tick).

Each module goes the same way: the invariant is a conjunction of named links; one
lemma says that it holds at first; one lemma per action, or per kind of action, says
that a step keeps it; frame lemmas say what a step of somebody else cannot disturb;
and the theorems follow by temporal reasoning (`PTL`).

### `VerifyServiceProofs`

| Theorem | Statement |
|---|---|
| `TypeCorrect` | `Spec => []TypeOK` |
| `SingleUse` | `Spec => []NonceConsumedOnce` |
| `Provenance` | `Spec => []TokenProvenance` |
| `Revocation` | `Spec => []RevocationTakesEffect` |
| `Approval` | `Spec => LoginNeedsApproval` |
| `HolderIsAccepted` | `Spec => []GenuineLoginAccepted` |

For both settings of `REQUIRE_APPROVAL` and `UseDjango`. None of the properties is
inductive alone. The invariant adds: `NonceLink` (a cached record is the one that was
issued, and an unused record was never consumed: without it a restart or eviction
could be followed by a second use), `TokenLink` (a JWT was granted in consuming its
nonce), `ApprovalLink` (with approval required, an approved row is one the admin approved since the last revocation) and
`RevocationLink` (a token whose key has no row was granted before the last
revocation). The argument goes by actions: issuing, `HandleResponse` (by the lemmas
`BurningAnswer`, `AcceptedKey` and `SuccessAnswer`, which say what the early returns
imply), and the administrative actions. `HolderIsAccepted` needs in addition that a nonce
nobody consumed is unused and in the cache beyond its lifetime (`LiveLink`), so that
no early return stops its holder.

### `AuthentikStageProofs`

| Theorem | Statement |
|---|---|
| `StageTypeCorrect` | `Spec => []TypeOK` |
| `RegistryOnlyProven` | `Spec => []RegistryProven` |
| `LoginProvenance` | `Spec => []StageProvenance` |
| `ApprovedOnly` | `Spec => PassesOnlyApproved` |

What makes it inductive is `WorkerLink`: what a worker has established when it
reaches a label (`Received`: the challenge it checks against was issued to the
claimed fingerprint; `KeyChosen`: the text it holds passes for the fingerprint's;
`NonceChecked`: the record it read is the issued one and was
alive; `Proven`: the signature is over that challenge and by a key of the text;
`Loaded`: the user is the fingerprint or the one it was linked to).
None of these facts mentions the registry or the current cache, so no step of
another worker, the admin or the clock can take them away (`OtherWorkers`,
`WorkersUndisturbed`); `CacheLink` and `ContextLink` say the same of the shared
cache and the stashed challenges. That a nonce is consumed once is not among the
theorems: `stage_race` refutes it.

### `BunkerProofs`

| Theorem | Statement |
|---|---|
| `BunkerTypeCorrect` | `Spec => []TypeOK` |
| `StoreAlwaysCatchesUp` | `Spec => []StoreCatchesUp` |
| `SessionsSurviveCrash` | `Spec => PairingSurvivesCrash`, the action part of `StoreIsDurable` |
| `RolesAreAlwaysHeld` | `Spec => []RolesAreHeld` |
| `RequestsArriveOnce` | `Spec => []ReplayGuardHolds` |

`ConnLink` ties a handler that joined to a socket it has not left; `StoreCatchesUp`
is kept because every handler that changes a session queues a snapshot in the same
step. The replay guard is about a request in one of several places (admitted, in a
handler's outbox, delivered, recorded on disk): `GuardLink` says that a session
remembers what it admitted unless a crash lost it, `FlightLink` that a request on its
way is on one way only and has not arrived before, `ArrivedLink` that what was not
admitted has not arrived, `DrawnLink` that a session's name is not used again. The
queue and the outboxes are sequences; what a restart loads, which depends on the
clock, is related to what was queued by `StoreCatchesUp`.

### `PairingProofs`

| Theorem | Statement |
|---|---|
| `PairingTypeCorrect` | `Spec => []TypeOK` |
| `Evidenced` | `Spec => []EvidenceBacked` |
| `WindowsAreBounded` | `Spec => []WindowBounds` |
| `SerialStoreLosesNothing` | `Spec => []SerialStoreIsSafe` |

`Evidenced`: the rows a process read some time ago and will write back are as right
as those on disk (`RowLink`), so the lost updates of an unlocked file can lose a
device but never upgrade one. `WindowsAreBounded`: the window object counts no less
than it admitted (`Counts`: its accepts those of its nonce, its attempts, which it
forgets after `throttle_window`, those of its id), for every moment from which one
may count back. `SerialStoreLosesNothing`: an operation that nobody disturbed knows
what the file was, and while the file is torn it holds the rows (`Midway`); the rows
are `Settled`: every approved device is in them, every revoked one as revoked.

### `DelegatedProofs`: delegated capabilities and the decision point

| Theorem | Statement |
|---|---|
| `DelegatedTypeCorrect` | `Spec => []TypeOK` |
| `LeafIsUsedOnce` | `Spec => []SingleUse` |
| `AllowStaysAccountable` | `Spec => []AllowIsAccountable` |
| `ChainsStayMonotonic` | `Spec => []ChainsAreMonotonic` |
| `AuthzTypeCorrect` | `AuthzSpec => []AuthzTypeOK` |
| `CeilingsHold` | `AuthzSpec => []CeilingHolds` |
| `GrantsAreTraceable` | `AuthzSpec => []GrantIsTraceable` |
| `CommandsOutlast` | `AuthzSpec => []CommandsLast` |

Delegated capabilities. A call is at some step of its decision, and `InOrder` says
what it has established by then: `Sound` collects what a check of a chain finds and
nothing later undoes, apart from expiry. What the back ends said can be out of date
at once; `Vouched` says that a revision which is still current vouches for what was
checked with it, and `Noticed` that whatever was not true at the record is going to be
noticed by the last comparison (`Doomed`). For `SingleUse`, the hard case is that
`reserve()` forgets what has expired: of two calls that took one credential, one
reserved it after its expiry and is going to be stopped (`Stuck`, `TakenOnce`).
Monotonicity goes from link to link along a chain of any length by taking the least
place at which it failed, since proofs by induction over data are out of the
prover's reach.

The decision point. `ClassesLink` and `RevocationsLink` say that a file that is not
torn has everything that was completed, and that what a process is about to write
does, too, unless two commands of a kind overlapped or the list was lost; `MintsLink`
that a token being written is nobody else's, `PrunesLink` that one about to be
unlinked has expired or was not minted here; `DecisionLink` that what a decision
began with still stands, as completed commands are never taken back. The proof
showed that `CommandsLast` rests on the freshness of token ids: were an id that
somebody's expired file bears minted while the pruner is between its look and its
unlink, the mint would be lost.

### `OIDCProviderProofs` and `ForgejoFlowProofs`

| Theorem | Statement |
|---|---|
| `OIDCTypeCorrect` | `Spec => []TypeOK` |
| `ProofsAreOwnAndSingle` | `Spec => []ProofIsOwnAndSingle` |
| `TokensAreBoundToLogins` | `Spec => []TokenBoundToLogin` |
| `OIDCImplementsLoginFlow` | `Spec => ImplementsLoginFlow` |
| `ForgejoTypeCorrect` | `Spec => []TypeOK` |
| `TokensAreProvenInTime` | `Spec => []TokenIsProvenInTime` |
| `ForgejoImplementsLoginFlow` | `Spec => ImplementsLoginFlow` |

The phase that `LoginFlow` gives a login is read off the stores, so the refinement
needs that they agree about it: a pending request was granted to nobody
(`RequestLink`, `SessionLink`), a code is the only one of its login and has yielded
nothing (`CodeLink`), ids are drawn in order and never twice (`DrawnLink`,
`BegunInOrder`), and what a token says is what the login was begun with and whom it
was granted to (`TokenLink`). The step is proved for each login by itself (`LoginStep`)
and put together; expiry and restarts drop any number of requests and codes
(`DroppedBut`), which `LoginFlow` allows as ends of those logins. For
`ProofIsOwnAndSingle`, `NonceLink` says that a nonce that served is used or gone.

### `HostProofs`: what the processes of one host share

| Theorem | Statement |
|---|---|
| `OperatorSessionsStand` | `Spec => []SessionsStand` |
| `DevicesStayAsIntended` | `Spec => []DevicesAsIntended` |
| `LogStaysEvidence` | `Spec => []LogIsEvidence` |
| `ModulesStayVouchedFor` | `Spec => []ModulesAreVouchedFor` |
| `PeersStayAsProven` | `Spec => []PeersAreAsProven` |
| `ChallengesAreReplayedOnlyAtExpiry` | `Spec => []ReplayOnlyAtExpiry` |
| `SealsReportTheTruth` | `Spec => []SealReportsAreTrue` |
| `LoginsAreOfOneIdentity` | `Spec => []LoginIsOfOneIdentity` |
| `MembersWereApproved` | `Spec => []MembersAreApproved` |
| `EstateTypeCorrect` | `EstateSpec => []EstateTypeOK` |
| `CleanBillsOutlastLosses` | `EstateSpec => []BillOutlastsLoss` |
| `RetirementLosesNoKey` | `EstateSpec => []RemovedKeyIsQuarantined` |
| `SecretsStayAtHome` | `EstateSpec => BoundaryHolds` |

`Spec` is that of `Host`, in which a step is one of one part; the parts share no
state, so each has an invariant of its own, kept by its own steps.

- `OpInv`: the files have the revocations that stand, or have lost the row with the
  approval (`Shut`, `FilesLink`), and so will they when a change under way is written
  (`DeviceJobLink`); a verification that has got so far has found this out
  (`CheckLink`). An earlier form of `RevokedIsRefused` was false, which the proof
  attempt showed and no bound then in use reached: a row lost by a change made to an
  empty reading, and made anew by a revocation while a session of the device is being
  verified, lets that session pass when it is approved as well before the third read.
  The property now excludes exactly this, and the run has the four changes it takes.
- `StoreInv`: a change that is yet to be written brings the file from what is intended
  to what will be (`ChangesAreCurrent`).
- `LogInv`: while nothing went wrong the file is a chain and what is about to be
  written is next in it (`QuietLink`); a written entry is there or a line is torn
  (`CompleteLink`). That two chains with a common hash agree up to it is shown by the
  least place at which they would part, as the hash is injective.
- `ModInv`: a command under way will change one entry, its own (`CommandsLink`);
  each module asked for is to be read, being read, or verified (`ListingLink`).
- `MeshInv`: registry, file and what is about to be saved vouch for nobody who was
  neither proven nor told to be verified (`VouchedLink`); whoever saves alone writes the registry (`SaveIsCurrent`).
- `IdInv`: the guard forgets a challenge no sooner than at its expiry (`GuardLink`).
- `SealInv`, `LoginInv`: what a `seal_meta()` or a `do_login()` has established at each
  of its steps (`SealingLink`, `AttemptLink`), and of which login a readable file of the
  token cache is (`FileLink`), however many write it at once.
- `ClaimInv`: a claim that can be read was approved under its own id, writes under way
  and copies included (`ClaimsLink`, `WritesLink`, `CopiesLink`); a claim stays revoked.
- `EstateInv`: snapshots are of times that were (`SnapshotLink`); the key of a clean bill
  is in the last snapshot that found it until that one is too old (`BillLink`); what was
  in order when an archive was hashed was in order (`QuarantineLink`); the ignore file
  is in order from when it was found so until it is edited (`IgnoreLink`).

### Only model-checked

`ClosedSocketIsReleased` and the liveness part of `StoreIsDurable`: liveness under
fairness is out of this prover's reach. The types of the nine parts of `Host`, apart
from what their invariants contain. That the mutants violate the properties, and that
`qr_login` and `stage_race` find their counterexamples.

## 6. Not modelled

Cryptography (a signature is its key; the end-to-end encryption of the broker's
payloads and the post-quantum envelopes are opaque), the wording of responses and
reports, logging, the browser and phone front ends, deployment. The trust graph
reads files of other components and writes none that they read. Web push is a
table and a best-effort notification. The Nextcloud app repeats the challenge
protocol in PHP. `did.py`, `subject.py`, `profile.py`, `provisioning.py` and
`agent_identity.py` convert identifiers and write files once. Of the components
that are modelled in part, `PROJECT.json` says what is left out.

Abstractions a reader should know of: in `ForgejoFlow` the PKCE challenge is carried along
unchecked, as in the code, and of a caller's claims only those that replace the subject,
the expiry or the audience are told apart; in `PeerMesh` finding and recording peers is
one step; in `IdentityChallenge` calls of the guard do not interleave; in `Seal` there is
one recipient and one signer to a call; in `Membership` the steward's name and fingerprint
that a claim quotes are left out, as nothing compares them with the key that verifies it;
in `MCHost` each service has a host name of its own.

Seen while modelling and not given a run:

- `verify_endpoint` enrolls a key text that does not parse, because the
  fingerprint comparison is skipped when no fingerprint can be derived (the garbage
  row grants nothing: `TokenProvenance`, `GenuineLoginAccepted`).
- `verify_endpoint`, the stage and the OIDC provider compare the fingerprint of the first key
  that PGPy reads, while gpg verifies with every key of the text, and `verify_endpoint`
  prefers the text that is posted to the one that is enrolled: so a login says that the
  signature is by a key of a text that passed for the fingerprint's (`SignedFor`), which
  is the fingerprint's own only where the text has no other.
- `qr_status_endpoint` reports an expired QR nonce as pending, because the
  in-process store never drops a record.
- A stale `plan.context` makes one signature good for two nonces of one user; the
  stage's `nonce_ttl_seconds` is read by no code.
- The broker deletes a pairing when a stop closes both sockets before the process
  ends; and a crash between the send and the write lets a request through twice
  (the requests in `lost`, which `ReplayGuardHolds` excludes).
- Two processes that approve one enrollment around a revocation bring the revoked
  device back (`pairing/kernel.py:409`), and two that approve two devices of one
  subject at once can lose one row; an enrollment that fails its evidence check has
  already used up one of the window's accepts.
- A decision that reads the revocation list while it is torn takes a revoked token
  for good; so does every decision after a process died writing the list.
- An operator session is accepted in spite of a revocation when a state file cannot
  be read between two reads of one verification (`blind`), and a list of revoked
  sessions that is written over while it cannot be read is lost.
- A log that is rewritten as a whole verifies; only a remembered head shows it
  (`HeadFixesHistory`). A line without its end swallows the next one.
- The claims of a caller end up in the Forgejo token after `sub`, `exp` and `aud` were set,
  and may replace them; only `capauth_fingerprint` is always that of the login.
- `capauth custody doctor` counts the revocation of a subkey or of a user id as a
  revocation certificate for the key.
- `manifest verify-all` takes any good signature unless it is told whom to expect, and
  does not compare the id of an entry with that in its manifest.
- `manifest verify-all` puts a manifest into canonical form before it compares the
  signature, `manifest verify` takes the bytes as they are.
- A presence file, or a caller of `add_peer`, may say that a peer is verified, and it then
  counts as verified; two saves at once may leave the older copy of the registry on disk.
- `last_seen` of a peer can go back by way of the mDNS cache, and a verified peer
  that is removed comes back verified when mDNS finds it again.
- At the very expiry of a challenge the replay guard has forgotten it while the age
  check, made just before, still passed.
- The ignore rules of the shared folder are looked for one by one, and an exception
  (`!`) above them is seen neither by the policy check nor by `capauth sync`; the
  newest snapshot of a backup may lack the public key while the doctor is content
  with an older one.
- `seal_meta()` reports as the signer's fingerprint what a second look into the keyring
  finds under the name it was given, which is another key when two share the name or the
  keyring changed in between.
- A login with `--output-token` leaves the cache as it is, so the token of an earlier
  login is handed out later; a cached token without `expires_in` never expires.
- The claims of a `profile.yml` that names no key, or was edited after the identity was
  read, are sent whoever logs in.
- `tokens.json` is keyed by the host name of a service alone, without port and path;
  a login falls back to the identity of `profile.json` without a word when the key
  that `profile.yml` names is not in the keyring, and then signs the other's claims.
- An unsigned membership claim verifies also when a steward's key is given
  (`pma.py:229` says that the signature is checked); copies taken before a
  revocation still verify; a request can be approved again.
