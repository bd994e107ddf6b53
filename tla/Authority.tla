------------------------------ MODULE Authority ------------------------------
(***************************************************************************)
(* The authorization decision point, capauth/authz.py, with the token store *)
(* of capauth/tokens.py and the class ceilings of capauth/identity_class.py.*)
(*                                                                          *)
(* Everything is a JSON file under one directory that several processes     *)
(* read and write without a lock.  write_text() truncates the file before   *)
(* it writes, so a reader, or a process after a crash, can find it torn.    *)
(* decide() reads the class file, the devices, the token files and the      *)
(* revocation list one after the other; a writer reads, truncates and       *)
(* writes.  A token's signature is the key that made it; nobody forges one. *)
(* The issuer it declares is a text that is compared with key fingerprints. *)
(***************************************************************************)
EXTENDS Integers, FiniteSets, TLC

CONSTANTS
    Absent, Torn,       \* no file (no value); a file that does not parse
    Proc,             \* processes
    TokenId,          \* token ids, one file each
    Name, canon,      \* subject names; the canonical form of each
    Key, OwnKey, keyring,  \* signing keys; this agent's; those gpg knows
    IssuerText, OwnName,  \* texts that a token may declare as its issuer; this agent's fingerprint
    named,            \* the keys whose fingerprint ends in such a text, or the text in it
    Requested,        \* the capabilities that are asked for
    Minted,           \* what issue_token is asked for
    Replicas,          \* token files that arrive by replication
    Assigned,         \* the class assignments that are made
    Enrollments,      \* the devices the pairing kernel enrolls: name and mode
    GraceUntil,       \* CAPAUTH_LEGACY_UNSIGNED_GRACE_UNTIL (0: unset)
    MaxTime,          \* bound on the clock
    MaxCommands       \* bound on the administrative commands

-----------------------------------------------------------------------------
(* The tables.  Modes are ordered: tofu 1, attested 2, verified 3 (0: none). *)

Mode == 0..3
ALL == "*"

Rules(caps, mode) == [c \in caps |-> mode]

\* The weakest enrollment mode of each capability; the capability a token must grant
\* has the same name.
SKCHAT_RULES ==
    Rules({"skchat.inbox", "skchat.status"}, 1) @@
    Rules({"skchat.prekey", "skchat.media.write", "skchat.voice"}, 2) @@
    Rules({"skchat.send", "skchat.groups", "skchat.calls"}, 3)
SKGATEWAY_RULES == Rules({"skgateway.infer"}, 2) @@ Rules({"skgateway.admin"}, 3)
SKCODE_RULES == Rules({"skcode.dispatch", "skcode.inject"}, 3)
AGENTRUN_RULES == Rules({"agentrun.queue"}, 2) @@ Rules({"agentrun.execute"}, 3)
CHANGE_RULES ==
    Rules({"change.propose", "change.validate"}, 2) @@
    Rules({"change.cab_vote", "change.schedule", "change.deploy"}, 3)

DEFAULT_RULES == SKCHAT_RULES @@ SKGATEWAY_RULES @@ SKCODE_RULES @@ AGENTRUN_RULES @@ CHANGE_RULES

OperatorOnly == {ALL, "token:issue", "identity:sign"}
MachineRead == {"memory:read", "sync:pull", "trust:read", "audit:read", "agent:status",
                "identity:verify", "skchat.inbox", "skchat.status"}

\* DEFAULT_CLASSES.
DEFAULT_CLASSES ==
    [operator |-> [allowed |-> {ALL}, forbidden |-> {}, minimum |-> 3],
     agent |-> [allowed |-> {ALL}, forbidden |-> OperatorOnly, minimum |-> 2],
     node |-> [allowed |-> {"skgateway.infer"} \cup MachineRead,
               forbidden |-> OperatorOnly, minimum |-> 2],
     edge_device |-> [allowed |-> {"skchat.send", "skchat.media.write", "skchat.voice",
                                   "skchat.calls"} \cup MachineRead,
                      forbidden |-> OperatorOnly, minimum |-> 1]]
ClassName == DOMAIN DEFAULT_CLASSES

\* AUDIENCE_SCOPES.
AUDIENCE_SCOPES ==
    [skchat |-> {"chat.read", "chat.send", "calls.join", "spaces.join"},
     skcode |-> {"skcode.stream", "skcode.inject", "skcode.dispatch"},
     skcomms |-> {"skcomms.read"}, skos |-> {"skos.read"}, skmemory |-> {"skmemory.read"}]

\* TokenPayload and SignedToken: signer is the key that made the signature.
File == [issuer : IssuerText \cup {"unknown"}, subject : Name, capabilities : SUBSET STRING,
         from : Nat \cup {Absent}, expires : Nat \cup {Absent}, signer : Key \cup {Absent}]
Mint == [subject : Name, capabilities : SUBSET STRING, ttl : Nat \cup {Absent}, sign : BOOLEAN]
Assignment == [name : Name, class : STRING]
Assignments == [Name -> ClassName \cup {Absent}]
\* The token files that a decision has read and goes by.
Reads == [TokenId -> File \cup {Absent}]
Only(T, reads) == [t \in TokenId |-> IF t \in T THEN reads[t] ELSE Absent]
Held(reads) == {t \in TokenId : reads[t] # Absent}
\* A decision under way, and one to allow: the tokens it relied on, when, and whether it
\* found the revocation list torn; began, revokedBefore and ceiling are history, when the
\* decision began and what had been revoked and assigned by then.
DecisionState == [name : Name, cap : Requested, step : {"devices", "tokens", "revocation"},
             class : ClassName \cup {Absent}, read : Reads,
             began : Nat, revokedBefore : SUBSET TokenId, ceiling : ClassName \cup {Absent}]
Grant == [name : Name, cap : Requested, relied : Reads, at : Nat, torn : BOOLEAN,
          began : Nat, revokedBefore : SUBSET TokenId, ceiling : ClassName \cup {Absent}]
\* A writer under way: what it is about to write.
Writer == [op : {"revoke", "assign", "issue", "prune"}, step : {"truncate", "write"},
           token : TokenId \cup {Absent}, assignment : Assignment \cup {Absent}]

ASSUME AuthorityAssumption ==
    /\ canon \in [Name -> Name] /\ \A n \in Name : canon[canon[n]] = canon[n]
    /\ OwnKey \in keyring /\ keyring \subseteq Key
    /\ named \in [IssuerText -> SUBSET Key] /\ OwnName \in IssuerText /\ "unknown" \notin IssuerText
    /\ Minted \subseteq Mint /\ Requested \subseteq STRING
    /\ Replicas \subseteq File /\ \A f \in Replicas : f.signer # OwnKey
    /\ Assigned \subseteq Assignment /\ Enrollments \subseteq [name : Name, mode : Mode]
    /\ GraceUntil \in Nat /\ MaxTime \in Nat /\ MaxCommands \in Nat
    /\ Absent # Torn /\ {Absent, Torn} \cap (Key \cup TokenId \cup ClassName \cup Nat) = {}
    /\ {Absent, Torn} \cap File = {} /\ Torn \notin Assignments /\ \A T \in SUBSET TokenId : T # Torn
    /\ Absent \notin DecisionState /\ Absent \notin Grant /\ Absent \notin Writer

VARIABLES
    clock,
    store,        \* security/tokens: token id -> file, Torn or Absent
    revocations,  \* security/revoked-tokens.json: a set of ids, or Torn
    classes,      \* identity/classes.json: name -> class or Absent; or Torn
    device,       \* the strongest enrolled device of a name, 0 when there is none
    decision,     \* the decision under way: what it read, and what was so when it began
    proc,         \* the writer each process runs, or Absent
    buffer,       \* what it will write: a list, a map or a file
    granted,       \* the last decision, when it was to allow, or Absent
    commands,     \* administrative commands so far
    revokedDone,  \* history: ids whose revoke_token() returned
    assignedDone, \* history: name -> class whose assignment returned
    mintedDone,   \* history: token id -> what issue_token() returned, or Absent
    damaged,      \* history: a process died while the revocation list was torn
    overlap       \* history: the commands of which two were under way at once

history == <<revokedDone, assignedDone, mintedDone, damaged, overlap>>
files == <<store, revocations, classes, device>>
verdict == <<decision, granted>>
authz_vars == <<clock, files, proc, buffer, verdict, commands, history>>

AuthzInit ==
    /\ clock = 0
    /\ store = [t \in TokenId |-> Absent]
    /\ revocations = {}
    /\ classes = [n \in Name |-> Absent]
    /\ device = [n \in Name |-> 0]
    /\ proc = [p \in Proc |-> Absent]
    /\ buffer = [p \in Proc |-> Absent]
    /\ decision = Absent
    /\ granted = Absent
    /\ commands = 0
    /\ revokedDone = {}
    /\ assignedDone = [n \in Name |-> Absent]
    /\ mintedDone = [t \in TokenId |-> Absent]
    /\ damaged = FALSE
    /\ overlap = {}

-----------------------------------------------------------------------------
(* The facts a token is judged by.                                          *)

\* TokenPayload.is_expired and is_active: neither expired nor not yet valid.
is_expired(f) == f.expires # Absent /\ clock > f.expires
is_active(f) == ~is_expired(f) /\ (f.from # Absent => clock >= f.from)

\* TokenPayload.has_capability(), and has_scope().
has_capability(f, cap) == ALL \in f.capabilities \/ cap \in f.capabilities

\* _load_revocation_list(): a list that does not parse is an empty list.
load_revocation_list == IF revocations = Torn THEN {} ELSE revocations

\* A faulty variant: any key of the keyring will do.
signature_verifies_any(f) == f.signer \in keyring

\* signature_verifies(): made by a key that matches the text the payload declares as its
\* issuer.  (Two texts match when one is a suffix of the other.)
signature_verifies(f) == f.issuer # "unknown" /\ f.signer \in keyring \cap named[f.issuer]

-----------------------------------------------------------------------------
(* Identity classes.                                                        *)

\* IdentityClass.forbids() and permits(), in the order of _class_ceiling_denial().
\* (No entry of the tables is a "namespace.*" pattern.)
class_permits(class, cap) ==
    LET c == DEFAULT_CLASSES[class] IN
    cap \notin c.forbidden /\ (ALL \in c.allowed \/ cap \in c.allowed)

\* _subject_keys(): a subject is looked up as given and in canonical form.
subject_keys(n) == {n, canon[n]}

\* load_assignments(): a file that does not parse raises.
load_assignments == IF classes = Torn THEN Torn ELSE classes

\* A faulty variant: the subject is only looked up as it was given.
resolve_raw(n) == IF classes = Torn THEN {Torn} ELSE {classes[n]}

\* resolve_identity_class(): the class that is found first, in no particular order;
\* Torn when the file, or the class it names, is unusable, which decide() denies on.
resolve_identity_class(n) ==
    IF load_assignments = Torn THEN {Torn}
    ELSE LET found == {load_assignments[k] : k \in subject_keys(n)} \ {Absent}
         IN  IF found = {} THEN {Absent}
             ELSE {IF c \in ClassName THEN c ELSE Torn : c \in found}

-----------------------------------------------------------------------------
(* decide(), one action per file or directory it reads.                     *)

\* _deny() and _allow(); what matters of a decision is what was allowed, on which
\* tokens, and what had been done before it began.
deny == decision' = Absent /\ granted' = Absent

allow(relied) ==
    /\ decision' = Absent
    /\ granted' = [name |-> decision.name, cap |-> decision.cap,
                  relied |-> Only(relied, decision.read), at |-> clock, torn |-> revocations = Torn,
                  began |-> decision.began, revokedBefore |-> decision.revokedBefore, ceiling |-> decision.ceiling]

Proceed(next) == decision' = next /\ granted' = Absent

At(step) == decision # Absent /\ decision.step = step

\* 0. The ceiling, 1. the rule.
decide(n, cap) ==
    /\ decision = Absent
    /\ \E c \in resolve_identity_class(n) :
        IF \/ c = Torn
           \/ c # Absent /\ ~class_permits(c, cap)
           \/ cap \notin DOMAIN DEFAULT_RULES
        THEN deny
        ELSE Proceed([name |-> n, cap |-> cap, step |-> "devices", class |-> c, read |-> Only({}, store),
                      began |-> clock, revokedBefore |-> revokedDone, ceiling |-> assignedDone[canon[n]]])
    /\ UNCHANGED <<clock, files, proc, buffer, commands, history>>

\* _strongest_mode() of the devices list_devices() finds under either name.
strongest_mode(n) == CHOOSE d \in {device[k] : k \in subject_keys(n)} :
                        \A k \in subject_keys(n) : device[k] <= d

\* 2. and 3. The strongest live device against both floors.
ReadDevices ==
    /\ At("devices")
    /\ LET k == decision
           mode == strongest_mode(k.name)
       IN  IF \/ mode = 0
              \/ k.class # Absent /\ mode < DEFAULT_CLASSES[k.class].minimum
              \/ mode < DEFAULT_RULES[k.cap]
           THEN deny
           ELSE Proceed([k EXCEPT !.step = "tokens"])
    /\ UNCHANGED <<clock, files, proc, buffer, commands, history>>

\* list_tokens(), which skips what does not parse, and _subject_tokens().
subject_tokens(n) ==
    {t \in TokenId : store[t] \notin {Absent, Torn} /\ store[t].subject \in subject_keys(n)}

\* 4. The granting tokens that are active.
ReadTokens ==
    /\ At("tokens")
    /\ LET usable == {t \in subject_tokens(decision.name) :
                        has_capability(store[t], decision.cap) /\ is_active(store[t])}
       IN  IF usable = {} THEN deny
           ELSE Proceed([decision EXCEPT !.step = "revocation",
                           !.read = Only(usable, store)])
    /\ UNCHANGED <<clock, files, proc, buffer, commands, history>>

\* _legacy_unsigned_grace_deadline().
legacy_grace == clock < GraceUntil

\* 4. Revocation, 5. signatures: unsigned tokens count only under the grace, and
\* only when no candidate has a bad signature.
ReadRevocations ==
    /\ At("revocation")
    /\ LET usable == Held(decision.read) \ load_revocation_list
           verified == {t \in usable : signature_verifies(decision.read[t])}
           invalid == {t \in usable : decision.read[t].signer # Absent} \ verified
       IN  IF verified # {} THEN allow(verified)
           ELSE IF usable # {} /\ invalid = {} /\ legacy_grace THEN allow(usable)
           ELSE deny
    /\ UNCHANGED <<clock, files, proc, buffer, commands, history>>

-----------------------------------------------------------------------------
(* The writers: read (and build what to write), truncate, write.            *)

Counted == commands < MaxCommands /\ commands' = commands + 1

Busy(p, op, step) == proc[p] # Absent /\ proc[p].op = op /\ proc[p].step = step

StartWriter(p, op, t, a, content) ==
    /\ proc[p] = Absent
    /\ proc' = [proc EXCEPT ![p] = [op |-> op, step |-> "truncate", token |-> t, assignment |-> a]]
    /\ buffer' = [buffer EXCEPT ![p] = content]
    /\ Counted
    /\ overlap' = overlap \cup {c \in {op} : \E q \in Proc : proc[q] # Absent /\ proc[q].op = op}
    /\ UNCHANGED <<clock, files, verdict, revokedDone, assignedDone, mintedDone, damaged>>

Truncated(p) ==
    /\ proc' = [proc EXCEPT ![p].step = "write"]
    /\ UNCHANGED <<clock, device, buffer, verdict, commands, history>>

Written(p) ==
    /\ proc' = [proc EXCEPT ![p] = Absent]
    /\ buffer' = [buffer EXCEPT ![p] = Absent]
    /\ UNCHANGED <<clock, device, verdict, commands>>

\* A faulty variant: the list starts again with this token.
RevocationsAlone(t) == {t}

\* The list revoke_token() writes.
RevocationsWith(t) == load_revocation_list \cup {t}

\* revoke_token(); an id already on the list is left alone.
revoke_token(p, t) ==
    /\ t \notin load_revocation_list
    /\ StartWriter(p, "revoke", t, Absent, RevocationsWith(t))

TruncateRevocations(p) ==
    /\ Busy(p, "revoke", "truncate")
    /\ revocations' = Torn
    /\ Truncated(p) /\ UNCHANGED <<store, classes>>

WriteRevocations(p) ==
    /\ Busy(p, "revoke", "write")
    /\ revocations' = buffer[p]
    /\ revokedDone' = revokedDone \cup {proc[p].token}
    /\ Written(p) /\ UNCHANGED <<store, classes, assignedDone, mintedDone, damaged, overlap>>

\* The classes assign_identity_class() knows.
known_class(c) == c \in ClassName

\* assign_identity_class().
assign_identity_class(p, a) ==
    /\ known_class(a.class)
    /\ load_assignments # Torn
    /\ StartWriter(p, "assign", Absent, a, [load_assignments EXCEPT ![a.name] = a.class])

TruncateClasses(p) ==
    /\ Busy(p, "assign", "truncate")
    /\ classes' = Torn
    /\ Truncated(p) /\ UNCHANGED <<store, revocations>>

WriteClasses(p) ==
    /\ Busy(p, "assign", "write")
    /\ classes' = buffer[p]
    /\ assignedDone' = [assignedDone EXCEPT ![proc[p].assignment.name] = proc[p].assignment.class]
    /\ Written(p) /\ UNCHANGED <<store, revocations, revokedDone, mintedDone, damaged, overlap>>

\* mint_agent_audience_token() without scopes: what it asks mint_audience_token() for.
agent_audience_mint(agent, audience) ==
    [subject |-> agent, capabilities |-> AUDIENCE_SCOPES[audience], ttl |-> 1, sign |-> TRUE]

\* _apply_signature(): this agent's key signs, unless sign=False.  A failure to sign
\* raises, and nothing is stored.
apply_signature(m) == IF m.sign THEN OwnKey ELSE Absent

\* mint_audience_token(): the token that is stored.
mint_audience_token(m) ==
    [issuer |-> OwnName, subject |-> m.subject, capabilities |-> m.capabilities, from |-> Absent,
     expires |-> IF m.ttl \in {Absent, 0} THEN Absent ELSE clock + m.ttl, signer |-> apply_signature(m)]

\* Process p is about to write, or to unlink, the file of token t.
Handles(p, op, t) == proc[p] # Absent /\ proc[p].op = op /\ proc[p].token = t

\* issue_token(), which builds the same token without an audience.  The id is a digest of
\* what is minted and when, so that nobody has a file of that name yet.
issue_token(p, t, m) ==
    /\ store[t] = Absent /\ mintedDone[t] = Absent
    /\ \A q \in Proc : ~Handles(q, "issue", t) /\ ~Handles(q, "prune", t)
    /\ StartWriter(p, "issue", t, Absent, mint_audience_token(m))

TruncateToken(p) ==
    /\ Busy(p, "issue", "truncate")
    /\ store' = [store EXCEPT ![proc[p].token] = Torn]
    /\ Truncated(p) /\ UNCHANGED <<revocations, classes>>

\* _store_token(); what is written to a file that was unlinked meanwhile is lost.
WriteToken(p) ==
    /\ Busy(p, "issue", "write")
    /\ store' = [store EXCEPT ![proc[p].token] = IF @ = Absent THEN Absent ELSE buffer[p]]
    /\ mintedDone' = [mintedDone EXCEPT ![proc[p].token] = buffer[p]]
    /\ Written(p) /\ UNCHANGED <<revocations, classes, revokedDone, assignedDone, damaged, overlap>>

\* A faulty variant: what does not parse is debris too.
Prunable_torn(t) ==
    store[t] # Absent /\ (store[t] # Torn => is_expired(store[t]))

\* What prune_expired_tokens() takes for expired.
Prunable(t) ==
    store[t] \notin {Absent, Torn} /\ is_expired(store[t])

\* prune_expired_tokens(), for one file: the read, and the unlink.
prune(p, t) ==
    /\ Prunable(t) /\ proc[p] = Absent
    /\ proc' = [proc EXCEPT ![p] = [op |-> "prune", step |-> "write", token |-> t, assignment |-> Absent]]
    /\ Counted
    /\ UNCHANGED <<clock, files, buffer, verdict, history>>

Unlink(p) ==
    /\ Busy(p, "prune", "write")
    /\ store' = [store EXCEPT ![proc[p].token] = Absent]
    /\ Written(p) /\ UNCHANGED <<revocations, classes, history>>

-----------------------------------------------------------------------------
\* A process dies; what it had truncated stays torn.
Crash(p) ==
    /\ proc[p] # Absent
    /\ proc' = [proc EXCEPT ![p] = Absent]
    /\ buffer' = [buffer EXCEPT ![p] = Absent]
    /\ damaged' = (damaged \/ Busy(p, "revoke", "write"))
    /\ UNCHANGED <<clock, files, verdict, commands, revokedDone, assignedDone, mintedDone, overlap>>

\* Replication brings a token file that somebody else wrote, or brings back one of this
\* agent's that was pruned.
Replicate(t, f) ==
    /\ store[t] = Absent /\ f # Absent /\ (mintedDone[t] # Absent => f = mintedDone[t])
    /\ \A q \in Proc : ~Handles(q, "issue", t)
    /\ store' = [store EXCEPT ![t] = f]
    /\ UNCHANGED <<clock, revocations, classes, device, proc, buffer, verdict, commands, history>>

\* The pairing kernel enrolls a device of the subject, or revokes it.
Enrolled(n, mode) ==
    /\ device[n] # mode
    /\ device' = [device EXCEPT ![n] = mode]
    /\ UNCHANGED <<clock, store, revocations, classes, proc, buffer, verdict, commands, history>>

ClockTick ==
    /\ clock < MaxTime
    /\ clock' = clock + 1
    /\ UNCHANGED <<files, proc, buffer, verdict, commands, history>>

AuthzNext ==
    \/ \E n \in Name, c \in Requested : decide(n, c)
    \/ ReadDevices
    \/ ReadTokens
    \/ ReadRevocations
    \/ \E p \in Proc, t \in TokenId : revoke_token(p, t)
    \/ \E p \in Proc : TruncateRevocations(p)
    \/ \E p \in Proc : WriteRevocations(p)
    \/ \E p \in Proc, a \in Assigned : assign_identity_class(p, a)
    \/ \E p \in Proc : TruncateClasses(p)
    \/ \E p \in Proc : WriteClasses(p)
    \/ \E p \in Proc, t \in TokenId, m \in Minted : issue_token(p, t, m)
    \/ \E p \in Proc : TruncateToken(p)
    \/ \E p \in Proc : WriteToken(p)
    \/ \E p \in Proc, t \in TokenId : prune(p, t)
    \/ \E p \in Proc : Unlink(p)
    \/ \E p \in Proc : Crash(p)
    \/ \E t \in TokenId : \E f \in Replicas \cup {mintedDone[t]} : Replicate(t, f)
    \/ \E e \in Enrollments : Enrolled(e.name, e.mode)
    \/ ClockTick

AuthzSpec == AuthzInit /\ [][AuthzNext]_authz_vars

-----------------------------------------------------------------------------
\* Every variable holds a value of its type.
AuthzTypeOK ==
    /\ clock \in Nat /\ store \in [TokenId -> File \cup {Absent, Torn}]
    /\ revocations = Torn \/ revocations \in SUBSET TokenId
    /\ classes \in Assignments \cup {Torn}
    /\ device \in [Name -> Mode] /\ decision \in DecisionState \cup {Absent}
    /\ proc \in [Proc -> Writer \cup {Absent}] /\ granted \in Grant \cup {Absent}
    /\ commands \in 0..MaxCommands /\ revokedDone \subseteq TokenId /\ damaged \in BOOLEAN
    /\ assignedDone \in Assignments /\ mintedDone \in [TokenId -> File \cup {Absent}]
    /\ overlap \subseteq {"revoke", "assign", "issue"}

\* A ceiling is a ceiling: once a subject's canonical name is assigned a class, no
\* decision that begins afterwards allows the subject, under either of its names,
\* what the class forbids or does not list, whatever tokens there are and although
\* the class file may be torn by a writer that died; unless two assignments at once
\* lost one of them, or the other name has a class of its own.
CeilingHolds ==
    granted # Absent =>
        LET n == granted.name
            undisputed == n # canon[n] => assignedDone[n] = Absent
        IN  granted.ceiling # Absent /\ undisputed /\ "assign" \notin overlap
            => class_permits(granted.ceiling, granted.cap)

\* issue_token() was asked for a signed token with this subject and these capabilities.
AskedFor(f) == \E m \in Minted : m.sign /\ m.subject = f.subject /\ m.capabilities = f.capabilities

\* Being able to write files into the replicated store grants nothing in this agent's name:
\* what a decision relies on and names this agent, and no other key that gpg knows, as its
\* issuer, is a token issue_token() returned under that id, signed on request, for this
\* subject and with this capability; unless it is unsigned and the grace lasts.  And no
\* token counts that had expired when the decision began, or that is not valid yet at its
\* end, although files come, go and come back while it reads.
GrantIsTraceable ==
    granted # Absent =>
        /\ Held(granted.relied) # {}
        /\ \A t \in Held(granted.relied) :
              LET f == granted.relied[t] IN
              /\ f.subject \in subject_keys(granted.name) /\ has_capability(f, granted.cap)
              /\ f.expires # Absent => granted.began <= f.expires
              /\ f.from # Absent => f.from <= granted.at
              /\ \/ f.signer = Absent /\ granted.at < GraceUntil
                 \/ f.issuer \in IssuerText /\ named[f.issuer] \cap keyring # {OwnKey}
                 \/ f = mintedDone[t] /\ f.signer = OwnKey /\ AskedFor(f)

\* "GC can never race a concurrent mint into data loss": a token that issue_token()
\* returned stays in the store until it has expired.
MintedTokenStays ==
    \A t \in TokenId :
        mintedDone[t] # Absent /\ ~is_expired(mintedDone[t]) => store[t] = mintedDone[t]

\* A revocation, once revoke_token() returned, is only missed by a decision that
\* began later when that decision read a torn list, the list was lost with a process
\* that died writing it, or two revocations were under way at once.
RevocationMissedOnlyWhenTorn ==
    granted # Absent /\ Held(granted.relied) \cap granted.revokedBefore # {} =>
        granted.torn \/ damaged \/ "revoke" \in overlap

\* What a command of another process completed is not undone behind its back: a mint stays,
\* and a revocation is missed only for a torn file.
CommandsLast == MintedTokenStays /\ RevocationMissedOnlyWhenTorn
=============================================================================
