------------------------------- MODULE Estate -------------------------------
(***************************************************************************)
(* The identity estate of a host: `capauth doctor estate`                   *)
(* (capauth/estate.py), the retirement of keys that its evidence gates      *)
(* (docs/IDENTITY_ESTATE.md), and `capauth sync` (capauth/sync.py), which    *)
(* shares the public part of the identity with other devices.               *)
(*                                                                          *)
(* An audit reads the manifest and the Syncthing set-up first, the key      *)
(* files then and the archives last; everything may change in between and   *)
(* between the audit and what an operator does on its evidence.             *)
(***************************************************************************)
EXTENDS Custody

CONSTANTS
    Live, Old,  \* the key in use and the key that is being retired
    Puts,       \* what PutFile may put where
    Upkeeps,    \* what Upkeep may change
    Edits       \* what the user may make of the ignore file

Secret == {"private", "conflict", "agent", "keyring"}
RootOf == [s \in Slot |-> IF s \in {"agent", "keyring"} THEN s ELSE "canonical"]
Root == {"canonical", "agent", "keyring"}

\* An archive file; its SHA-256 is its value.  IdentityPolicy, with the digest that the
\* quarantine evidence states.
Archive == [holds : SUBSET Fp, encrypted : BOOLEAN]
IdentityPolicy == [status : {"active", "retired"}, roots : SUBSET Root,
                   quarantine : Archive \cup {Nothing}]
\* EstateFinding: code, status, and the key and place it is about.
EstateFinding == [code : {"identity_roots", "syncthing_policy", "unreadable_key_artifact",
                          "gpg_keyring", "syncthing_conflict", "unknown_key",
                          "retired_key_present", "secret_placement", "public_key",
                          "duplicate_secret", "quarantine_evidence"},
                  status : Status, fp : Fp \cup {Nothing}, slot : Slot \cup {Nothing}]
\* An audit under way: the manifest it loaded and what it found so far.
EstateManifest == [Fp -> IdentityPolicy \cup {Nothing}]
EstateAudit == [manifest : EstateManifest, scanned : BOOLEAN,
                findings : SUBSET EstateFinding]
\* EstateReport, as write_evidence() leaves it; archive is the file that was hashed.
EstateReport == [findings : SUBSET EstateFinding, archive : Archive \cup {Nothing}]
Rule == {"private", "revocation"}
Folder == [shared : BOOLEAN, rules : SUBSET Rule, exception : BOOLEAN]

ASSUME EstateAssumption ==
    /\ Live \in Fp /\ Old \in Fp /\ Live # Old
    /\ Nothing \notin Archive /\ Nothing \notin IdentityPolicy
    /\ Nothing \notin EstateAudit /\ Nothing \notin EstateReport /\ Nothing \notin Bill
    /\ Puts \subseteq [slot : Slot, content : Content]
    /\ \A u \in Upkeeps, h \in HostState : [h EXCEPT ![u.field] = u.to] \in HostState
    /\ Edits \subseteq [rules : SUBSET Rule, exception : BOOLEAN]

VARIABLES
    manifest,   \* estate.json: the policy of each fingerprint, or Nothing
    archive,    \* the file of quarantined keys, or Nothing
    legacy,     \* ~/.capauth: "alias" of the canonical root, or a "tree" of its own
    folder,     \* the Syncthing folder and its .stignore ("!" rules are exceptions)
    peer,       \* what Syncthing brought to another device
    sync,       \* `capauth sync` has written the rules and not yet added the folder
    audit,      \* the audit under way, or Nothing
    evidence,   \* the evidence file, or Nothing
    vouched,    \* history: the ignore file was found or made right, and not edited since
    removed     \* history: the copies removed on the evidence, with the archive it saw

estate_vars == <<manifest, archive, legacy, folder, peer, sync, audit, evidence, vouched, removed>>
all_vars == <<host_vars, estate_vars>>

finding(code, status, fp, slot) == [code |-> code, status |-> status, fp |-> fp, slot |-> slot]

-----------------------------------------------------------------------------
(* The audit.                                                               *)

\* discover_roots().
discover_roots == {finding("identity_roots", IF legacy = "tree" THEN "FAIL" ELSE "OK", Nothing, Nothing)}

\* A faulty variant: one kind of rule is enough.
excludes_any(rules) == rules # {}

\* The rules the policy asks for.
excludes_secrets(rules) == Rule \subseteq rules

\* check_syncthing_policy(): "!" lines are skipped.
syncthing_policy ==
    IF ~folder.shared THEN "WARN" ELSE IF excludes_secrets(folder.rules) THEN "OK" ELSE "FAIL"

\* scan_identity_roots() and scan_gpg_keyring(): the places that hold a readable key;
\* the keyring is not seen when gpg fails.
Artifacts(gpg) == {s \in Slot \ {"profile"} : Readable(files[s]) /\ (s = "keyring" => gpg)}
Unreadable == {s \in Slot \ {"profile", "keyring"} : files[s] = Garbage}

\* classify_artifacts(), of one artifact.
classify(s, policy) ==
    LET f == files[s] IN
    IF s = "conflict" THEN finding("syncthing_conflict", "FAIL", f, s)
    ELSE IF policy = Nothing
    THEN finding("unknown_key", IF s \in Secret THEN "FAIL" ELSE "WARN", f, s)
    ELSE IF policy.status = "retired" THEN finding("retired_key_present", "FAIL", f, s)
    ELSE IF s \notin Secret THEN finding("public_key", "OK", f, s)
    ELSE finding("secret_placement",
                 IF policy.roots = {} THEN "WARN"
                 ELSE IF RootOf[s] \in policy.roots THEN "OK" ELSE "FAIL", f, s)

\* classify_artifacts(), the keys with secrets in several places.
duplicate_secrets(found) ==
    {finding("duplicate_secret", "WARN", f, Nothing) : f \in
        {f \in Fp : Cardinality({s \in found \cap Secret : files[s] = f}) > 1}}

\* A faulty variant: the digest is not compared.
quarantine_ok_any(policy) == policy.quarantine # Nothing /\ archive # Nothing

\* _quarantine_finding(), of a retired key: there is evidence, the archive is there,
\* looks encrypted and has the digest that was recorded.
quarantine_ok(policy) ==
    /\ policy.quarantine # Nothing /\ archive # Nothing
    /\ archive.encrypted
    /\ archive = policy.quarantine

quarantine_finding(f, policy) ==
    finding("quarantine_evidence", IF quarantine_ok(policy) THEN "OK" ELSE "FAIL", f, Nothing)

\* EstateManifest.load() raises, and there is no audit, unless there are identities.
load_ok == \E f \in Fp : manifest[f] # Nothing

\* What the three parts of audit_estate() find.
load_findings ==
    discover_roots \cup {finding("syncthing_policy", syncthing_policy, Nothing, Nothing)}
scan_findings(policies, gpg) ==
    {finding("unreadable_key_artifact", "FAIL", Nothing, s) : s \in Unreadable}
    \cup (IF gpg THEN {} ELSE {finding("gpg_keyring", "WARN", Nothing, Nothing)})
    \cup {classify(s, policies[files[s]]) : s \in Artifacts(gpg)}
    \cup duplicate_secrets(Artifacts(gpg))
hash_findings(policies) ==
    {quarantine_finding(f, policies[f]) : f \in
        {f \in Fp : policies[f] # Nothing /\ policies[f].status = "retired"}}

\* audit_estate() begins: the manifest is loaded, the roots and the sync policy checked.
AuditLoad ==
    /\ audit = Nothing /\ load_ok
    /\ audit' = [manifest |-> manifest, scanned |-> FALSE,
                 findings |-> load_findings]
    /\ vouched' = (vouched \/ syncthing_policy = "OK")
    /\ UNCHANGED <<host_vars, manifest, archive, legacy, folder, peer, sync, evidence, removed>>

\* The roots and the keyrings are scanned.
AuditScan(gpg) ==
    /\ audit # Nothing /\ ~audit.scanned
    /\ audit' = [audit EXCEPT !.scanned = TRUE, !.findings = @ \cup scan_findings(audit.manifest, gpg)]
    /\ UNCHANGED <<host_vars, manifest, archive, legacy, folder, peer, sync, evidence, vouched, removed>>

\* The archives of the retired keys are hashed and the evidence replaced.
AuditHash ==
    /\ audit # Nothing /\ audit.scanned
    /\ evidence' = [findings |-> audit.findings \cup hash_findings(audit.manifest),
                    archive |-> archive]
    /\ audit' = Nothing
    /\ UNCHANGED <<host_vars, manifest, archive, legacy, folder, peer, sync, vouched, removed>>

-----------------------------------------------------------------------------
(* The retirement gate, as operators go through it.                         *)

EditManifest(f, policy) ==
    /\ Changing
    /\ manifest' = [manifest EXCEPT ![f] = policy]
    /\ UNCHANGED <<now, files, pubAt, host, snapshots, bill, archive, legacy, folder, peer, sync, audit, evidence,
                   vouched, removed>>

\* Steps 1 and 4: a key is retired; its archive was decrypt-tested and its digest noted.
Retire(f) ==
    /\ manifest[f] # Nothing /\ manifest[f].status = "active"
    /\ EditManifest(f, [manifest[f] EXCEPT !.status = "retired"])
RecordEvidence(f) ==
    /\ manifest[f] # Nothing /\ manifest[f].status = "retired"
    /\ archive # Nothing /\ f \in archive.holds /\ manifest[f].quarantine # archive
    /\ EditManifest(f, [manifest[f] EXCEPT !.quarantine = archive])

\* Step 2: the archive is written, for these keys, over the one that was there.
WriteArchive(keys, encrypted) ==
    /\ Changing
    /\ keys \subseteq {files[s] : s \in Secret}
    /\ archive' = [holds |-> keys, encrypted |-> encrypted]
    /\ archive' # archive
    /\ UNCHANGED <<now, files, pubAt, host, snapshots, bill, manifest, legacy, folder, peer, sync, audit, evidence,
                   vouched, removed>>

\* Step 6: an exact copy the evidence reports is removed, if its quarantine was OK.
RemoveCopy(s) ==
    /\ evidence # Nothing /\ Readable(files[s])
    /\ finding("retired_key_present", "FAIL", files[s], s) \in evidence.findings
    /\ finding("quarantine_evidence", "OK", files[s], Nothing) \in evidence.findings
    /\ Changing
    /\ files' = [files EXCEPT ![s] = Nothing]
    /\ removed' = removed \cup {[fp |-> files[s], archive |-> evidence.archive]}
    /\ UNCHANGED <<now, pubAt, host, snapshots, bill, manifest, archive, legacy, folder, peer, sync, audit,
                   evidence, vouched>>

\* The legacy path becomes a tree of its own, or a link to the canonical one.
SetLegacy(v) ==
    /\ Changing /\ legacy # v
    /\ legacy' = v
    /\ UNCHANGED <<now, files, pubAt, host, snapshots, bill, manifest, archive, folder, peer, sync, audit, evidence,
                   vouched, removed>>

-----------------------------------------------------------------------------
(* Sharing.                                                                 *)

SetFolder(f) ==
    /\ Changing
    /\ folder' = f
    /\ UNCHANGED <<now, files, pubAt, host, snapshots, bill, manifest, archive, legacy, peer, audit, evidence, removed>>

\* ensure_secret_material_ignored(): the missing rules are appended.
ensured(rules) == rules \cup Rule

\* `capauth sync`: the rules first, in one replacement of the file; they are repaired,
\* too, when the folder is there already.
sync_cmd ==
    /\ ~sync
    /\ SetFolder([folder EXCEPT !.rules = ensured(@)])
    /\ sync' = ~folder.shared /\ vouched' = TRUE

\* _setup_via_api() or _setup_via_config(): the folder is added; either may fail.
setup_folder ==
    /\ sync /\ sync' = FALSE
    /\ SetFolder([folder EXCEPT !.shared = TRUE])
    /\ UNCHANGED vouched

\* The user edits the ignore file, or shares the folder without `capauth sync`.
EditIgnore(rules, exception) ==
    /\ SetFolder([folder EXCEPT !.rules = rules, !.exception = exception])
    /\ vouched' = FALSE /\ UNCHANGED sync
ShareByHand ==
    /\ ~folder.shared
    /\ SetFolder([folder EXCEPT !.shared = TRUE])
    /\ UNCHANGED <<sync, vouched>>

\* Syncthing takes what no rule excludes; an exception above the rules wins.
Replicate ==
    LET excluded(r) == r \in folder.rules /\ ~folder.exception
        sent == {r \in Rule : /\ ~excluded(r)
                              /\ r = "private" => files["private"] # Nothing \/ files["conflict"] # Nothing
                              /\ r = "revocation" => host.cert # Nothing}
    IN  /\ folder.shared /\ ~(sent \subseteq peer)
        /\ peer' = peer \cup sent
        /\ UNCHANGED <<host_vars, manifest, archive, legacy, folder, sync, audit, evidence, vouched, removed>>

-----------------------------------------------------------------------------
\* An identity with everything in order but a backup, and a retired key, quarantined and
\* recorded, of which the keyring still has a copy.
EstateInit ==
    /\ now = 0 /\ changes = 0 /\ pubAt = 0 /\ snapshots = {} /\ bill = Nothing
    /\ files = [s \in Slot |-> IF s \in {"private", "public", "profile"} THEN Live
                               ELSE IF s = "keyring" THEN Old ELSE Nothing]
    /\ host = [Healthy EXCEPT !.cert = [by |-> Live, of |-> "key"]]
    /\ archive = [holds |-> {Old}, encrypted |-> TRUE]
    /\ manifest = [f \in Fp |->
          IF f = Live THEN [status |-> "active", roots |-> {"canonical"}, quarantine |-> Nothing]
          ELSE IF f = Old THEN [status |-> "retired", roots |-> {}, quarantine |-> archive]
          ELSE Nothing]
    /\ legacy = "alias"
    /\ folder = [shared |-> FALSE, rules |-> {}, exception |-> FALSE] /\ peer = {} /\ sync = FALSE
    /\ audit = Nothing /\ evidence = Nothing /\ vouched = FALSE /\ removed = {}

HostStep ==
    /\ \/ \E p \in Puts : PutFile(p.slot, p.content)
       \/ \E u \in Upkeeps : Upkeep(u.field, u.to)
       \/ Backup
       \/ Doctor
       \/ Tick
    /\ UNCHANGED estate_vars

EstateNext ==
    \/ HostStep
    \/ AuditLoad
    \/ \E gpg \in BOOLEAN : AuditScan(gpg)
    \/ AuditHash
    \/ \E f \in Fp : Retire(f) \/ RecordEvidence(f)
    \/ \E keys \in SUBSET Fp, e \in BOOLEAN : WriteArchive(keys, e)
    \/ \E s \in Secret : RemoveCopy(s)
    \/ \E v \in {"alias", "tree"} : SetLegacy(v)
    \/ sync_cmd
    \/ setup_folder
    \/ \E e \in Edits : EditIgnore(e.rules, e.exception)
    \/ ShareByHand
    \/ Replicate

EstateSpec == EstateInit /\ [][EstateNext]_all_vars

-----------------------------------------------------------------------------
\* Every variable holds a value of its type.
EstateTypeOK ==
    /\ now \in 0..MaxDays /\ changes \in 0..MaxChanges /\ pubAt \in Nat
    /\ files \in [Slot -> Content] /\ host \in HostState /\ snapshots \subseteq Snapshot
    /\ bill \in Bill \cup {Nothing}
    /\ manifest \in EstateManifest /\ archive \in Archive \cup {Nothing}
    /\ legacy \in {"alias", "tree"} /\ folder \in Folder /\ peer \subseteq Rule
    /\ sync \in BOOLEAN /\ vouched \in BOOLEAN
    /\ audit \in EstateAudit \cup {Nothing} /\ evidence \in EstateReport \cup {Nothing}
    /\ removed \subseteq [fp : Fp, archive : Archive \cup {Nothing}]

\* The retirement gate loses no key: whatever changed between the reading of the
\* manifest, the hashing of the archive and the removal, a copy is only ever removed of
\* a key that an encrypted archive held when the audit hashed it.
RemovedKeyIsQuarantined ==
    \A r \in removed : r.archive # Nothing /\ r.archive.encrypted /\ r.fp \in r.archive.holds

\* The custody boundary: once `capauth sync` or an audit found the ignore file in order,
\* neither a private key nor the revocation certificate reaches another device, until the
\* user edits the file; an exception rule above the others is on the user, too.
BoundaryHolds == [][vouched /\ ~folder.exception => peer' = peer]_all_vars
=============================================================================
