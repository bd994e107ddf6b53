------------------------------- MODULE Custody -------------------------------
(***************************************************************************)
(* One host that holds an identity, and `capauth doctor custody`            *)
(* (capauth/custody.py) that judges it.  The files change under the doctor: *)
(* keys are rotated, restored, exposed or lost, the backup script takes     *)
(* snapshots, time passes.  The doctor only reads, so its report is a       *)
(* function of the state; what counts is what it is still worth later.      *)
(***************************************************************************)
EXTENDS Integers, FiniteSets

CONSTANTS
    Nothing, Garbage,       \* no file; a file that does not parse
    Plain,               \* a PGP block that carries no revocation signature
    Fp,                  \* fingerprints
    Expected,            \* CAPAUTH_EXPECTED_ROOT_FP, or Nothing
    Expires,             \* when each key expires
    EXPIRY_WARN, MAX_BACKUP_AGE,
    Retain,              \* CAPAUTH_BACKUP_RETAIN_DAYS
    MaxDays, MaxChanges  \* bounds of the model

\* Where key material is found: the identity directory, a Syncthing conflict copy
\* beside it, the root of an agent, and the keyring of GnuPG.
Slot == {"private", "public", "profile", "conflict", "agent", "keyring"}
Content == Fp \cup {Nothing, Garbage}
\* A revocation signature: the key that made it and what of that key it revokes.
Revocation == [by : Fp, of : {"key", "subkey", "user id"}]
Status == {"OK", "WARN", "FAIL"}

ASSUME CustodyAssumption ==
    /\ {EXPIRY_WARN, MAX_BACKUP_AGE, Retain, MaxDays, MaxChanges} \subseteq Nat
    /\ Expires \in [Fp -> Nat] /\ Expected \in Fp \cup {Nothing}
    /\ Nothing \notin Fp /\ Garbage \notin Fp
    /\ {Nothing, Garbage, Plain} \cap Revocation = {}

VARIABLES
    now,
    files,      \* what each slot holds
    pubAt,      \* mtime of public.asc, as the order in which such files were written
    host,       \* the rest of what the doctor looks at
    snapshots,  \* the capauth-backup-* directories
    changes,    \* how many changes from outside the host has seen
    bill        \* history: the last clean bill of custody, or Nothing

host_vars == <<now, files, pubAt, host, snapshots, changes, bill>>

HostState == [exposed : BOOLEAN,          \* private.asc is group or world accessible
         declared : BOOLEAN,         \* custody.json: held offline, with declared_by
         revoked : BOOLEAN,          \* public.asc carries a revocation signature
         cert : Revocation \cup {Nothing, Garbage, Plain},  \* root-revocation.asc
         keystore : {"absent", "ok", "corrupt"},
         nextcloud : {"absent", "exposed", "safe"}]
Snapshot == [key : Content, keyAt : Nat, at : Nat]
\* A clean bill: the key and the private.asc it was given for, and when the key was last
\* put in a snapshot, then or since.
Bill == [key : Fp, private : Content, offline : BOOLEAN, kept : Nat]

Healthy == [exposed |-> FALSE, declared |-> FALSE, revoked |-> FALSE, cert |-> Nothing,
            keystore |-> "ok", nextcloud |-> "safe"]

-----------------------------------------------------------------------------
(* The checks.                                                              *)

priv == files["private"]
pub == files["public"]
Readable(f) == f \in Fp

\* A faulty variant: the declaration alone counts.
offline_declared == host.declared

\* load_custody_declaration(), _declared_offline(): it excuses an absent private key.
offline == host.declared /\ priv = Nothing

\* check_identity_present().
identity_present ==
    LET missing == {s \in {"private", "public", "profile"} : files[s] = Nothing}
        unexpected == Expected # Nothing /\ Readable(pub) /\ pub # Expected
    IN  IF priv = Nothing THEN (IF offline /\ missing = {"private"} THEN "OK" ELSE "FAIL")
        ELSE IF missing # {} \/ unexpected THEN "WARN" ELSE "OK"

\* check_keypair_match().
keypair_match ==
    IF offline /\ pub # Nothing THEN "OK"
    ELSE IF ~Readable(priv) \/ ~Readable(pub) THEN "WARN"
    ELSE IF priv = pub THEN "OK" ELSE "FAIL"

\* check_private_key_permissions().
private_key_perms ==
    IF priv = Nothing THEN (IF offline THEN "OK" ELSE "FAIL")
    ELSE IF host.exposed THEN "FAIL" ELSE "OK"

\* check_key_status().
key_status ==
    IF ~Readable(pub) THEN "WARN"
    ELSE IF host.revoked \/ now >= Expires[pub] THEN "FAIL"
    ELSE IF Expires[pub] - now <= EXPIRY_WARN THEN "WARN" ELSE "OK"

\* check_revocation_cert(), _revocation_fingerprints(): any revocation signature counts,
\* of a subkey or of a user ID, too, and it is only compared with a key that can be read.
revocation_cert ==
    IF host.cert \in {Nothing, Plain} THEN "FAIL"
    ELSE IF host.cert = Garbage THEN "WARN"
    ELSE IF Readable(pub) /\ host.cert.by # pub THEN "FAIL" ELSE "OK"

\* check_keystore_integrity().
keystore_integrity ==
    IF host.keystore = "absent" THEN "WARN"
    ELSE IF host.keystore = "corrupt" THEN "FAIL" ELSE "OK"

\* check_backups_configured(), _newest_backup_dir(): the age of the newest directory.
backups_configured ==
    IF snapshots = {} THEN "FAIL"
    ELSE IF \E s \in snapshots : now - s.at <= MAX_BACKUP_AGE THEN "OK" ELSE "WARN"

\* _newest_backup_public_key(): the newest public.asc in any of the directories.
newest_backup_key ==
    LET with == {s \in snapshots : s.key # Nothing}
    IN  IF with = {} THEN Nothing
        ELSE (CHOOSE s \in with : \A u \in with : u.keyAt <= s.keyAt).key

\* A faulty variant: it is enough that there is a key in the backup.
backup_restorable_any == IF newest_backup_key = Nothing THEN "WARN" ELSE "OK"

\* check_backup_restorable().
backup_restorable ==
    IF newest_backup_key \in {Nothing, Garbage} \/ ~Readable(pub) THEN "WARN"
    ELSE IF newest_backup_key # pub THEN "FAIL" ELSE "OK"

\* check_nextcloud_signing_key().
nextcloud_signing_key == IF host.nextcloud = "safe" THEN "OK" ELSE "FAIL"

\* run_custody_checks(), overall_status() and exit_code().
results == {identity_present, keypair_match, private_key_perms, key_status, revocation_cert,
            keystore_integrity, backups_configured, backup_restorable, nextcloud_signing_key}
overall(statuses) ==
    IF "FAIL" \in statuses THEN "FAIL" ELSE IF "WARN" \in statuses THEN "WARN" ELSE "OK"

-----------------------------------------------------------------------------
(* What happens to the host.                                                *)

Changing == changes < MaxChanges /\ changes' = changes + 1

\* A file appears, is replaced or is lost: init, a rotation, a restore, a copy, a disk
\* error, Syncthing.  A new public.asc is not revoked; cp -p keeps the mtime of the
\* snapshot it comes from.
PutFile(s, v) ==
    /\ Changing /\ files[s] # v
    /\ files' = [files EXCEPT ![s] = v]
    /\ IF s # "public" THEN UNCHANGED <<pubAt, host>>
       ELSE /\ host' = [host EXCEPT !.revoked = FALSE]
            /\ \/ pubAt' = changes + 1
               \/ \E u \in snapshots : u.key = v /\ pubAt' = u.keyAt
    /\ UNCHANGED <<now, snapshots, bill>>

\* One of the other things the doctor looks at changes.
Upkeep(field, v) ==
    /\ Changing /\ host[field] # v
    /\ host' = [host EXCEPT ![field] = v]
    /\ UNCHANGED <<now, files, pubAt, snapshots, bill>>

\* A faulty variant: a directory that has just reached the limit goes.
rotate_early == {s \in snapshots : now - s.at < Retain}

\* rotate(): the directories that stay.
rotate == {s \in snapshots : now - s.at <= Retain}

\* scripts/capauth-backup.sh: a new directory, with public.asc when there is one, then
\* the rotation of those that are too old.
Backup ==
    /\ \A s \in snapshots : s.at < now
    /\ pub # Nothing \/ host.keystore # "absent"
    /\ snapshots' = rotate \cup {[key |-> pub, keyAt |-> pubAt, at |-> now]}
    /\ bill' = IF bill # Nothing /\ bill.key = pub THEN [bill EXCEPT !.kept = now] ELSE bill
    /\ UNCHANGED <<now, files, pubAt, host, changes>>

\* The snapshot in which the doctor found the key: the newest that has it counts.
kept(key) ==
    LET at == {s.at : s \in {s \in snapshots : s.key = key}}
    IN  IF at = {} THEN now ELSE CHOOSE t \in at : \A u \in at : u <= t

\* `capauth doctor custody` is run, and gives a clean bill.
Doctor ==
    /\ overall(results) = "OK"
    /\ bill' = [key |-> pub, private |-> priv, offline |-> offline, kept |-> kept(pub)]
    /\ UNCHANGED <<now, files, pubAt, host, snapshots, changes>>

Tick ==
    /\ now < MaxDays
    /\ now' = now + 1
    /\ UNCHANGED <<files, pubAt, host, snapshots, changes, bill>>

-----------------------------------------------------------------------------
\* What a clean bill of custody is worth: whatever is lost, replaced or restored after
\* it, the public key it was given for is in one of the snapshots for CAPAUTH_BACKUP_-
\* RETAIN_DAYS from the last backup that found it, although the backups go on without
\* the key and rotate; and it was never given over a private key of another identity, be
\* the key declared offline or not.  It is not worth more: the newest directory may be
\* one without the key, and the certificate may revoke a subkey only.
BillOutlastsLoss ==
    bill # Nothing =>
        /\ bill.private = IF bill.offline THEN Nothing ELSE bill.key
        /\ now <= bill.kept + Retain => \E s \in snapshots : s.key = bill.key
=============================================================================
