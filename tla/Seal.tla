-------------------------------- MODULE Seal --------------------------------
(***************************************************************************)
(* Sealing at rest (capauth/seal.py): encrypt to recipients found in the    *)
(* GnuPG keyring and sign, and open and check.  Each call of gpg is a       *)
(* process of its own, and the keyring may change between two of them:      *)
(* recipients are resolved to fingerprints, the signer is looked up, and    *)
(* then the message is made; when signing fails, the whole is done again    *)
(* without a signature.                                                     *)
(***************************************************************************)
EXTENDS Integers, FiniteSets

CONSTANTS
    Missing,
    Fpr, Uid, uid_of,   \* keys, and their user ids: _list_primary_fprs() matches either
    Keyring0, KeyStates, \* the keyring at first, and what its keys may become
    MaxKeyring, MaxSeals \* bounds

\* A key in the keyring: its standing, and what there is of its secret part.
KeyState == [standing : {"good", "revoked", "expired"}, secret : {"none", "locked", "ready"}]
Message == [to : Fpr, signer : Fpr \cup {Missing}]
\* A call of seal_meta() with one recipient: what it asks for, what it resolved first
\* (report) and last (rcpt), the signer's fingerprint it looked up, whether that is still
\* to be done, and whether it is the second try.  As history: the signer that was wanted at
\* first; the keys that alone matched the selector when it was resolved; and whether the
\* fingerprint is of the only secret key with that name, in a keyring unchanged since.
Sealing == [to : Fpr \cup Uid, sign_by : Uid \cup {Missing}, allow_unsigned : BOOLEAN,
            rcpt : Fpr, report : Fpr, signer_fpr : Fpr \cup {Missing}, stage : {"signer", "gpg"},
            again : BOOLEAN, wanted : Uid \cup {Missing}, alone : SUBSET Fpr, sure : BOOLEAN]
\* The result, with the message and what was asked for.
SealResult == [message : Message, signed : BOOLEAN, signer_fpr : Fpr \cup {Missing}, recipient : Fpr,
               allow_unsigned : BOOLEAN, again : BOOLEAN, wanted : Uid \cup {Missing},
               alone : SUBSET Fpr, sure : BOOLEAN]
\* With the standing of the signer at the time, which is history.
UnsealResult == [message : Message, valid : BOOLEAN, signer_fpr : Fpr \cup {Missing},
                 standing : {"good", "revoked", "expired", "unknown"}]

ASSUME SealAssumption ==
    /\ uid_of \in [Fpr -> Uid] /\ Fpr \cap Uid = {} /\ Missing \notin Fpr \cup Uid
    /\ KeyStates \subseteq KeyState \cup {Missing} /\ Keyring0 \in [Fpr -> KeyState \cup {Missing}]
    /\ {MaxKeyring, MaxSeals} \subseteq Nat

VARIABLES
    keyring,    \* KeyState by fingerprint, or Missing
    sealing,    \* the seal_meta() under way, or Missing
    sealed,     \* SealResult of those that ended well
    opened,     \* the last UnsealResult, or Missing
    keyring_changes, seals \* counters

seal_vars == <<keyring, sealing, sealed, opened, keyring_changes, seals>>

SealInit ==
    /\ keyring = Keyring0
    /\ sealing = Missing /\ sealed = {} /\ opened = Missing
    /\ keyring_changes = 0 /\ seals = 0

\* Keys are imported, removed, revoked, locked.
ChangeKeyring(f, to) ==
    /\ keyring_changes < MaxKeyring
    /\ keyring_changes' = keyring_changes + 1
    /\ keyring' = [keyring EXCEPT ![f] = to] /\ keyring' # keyring
    /\ sealing' = IF sealing = Missing THEN Missing ELSE [sealing EXCEPT !.sure = FALSE]
    /\ UNCHANGED <<sealed, opened, seals>>

-----------------------------------------------------------------------------
\* _list_primary_fprs(): the keys that a fingerprint or a user id selects.
list_primary_fprs(selector) ==
    {f \in Fpr : keyring[f] # Missing /\ (f = selector \/ uid_of[f] = selector)}

\* resolve_recipient(): the key that is pinned, or the only one that matches.
resolve_recipient(selector) ==
    IF Cardinality(list_primary_fprs(selector)) = 1 THEN list_primary_fprs(selector) ELSE {}

\* Secret keys with a name, which _signer_fpr() lists and gpg --local-user chooses from.
signers(u) == {f \in list_primary_fprs(u) : keyring[f].secret # "none"}
can_sign(f) == keyring[f].secret = "ready" /\ keyring[f].standing = "good"

\* seal_meta() resolves the recipient first; to raise is not to go on.
seal_meta(to, sign_by, allow) ==
    /\ sealing = Missing /\ seals < MaxSeals
    /\ seals' = seals + 1
    /\ \E f \in resolve_recipient(to) :
          sealing' = [to |-> to, sign_by |-> sign_by, allow_unsigned |-> allow, rcpt |-> f,
                      report |-> f, signer_fpr |-> Missing,
                      stage |-> IF sign_by = Missing THEN "gpg" ELSE "signer",
                      again |-> FALSE, wanted |-> sign_by, alone |-> {f}, sure |-> FALSE]
    /\ UNCHANGED <<keyring, sealed, opened, keyring_changes>>

\* _signer_fpr(): the first of the secret keys, whichever that is, or None.
signer_fpr ==
    /\ sealing # Missing /\ sealing.stage = "signer"
    /\ LET has == signers(sealing.sign_by) IN
       \E f \in IF has = {} THEN {Missing} ELSE has :
          sealing' = [sealing EXCEPT !.stage = "gpg", !.signer_fpr = f, !.sure = (has = {f})]
    /\ UNCHANGED <<keyring, sealed, opened, keyring_changes, seals>>

\* A faulty variant: gpg gets the selector and finds the key itself.
recipients_of_selector(s) == list_primary_fprs(s.to)

\* The recipient on the command line is the fingerprint that was resolved; gpg fails
\* when it is gone, or cannot be encrypted to.
recipients_of(s) == {s.rcpt} \cap list_primary_fprs(s.rcpt)

encryptable(f) == keyring[f].standing = "good"

\* gpg --encrypt, with --sign when there is a signer.
gpg_encrypt(signer) ==
    /\ sealing # Missing /\ sealing.stage = "gpg"
    /\ IF sealing.sign_by = Missing THEN signer = Missing
       ELSE signer \in signers(sealing.sign_by) /\ can_sign(signer)
    /\ \E f \in recipients_of(sealing) :
          /\ encryptable(f)
          /\ sealed' = sealed \cup {[message |-> [to |-> f, signer |-> signer],
                                     signed |-> sealing.sign_by # Missing,
                                     signer_fpr |-> sealing.signer_fpr,
                                     recipient |-> sealing.report,
                                     allow_unsigned |-> sealing.allow_unsigned,
                                     again |-> sealing.again, wanted |-> sealing.wanted,
                                     alone |-> sealing.alone, sure |-> sealing.sure]}
    /\ sealing' = Missing
    /\ UNCHANGED <<keyring, opened, keyring_changes, seals>>

\* A faulty variant falls back in any case.
may_fall_back_always(s) == s.sign_by # Missing

\* Signing failed and unsigned is good enough.
may_fall_back(s) == s.sign_by # Missing /\ s.allow_unsigned

gpg_fails ==
    \/ \A f \in recipients_of(sealing) : ~encryptable(f)
    \/ /\ sealing.sign_by # Missing
       /\ signers(sealing.sign_by) = {} \/ \E f \in signers(sealing.sign_by) : ~can_sign(f)

\* A faulty variant keeps the signer that was looked up.
unsigned_try_named(s, f) ==
    [s EXCEPT !.sign_by = Missing, !.rcpt = f, !.again = TRUE, !.alone = @ \cup {f}]

\* seal_meta() calls itself with no signer: the recipient is resolved again, and the
\* result names the one of the first time, and no signer.
unsigned_try(s, f) ==
    [s EXCEPT !.sign_by = Missing, !.signer_fpr = Missing, !.rcpt = f, !.again = TRUE, !.alone = @ \cup {f}]

Fallback ==
    /\ sealing # Missing /\ sealing.stage = "gpg" /\ gpg_fails
    /\ may_fall_back(sealing)
    /\ \E f \in resolve_recipient(sealing.to) : sealing' = unsigned_try(sealing, f)
    /\ UNCHANGED <<keyring, sealed, opened, keyring_changes, seals>>

\* seal_meta() raises.
Fail ==
    /\ sealing # Missing /\ sealing.stage = "gpg" /\ gpg_fails
    /\ may_fall_back(sealing) => resolve_recipient(sealing.to) = {}
    /\ sealing' = Missing
    /\ UNCHANGED <<keyring, sealed, opened, keyring_changes, seals>>

-----------------------------------------------------------------------------
standing_of(f) == IF f = Missing \/ keyring[f] = Missing THEN "unknown" ELSE keyring[f].standing

\* A faulty variant: the status lines in the order they come, VALIDSIG last.
valid_by_lines(signer) == signer # Missing /\ standing_of(signer) # "unknown"

\* The status lines: VALIDSIG says valid also of keys that REVKEYSIG or EXPKEYSIG name,
\* and the last word is that those are not.
valid(signer) ==
    /\ signer # Missing /\ standing_of(signer) # "unknown"
    /\ standing_of(signer) \notin {"revoked", "expired"}

\* unseal_verify(): needs the recipient's secret key; require_good_signature raises.
unseal_verify(m, require) ==
    /\ keyring[m.to] # Missing /\ keyring[m.to].secret = "ready"
    /\ require => valid(m.signer)
    /\ opened' = [message |-> m, valid |-> valid(m.signer),
                  signer_fpr |-> IF standing_of(m.signer) = "unknown" THEN Missing ELSE m.signer,
                  standing |-> standing_of(m.signer)]
    /\ UNCHANGED <<keyring, sealing, sealed, keyring_changes, seals>>

SealNext ==
    \/ \E f \in Fpr, k \in KeyStates : ChangeKeyring(f, k)
    \/ \E to \in Fpr \cup Uid, u \in Uid \cup {Missing}, b \in BOOLEAN : seal_meta(to, u, b)
    \/ signer_fpr
    \/ \E f \in Fpr \cup {Missing} : gpg_encrypt(f)
    \/ Fallback
    \/ Fail
    \/ \E r \in sealed, b \in BOOLEAN : unseal_verify(r.message, b)

-----------------------------------------------------------------------------
SealTypeOK ==
    /\ keyring \in [Fpr -> KeyState \cup {Missing}]
    /\ sealing \in Sealing \cup {Missing} /\ sealed \subseteq SealResult
    /\ opened \in UnsealResult \cup {Missing}

\* A message is readable by the key that alone matched the selector at one of the
\* resolutions of this very call, and by no key that came into the keyring with the same
\* user id since.  What is reported is such a key too, and the same unless the call tried
\* a second time.
SealedToResolved ==
    \A r \in sealed :
        /\ {r.message.to, r.recipient} \subseteq r.alone
        /\ r.recipient # r.message.to => r.again

\* Who insists on a signature gets one, or an error, whenever the signer's key is locked,
\* revoked or lost on the way; and a signature is reported exactly when there is one, by a
\* key with the name that was asked for.
NoSilentFallback ==
    \A r \in sealed :
        /\ r.wanted # Missing /\ ~r.allow_unsigned => r.signed
        /\ r.signed <=> r.message.signer # Missing
        /\ r.signed => uid_of[r.message.signer] = r.wanted

\* The signer that is reported is looked up by a call of its own before gpg signs, and may
\* be another key, or none, when the keyring changes in between or when several secret keys
\* have the name: but never one with another name, nor one of a message that is not signed;
\* and when neither happens it is the key that signed.
SignerAsReported ==
    \A r \in sealed :
        /\ r.signer_fpr # Missing => r.signed /\ uid_of[r.signer_fpr] = r.wanted
        /\ r.signed /\ r.sure => r.signer_fpr = r.message.signer

\* An opened message is valid only if it was signed, with a key that is neither revoked
\* nor expired when it is opened, and that key is reported.
ValidIsGoodSignature ==
    opened # Missing /\ opened.valid =>
        /\ opened.message.signer # Missing /\ opened.standing = "good"
        /\ opened.signer_fpr = opened.message.signer

\* seal_meta() and unseal() report what gpg did, whatever happens to the keyring meanwhile:
\* to whom, whether signed and by which name, by which key if that was certain, and whether
\* the signature is good.
SealReportsAreTrue == SealedToResolved /\ NoSilentFallback /\ SignerAsReported /\ ValidIsGoodSignature
=============================================================================
