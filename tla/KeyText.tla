------------------------------ MODULE KeyText ------------------------------
(***************************************************************************)
(* What the verifier, capauth/authentik/verifier.py, makes of a text of     *)
(* public keys and of a signature.  A text may hold several keys, or none   *)
(* at all, and two programs read it: PGPy takes the first key, if it can    *)
(* read the text, and gpg imports all of them.                              *)
(***************************************************************************)

\* A text over the fingerprints F: the key PGPy reads first (none when it cannot), and
\* the keys gpg finds.
KeyTexts(F) ==
    {text \in [first : SUBSET F, keys : SUBSET F] :
        text.first \subseteq text.keys /\ \A k, l \in text.first : k = l}

\* A signature over what is to be signed: who made it, and whether it is detached or
\* wrapped around the message.  Nobody forges one.
Signatures(F) == [by : F, detached : BOOLEAN]

\* The text of one key, as an honest holder sends it.
KeyOf(f) == [first |-> {f}, keys |-> {f}]

\* fingerprint_from_armor(): what is derived from the text, if anything is.
fingerprint_from_armor(text) == text.first

\* The check of a submitted text: what is derived, if anything, is the fingerprint.
matches(text, fp) == fingerprint_from_armor(text) \subseteq {fp}

\* verify_nonce_signature() and verify_claims_signature(): a detached signature goes to
\* gpg, which takes one by any key it imported, a signed message to PGPy.
verify_signature(sig, text) ==
    sig.by \in (IF sig.detached THEN text.keys ELSE fingerprint_from_armor(text))

\* What is left of the maker of a good signature for fp: it is fp, or it made a detached
\* signature and has a key in a text that passed as fp's.
SignedFor(fp, sig, text) ==
    sig.by = fp \/ (sig.detached /\ sig.by \in text.keys /\ matches(text, fp))
=============================================================================
