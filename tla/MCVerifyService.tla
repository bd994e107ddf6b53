-------------------------- MODULE MCVerifyService --------------------------
(* VerifyService on a small instance; the key holders, and the nonces, are   *)
(* interchangeable.                                                          *)
EXTENDS VerifyService, TLC

\* The text of every key; both keys, with one of them first; both keys in a text PGPy
\* cannot read.
MCText == {KeyOf(f) : f \in Fingerprint}
    \cup {[first |-> {f}, keys |-> Fingerprint] : f \in Fingerprint}
    \cup {[first |-> {}, keys |-> Fingerprint]}

\* A good signature by the wrong key stands for a bad one; claims are signed, and the
\* nonce with them, with detached signatures.
MCProof == {p \in ClientProof :
    /\ p.sig # None
    /\ p.claims = None => p.claimsSig = None
    /\ p.claims # None => p.claimsSig # None /\ p.sig.detached /\ p.claimsSig.detached}

Symmetry == Permutations(Fingerprint) \cup Permutations(Nonce)
============================================================================
