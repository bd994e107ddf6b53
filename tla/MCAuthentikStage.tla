-------------------------- MODULE MCAuthentikStage --------------------------
(* AuthentikStage on a small instance.                                       *)
EXTENDS AuthentikStage, TLC

\* The text of each one's key, and one that PGPy cannot read and gpg finds all keys in.
MCText == {KeyOf(f) : f \in Fingerprint} \cup {[first |-> {}, keys |-> Fingerprint]}
\* Detached signatures by everyone over every challenge.
MCSig == [by : Fingerprint, detached : {TRUE}, over : Nonce]

Symmetry == Permutations(Worker) \cup Permutations(Fingerprint)
                \cup Permutations(Nonce) \cup Permutations(Session)
=============================================================================
