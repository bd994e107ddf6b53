----------------------------- MODULE MCPairing -----------------------------
(* The pairing kernel on a small instance.                                   *)
EXTENDS Pairing, TLC

\* The window is explored with nothing approved yet, and approvals and revocations
\* without a window, by overlapping processes or after one that died: the two share no
\* more than the enrollments.
Apart ==
    \/ window # None /\ approved = {}
    \/ /\ window = None /\ now = 0
       /\ crashes > 0 => Cardinality({p \in Proc : job[p] # None}) <= 1

Symmetry ==
    Permutations(Proc) \cup Permutations(Enrollment) \cup Permutations(Nonce)
        \cup Permutations(Window) \cup Permutations(Key)
=============================================================================
