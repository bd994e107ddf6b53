---------------------------- MODULE MCDelegated ----------------------------
(* Delegated with one trusted issuer, two principals, and signatures made    *)
(* elsewhere that try the rules of a chain.                                  *)
EXTENDS Delegated, TLC

CONSTANTS d1, d2, c1, c2, p1, p2, user, guest, i1, x, w, r

Wide == [what |-> w, resource |-> None, constraints |-> {}]
Narrow == [what |-> w, resource |-> r, constraints |-> {}]
MCScope == {Wide, Narrow}
MCTrusted == (i1 :> [what |-> {w}, kinds |-> {user}]) @@ (x :> [what |-> {}, kinds |-> {}])
P1 == [id |-> p1, kind |-> user]
P2 == [id |-> p2, kind |-> user]
MCEnrolled == [p \in {p1, p2} |-> user]
MCUpdate == {[id |-> p1, policy |-> [kind |-> guest, active |-> TRUE]],
             [id |-> p1, policy |-> [kind |-> user, active |-> TRUE]],
             [id |-> p2, policy |-> [kind |-> user, active |-> FALSE]],
             [id |-> p2, policy |-> None]}
MCRoot == {[principal |-> P1, scope |-> Narrow, max_depth |-> 1]}
MCInvocation == {[principal |-> P2, scope |-> Narrow], [principal |-> P2, scope |-> Wide]}
MCExtension == {[by |-> P1, principal |-> P2, scope |-> Narrow]}
\* A forged child; a child with a broader scope.
MCForeign ==
    {[issuer |-> i1, signer |-> x, principal |-> P2, scope |-> Narrow, depth |-> 1,
      max_depth |-> 1, delay |-> 0, ttl |-> 2],
     [issuer |-> i1, signer |-> i1, principal |-> P2, scope |-> Wide, depth |-> 1,
      max_depth |-> 1, delay |-> 0, ttl |-> 1]}
Symmetry == Permutations(Decision) \cup Permutations(Credential)
============================================================================
