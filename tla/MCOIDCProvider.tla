-------------------------- MODULE MCOIDCProvider --------------------------
(* OIDCProvider with two of everything that can be confused.              *)
EXTENDS OIDCProvider, TLC

CONSTANTS c1, c2, v1

MCBegins == {[client |-> c1, challenge |-> v1]}
\* Texts of all keys, each with another in front.
MCText == {[first |-> {f}, keys |-> Fp] : f \in Fp}
MCSig == [by : Fp, detached : {TRUE}]
Symmetry == Permutations(Fp)
=============================================================================
