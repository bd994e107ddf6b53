------------------------------ MODULE MCBunker ------------------------------
(* The broker on a small instance.                                           *)
EXTENDS Bunker, TLC

Symmetry == Permutations(Session) \cup Permutations(Socket) \cup Permutations(RequestId)
=============================================================================
