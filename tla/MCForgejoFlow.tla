--------------------------- MODULE MCForgejoFlow ---------------------------
(* ForgejoFlow with a client and a redirect that are not the configured ones, and with *)
(* claims that set nothing, the subject, or the expiry and an empty audience.          *)
EXTENDS ForgejoFlow, TLC

MCClaims == [sub : Fp \cup {None}, exp : {None}, no_aud : {FALSE}]
            \cup [sub : {None}, exp : {MaxTime + 1}, no_aud : {TRUE}]

Symmetry == Permutations(State) \cup Permutations(Fp)
=============================================================================
