---------------------------- MODULE MCAuthority ----------------------------
(* Authority with one subject under two names, two tokens, a text that       *)
(* matches the keys of both, and files that other peers replicate: one       *)
(* signed by another key than it says, one that is unsigned, and one that is *)
(* not valid yet, whose issuer both keys match.                              *)
EXTENDS Authority

CONSTANTS t1, t2, legacy, full, own, peer, ownfpr, suffix

MCCanon == [n \in {legacy, full} |-> full]
MCNamed == [i \in {ownfpr, suffix} |-> IF i = ownfpr THEN {own} ELSE {own, peer}]
Wild(issuer, signer, from, expires) ==
    [issuer |-> issuer, subject |-> full, capabilities |-> {ALL}, from |-> from, expires |-> expires,
     signer |-> signer]
MCReplicas == {Wild(ownfpr, peer, Absent, Absent), Wild(ownfpr, Absent, Absent, 0),
               Wild(suffix, peer, 1, Absent)}
MCMinted == {agent_audience_mint(full, "skcode")}
MCAssigned == {[name |-> full, class |-> "node"], [name |-> full, class |-> "guest"]}
MCEnrollments == {[name |-> full, mode |-> 3]}
Symmetry == Permutations(Proc) \cup Permutations(TokenId)
============================================================================
