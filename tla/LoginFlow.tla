------------------------------ MODULE LoginFlow ------------------------------
(***************************************************************************)
(* What an authorization-code provider promises, whatever its stores look   *)
(* like: a login that was begun is granted at most once, to one subject,    *)
(* and yields at most one token.  A login may end at any time (it expires,  *)
(* is replaced, or the process restarts), also together with a step of      *)
(* another login.  OIDCProvider and ForgejoFlow implement it.               *)
(***************************************************************************)
EXTENDS Integers

CONSTANTS Login, Subject, Nobody

VARIABLES
    phase,      \* of each login
    subject,    \* whom it was granted to, or Nobody
    tokens      \* how many tokens it yielded

Phase == {"idle", "pending", "granted", "over"}

Init ==
    /\ phase = [l \in Login |-> "idle"]
    /\ subject = [l \in Login |-> Nobody]
    /\ tokens = [l \in Login |-> 0]

\* The steps of one login.
Begin(l) ==
    /\ phase[l] = "idle" /\ phase'[l] = "pending"
    /\ UNCHANGED <<subject[l], tokens[l]>>

Grant(l) ==
    /\ phase[l] = "pending" /\ phase'[l] = "granted"
    /\ subject'[l] \in Subject
    /\ UNCHANGED tokens[l]

Redeem(l) ==
    /\ phase[l] = "granted" /\ phase'[l] = "over"
    /\ tokens'[l] = tokens[l] + 1
    /\ UNCHANGED subject[l]

End(l) ==
    /\ phase[l] \in {"pending", "granted"} /\ phase'[l] = "over"
    /\ UNCHANGED <<subject[l], tokens[l]>>

Stay(l) == UNCHANGED <<phase[l], subject[l], tokens[l]>>

\* A step of the provider may move several logins (expired ones are swept).
Next ==
    /\ phase' \in [Login -> Phase]
    /\ subject' \in [Login -> Subject \cup {Nobody}]
    /\ tokens' \in [Login -> Nat]
    /\ \A l \in Login : Begin(l) \/ Grant(l) \/ Redeem(l) \/ End(l) \/ Stay(l)

Spec == Init /\ [][Next]_<<phase, subject, tokens>>
=============================================================================
