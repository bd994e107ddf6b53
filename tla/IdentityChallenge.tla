-------------------------- MODULE IdentityChallenge --------------------------
(***************************************************************************)
(* Challenge and response between peers (capauth/identity.py), with the     *)
(* in-memory replay guard: made for one verifier that handles responses one *)
(* after another.  Responses may arrive late, and again.  The time is read  *)
(* once for the age check and once more by the guard.                       *)
(***************************************************************************)
EXTENDS Integers, FiniteSets

CONSTANTS
    Unset,
    Prover, Challenge,  \* fingerprints, challenge ids
    MAX_AGE, SKEW,
    MaxIdTime, MaxUses  \* bounds

ASSUME IdentityAssumption == {MAX_AGE, SKEW, MaxIdTime, MaxUses} \subseteq Nat /\ Unset \notin Nat

VARIABLES
    id_time,
    challenge,  \* challenges that were made: to whom, and when
    answered,   \* who signed which challenge
    verifying,  \* a verification past its checks, before the replay guard
    seen,       \* InMemoryReplayGuard._seen: expiry by challenge
    uses        \* history: the times a challenge was let pass

id_vars == <<id_time, challenge, answered, verifying, seen, uses>>

IdInit ==
    /\ id_time = 0
    /\ challenge = [c \in Challenge |-> Unset] /\ answered = {} /\ verifying = Unset
    /\ seen = [c \in Challenge |-> Unset] /\ uses = [c \in Challenge |-> {}]

-----------------------------------------------------------------------------
\* create_challenge(); the maker's clock may be off.
create_challenge(c, p, drift) ==
    /\ challenge[c] = Unset
    /\ challenge' = [challenge EXCEPT ![c] = [to |-> p, created |-> id_time + drift]]
    /\ UNCHANGED <<id_time, answered, verifying, seen, uses>>

\* respond_to_challenge()
respond_to_challenge(c, p) ==
    /\ challenge[c] # Unset
    /\ answered' = answered \cup {<<c, p>>} /\ answered' # answered
    /\ UNCHANGED <<id_time, challenge, verifying, seen, uses>>

expires(c) == challenge[c].created + MAX_AGE

\* The age check of verify_challenge().
timely(c) == id_time <= expires(c) /\ challenge[c].created - id_time <= SKEW

\* verify_challenge(): a response, maybe one that was seen before, passes the checks,
\* in time unless the caller looks at the time itself (aged), with max_age_seconds None.
verify_challenge(c, p, aged) ==
    /\ verifying = Unset /\ Cardinality(uses[c]) < MaxUses
    /\ <<c, p>> \in answered /\ challenge[c].to = p
    /\ aged => timely(c)
    /\ verifying' = [challenge |-> c, at |-> id_time, aged |-> aged]
    /\ UNCHANGED <<id_time, challenge, answered, seen, uses>>

\* A faulty variant forgets an entry the moment before its challenge expires.
prune_early == [c \in Challenge |-> IF seen[c] # Unset /\ seen[c] <= id_time + 1 THEN Unset ELSE seen[c]]

\* InMemoryReplayGuard._prune(), by the time of the call.
prune == [c \in Challenge |-> IF seen[c] # Unset /\ seen[c] <= id_time THEN Unset ELSE seen[c]]

\* and then the replay guard is asked.
replay_guard ==
    /\ verifying # Unset
    /\ LET c == verifying.challenge IN
       IF prune[c] = Unset
       THEN /\ seen' = [prune EXCEPT ![c] = expires(c)]
            /\ uses' = [uses EXCEPT ![c] = @ \cup {[checked |-> verifying.at, aged |-> verifying.aged, passed |-> id_time,
                                                    n |-> Cardinality(@)]}]
       ELSE seen' = prune /\ uses' = uses
    /\ verifying' = Unset
    /\ UNCHANGED <<id_time, challenge, answered>>

IdTick ==
    /\ id_time < MaxIdTime
    /\ id_time' = id_time + 1
    /\ UNCHANGED <<challenge, answered, verifying, seen, uses>>

IdNext ==
    \/ \E c \in Challenge, p \in Prover, d \in {0, SKEW, SKEW + 1} : create_challenge(c, p, d)
    \/ \E c \in Challenge, p \in Prover : respond_to_challenge(c, p)
    \/ \E c \in Challenge, p \in Prover, aged \in BOOLEAN : verify_challenge(c, p, aged)
    \/ replay_guard
    \/ IdTick

-----------------------------------------------------------------------------
IdTypeOK ==
    /\ id_time \in 0..MaxIdTime
    /\ challenge \in [Challenge -> [to : Prover, created : Nat] \cup {Unset}]
    /\ answered \subseteq Challenge \X Prover
    /\ verifying \in [challenge : Challenge, at : Nat, aged : BOOLEAN] \cup {Unset}
    /\ seen \in [Challenge -> Nat \cup {Unset}]
    /\ uses \in [Challenge -> SUBSET [checked : Nat, aged : BOOLEAN, passed : Nat, n : Nat]]

\* The replay guard lets a challenge pass twice only when it was asked at the expiry or
\* later, by a verifier whose age check came in time or was left out; and every use whose
\* age was checked was checked in the lifetime of the challenge, give or take the skew.
ReplayOnlyAtExpiry ==
    \A c \in Challenge : \A u \in uses[c] :
        /\ u.n > 0 => u.passed >= expires(c)
        /\ u.aged => challenge[c].created - SKEW <= u.checked /\ u.checked <= expires(c)
=============================================================================
