--------------------------- MODULE OperatorSession ---------------------------
(***************************************************************************)
(* Operator sessions (capauth/pairing/operator_session.py): tokens bound to *)
(* a device, the standing of devices and revoked sessions.  Two state files *)
(* are each read whole, changed and replaced.                               *)
(* The locks order the threads of one process (one job per process here),   *)
(* and nothing orders processes.  Verification reads the files three times, *)
(* without a lock.  A file may be unreadable for a while.                   *)
(***************************************************************************)
EXTENDS Integers, FiniteSets

CONSTANTS
    None,
    Proc, Device, Jti, Nonce,
    MAX_TTL, CHALLENGE_TTL,
    MaxTime, MaxJobs, MaxFaults  \* bounds

Row == [approved : BOOLEAN, revoked : BOOLEAN]
Standing == [Device -> Row \cup {None}]
File == {"device_state", "revoked_sessions"}
Session == [device : Device, exp : Int, at : Nat]
\* A challenge that was consumed: when, and whether for the first time.
Use == [at : Nat, first : BOOLEAN]
\* A change of either file: what will be written, of which device, whether it will be
\* barred; and as history, that the file could not be read or had no row of the device.
DeviceJob == [file : {"device_state"}, write : Standing, device : Device,
              barred : BOOLEAN, blind : BOOLEAN, anew : BOOLEAN]
SessionJob == [file : {"revoked_sessions"}, write : SUBSET Jti, device : {None},
               barred : BOOLEAN, blind : BOOLEAN, anew : BOOLEAN]
Check == [jti : Jti, stage : {"device revoked", "device approved", "accepted"},
          barred : SUBSET (Device \cup Jti), blind : BOOLEAN]

ASSUME OperatorAssumption ==
    /\ {MAX_TTL, CHALLENGE_TTL, MaxTime, MaxJobs, MaxFaults} \subseteq Nat
    /\ None \notin Device \cup Nat \cup Use /\ Device \cap Jti = {}

VARIABLES
    clock,
    device_state, revoked_sessions, \* the files
    readable,     \* of each file
    job,          \* a change under way: what it will write, or None
    sessions,     \* tokens minted, by jti
    challenges,   \* _challenges: nonce to expiry
    issued, taken, \* history: when a nonce was issued, and consumed
    check,        \* the verification under way, or the last one that accepted
    barred,       \* history: devices and sessions whose revocation stands
    clash,        \* history: files written by one process between another's load and write
    jobs, faults  \* counters

op_vars == <<clock, device_state, revoked_sessions, readable, job, sessions,
             challenges, issued, taken, check, barred, clash, jobs, faults>>
history == <<barred, clash>>

OpInit ==
    /\ clock = 0
    /\ device_state = [d \in Device |-> None] /\ revoked_sessions = {}
    /\ readable = [f \in File |-> TRUE]
    /\ job = [p \in Proc |-> None]
    /\ sessions = [j \in Jti |-> None]
    /\ challenges = [n \in Nonce |-> None] /\ issued = [n \in Nonce |-> None]
    /\ taken = [n \in Nonce |-> None]
    /\ check = None
    /\ barred = {} /\ clash = {}
    /\ jobs = 0 /\ faults = 0

-----------------------------------------------------------------------------
\* _load_json(): what cannot be read is taken to be empty.
load_standing == IF readable["device_state"] THEN device_state ELSE [d \in Device |-> None]
load_revoked == IF readable["revoked_sessions"] THEN revoked_sessions ELSE {}

\* data.get(device_fp) or {}: a field that is not there counts as false.
row(data, d) == IF data[d] = None THEN [approved |-> FALSE, revoked |-> FALSE] ELSE data[d]

\* The step up to the write.
Load(p, file, write, d, bars) ==
    /\ job[p] = None /\ jobs < MaxJobs
    /\ jobs' = jobs + 1
    /\ job' = [job EXCEPT ![p] = [file |-> file, write |-> write, device |-> d, barred |-> bars,
                                  blind |-> ~readable[file],
                                  anew |-> d \in Device /\ load_standing[d] = None]]
    /\ UNCHANGED <<clock, device_state, revoked_sessions, readable, sessions, challenges,
                   issued, taken, check, history, faults>>

\* approve_device() leaves a revocation alone; history: the device stays barred, unless
\* its row had been lost and it is approved anew.
approve_device(p, d) ==
    /\ Load(p, "device_state", [load_standing EXCEPT ![d] = [row(load_standing, d) EXCEPT !.approved = TRUE]],
            d, d \in barred /\ load_standing[d] # None)

revoke_device(p, d) ==
    /\ Load(p, "device_state", [load_standing EXCEPT ![d] = [row(load_standing, d) EXCEPT !.revoked = TRUE]],
            d, TRUE)

unrevoke_device(p, d) ==
    /\ load_standing[d] # None
    /\ Load(p, "device_state", [load_standing EXCEPT ![d].revoked = FALSE], d, FALSE)

revoke_session(p, j) ==
    /\ Load(p, "revoked_sessions", load_revoked \cup {j}, None, TRUE)

\* History: what the completed changes add up to, and which revocations stood all the
\* time since the verification began: not that of a device whose row had been lost and is
\* made anew.
Recall(p, j) ==
    /\ clash' = IF \E q \in Proc \ {p} : job[q] # None /\ job[q].file = j.file
                THEN clash \cup {j.file} ELSE clash
    /\ barred' =
         IF j.file = "device_state" THEN (barred \ {j.device}) \cup (IF j.barred THEN {j.device} ELSE {})
         ELSE IF j.file = "revoked_sessions"
         THEN (IF j.blind THEN barred \ Jti ELSE barred) \cup j.write
         ELSE barred
    /\ check' = IF check = None \/ check.stage = "accepted" THEN check
                ELSE [check EXCEPT !.barred = @ \cap (barred' \ (IF j.anew THEN {j.device} ELSE {}))]

\* _write_json(): a temporary file, then os.replace().
Write(p) ==
    /\ job[p] # None
    /\ LET j == job[p] IN
       /\ device_state' = IF j.file = "device_state" THEN j.write ELSE device_state
       /\ revoked_sessions' = IF j.file = "revoked_sessions" THEN j.write ELSE revoked_sessions
       /\ readable' = [readable EXCEPT ![j.file] = TRUE]
       /\ Recall(p, j)
    /\ job' = [job EXCEPT ![p] = None]
    /\ UNCHANGED <<clock, sessions, challenges, issued, taken, jobs, faults>>

\* A process dies before os.replace(): its temporary file is never read.
Abandon(p) ==
    /\ job[p] # None
    /\ job' = [job EXCEPT ![p] = None]
    /\ UNCHANGED <<clock, device_state, revoked_sessions, readable, sessions, challenges,
                   issued, taken, check, history, jobs, faults>>

-----------------------------------------------------------------------------
\* issue_challenge() drops what expired.
issue_challenge(n) ==
    /\ issued[n] = None
    /\ challenges' = [k \in Nonce |->
                        IF k = n THEN clock + CHALLENGE_TTL
                        ELSE IF challenges[k] # None /\ challenges[k] < clock THEN None
                        ELSE challenges[k]]
    /\ issued' = [issued EXCEPT ![n] = clock]
    /\ UNCHANGED <<clock, device_state, revoked_sessions, readable, job, sessions, taken,
                   check, history, jobs, faults>>

\* A faulty variant: the challenge is looked up and stays.
consumed_kept(n) == challenges

\* consume_challenge() pops first and looks at the time then.
consumed(n) == [challenges EXCEPT ![n] = None]
consumable(n) == challenges[n] # None /\ challenges[n] >= clock

\* consume_challenge() of a nonce that somebody presents: True when it was there in time.
consume_challenge(n) ==
    /\ challenges[n] # None
    /\ challenges' = consumed(n)
    /\ taken' = IF consumable(n) THEN [taken EXCEPT ![n] = [at |-> clock, first |-> taken[n] = None]] ELSE taken
    /\ UNCHANGED <<clock, device_state, revoked_sessions, readable, job, sessions, issued,
                   check, history, jobs, faults>>

\* mint_operator_session() caps the lifetime; it asks neither for standing nor for a
\* challenge.
mint_operator_session(j, d, ttl) ==
    /\ sessions[j] = None
    /\ sessions' = [sessions EXCEPT ![j] = [device |-> d, at |-> clock,
                                            exp |-> clock + (IF ttl < MAX_TTL THEN ttl ELSE MAX_TTL)]]
    /\ UNCHANGED <<clock, device_state, revoked_sessions, readable, job, challenges, issued, taken,
                   check, history, jobs, faults>>

\* A faulty variant, the rule this code left behind: no row means approved.
is_device_approved_legacy(d) == load_standing[d] = None \/ load_standing[d].approved

is_device_approved(d) == load_standing[d] # None /\ load_standing[d].approved
is_device_revoked(d) == load_standing[d] # None /\ load_standing[d].revoked
is_session_revoked(j) == j \in load_revoked

\* verify_operator_session(): the token's expiry and the first of the three reads.
VerifyBegin(j) ==
    /\ sessions[j] # None /\ clock < sessions[j].exp
    /\ ~is_session_revoked(j)
    /\ check' = [jti |-> j, stage |-> "device revoked",
                 barred |-> {j, sessions[j].device} \cap barred,
                 blind |-> ~readable["revoked_sessions"]]
    /\ UNCHANGED <<clock, device_state, revoked_sessions, readable, job, sessions,
                   challenges, issued, taken, history, jobs, faults>>

\* The second read and the third.
VerifyNext ==
    /\ check # None /\ check.stage # "accepted"
    /\ LET d == sessions[check.jti].device
           sees == [check EXCEPT !.blind = @ \/ ~readable["device_state"]]
       IN check' = IF check.stage = "device revoked"
                   THEN IF is_device_revoked(d) THEN None ELSE [sees EXCEPT !.stage = "device approved"]
                   ELSE IF is_device_approved(d) THEN [sees EXCEPT !.stage = "accepted"] ELSE None
    /\ UNCHANGED <<clock, device_state, revoked_sessions, readable, job, sessions,
                   challenges, issued, taken, history, jobs, faults>>

\* A file cannot be read for a while (rights, descriptors), or never again (damaged).
Fault(f) ==
    /\ faults < MaxFaults
    /\ faults' = faults + 1
    /\ readable' = [readable EXCEPT ![f] = ~@]
    /\ UNCHANGED <<clock, device_state, revoked_sessions, job, sessions,
                   challenges, issued, taken, check, history, jobs>>

OpTick ==
    /\ clock < MaxTime
    /\ clock' = clock + 1
    /\ UNCHANGED <<device_state, revoked_sessions, readable, job, sessions,
                   challenges, issued, taken, check, history, jobs, faults>>

OpNext ==
    \/ \E p \in Proc :
          \/ \E d \in Device : \/ approve_device(p, d) \/ revoke_device(p, d) \/ unrevoke_device(p, d)
          \/ \E j \in Jti : revoke_session(p, j)
          \/ Write(p) \/ Abandon(p)
    \/ \E n \in Nonce : issue_challenge(n)
    \/ \E n \in Nonce : consume_challenge(n)
    \/ \E j \in Jti, d \in Device, ttl \in {MAX_TTL + 1} : mint_operator_session(j, d, ttl)
    \/ \E j \in Jti : VerifyBegin(j)
    \/ VerifyNext
    \/ \E f \in File : Fault(f)
    \/ OpTick

-----------------------------------------------------------------------------
OpTypeOK ==
    /\ clock \in 0..MaxTime /\ jobs \in 0..MaxJobs /\ faults \in 0..MaxFaults
    /\ device_state \in Standing /\ revoked_sessions \subseteq Jti
    /\ readable \in [File -> BOOLEAN]
    /\ DOMAIN job = Proc
    /\ \A p \in Proc : job[p] # None => IF job[p].file = "device_state" THEN job[p] \in DeviceJob
                                        ELSE job[p] \in SessionJob
    /\ sessions \in [Jti -> Session \cup {None}]
    /\ challenges \in [Nonce -> Nat \cup {None}] /\ issued \in [Nonce -> Nat \cup {None}]
    /\ taken \in [Nonce -> Use \cup {None}]
    /\ check \in Check \cup {None}
    /\ barred \subseteq Device \cup Jti /\ clash \subseteq File

\* A session is refused when its device or the session itself had been revoked before
\* the verification began, unless a read failed meanwhile or two processes wrote the same
\* file at once.  It holds although a file that could not be read is taken to be empty and
\* written back without the revocations: with them goes the approval, and a device needs
\* both lost rows and a new approval to come back.  (Of sessions, only those are claimed
\* whose list was not written over while unreadable.  A device whose row was lost and that
\* is revoked anew while a session of it is verified may pass, when it is approved as well
\* before the third read: the new revocation is claimed for verifications begun after it.)
RevokedIsRefused ==
    check # None /\ check.stage = "accepted" /\ check.barred # {} =>
        check.blind \/ clash \cap {"device_state", "revoked_sessions"} # {}

\* However many present it, a challenge is consumed at most once, and while it is fresh.
ChallengeIsUsedOnce ==
    \A n \in Nonce : taken[n] # None => taken[n].first /\ taken[n].at <= issued[n] + CHALLENGE_TTL

\* What an operator session rests on stands: no challenge is good for two, and neither a
\* session that is accepted nor its device had been revoked.
SessionsStand == RevokedIsRefused /\ ChallengeIsUsedOnce
=============================================================================
