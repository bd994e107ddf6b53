----------------------------- MODULE HostProofs -----------------------------
(***************************************************************************)
(* Proofs, for any number of processes, threads, devices, peers, keys,      *)
(* modules and faults, of what the runs check of the nine components of a   *)
(* host and of its identity estate.  Each component has an inductive        *)
(* invariant of its own; since they do not touch each other's state, a step *)
(* of the host is for each of them a step of its own or none.  The estate,  *)
(* a specification of its own (EstateSpec), comes last.                     *)
(***************************************************************************)
EXTENDS Host, Estate, FiniteSetTheorems, SequenceTheorems, WellFoundedInduction, TLAPS

-----------------------------------------------------------------------------
\* Operator sessions.

\* The types of the files, of the changes under way and of the verification under way.
OpTyped ==
    /\ clock \in Nat /\ device_state \in Standing /\ revoked_sessions \subseteq Jti
    /\ readable \in [File -> BOOLEAN]
    /\ job \in [Proc -> DeviceJob \cup SessionJob \cup {None}]
    /\ sessions \in [Jti -> Session \cup {None}]
    /\ challenges \in [Nonce -> Nat \cup {None}] /\ issued \in [Nonce -> Nat \cup {None}]
    /\ taken \in [Nonce -> Use \cup {None}]
    /\ check \in Check \cup {None}
    /\ barred \subseteq Device \cup Jti /\ clash \subseteq File

\* A row that does not let its device in: lost, or revoked.
Shut(data, d) == data[d] = None \/ data[d].revoked

\* The files have the revocations that stand, or have lost the row with the approval.
FilesLink ==
    /\ "device_state" \notin clash => \A d \in barred \cap Device : Shut(device_state, d)
    /\ "revoked_sessions" \notin clash => barred \cap Jti \subseteq revoked_sessions

\* And so will they when a change under way is written.
DeviceJobLink(j) ==
    /\ \A d \in Device \ {j.device} : j.write[d] \in {device_state[d], None}
    /\ j.barred => Shut(j.write, j.device)
    /\ ~j.anew => device_state[j.device] # None

\* Changes under way, each with its own link; two at once are a race.
JobsLink ==
    \A p \in Proc : job[p] # None =>
        /\ job[p].file = "device_state" /\ "device_state" \notin clash => DeviceJobLink(job[p])
        /\ job[p].file = "revoked_sessions" /\ "revoked_sessions" \notin clash /\ ~job[p].blind =>
              barred \cap Jti \subseteq job[p].write

\* What a verification has found out when it has got so far.
CheckLink ==
    check # None /\ ~check.blind /\ clash = {} =>
        LET d == sessions[check.jti].device IN
        /\ check.barred \subseteq {d}
        /\ check.stage = "device approved" /\ d \in check.barred => device_state[d] = None
        /\ check.stage = "accepted" => check.barred = {}

\* What a verification under way was told still stands.
CheckStands ==
    check # None => /\ sessions[check.jti] # None
                    /\ check.stage # "accepted" => check.barred \subseteq barred

\* A challenge is there until it is consumed, for CHALLENGE_TTL.
ChallengeLink ==
    /\ \A n \in Nonce : challenges[n] # None => issued[n] # None /\ challenges[n] = issued[n] + CHALLENGE_TTL
    /\ \A n \in Nonce : issued[n] = None \/ challenges[n] # None => taken[n] = None

\* The inductive invariant of operator sessions.
OpInv ==
    /\ OpTyped /\ FilesLink /\ JobsLink /\ CheckLink /\ CheckStands
    /\ ChallengeLink /\ ChallengeIsUsedOnce

\* It holds at first,
LEMMA OpInitHolds == OpInit => OpInv
  BY OperatorAssumption DEF OpInit, OpInv, OpTyped, Standing, File, FilesLink, JobsLink, CheckLink,
       CheckStands, ChallengeLink, ChallengeIsUsedOnce

\* says that the sessions that pass stand,
LEMMA OpInvSuffices == OpInv => SessionsStand
  <1> SUFFICES ASSUME OpInv PROVE RevokedIsRefused
    BY DEF OpInv, SessionsStand
  <1> SUFFICES ASSUME check # None, check.stage = "accepted", check.barred # {}, ~check.blind,
                      clash \cap {"device_state", "revoked_sessions"} = {}
               PROVE  FALSE
    BY DEF OpInv, OpTyped, Check, RevokedIsRefused
  <1>1. clash = {}
    BY DEF OpInv, OpTyped, File
  <1> QED BY <1>1 DEF OpInv, CheckLink

\* What is read of the standing of devices is the file, or nothing.
LEMMA LoadStanding ==
  ASSUME OpInv
  PROVE  /\ load_standing \in Standing
         /\ \A d \in Device : load_standing[d] \in {device_state[d], None}
  BY DEF load_standing, OpInv, OpTyped, Standing

\* The step up to the write preserves the links, when the new change has its own.
LEMMA LoadPreserves ==
  ASSUME OpInv, NEW p \in Proc, NEW file \in File, NEW data, NEW d, NEW bars \in BOOLEAN,
         Load(p, file, data, d, bars),
         file = "device_state" =>
            /\ data \in Standing /\ d \in Device
            /\ \A e \in Device \ {d} : data[e] = load_standing[e]
            /\ "device_state" \notin clash /\ bars => Shut(data, d),
         file = "revoked_sessions" =>
            data \subseteq Jti /\ d = None /\ load_revoked \subseteq data
  PROVE  OpInv'
  <1> DEFINE j == [file |-> file, write |-> data, device |-> d, barred |-> bars,
                   blind |-> ~readable[file], anew |-> d \in Device /\ load_standing[d] = None]
  <1>1. /\ job' = [job EXCEPT ![p] = j]
        /\ UNCHANGED <<clock, device_state, revoked_sessions, readable, sessions, challenges,
                       issued, taken, check, barred, clash>>
    BY DEF Load, history
  <1>2. /\ j.file = file /\ j.write = data /\ j.device = d /\ j.barred = bars
        /\ j.blind = ~readable[file] /\ j.anew = (d \in Device /\ load_standing[d] = None)
    OBVIOUS
  <1>3. j \in DeviceJob \cup SessionJob
    BY DEF DeviceJob, SessionJob, File, OpInv, OpTyped
  <1> HIDE DEF j
  <1>4. OpTyped'
    BY <1>1, <1>3 DEF OpInv, OpTyped
  <1>5. file = "device_state" /\ "device_state" \notin clash => DeviceJobLink(j)
    BY <1>2, LoadStanding DEF DeviceJobLink
  <1>6. file = "revoked_sessions" /\ "revoked_sessions" \notin clash /\ ~j.blind => barred \cap Jti \subseteq data
    BY <1>2 DEF load_revoked, OpInv, FilesLink
  <1>7. JobsLink'
    <2> SUFFICES ASSUME NEW q \in Proc, job'[q] # None
                 PROVE  /\ job'[q].file = "device_state" /\ "device_state" \notin clash => DeviceJobLink(job'[q])
                        /\ job'[q].file = "revoked_sessions" /\ "revoked_sessions" \notin clash /\ ~job'[q].blind =>
                              barred \cap Jti \subseteq job'[q].write
      BY <1>1 DEF JobsLink, DeviceJobLink, Shut
    <2>1. CASE q = p
      BY <1>1, <1>2, <1>5, <1>6, <2>1 DEF OpInv, OpTyped
    <2>2. CASE q # p
      BY <1>1, <2>2 DEF OpInv, OpTyped, JobsLink
    <2> QED BY <2>1, <2>2
  <1> QED BY <1>1, <1>4, <1>7 DEF OpInv, FilesLink, CheckLink, CheckStands, ChallengeLink,
                                  ChallengeIsUsedOnce, Shut

\* What a change of the device file brings about when no other was under way.
LEMMA DeviceWritten ==
  ASSUME OpInv, NEW p \in Proc, Write(p), job[p].file = "device_state"
  PROVE  OpInv'
  <1> USE OperatorAssumption
  <1> DEFINE j == job[p]
             drop == IF j.anew THEN {j.device} ELSE {}
  <1>1. /\ j # None /\ j \in DeviceJob /\ j.write \in Standing /\ j.device \in Device
        /\ j.barred \in BOOLEAN /\ j.anew \in BOOLEAN
    BY DEF Write, OpInv, OpTyped, DeviceJob, SessionJob
  <1>2. /\ device_state' = j.write /\ revoked_sessions' = revoked_sessions
        /\ readable' = [readable EXCEPT !["device_state"] = TRUE]
        /\ job' = [job EXCEPT ![p] = None]
        /\ barred' = (barred \ {j.device}) \cup (IF j.barred THEN {j.device} ELSE {})
        /\ clash' = IF \E q \in Proc \ {p} : job[q] # None /\ job[q].file = "device_state"
                    THEN clash \cup {"device_state"} ELSE clash
        /\ check' = IF check = None \/ check.stage = "accepted" THEN check
                    ELSE [check EXCEPT !.barred = check.barred \cap (barred' \ drop)]
        /\ UNCHANGED <<clock, sessions, challenges, issued, taken>>
    BY DEF Write, Recall
  <1>3. barred' \subseteq Device \cup Jti /\ barred' \cap Jti = barred \cap Jti
    BY <1>1, <1>2 DEF OpInv, OpTyped
  <1>4. /\ check # None /\ check.stage # "accepted" =>
             /\ check' \in Check /\ check'.jti = check.jti /\ check'.stage = check.stage
             /\ check'.blind = check.blind /\ check'.barred = check.barred \cap (barred' \ drop)
        /\ check = None \/ check.stage = "accepted" => check' = check
    <2>1. CASE check # None /\ check.stage # "accepted"
      <3> DEFINE b == check.barred \cap (barred' \ drop)
      <3>1. check \in Check /\ b \subseteq Device \cup Jti
        BY <2>1, <1>3 DEF OpInv, OpTyped
      <3>2. check' = [check EXCEPT !.barred = b]
        BY <2>1, <1>2
      <3> HIDE DEF b
      <3>3. /\ check' \in Check /\ check'.jti = check.jti /\ check'.stage = check.stage
            /\ check'.blind = check.blind /\ check'.barred = b
        BY <3>1, <3>2 DEF Check
      <3> QED BY <2>1, <3>3 DEF b
    <2> QED BY <2>1, <1>2
  <1>5. OpTyped'
    <2>1. check' \in Check \cup {None}
      BY <1>4 DEF OpInv, OpTyped
    <2>2. readable' \in [File -> BOOLEAN] /\ clash' \subseteq File
      BY <1>2 DEF OpInv, OpTyped, File
    <2> QED BY <1>1, <1>2, <1>3, <2>1, <2>2 DEF OpInv, OpTyped
  <1>6. "device_state" \notin clash' =>
           /\ "device_state" \notin clash /\ DeviceJobLink(j) /\ clash' = clash
           /\ \A q \in Proc : job'[q] # None => job[q].file # "device_state"
    BY <1>1, <1>2 DEF OpInv, OpTyped, JobsLink
  <1>7. \A q \in Proc : job'[q] # None => q # p /\ job'[q] = job[q]
    BY <1>2 DEF OpInv, OpTyped
  <1>8. "revoked_sessions" \notin clash' <=> "revoked_sessions" \notin clash
    BY <1>2
  <1>9. FilesLink'
    <2>1. ASSUME "device_state" \notin clash', NEW d \in barred' \cap Device
          PROVE  Shut(device_state', d)
      BY <1>1, <1>2, <1>6, <2>1 DEF OpInv, FilesLink, DeviceJobLink, Shut
    <2>2. \A d \in Device : Shut(device_state, d)' <=> Shut(device_state', d)
      BY DEF Shut
    <2> QED BY <1>2, <1>3, <1>8, <2>1, <2>2 DEF OpInv, FilesLink
  <1>10. JobsLink'
    BY <1>3, <1>6, <1>7, <1>8 DEF OpInv, JobsLink
  <1>11. CheckLink'
    <2> SUFFICES ASSUME check' # None, ~check'.blind, clash' = {}
                 PROVE  LET d == sessions[check'.jti].device IN
                        /\ check'.barred \subseteq {d}
                        /\ check'.stage = "device approved" /\ d \in check'.barred => device_state'[d] = None
                        /\ check'.stage = "accepted" => check'.barred = {}
      BY <1>2 DEF CheckLink
    <2>1. clash = {} /\ DeviceJobLink(j)
      BY <1>6
    <2>2. CASE check = None \/ check.stage = "accepted"
      BY <1>4, <2>1, <2>2 DEF OpInv, CheckLink
    <2>3. CASE check # None /\ check.stage # "accepted"
      <3> DEFINE d == sessions[check.jti].device
      <3>1. /\ check'.barred \subseteq check.barred \ drop /\ ~check.blind /\ check'.jti = check.jti
            /\ check'.stage = check.stage
        BY <1>4, <2>3
      <3>2. /\ check.barred \subseteq {d}
            /\ check.stage = "device approved" /\ d \in check.barred => device_state[d] = None
        BY <2>1, <2>3, <3>1 DEF OpInv, CheckLink
      <3>3. d \in Device
        BY <2>3 DEF OpInv, OpTyped, Check, Session, CheckStands
      <3>4. check.stage = "device approved" /\ d \in check'.barred => device_state'[d] = None
        BY <1>2, <2>1, <3>1, <3>2, <3>3 DEF DeviceJobLink
      <3> QED BY <2>3, <3>1, <3>2, <3>4
    <2> QED BY <2>2, <2>3
  <1>12. CheckStands'
    BY <1>2, <1>4 DEF OpInv, CheckStands
  <1> QED BY <1>2, <1>5, <1>9, <1>10, <1>11, <1>12 DEF OpInv, ChallengeLink, ChallengeIsUsedOnce

\* And a change of the list of revoked sessions.
LEMMA SessionsWritten ==
  ASSUME OpInv, NEW p \in Proc, Write(p), job[p].file = "revoked_sessions"
  PROVE  OpInv'
  <1> USE OperatorAssumption
  <1> DEFINE j == job[p]
  <1>1. /\ j # None /\ j \in SessionJob /\ j.write \subseteq Jti /\ j.device = None
        /\ j.blind \in BOOLEAN
    BY DEF Write, OpInv, OpTyped, DeviceJob, SessionJob
  <1>2. /\ device_state' = device_state /\ revoked_sessions' = j.write
        /\ readable' = [readable EXCEPT !["revoked_sessions"] = TRUE]
        /\ job' = [job EXCEPT ![p] = None]
        /\ barred' = (IF j.blind THEN barred \ Jti ELSE barred) \cup j.write
        /\ clash' = IF \E q \in Proc \ {p} : job[q] # None /\ job[q].file = "revoked_sessions"
                    THEN clash \cup {"revoked_sessions"} ELSE clash
        /\ check' = IF check = None \/ check.stage = "accepted" THEN check
                    ELSE [check EXCEPT !.barred = check.barred \cap (barred' \ (IF j.anew THEN {j.device} ELSE {}))]
        /\ UNCHANGED <<clock, sessions, challenges, issued, taken>>
    BY DEF Write, Recall
  <1>3. barred' \subseteq Device \cup Jti /\ barred' \cap Device = barred \cap Device
    BY <1>1, <1>2 DEF OpInv, OpTyped
  <1>4. /\ check # None /\ check.stage # "accepted" =>
             /\ check' \in Check /\ check'.jti = check.jti /\ check'.stage = check.stage
             /\ check'.blind = check.blind /\ check'.barred \subseteq check.barred /\ check'.barred \subseteq barred'
        /\ check = None \/ check.stage = "accepted" => check' = check
    <2>1. CASE check # None /\ check.stage # "accepted"
      <3> DEFINE b == check.barred \cap (barred' \ (IF j.anew THEN {j.device} ELSE {}))
      <3>1. check \in Check /\ b \subseteq Device \cup Jti /\ b \subseteq check.barred /\ b \subseteq barred'
        BY <2>1, <1>3 DEF OpInv, OpTyped
      <3>2. check' = [check EXCEPT !.barred = b]
        BY <2>1, <1>2
      <3> HIDE DEF b
      <3>3. /\ check' \in Check /\ check'.jti = check.jti /\ check'.stage = check.stage
            /\ check'.blind = check.blind /\ check'.barred = b
        BY <3>1, <3>2 DEF Check
      <3> QED BY <2>1, <3>1, <3>3
    <2> QED BY <2>1, <1>2
  <1>5. OpTyped'
    <2>1. check' \in Check \cup {None}
      BY <1>4 DEF OpInv, OpTyped
    <2>2. readable' \in [File -> BOOLEAN] /\ clash' \subseteq File
      BY <1>2 DEF OpInv, OpTyped, File
    <2> QED BY <1>1, <1>2, <1>3, <2>1, <2>2 DEF OpInv, OpTyped
  <1>6. "revoked_sessions" \notin clash' =>
           /\ "revoked_sessions" \notin clash /\ (~j.blind => barred \cap Jti \subseteq j.write) /\ clash' = clash
           /\ \A q \in Proc : job'[q] # None => job[q].file # "revoked_sessions"
    BY <1>1, <1>2 DEF OpInv, OpTyped, JobsLink
  <1>7. \A q \in Proc : job'[q] # None => q # p /\ job'[q] = job[q]
    BY <1>2 DEF OpInv, OpTyped
  <1>8. "device_state" \notin clash' <=> "device_state" \notin clash
    BY <1>2
  <1>9. FilesLink'
    <2>1. "revoked_sessions" \notin clash' => barred' \cap Jti \subseteq revoked_sessions'
      BY <1>1, <1>2, <1>6
    <2> QED BY <1>2, <1>3, <1>8, <2>1 DEF OpInv, FilesLink, Shut
  <1>10. JobsLink'
    BY <1>2, <1>6, <1>7, <1>8 DEF OpInv, JobsLink, DeviceJobLink, Shut
  <1>11. CheckLink'
    <2>1. clash' = {} => clash = {}
      BY <1>2
    <2> QED BY <1>2, <1>4, <2>1 DEF OpInv, CheckLink
  <1>12. CheckStands'
    BY <1>2, <1>4 DEF OpInv, CheckStands
  <1> QED BY <1>2, <1>5, <1>9, <1>10, <1>11, <1>12 DEF OpInv, ChallengeLink, ChallengeIsUsedOnce

\* The service, its processes and its faults keep the invariant.
LEMMA OpStep ==
  ASSUME OpInv, [OpNext]_op_vars
  PROVE  OpInv'
  <1> USE OperatorAssumption
  <1>0. \A d \in Device : row(load_standing, d) \in Row
                          /\ (load_standing[d] # None => row(load_standing, d) = load_standing[d])
    BY LoadStanding DEF row, Row, Standing
  <1>1. ASSUME NEW p \in Proc, NEW d \in Device, approve_device(p, d)  PROVE OpInv'
    <2> DEFINE r == [row(load_standing, d) EXCEPT !.approved = TRUE]
               w == [load_standing EXCEPT ![d] = r]
               b == (d \in barred /\ load_standing[d] # None)
    <2>1. Load(p, "device_state", w, d, b)
      BY <1>1 DEF approve_device
    <2>2. r \in Row /\ r.revoked = row(load_standing, d).revoked
      BY <1>0 DEF Row
    <2> HIDE DEF r
    <2>3. w \in Standing /\ w[d] = r /\ \A e \in Device \ {d} : w[e] = load_standing[e]
      BY <2>2, LoadStanding DEF Standing
    <2>4. "device_state" \notin clash /\ b => Shut(w, d)
      BY <1>0, <2>2, <2>3, LoadStanding DEF Shut, OpInv, FilesLink
    <2> HIDE DEF w
    <2>5. b \in BOOLEAN /\ "device_state" \in File
      BY DEF File
    <2> HIDE DEF b
    <2> QED BY <2>1, <2>3, <2>4, <2>5, LoadPreserves
  <1>2. ASSUME NEW p \in Proc, NEW d \in Device, revoke_device(p, d)  PROVE OpInv'
    <2> DEFINE r == [row(load_standing, d) EXCEPT !.revoked = TRUE]
               w == [load_standing EXCEPT ![d] = r]
    <2>1. Load(p, "device_state", w, d, TRUE)
      BY <1>2 DEF revoke_device
    <2>2. r \in Row /\ r.revoked = TRUE
      BY <1>0 DEF Row
    <2> HIDE DEF r
    <2>3. w \in Standing /\ w[d] = r /\ \A e \in Device \ {d} : w[e] = load_standing[e]
      BY <2>2, LoadStanding DEF Standing
    <2>4. Shut(w, d) /\ "device_state" \in File
      BY <2>2, <2>3 DEF Shut, File
    <2> HIDE DEF w
    <2> QED BY <2>1, <2>3, <2>4, LoadPreserves
  <1>3. ASSUME NEW p \in Proc, NEW d \in Device, unrevoke_device(p, d)  PROVE OpInv'
    <2> DEFINE r == [load_standing[d] EXCEPT !.revoked = FALSE]
               w == [load_standing EXCEPT ![d] = r]
    <2>1. Load(p, "device_state", w, d, FALSE) /\ load_standing[d] # None
      BY <1>3 DEF unrevoke_device
    <2>2. r \in Row
      BY <1>0, <2>1 DEF Row
    <2> HIDE DEF r
    <2>3. w \in Standing /\ "device_state" \in File /\ \A e \in Device \ {d} : w[e] = load_standing[e]
      BY <2>2, LoadStanding DEF Standing, File
    <2> HIDE DEF w
    <2> QED BY <2>1, <2>3, LoadPreserves
  <1>4. ASSUME NEW p \in Proc, NEW j \in Jti, revoke_session(p, j)  PROVE OpInv'
    <2>1. /\ load_revoked \cup {j} \subseteq Jti /\ load_revoked \subseteq load_revoked \cup {j}
          /\ "revoked_sessions" \in File
      BY DEF load_revoked, OpInv, OpTyped, File
    <2>2. Load(p, "revoked_sessions", load_revoked \cup {j}, None, TRUE)
      BY <1>4 DEF revoke_session
    <2> QED BY <2>1, <2>2, LoadPreserves
  <1>5. ASSUME NEW p \in Proc, Write(p)  PROVE OpInv'
    <2>1. job[p].file \in {"device_state", "revoked_sessions"}
      BY <1>5 DEF Write, OpInv, OpTyped, DeviceJob, SessionJob
    <2> QED BY <1>5, <2>1, DeviceWritten, SessionsWritten
  <1>6. ASSUME NEW p \in Proc, Abandon(p)  PROVE OpInv'
    <2>1. /\ job' = [job EXCEPT ![p] = None]
          /\ UNCHANGED <<clock, device_state, revoked_sessions, readable, sessions, challenges,
                         issued, taken, check, barred, clash>>
      BY <1>6 DEF Abandon, history
    <2>2. OpTyped' /\ \A q \in Proc : job'[q] # None => job'[q] = job[q]
      BY <2>1 DEF OpInv, OpTyped
    <2>3. JobsLink'
      BY <2>1, <2>2 DEF OpInv, JobsLink, DeviceJobLink, Shut
    <2> QED BY <2>1, <2>2, <2>3 DEF OpInv, FilesLink, CheckLink, CheckStands, ChallengeLink,
                                    ChallengeIsUsedOnce, Shut
  <1>7. ASSUME NEW n \in Nonce, issue_challenge(n)  PROVE OpInv'
    <2>1. /\ issued[n] = None /\ issued' = [issued EXCEPT ![n] = clock]
          /\ challenges' \in [Nonce -> Nat \cup {None}] /\ challenges'[n] = clock + CHALLENGE_TTL
          /\ \A k \in Nonce \ {n} : challenges'[k] \in {challenges[k], None}
          /\ UNCHANGED <<clock, device_state, revoked_sessions, readable, job, sessions, taken,
                         check, barred, clash>>
      BY <1>7 DEF issue_challenge, history, OpInv, OpTyped
    <2>2. OpTyped'
      BY <2>1 DEF OpInv, OpTyped
    <2>3. taken[n] = None
      BY <2>1 DEF OpInv, ChallengeLink
    <2>4. ChallengeLink'
      BY <2>1, <2>3 DEF OpInv, OpTyped, ChallengeLink
    <2>5. ChallengeIsUsedOnce'
      BY <2>1, <2>3 DEF OpInv, OpTyped, ChallengeIsUsedOnce
    <2> QED BY <2>1, <2>2, <2>4, <2>5 DEF OpInv, FilesLink, JobsLink, DeviceJobLink, CheckLink, CheckStands, Shut
  <1>8. ASSUME NEW n \in Nonce, consume_challenge(n)  PROVE OpInv'
    <2> DEFINE u == [at |-> clock, first |-> taken[n] = None]
    <2>1. /\ challenges[n] # None /\ challenges' = [challenges EXCEPT ![n] = None]
          /\ taken' = IF consumable(n) THEN [taken EXCEPT ![n] = u] ELSE taken
          /\ UNCHANGED <<clock, device_state, revoked_sessions, readable, job, sessions, issued,
                         check, barred, clash>>
      BY <1>8 DEF consume_challenge, consumed, history
    <2>2. u \in Use /\ u.at = clock /\ u.first = (taken[n] = None)
      BY DEF OpInv, OpTyped, Use
    <2> HIDE DEF u
    <2>3. OpTyped'
      BY <2>1, <2>2 DEF OpInv, OpTyped
    <2>4. /\ issued[n] # None /\ issued[n] \in Nat /\ challenges[n] = issued[n] + CHALLENGE_TTL
          /\ taken[n] = None /\ challenges'[n] = None
      BY <2>1 DEF OpInv, OpTyped, ChallengeLink
    <2>5. \A k \in Nonce \ {n} : challenges'[k] = challenges[k] /\ taken'[k] = taken[k]
      BY <2>1 DEF OpInv, OpTyped
    <2>6. ChallengeLink'
      BY <2>1, <2>4, <2>5 DEF OpInv, ChallengeLink
    <2>7. taken'[n] # None => taken'[n] = u /\ clock <= issued[n] + CHALLENGE_TTL
      BY <2>1, <2>4 DEF OpInv, OpTyped, consumable
    <2>8. ChallengeIsUsedOnce'
      BY <2>1, <2>2, <2>4, <2>5, <2>7 DEF OpInv, ChallengeIsUsedOnce
    <2> QED BY <2>1, <2>3, <2>6, <2>8 DEF OpInv, FilesLink, JobsLink, DeviceJobLink, CheckLink, CheckStands, Shut
  <1>14. ASSUME NEW j \in Jti, NEW d \in Device, NEW ttl \in {MAX_TTL + 1},
                mint_operator_session(j, d, ttl)
         PROVE  OpInv'
    <2> DEFINE e == clock + (IF ttl < MAX_TTL THEN ttl ELSE MAX_TTL)
               s == [device |-> d, at |-> clock, exp |-> e]
    <2>1. /\ sessions[j] = None /\ sessions' = [sessions EXCEPT ![j] = s]
          /\ UNCHANGED <<clock, device_state, revoked_sessions, readable, job, challenges, issued,
                         taken, check, barred, clash>>
      BY <1>14 DEF mint_operator_session, history
    <2>2. e \in Int /\ clock \in Nat
      BY DEF OpInv, OpTyped
    <2> HIDE DEF e
    <2>3. s \in Session
      BY <2>2 DEF Session
    <2> HIDE DEF s
    <2>4. OpTyped'
      BY <2>1, <2>3 DEF OpInv, OpTyped
    <2>5. \A k \in Jti : sessions[k] # None => sessions'[k] = sessions[k]
      BY <2>1 DEF OpInv, OpTyped
    <2>6. CheckLink' /\ CheckStands'
      <3>1. check # None => check.jti \in Jti /\ sessions[check.jti] # None
                            /\ sessions'[check.jti] = sessions[check.jti]
        BY <2>5 DEF OpInv, OpTyped, Check, CheckStands
      <3> QED BY <2>1, <3>1 DEF OpInv, CheckLink, CheckStands
    <2> QED BY <2>1, <2>4, <2>6 DEF OpInv, FilesLink, JobsLink, DeviceJobLink, ChallengeLink,
                                    ChallengeIsUsedOnce, Shut
  <1>9. ASSUME NEW j \in Jti, VerifyBegin(j)  PROVE OpInv'
    <2> DEFINE b == {j, sessions[j].device} \cap barred
               c == [jti |-> j, stage |-> "device revoked", barred |-> b, blind |-> ~readable["revoked_sessions"]]
    <2>1. /\ sessions[j] # None /\ ~is_session_revoked(j) /\ check' = c
          /\ UNCHANGED <<clock, device_state, revoked_sessions, readable, job, sessions,
                         challenges, issued, taken, barred, clash>>
      BY <1>9 DEF VerifyBegin, history
    <2>2. c \in Check /\ c.jti = j /\ c.stage = "device revoked" /\ c.barred = b /\ c.blind = ~readable["revoked_sessions"]
      BY DEF OpInv, OpTyped, Check, File
    <2> HIDE DEF c
    <2>3. OpTyped' /\ CheckStands'
      BY <2>1, <2>2 DEF OpInv, OpTyped, CheckStands
    <2>4. readable["revoked_sessions"] /\ clash = {} => b \subseteq {sessions[j].device}
      BY <2>1 DEF is_session_revoked, load_revoked, OpInv, FilesLink
    <2>5. CheckLink'
      BY <2>1, <2>2, <2>4 DEF CheckLink
    <2> QED BY <2>1, <2>3, <2>5 DEF OpInv, FilesLink, JobsLink, DeviceJobLink, ChallengeLink,
                                    ChallengeIsUsedOnce, Shut
  <1>10. CASE VerifyNext
    <2> DEFINE d == sessions[check.jti].device
               bl == (check.blind \/ ~readable["device_state"])
               sees == [check EXCEPT !.blind = bl]
    <2>1. /\ check # None /\ check.stage # "accepted"
          /\ check' = IF check.stage = "device revoked"
                      THEN IF is_device_revoked(d) THEN None ELSE [sees EXCEPT !.stage = "device approved"]
                      ELSE IF is_device_approved(d) THEN [sees EXCEPT !.stage = "accepted"] ELSE None
          /\ UNCHANGED <<clock, device_state, revoked_sessions, readable, job, sessions,
                         challenges, issued, taken, barred, clash>>
      BY <1>10 DEF VerifyNext, history
    <2>2. /\ check \in Check /\ check.jti \in Jti /\ sessions[check.jti] # None /\ d \in Device
          /\ check.barred \subseteq barred /\ check.blind \in BOOLEAN /\ readable["device_state"] \in BOOLEAN
          /\ check.stage \in {"device revoked", "device approved"}
      BY <2>1 DEF OpInv, OpTyped, Check, CheckStands, Session, File
    <2>3. /\ sees \in Check /\ sees.jti = check.jti /\ sees.stage = check.stage
          /\ sees.barred = check.barred /\ sees.blind = bl
      BY <2>2 DEF Check
    <2> HIDE DEF sees
    <2>4. check' # None =>
             /\ check' \in Check /\ check'.jti = check.jti /\ check'.barred = check.barred /\ check'.blind = bl
             /\ \/ check.stage = "device revoked" /\ check'.stage = "device approved" /\ ~is_device_revoked(d)
                \/ check.stage = "device approved" /\ check'.stage = "accepted" /\ is_device_approved(d)
      BY <2>1, <2>2, <2>3 DEF Check
    <2>5. OpTyped' /\ CheckStands'
      BY <2>1, <2>2, <2>4 DEF OpInv, OpTyped, CheckStands
    <2>6. CheckLink'
      <3> SUFFICES ASSUME check' # None, ~bl, clash = {}
                   PROVE  /\ check.barred \subseteq {d}
                          /\ check'.stage = "device approved" /\ d \in check.barred => device_state[d] = None
                          /\ check'.stage = "accepted" => check.barred = {}
        BY <2>1, <2>4 DEF CheckLink
      <3>1. /\ check.barred \subseteq {d} /\ ~check.blind /\ readable["device_state"]
            /\ check.stage = "device approved" /\ d \in check.barred => device_state[d] = None
        BY <2>1, <2>2 DEF OpInv, CheckLink
      <3>2. d \in check.barred => Shut(device_state, d)
        BY <2>2 DEF OpInv, FilesLink
      <3>3. CASE check'.stage = "device approved"
        BY <2>4, <3>1, <3>2, <3>3 DEF is_device_revoked, load_standing, Shut
      <3>4. CASE check'.stage = "accepted"
        BY <2>4, <3>1, <3>4 DEF is_device_approved, load_standing
      <3> QED BY <3>1, <3>3, <3>4
    <2> QED BY <2>1, <2>5, <2>6 DEF OpInv, FilesLink, JobsLink, DeviceJobLink, ChallengeLink,
                                    ChallengeIsUsedOnce, Shut
  <1>11. ASSUME NEW f \in File, Fault(f)  PROVE OpInv'
    <2>1. /\ readable' = [readable EXCEPT ![f] = ~@]
          /\ UNCHANGED <<clock, device_state, revoked_sessions, job, sessions, challenges, issued, taken, check, barred, clash>>
      BY <1>11 DEF Fault, history
    <2>2. OpTyped'
      BY <2>1 DEF OpInv, OpTyped
    <2> QED BY <2>1, <2>2 DEF OpInv, FilesLink, JobsLink, DeviceJobLink, CheckLink, CheckStands,
                              ChallengeLink, ChallengeIsUsedOnce, Shut
  <1>12. CASE OpTick
    <2>1. /\ clock' = clock + 1
          /\ UNCHANGED <<device_state, revoked_sessions, readable, job, sessions, challenges, issued, taken, check, barred, clash>>
      BY <1>12 DEF OpTick, history
    <2>2. OpTyped'
      BY <2>1 DEF OpInv, OpTyped
    <2> QED BY <2>1, <2>2 DEF OpInv, FilesLink, JobsLink, DeviceJobLink, CheckLink, CheckStands,
                              ChallengeLink, ChallengeIsUsedOnce, Shut
  <1>13. CASE UNCHANGED op_vars
    BY <1>13 DEF op_vars, OpInv, OpTyped, FilesLink, JobsLink, DeviceJobLink, CheckLink, CheckStands,
                 ChallengeLink, ChallengeIsUsedOnce, Shut
  <1> QED BY <1>1, <1>2, <1>3, <1>4, <1>5, <1>6, <1>7, <1>8, <1>9, <1>10, <1>11, <1>12, <1>13,
            <1>14 DEF OpNext

-----------------------------------------------------------------------------
\* The device store.

\* The types of the file, the copies and the changes under way.
StoreTyped ==
    /\ devices \subseteq Handset /\ intended \subseteq Handset
    /\ cache \in [Store -> SUBSET Handset]
    /\ doing \in [Store -> StoreChange \cup {Idle}]
    /\ store_readable \in BOOLEAN /\ raced \in BOOLEAN

\* As long as no two instances raced, a change that is yet to be written and was made to a
\* copy that could be read brings the file from what is intended to what will be.
ChangesAreCurrent ==
    \A s \in Store :
        ~raced /\ doing[s] # Idle /\ ~doing[s].blind =>
            cache[s] = (intended \ doing[s].drops) \cup doing[s].adds

\* The inductive invariant of the device store.
StoreInv == StoreTyped /\ ChangesAreCurrent /\ DevicesAsIntended

\* It holds at first.
LEMMA StoreInitHolds == StoreInit => StoreInv
  BY DEF StoreInit, StoreInv, StoreTyped, ChangesAreCurrent, DevicesAsIntended

\* The step of enroll(), remove() and clear() up to the write.
LEMMA MutatePreserves ==
  ASSUME StoreInv, NEW s \in Store, NEW data \in SUBSET Handset,
         NEW adds \in SUBSET Handset, NEW drops \in SUBSET Handset,
         store_readable => data = (devices \ drops) \cup adds,
         Mutate(s, data, adds, drops)
  PROVE  StoreInv'
  <1> DEFINE c == [adds |-> adds, drops |-> drops, blind |-> ~store_readable]
  <1>1. c \in StoreChange /\ c.adds = adds /\ c.drops = drops /\ c.blind = ~store_readable
    BY DEF StoreInv, StoreTyped, StoreChange
  <1>2. /\ cache' = [cache EXCEPT ![s] = data] /\ doing' = [doing EXCEPT ![s] = c]
        /\ UNCHANGED <<devices, store_readable, intended, raced>>
    BY DEF Mutate
  <1> HIDE DEF c
  <1>3. StoreTyped'
    BY <1>1, <1>2 DEF StoreInv, StoreTyped
  <1>4. ChangesAreCurrent'
    BY <1>1, <1>2 DEF StoreInv, StoreTyped, ChangesAreCurrent, DevicesAsIntended
  <1> QED BY <1>2, <1>3, <1>4 DEF StoreInv, DevicesAsIntended

\* Enrolling, removing, clearing, writing and faults keep the invariant.
LEMMA StoreStep ==
  ASSUME StoreInv, [StoreNext]_store_vars
  PROVE  StoreInv'
  <1>1. ASSUME NEW s \in Store, NEW d \in Handset, enroll(s, d)  PROVE StoreInv'
    <2>1. /\ reload_locked(s) \cup {d} \in SUBSET Handset /\ {d} \in SUBSET Handset /\ {} \in SUBSET Handset
          /\ store_readable => reload_locked(s) \cup {d} = (devices \ {}) \cup {d}
      BY DEF reload_locked, StoreInv, StoreTyped
    <2> QED BY <1>1, <2>1, MutatePreserves DEF enroll
  <1>2. ASSUME NEW s \in Store, NEW d \in Handset, remove(s, d)  PROVE StoreInv'
    <2>1. /\ reload_locked(s) \ {d} \in SUBSET Handset /\ {d} \in SUBSET Handset /\ {} \in SUBSET Handset
          /\ store_readable => reload_locked(s) \ {d} = (devices \ {d}) \cup {}
      BY DEF reload_locked, StoreInv, StoreTyped
    <2> QED BY <1>2, <2>1, MutatePreserves DEF remove
  <1>3. ASSUME NEW s \in Store, clear(s)  PROVE StoreInv'
    BY <1>3, MutatePreserves DEF clear, StoreInv, StoreTyped
  <1>4. ASSUME NEW s \in Store, write(s)  PROVE StoreInv'
    <2>1. doing[s] \in StoreChange /\ cache[s] \in SUBSET Handset
      BY <1>4 DEF write, StoreInv, StoreTyped
    <2>2. StoreTyped'
      BY <1>4, <2>1 DEF write, StoreInv, StoreTyped, StoreChange
    <2>3. ChangesAreCurrent' /\ DevicesAsIntended'
      BY <1>4, <2>1 DEF write, StoreInv, StoreTyped, ChangesAreCurrent, DevicesAsIntended
    <2> QED BY <2>2, <2>3 DEF StoreInv
  <1>5. ASSUME NEW s \in Store, Reopen(s)  PROVE StoreInv'
    BY <1>5 DEF Reopen, StoreInv, StoreTyped, ChangesAreCurrent, DevicesAsIntended
  <1>6. CASE StoreFault
    BY <1>6 DEF StoreFault, StoreInv, StoreTyped, ChangesAreCurrent, DevicesAsIntended
  <1>7. CASE UNCHANGED store_vars
    BY <1>7 DEF store_vars, StoreInv, StoreTyped, ChangesAreCurrent, DevicesAsIntended
  <1> QED BY <1>1, <1>2, <1>3, <1>4, <1>5, <1>6, <1>7 DEF StoreNext

-----------------------------------------------------------------------------
\* The key transparency log.

\* A finite list of lines, whatever they are.
IsList(s) == \E S : s \in Seq(S)

\* A line is torn, or an entry with its four fields.
IsLine(x) ==
    x = Torn \/ x = [seq |-> x.seq, event |-> x.event, prev_hash |-> x.prev_hash, entry_hash |-> x.entry_hash]

\* A list of lines.
Lines(s) == IsList(s) /\ \A i \in DOMAIN s : IsLine(s[i])

\* Every entry is in its place, linked to the one before.
Linked(s, i) ==
    /\ s[i] # Torn
    /\ s[i].seq = i - 1
    /\ s[i].prev_hash = (IF i = 1 THEN GENESIS_PREV_HASH ELSE s[i - 1].entry_hash)
    /\ s[i].entry_hash = canonical_hash(s[i].seq, s[i].event, s[i].prev_hash)

\* A list of such entries.
Chained(s) == Lines(s) /\ \A i \in DOMAIN s : Linked(s, i)

\* A set of natural numbers has a least element.
LEMMA LeastOf ==
  ASSUME NEW T \in SUBSET Nat, T # {}
  PROVE  \E x \in T : \A y \in T : x <= y
  <1>1. PICK x \in T : \A y \in T : ~(<<y, x>> \in OpToRel(<, Nat))
    BY NatLessThanWellFounded, WFMin
  <1>2. ASSUME NEW y \in T, y < x PROVE FALSE
    BY <1>1, <1>2 DEF OpToRel
  <1> QED BY <1>2

\* A list is a function on the numbers up to its length.
LEMMA ListIs ==
  ASSUME NEW s, IsList(s)
  PROVE  Len(s) \in Nat /\ DOMAIN s = 1..Len(s) /\ s = [i \in 1..Len(s) |-> s[i]]
  <1>1. PICK S : s \in Seq(S)
    BY DEF IsList
  <1> QED BY <1>1, LenProperties

\* Whoever verifies the chain has seen that every entry is linked: there is no first line
\* that is not.
LEMMA VerifiedIsChained ==
  ASSUME Lines(log), verify_chain
  PROVE  Chained(log)
  <1>1. Len(log) \in Nat /\ DOMAIN log = 1..Len(log)
    BY ListIs DEF Lines
  <1>2. \A i \in DOMAIN log : log[i] # Torn
    <2> DEFINE T == {i \in DOMAIN log : log[i] = Torn}
    <2> SUFFICES ASSUME T # {} PROVE FALSE
      OBVIOUS
    <2>1. T \in SUBSET Nat
      BY <1>1
    <2>2. PICK i \in T : \A k \in T : i <= k
      BY <2>1, LeastOf
    <2>3. \A k \in 1..(i - 1) : log[k] # Torn
      BY <1>1, <2>2
    <2> QED BY <2>2, <2>3 DEF verify_chain, entry_ok
  <1>3. \A i \in DOMAIN log : entry_ok(i)
    BY <1>1, <1>2 DEF verify_chain
  <1> QED BY <1>3 DEF Chained, Linked, entry_ok

\* The hash tells apart what it is made of.
LEMMA HashIsInjective ==
  ASSUME NEW n, NEW e, NEW p, NEW n2, NEW e2, NEW p2,
         canonical_hash(n, e, p) = canonical_hash(n2, e2, p2)
  PROVE  n = n2 /\ e = e2 /\ p = p2
  <1>1. <<n, e, p>> = <<n2, e2, p2>>
    BY DEF canonical_hash
  <1> QED BY <1>1

\* Two chains that share a hash are the same up to it.
LEMMA EqualHeads ==
  ASSUME NEW a, NEW b, Chained(a), Chained(b), NEW i \in DOMAIN a, NEW n \in DOMAIN b,
         a[i].entry_hash = b[n].entry_hash
  PROVE  i = n /\ \A k \in 1..n : a[k] = b[k]
  <1>1. /\ Len(a) \in Nat /\ DOMAIN a = 1..Len(a) /\ Len(b) \in Nat /\ DOMAIN b = 1..Len(b)
        /\ i \in Nat /\ n \in Nat
    BY ListIs DEF Chained, Lines
  <1>2. ASSUME NEW k \in DOMAIN a, NEW m \in DOMAIN b, a[k].entry_hash = b[m].entry_hash
        PROVE  k = m /\ a[k] = b[m] /\ a[k].prev_hash = b[m].prev_hash
    <2>1. /\ Linked(a, k) /\ Linked(b, m) /\ IsLine(a[k]) /\ IsLine(b[m])
      BY DEF Chained, Lines
    <2>2. a[k].seq = b[m].seq /\ a[k].event = b[m].event /\ a[k].prev_hash = b[m].prev_hash
      <3>1. canonical_hash(a[k].seq, a[k].event, a[k].prev_hash)
              = canonical_hash(b[m].seq, b[m].event, b[m].prev_hash)
        BY <1>2, <2>1 DEF Linked
      <3> QED BY <3>1, HashIsInjective
    <2>3. k = m
      BY <1>1, <2>1, <2>2 DEF Linked
    <2>4. a[k] = b[m]
      BY <1>2, <2>1, <2>2 DEF Linked, IsLine
    <2> QED BY <2>2, <2>3, <2>4
  <1>3. i = n
    BY <1>2
  <1>4. \A k \in 1..n : a[k].entry_hash = b[k].entry_hash
    <2> DEFINE T == {d \in Nat : d < n /\ a[n - d].entry_hash # b[n - d].entry_hash}
    <2>1. SUFFICES ASSUME T # {} PROVE FALSE
      <3> SUFFICES ASSUME NEW k \in 1..n, a[k].entry_hash # b[k].entry_hash PROVE FALSE
        OBVIOUS
      <3>1. n - k \in Nat /\ n - k < n /\ n - (n - k) = k
        BY <1>1
      <3>2. n - k \in T
        BY <3>1
      <3> QED BY <2>1, <3>2
    <2>9. T \in SUBSET Nat
      OBVIOUS
    <2>2. PICK d \in T : \A e \in T : d <= e
      BY <2>1, <2>9, LeastOf
    <2>3. d \in Nat /\ d < n /\ a[n - d].entry_hash # b[n - d].entry_hash /\ d # 0
      BY <1>1, <1>3, <2>2
    <2> DEFINE k == n - (d - 1)
    <2>4. d - 1 \in Nat /\ d - 1 < n /\ d - 1 \notin T
      <3>1. d - 1 \in Nat /\ d - 1 < n /\ ~(d <= d - 1)
        BY <1>1, <2>3
      <3> HIDE DEF T
      <3> QED BY <3>1, <2>2
    <2>5. a[k].entry_hash = b[k].entry_hash
      BY <2>4
    <2>6. k \in DOMAIN a /\ k \in DOMAIN b /\ k # 1 /\ k - 1 = n - d
      BY <1>1, <1>3, <2>3
    <2>7. a[k].prev_hash = b[k].prev_hash
      BY <1>2, <2>5, <2>6
    <2>8. a[k].prev_hash = a[k - 1].entry_hash /\ b[k].prev_hash = b[k - 1].entry_hash
      BY <2>6 DEF Chained, Linked
    <2> QED BY <2>3, <2>6, <2>7, <2>8
  <1>5. \A k \in 1..n : a[k] = b[k]
    BY <1>1, <1>2, <1>3, <1>4
  <1> QED BY <1>3, <1>5

\* A function on 1..n is a list.
LEMMA ListOf ==
  ASSUME NEW n \in Nat, NEW s, DOMAIN s = 1..n, s = [i \in 1..n |-> s[i]]
  PROVE  IsList(s) /\ Len(s) = n
  <1> DEFINE S == {s[i] : i \in 1..n}
  <1>1. s \in [1..n -> S]
    OBVIOUS
  <1>2. s \in Seq(S)
    BY <1>1, SeqDef
  <1>3. Len(s) = n
    BY <1>2, LenProperties
  <1> QED BY <1>2, <1>3 DEF IsList

\* An entry is a line and not a torn one.
LEMMA EntryIsLine ==
  ASSUME NEW n, NEW e, NEW p
  PROVE  /\ IsLine(LogEntry(n, e, p)) /\ LogEntry(n, e, p) # Torn
         /\ LogEntry(n, e, p).seq = n /\ LogEntry(n, e, p).event = e /\ LogEntry(n, e, p).prev_hash = p
         /\ LogEntry(n, e, p).entry_hash = canonical_hash(n, e, p)
  <1>1. DOMAIN LogEntry(n, e, p) = {"seq", "event", "prev_hash", "entry_hash"}
    BY DEF LogEntry
  <1>2. DOMAIN Torn = {"malformed"}
    BY DEF Torn
  <1>3. LogEntry(n, e, p) # Torn
    BY <1>1, <1>2
  <1> QED BY <1>3 DEF LogEntry, IsLine

\* A line put at the end.
LEMMA LineAppended ==
  ASSUME NEW s, Lines(s), NEW x, IsLine(x)
  PROVE  /\ Append(s, x) = s \o <<x>> /\ Lines(s \o <<x>>) /\ Len(s \o <<x>>) = Len(s) + 1
         /\ \A i \in 1..Len(s) : (s \o <<x>>)[i] = s[i]
         /\ (s \o <<x>>)[Len(s) + 1] = x
  <1>1. PICK S : s \in Seq(S)
    BY DEF Lines, IsList
  <1> DEFINE U == S \cup {x}
  <1>2. s \in Seq(U) /\ <<x>> \in Seq(U) /\ Len(<<x>>) = 1 /\ <<x>>[1] = x
    BY <1>1
  <1>3. /\ s \o <<x>> \in Seq(U) /\ Len(s \o <<x>>) = Len(s) + 1 /\ Append(s, x) = s \o <<x>>
        /\ \A i \in 1..Len(s) : (s \o <<x>>)[i] = s[i]
        /\ (s \o <<x>>)[Len(s) + 1] = x
    BY <1>2, ConcatProperties, AppendIsConcat
  <1>4. IsList(s \o <<x>>)
    BY <1>3 DEF IsList
  <1>5. DOMAIN (s \o <<x>>) = 1..(Len(s) + 1) /\ Len(s) \in Nat /\ DOMAIN s = 1..Len(s)
    BY <1>1, <1>3, LenProperties
  <1>6. \A i \in DOMAIN (s \o <<x>>) : IsLine((s \o <<x>>)[i])
    BY <1>3, <1>5 DEF Lines
  <1> QED BY <1>3, <1>4, <1>6 DEF Lines

\* A run of lines out of a list.
LEMMA LinesOf ==
  ASSUME NEW s, Lines(s), NEW m \in 1..(Len(s) + 1), NEW n \in 0..Len(s)
  PROVE  Lines(SubSeq(s, m, n))
  <1>1. PICK S : s \in Seq(S)
    BY DEF Lines, IsList
  <1>2. Len(s) \in Nat /\ DOMAIN s = 1..Len(s)
    BY <1>1, LenProperties
  <1>3. SubSeq(s, m, n) \in Seq(S) /\ Len(SubSeq(s, m, n)) = (IF m <= n THEN n - m + 1 ELSE 0)
        /\ \A i \in 1..(n - m + 1) : SubSeq(s, m, n)[i] = s[m + i - 1]
    BY <1>1, <1>2, SubSeqProperties
  <1>4. DOMAIN SubSeq(s, m, n) = 1..Len(SubSeq(s, m, n))
    BY <1>3, LenProperties
  <1>5. ASSUME NEW i \in DOMAIN SubSeq(s, m, n)
        PROVE  IsLine(SubSeq(s, m, n)[i])
    <2>1. i \in 1..(n - m + 1) /\ m + i - 1 \in DOMAIN s
      BY <1>2, <1>3, <1>4
    <2> QED BY <1>3, <2>1 DEF Lines
  <1> QED BY <1>3, <1>5 DEF Lines, IsList

\* A line taken out.
LEMMA LineRemoved ==
  ASSUME NEW s, Lines(s), NEW i \in DOMAIN s
  PROVE  Lines(RemoveAt(s, i))
  <1>1. PICK S : s \in Seq(S)
    BY DEF Lines, IsList
  <1>2. Len(s) \in Nat /\ DOMAIN s = 1..Len(s)
    BY <1>1, LenProperties
  <1> DEFINE a == SubSeq(s, 1, i - 1)
             b == SubSeq(s, i + 1, Len(s))
  <1>3. Lines(a) /\ Lines(b)
    BY <1>2, LinesOf
  <1>4. a \in Seq(S) /\ b \in Seq(S)
    BY <1>1, <1>2, SubSeqProperties
  <1>5. RemoveAt(s, i) = a \o b
    BY DEF RemoveAt
  <1> HIDE DEF a, b
  <1>6. /\ a \o b \in Seq(S) /\ Len(a \o b) = Len(a) + Len(b)
        /\ \A k \in 1..(Len(a) + Len(b)) : (a \o b)[k] = IF k <= Len(a) THEN a[k] ELSE b[k - Len(a)]
    BY <1>4, ConcatProperties
  <1>7. /\ Len(a) \in Nat /\ DOMAIN a = 1..Len(a) /\ Len(b) \in Nat /\ DOMAIN b = 1..Len(b)
        /\ DOMAIN (a \o b) = 1..(Len(a) + Len(b))
    BY <1>4, <1>6, LenProperties
  <1>8. ASSUME NEW k \in DOMAIN (a \o b)
        PROVE  IsLine((a \o b)[k])
    <2>1. CASE k <= Len(a)
      BY <1>3, <1>6, <1>7, <2>1 DEF Lines
    <2>2. CASE ~(k <= Len(a))
      <3>1. k - Len(a) \in DOMAIN b
        BY <1>7, <2>2
      <3> QED BY <1>3, <1>6, <1>7, <2>2, <3>1 DEF Lines
    <2> QED BY <2>1, <2>2
  <1> QED BY <1>5, <1>6, <1>8 DEF Lines, IsList

\* A line replaced.
LEMMA LineReplaced ==
  ASSUME NEW s, Lines(s), NEW i \in DOMAIN s, NEW x, IsLine(x)
  PROVE  Lines([s EXCEPT ![i] = x])
  <1>1. Len(s) \in Nat /\ DOMAIN s = 1..Len(s)
    BY ListIs DEF Lines
  <1> DEFINE t == [s EXCEPT ![i] = x]
  <1>2. DOMAIN t = 1..Len(s) /\ t = [k \in 1..Len(s) |-> t[k]]
    BY <1>1
  <1>3. \A k \in DOMAIN s : t[k] = IF k = i THEN x ELSE s[k]
    BY <1>1
  <1> HIDE DEF t
  <1>4. IsList(t)
    BY <1>1, <1>2, ListOf
  <1>5. Lines(t)
    BY <1>1, <1>2, <1>3, <1>4 DEF Lines
  <1> QED BY <1>5 DEF t

\* What every line of the file and every line about to be written is.
LogTyped ==
    /\ open_line \in BOOLEAN /\ disturbed \in BOOLEAN /\ tampers \in Nat
    /\ Lines(log)
    /\ DOMAIN pending = Writer /\ pending = [w \in Writer |-> pending[w]]
    /\ \A w \in Writer : pending[w] # << >> =>
           \E n, e, p : pending[w] = <<LogEntry(n, e, p)>>

\* While nothing went wrong the file is a chain, and what is about to be written is next in it.
QuietLink ==
    tampers = 0 /\ ~disturbed =>
        /\ ~open_line /\ Chained(log)
        /\ \A w \in Writer : pending[w] # << >> => \E e : pending[w] = <<next_entry(e)>>

\* An entry that was written is there, or a line is torn.
CompleteLink ==
    tampers = 0 => malformed \/ \A e \in returned : \E i \in DOMAIN log : log[i] = e

\* An auditor remembers a chain.
AuditLink == audited # << >> => Chained(audited)

\* The inductive invariant of the log.
LogInv == LogTyped /\ QuietLink /\ CompleteLink /\ AuditLink

\* It holds at first,
LEMMA LogInitHolds == LogInit => LogInv
  <1> SUFFICES ASSUME LogInit PROVE LogInv
    OBVIOUS
  <1> USE DEF LogInit
  <1>1. IsList(log) /\ DOMAIN log = {}
    <2>1. << >> \in Seq({}) /\ DOMAIN << >> = {}
      OBVIOUS
    <2> QED BY <2>1 DEF IsList
  <1>2. Lines(log) /\ Chained(log)
    BY <1>1 DEF Lines, Chained
  <1>3. LogTyped
    BY <1>2 DEF LogTyped
  <1>4. QuietLink
    BY <1>2 DEF QuietLink
  <1>5. CompleteLink /\ AuditLink
    BY DEF CompleteLink, AuditLink
  <1> QED BY <1>3, <1>4, <1>5 DEF LogInv

\* says that the log is evidence,
LEMMA LogInvSuffices == LogInv => LogIsEvidence
  <1> SUFFICES ASSUME LogInv PROVE LogIsEvidence
    OBVIOUS
  <1>1. Lines(log)
    BY DEF LogInv, LogTyped
  <1>2. QuietChainVerifies
    <2> SUFFICES ASSUME tampers = 0, ~disturbed PROVE verify_chain
      BY DEF QuietChainVerifies
    <2>1. \A i \in DOMAIN log : Linked(log, i)
      BY DEF LogInv, QuietLink, Chained
    <2> QED BY <2>1 DEF verify_chain, entry_ok, Linked
  <1>3. VerifiedIsComplete
    <2> SUFFICES ASSUME tampers = 0, verify_chain
                 PROVE  \A e \in returned : \E i \in DOMAIN log : log[i] = e
      BY DEF VerifiedIsComplete
    <2>1. ~malformed
      BY <1>1, VerifiedIsChained DEF Chained, Linked, malformed
    <2> QED BY <2>1 DEF LogInv, CompleteLink
  <1>4. HeadFixesHistory
    <2> SUFFICES ASSUME audited # << >>, verify_chain, NEW i \in DOMAIN log,
                        log[i].entry_hash = Last(audited).entry_hash
                 PROVE  SubSeq(log, 1, i) = audited
      BY DEF HeadFixesHistory
    <2> DEFINE n == Len(audited)
    <2>1. Chained(log) /\ Chained(audited)
      BY <1>1, VerifiedIsChained DEF LogInv, AuditLink
    <2>2. PICK S : audited \in Seq(S)
      BY <2>1 DEF Chained, Lines, IsList
    <2>3. PICK T : log \in Seq(T)
      BY <1>1 DEF Lines, IsList
    <2>4. n \in Nat /\ n # 0 /\ DOMAIN audited = 1..n /\ audited = [k \in 1..n |-> audited[k]]
      BY <2>2, LenProperties, EmptySeq
    <2>5. Last(audited) = audited[n]
      BY DEF Last
    <2>6. i = n /\ \A k \in 1..n : log[k] = audited[k]
      BY <2>1, <2>4, <2>5, EqualHeads
    <2>7. SubSeq(log, 1, n) = [k \in 1..n |-> log[k]]
      BY <2>3, <2>4
    <2> QED BY <2>4, <2>6, <2>7
  <1> QED BY <1>2, <1>3, <1>4 DEF LogIsEvidence

\* The next entry of a chain makes a longer chain.
LEMMA NextIsLinked ==
  ASSUME Chained(log), NEW e
  PROVE  Chained(log \o <<next_entry(e)>>)
  <1> DEFINE n == Len(log)
             x == next_entry(e)
             t == log \o <<x>>
  <1>1. n \in Nat /\ DOMAIN log = 1..n /\ (log = << >> <=> n = 0)
    <2>1. PICK S : log \in Seq(S)
      BY DEF Chained, Lines, IsList
    <2> QED BY <2>1, LenProperties, EmptySeq
  <1>2. /\ IsLine(x) /\ x # Torn /\ x.seq = n
        /\ x.prev_hash = (IF n = 0 THEN GENESIS_PREV_HASH ELSE log[n].entry_hash)
        /\ x.entry_hash = canonical_hash(x.seq, x.event, x.prev_hash)
    <2>1. CASE n = 0
      <3>1. x = LogEntry(0, e, GENESIS_PREV_HASH)
        BY <1>1, <2>1 DEF next_entry
      <3> QED BY <2>1, <3>1, EntryIsLine
    <2>2. CASE n # 0
      <3>1. x = LogEntry(log[n].seq + 1, e, log[n].entry_hash)
        BY <1>1, <2>2 DEF next_entry, Last
      <3>2. log[n].seq = n - 1
        BY <1>1, <2>2 DEF Chained, Linked
      <3> QED BY <1>1, <2>2, <3>1, <3>2, EntryIsLine
    <2> QED BY <2>1, <2>2
  <1> HIDE DEF x
  <1>3. /\ Lines(t) /\ Len(t) = n + 1 /\ t[n + 1] = x /\ \A i \in 1..n : t[i] = log[i]
    BY <1>2, LineAppended DEF Chained
  <1>4. DOMAIN t = 1..(n + 1)
    BY <1>3, ListIs DEF Lines
  <1> HIDE DEF t, n
  <1>5. ASSUME NEW i \in DOMAIN t
        PROVE  Linked(t, i)
    <2>1. CASE i = n + 1
      BY <1>1, <1>2, <1>3, <2>1 DEF Linked
    <2>2. CASE i # n + 1
      <3>1. i \in 1..n /\ (i # 1 => i - 1 \in 1..n)
        BY <1>1, <1>4, <2>2
      <3>2. Linked(log, i)
        BY <1>1, <3>1 DEF Chained
      <3> QED BY <1>3, <3>1, <3>2 DEF Linked
    <2> QED BY <2>1, <2>2
  <1>6. Chained(t)
    BY <1>3, <1>5 DEF Chained
  <1> QED BY <1>6 DEF t, x

\* The line that a write leaves behind.
LEMMA LineWritten ==
  ASSUME LogInv, NEW w \in Writer, pending[w] # << >>, NEW x, IsLine(x)
  PROVE  /\ Lines(log \o <<x>>) /\ Lines(Append(Front(log), Torn)) /\ IsLine(Torn)
         /\ \E i \in DOMAIN Append(Front(log), Torn) : Append(Front(log), Torn)[i] = Torn
         /\ \E i \in DOMAIN (log \o <<x>>) : (log \o <<x>>)[i] = x
         /\ \A i \in DOMAIN log : i \in DOMAIN (log \o <<x>>) /\ (log \o <<x>>)[i] = log[i]
  <1>1. Lines(log) /\ IsLine(Torn)
    BY DEF LogInv, LogTyped, IsLine
  <1>2. Len(log) \in Nat /\ DOMAIN log = 1..Len(log)
    BY <1>1, ListIs DEF Lines
  <1>3. Lines(Front(log))
    <2>1. CASE Len(log) = 0
      <3>1. log = << >> /\ Front(log) = << >>
        <4>1. PICK S : log \in Seq(S)
          BY <1>1 DEF Lines, IsList
        <4> QED BY <2>1, <4>1, EmptySeq DEF Front
      <3> QED BY <1>1, <3>1
    <2>2. CASE Len(log) # 0
      <3>1. 1 \in 1..(Len(log) + 1) /\ Len(log) - 1 \in 0..Len(log)
        BY <1>2, <2>2
      <3> QED BY <1>1, <3>1, LinesOf DEF Front
    <2> QED BY <2>1, <2>2
  <1>4. Len(Front(log)) \in Nat
    BY <1>3, ListIs DEF Lines
  <1>5. /\ Lines(Append(Front(log), Torn)) /\ Len(Append(Front(log), Torn)) = Len(Front(log)) + 1
        /\ Append(Front(log), Torn)[Len(Front(log)) + 1] = Torn
    <2> DEFINE f == Front(log)
    <2> HIDE DEF f
    <2>1. Lines(f) /\ IsLine(Torn)
      BY <1>1, <1>3 DEF f
    <2>2. Append(f, Torn) = f \o <<Torn>>
      BY <2>1, LineAppended
    <2>3. /\ Lines(f \o <<Torn>>) /\ Len(f \o <<Torn>>) = Len(f) + 1
          /\ (f \o <<Torn>>)[Len(f) + 1] = Torn
      BY <2>1, LineAppended
    <2> QED BY <2>2, <2>3 DEF f
  <1>6. DOMAIN Append(Front(log), Torn) = 1..(Len(Front(log)) + 1)
    BY <1>5, ListIs DEF Lines
  <1>7. /\ Lines(log \o <<x>>) /\ Len(log \o <<x>>) = Len(log) + 1
        /\ (log \o <<x>>)[Len(log) + 1] = x
        /\ \A i \in 1..Len(log) : (log \o <<x>>)[i] = log[i]
    BY <1>1, LineAppended
  <1>8. DOMAIN (log \o <<x>>) = 1..(Len(log) + 1)
    BY <1>7, ListIs DEF Lines
  <1>9. Len(Front(log)) + 1 \in DOMAIN Append(Front(log), Torn) /\ Len(log) + 1 \in DOMAIN (log \o <<x>>)
    BY <1>2, <1>4, <1>6, <1>8
  <1>10. \A i \in DOMAIN log : i \in DOMAIN (log \o <<x>>) /\ (log \o <<x>>)[i] = log[i]
    BY <1>2, <1>7, <1>8
  <1> QED BY <1>1, <1>5, <1>7, <1>9, <1>10

\* Whatever is rewritten, the file holds lines.
LEMMA RewrittenIsLines ==
  ASSUME Lines(log), Tamper
  PROVE  Lines(log')
  <1>1. Len(log) \in Nat /\ DOMAIN log = 1..Len(log)
    BY ListIs DEF Lines
  <1>2. ASSUME NEW i \in 0..Len(log), log' = SubSeq(log, 1, i) PROVE Lines(log')
    BY <1>1, <1>2, LinesOf
  <1>3. ASSUME NEW i \in DOMAIN log, log' = RemoveAt(log, i) PROVE Lines(log')
    BY <1>3, LineRemoved
  <1>4. ASSUME NEW i \in DOMAIN log, log[i] # Torn, NEW e, log' = [log EXCEPT ![i].event = e]
        PROVE  Lines(log')
    <2> DEFINE r == log[i]
               x == [r EXCEPT !.event = e]
    <2>1. r = [seq |-> r.seq, event |-> r.event, prev_hash |-> r.prev_hash, entry_hash |-> r.entry_hash]
      BY <1>4 DEF Lines, IsLine
    <2>2. x = [seq |-> r.seq, event |-> e, prev_hash |-> r.prev_hash, entry_hash |-> r.entry_hash]
      BY <2>1
    <2>3. IsLine(x)
      BY <2>2 DEF IsLine
    <2>4. log' = [log EXCEPT ![i] = x]
      BY <1>4
    <2> HIDE DEF x
    <2> QED BY <2>3, <2>4, LineReplaced
  <1>5. ASSUME NEW i \in DOMAIN log, NEW e,
               log' = [log EXCEPT ![i] = LogEntry(log[i].seq, e, log[i].prev_hash)]
        PROVE  Lines(log')
    <2> DEFINE x == LogEntry(log[i].seq, e, log[i].prev_hash)
    <2>1. IsLine(x)
      BY EntryIsLine
    <2>2. log' = [log EXCEPT ![i] = x]
      BY <1>5
    <2> HIDE DEF x
    <2> QED BY <2>1, <2>2, LineReplaced
  <1> QED BY <1>2, <1>3, <1>4, <1>5 DEF Tamper

\* Writers, crashes, tampering and audits keep the invariant.
LEMMA LogStep ==
  ASSUME LogInv, [LogNext]_log_vars
  PROVE  LogInv'
  <1>1. ASSUME NEW w \in Writer, NEW e \in Event, append(w, e) PROVE LogInv'
    <2> USE <1>1 DEF append
    <2>1. \E n, ev, p : next_entry(e) = LogEntry(n, ev, p)
      BY DEF next_entry
    <2>2. LogTyped'
      BY <2>1 DEF LogInv, LogTyped
    <2>3. QuietLink'
      <3>1. \A v : next_entry(v)' = next_entry(v)
        BY DEF next_entry
      <3> QED BY <3>1 DEF LogInv, QuietLink, LogTyped
    <2>4. CompleteLink' /\ AuditLink'
      BY DEF LogInv, CompleteLink, AuditLink, malformed
    <2> QED BY <2>2, <2>3, <2>4 DEF LogInv
  <1>2. ASSUME NEW w \in Writer, write_line(w) PROVE LogInv'
    <2>1. PICK n, ev, p : pending[w] = <<LogEntry(n, ev, p)>>
      BY <1>2 DEF LogInv, LogTyped, write_line
    <2> DEFINE x == LogEntry(n, ev, p)
    <2>2. IsLine(x) /\ x # Torn
      BY EntryIsLine
    <2> HIDE DEF x
    <2>3. log' = (IF open_line THEN Append(Front(log), Torn) ELSE log \o <<x>>) /\ open_line' = FALSE
      BY <1>2, <2>1 DEF write_line, x
    <2>4. returned' = returned \cup {x}
      <3>1. ToSet(<<x>>) = {x}
        BY DEF ToSet
      <3> QED BY <1>2, <2>1, <3>1 DEF write_line, x
    <2>5. Lines(log')
      BY <1>2, <2>2, <2>3, LineWritten DEF write_line
    <2>6. LogTyped'
      <3>1. open_line' \in BOOLEAN /\ disturbed' \in BOOLEAN /\ tampers' \in Nat
        BY <1>2 DEF LogInv, LogTyped, write_line
      <3>2. /\ DOMAIN pending' = Writer /\ pending' = [v \in Writer |-> pending'[v]]
            /\ \A v \in Writer : pending'[v] = IF v = w THEN << >> ELSE pending[v]
        BY <1>2 DEF LogInv, LogTyped, write_line
      <3> QED BY <2>5, <3>1, <3>2 DEF LogInv, LogTyped
    <2>7. QuietLink'
      <3> SUFFICES ASSUME tampers' = 0, ~disturbed'
                   PROVE  ~open_line' /\ Chained(log') /\ \A v \in Writer : pending'[v] = << >>
        BY DEF QuietLink
      <3>1. tampers = 0 /\ ~disturbed /\ \A v \in Writer \ {w} : pending[v] = << >>
        BY <1>2 DEF write_line, LogInv, LogTyped
      <3>2. PICK e : pending[w] = <<next_entry(e)>>
        BY <1>2, <3>1 DEF write_line, LogInv, QuietLink
      <3>3. ~open_line /\ Chained(log)
        BY <3>1 DEF LogInv, QuietLink
      <3>4. log' = log \o <<next_entry(e)>>
        BY <1>2, <3>2, <3>3 DEF write_line
      <3>5. Chained(log')
        BY <3>3, <3>4, NextIsLinked
      <3> QED BY <1>2, <2>3, <3>1, <3>5 DEF write_line, LogInv, LogTyped
    <2>8. CompleteLink'
      <3> SUFFICES ASSUME tampers' = 0
                   PROVE  malformed' \/ \A e \in returned' : \E i \in DOMAIN log' : log'[i] = e
        BY DEF CompleteLink
      <3>1. malformed \/ \A e \in returned : \E i \in DOMAIN log : log[i] = e
        BY <1>2 DEF write_line, LogInv, CompleteLink
      <3>2. CASE open_line
        BY <1>2, <2>2, <2>3, <3>2, LineWritten DEF write_line, malformed
      <3>3. CASE ~open_line
        <4>1. log' = log \o <<x>>
          BY <2>3, <3>3
        <4>2. /\ \E i \in DOMAIN log' : log'[i] = x
              /\ \A i \in DOMAIN log : i \in DOMAIN log' /\ log'[i] = log[i]
          <5>1. pending[w] # << >>
            BY <1>2 DEF write_line
          <5>2. /\ \E i \in DOMAIN (log \o <<x>>) : (log \o <<x>>)[i] = x
                /\ \A i \in DOMAIN log : i \in DOMAIN (log \o <<x>>) /\ (log \o <<x>>)[i] = log[i]
            BY <2>2, <5>1, LineWritten
          <5> QED BY <4>1, <5>2
        <4> QED BY <2>4, <3>1, <4>2 DEF malformed
      <3> QED BY <3>2, <3>3 DEF LogInv, LogTyped
    <2>9. AuditLink'
      BY <1>2 DEF write_line, LogInv, AuditLink
    <2> QED BY <2>6, <2>7, <2>8, <2>9 DEF LogInv
  <1>3. ASSUME NEW w \in Writer, NEW whole \in BOOLEAN, Crash(w, whole) PROVE LogInv'
    <2>1. PICK n, ev, p : pending[w] = <<LogEntry(n, ev, p)>>
      BY <1>3 DEF LogInv, LogTyped, Crash
    <2> DEFINE x == LogEntry(n, ev, p)
    <2>2. IsLine(x) /\ x # Torn
      BY EntryIsLine
    <2> HIDE DEF x
    <2>3. /\ Lines(log \o <<x>>) /\ Lines(Append(Front(log), Torn)) /\ Lines(log \o <<Torn>>)
          /\ Append(log, Torn) = log \o <<Torn>>
      <3>1. IsLine(Torn) /\ Lines(log)
        BY DEF IsLine, LogInv, LogTyped
      <3> QED BY <1>3, <2>2, <3>1, LineWritten, LineAppended DEF Crash
    <2>4. log' \in {Append(Front(log), Torn), log \o <<x>>, log \o <<Torn>>}
      BY <1>3, <2>1, <2>3 DEF Crash, x
    <2>5. LogTyped'
      BY <1>3, <2>3, <2>4 DEF LogInv, LogTyped, Crash
    <2>6. QuietLink' /\ AuditLink'
      BY <1>3 DEF Crash, QuietLink, LogInv, AuditLink
    <2>7. CompleteLink'
      <3> SUFFICES ASSUME tampers' = 0
                   PROVE  malformed' \/ \A e \in returned' : \E i \in DOMAIN log' : log'[i] = e
        BY DEF CompleteLink
      <3>1. malformed \/ \A e \in returned : \E i \in DOMAIN log : log[i] = e
        BY <1>3 DEF Crash, LogInv, CompleteLink
      <3>2. CASE log' \in {Append(Front(log), Torn), log \o <<Torn>>}
        <4>1. IsLine(Torn) /\ pending[w] # << >>
          BY <1>3 DEF IsLine, Crash
        <4>2. /\ \E i \in DOMAIN (log \o <<Torn>>) : (log \o <<Torn>>)[i] = Torn
              /\ \E i \in DOMAIN Append(Front(log), Torn) : Append(Front(log), Torn)[i] = Torn
          BY <4>1, LineWritten
        <4>3. \E i \in DOMAIN log' : log'[i] = Torn
          BY <3>2, <4>2
        <4> QED BY <4>3 DEF malformed
      <3>3. CASE log' = log \o <<x>>
        <4>1. \A i \in DOMAIN log : i \in DOMAIN log' /\ log'[i] = log[i]
          BY <1>3, <2>2, <3>3, LineWritten DEF Crash
        <4>2. returned' = returned
          BY <1>3 DEF Crash
        <4> QED BY <3>1, <4>1, <4>2 DEF malformed
      <3> QED BY <2>4, <3>2, <3>3
    <2> QED BY <2>5, <2>6, <2>7 DEF LogInv
  <1>4. CASE Tamper
    <2>1. Lines(log')
      BY <1>4, RewrittenIsLines DEF LogInv, LogTyped
    <2>2. tampers' \in Nat /\ tampers' # 0
      BY <1>4 DEF Tamper, LogInv, LogTyped
    <2>3. LogTyped'
      <3>1. /\ open_line' \in BOOLEAN /\ disturbed' \in BOOLEAN /\ pending' = pending
        BY <1>4 DEF Tamper, LogInv, LogTyped
      <3> QED BY <2>1, <2>2, <3>1 DEF LogInv, LogTyped
    <2> QED BY <1>4, <2>2, <2>3 DEF Tamper, LogInv, QuietLink, CompleteLink, AuditLink
  <1>5. ASSUME NEW i \in DOMAIN log, Relink(i) PROVE LogInv'
    <2>1. Lines(log')
      <3> DEFINE x == LogEntry(i - 1, log[i].event, IF i = 1 THEN GENESIS_PREV_HASH
                                                     ELSE log[i - 1].entry_hash)
      <3>1. IsLine(x)
        BY EntryIsLine
      <3>2. log' = [log EXCEPT ![i] = x] /\ Lines(log)
        BY <1>5 DEF Relink, LogInv, LogTyped
      <3> HIDE DEF x
      <3> QED BY <3>1, <3>2, LineReplaced
    <2>2. tampers' \in Nat /\ tampers' # 0
      BY <1>5 DEF Relink, LogInv, LogTyped
    <2>3. LogTyped'
      BY <1>5, <2>1, <2>2 DEF Relink, LogInv, LogTyped
    <2> QED BY <1>5, <2>2, <2>3 DEF Relink, LogInv, QuietLink, CompleteLink, AuditLink
  <1>6. CASE Audit
    <2>1. Chained(log)
      BY <1>6, VerifiedIsChained DEF Audit, LogInv, LogTyped
    <2> QED BY <1>6, <2>1 DEF Audit, LogInv, LogTyped, QuietLink, CompleteLink, AuditLink, malformed, next_entry
  <1>7. CASE UNCHANGED log_vars
    BY <1>7 DEF log_vars, LogInv, LogTyped, QuietLink, CompleteLink, AuditLink, malformed, next_entry
  <1> QED BY <1>1, <1>2, <1>3, <1>4, <1>5, <1>6, <1>7 DEF LogNext

-----------------------------------------------------------------------------
\* The module registry.

\* As long as no commands overlapped, a command under way will change what is meant by one
\* entry, its own.
CommandsLink ==
    /\ \A s \in saving : command[s] # Absent
    /\ \A s \in Shell : ~overlap /\ command[s] # Absent =>
          command[s].doc = [meant EXCEPT ![command[s].module] = command[s].entry]

\* The signatures there are were made.
SignaturesLink == \A p \in Path : signatures[p] # Absent => signatures[p] \in signed

\* Each module that was asked for is still to be read, or being read, or has been verified,
\* unless there was a failure; and what has been verified was signed by whom it expects.
ListingLink ==
    listing # Absent =>
        /\ listing.failures = 0 => \A m \in listing.asked :
              \/ \E e \in listing.left : e.module = m
              \/ listing.reading # Absent /\ listing.reading.module = m
              \/ \E v \in listing.verified : v.module = m
        /\ \A v \in listing.verified : \E sig \in signed :
              sig.over = v.body /\ sig.key \in expected_keys(listing.expected)
        /\ overlap \/ listing.due = listing.asked

\* The inductive invariant of the module registry.
ModInv == ModTypeOK /\ CommandsLink /\ RegistryAsMeant /\ SignaturesLink /\ ListingLink

\* It holds at first,
LEMMA ModInitHolds == ModInit => ModInv
  <1> SUFFICES ASSUME ModInit PROVE ModInv
    OBVIOUS
  <1>1. NoModules \in Registry
    BY DEF NoModules, Registry
  <1> QED BY <1>1 DEF ModInit, ModInv, ModTypeOK, CommandsLink, RegistryAsMeant, SignaturesLink, ListingLink

\* says that modules are vouched for,
LEMMA ModInvSuffices == ModInv => ModulesAreVouchedFor
  <1> SUFFICES ASSUME ModInv PROVE VerifyAllIsSound
    BY DEF ModInv, ModulesAreVouchedFor
  <1> SUFFICES ASSUME listing # Absent, listing.left = {}, listing.reading = Absent, listing.failures = 0,
                      NEW m \in listing.asked
               PROVE  \E v \in listing.verified, sig \in signed :
                         v.module = m /\ sig.over = v.body /\ sig.key \in expected_keys(listing.expected)
    BY DEF VerifyAllIsSound, ModInv, ListingLink
  <1>1. PICK v \in listing.verified : v.module = m
    BY DEF ModInv, ListingLink
  <1>2. PICK sig \in signed : sig.over = v.body /\ sig.key \in expected_keys(listing.expected)
    BY DEF ModInv, ListingLink
  <1> QED BY <1>1, <1>2

\* A command that changes the registry, up to save_registry(): it read what is meant.
LEMMA StartPreserves ==
  ASSUME ModInv, NEW s \in Shell, NEW doc \in load_registry, NEW m \in Module,
         NEW entry \in Entry \cup {Absent}, Start(s, doc, m, entry)
  PROVE  ModInv'
  <1> DEFINE d == [doc EXCEPT ![m] = entry]
             c == [doc |-> d, module |-> m, entry |-> entry]
  <1>1. doc = registry /\ registry # Broken /\ doc \in Registry /\ (~overlap => doc = meant)
    BY DEF load_registry, ModInv, ModTypeOK, RegistryAsMeant
  <1>2. d \in Registry /\ (~overlap => d = [meant EXCEPT ![m] = entry])
    BY <1>1 DEF Registry
  <1> HIDE DEF d
  <1>3. c \in Command /\ c.doc = d /\ c.module = m /\ c.entry = entry
    BY <1>2 DEF Command
  <1>4. /\ command[s] = Absent /\ command' = [command EXCEPT ![s] = c]
        /\ UNCHANGED <<manifests, signatures, registry, saving, listing, meant, signed, overlap, crashed>>
    BY DEF Start, d
  <1> HIDE DEF c
  <1>5. ModTypeOK'
    BY <1>3, <1>4 DEF ModInv, ModTypeOK
  <1>6. CommandsLink'
    BY <1>2, <1>3, <1>4 DEF ModInv, ModTypeOK, CommandsLink
  <1> QED BY <1>4, <1>5, <1>6 DEF ModInv, RegistryAsMeant, SignaturesLink, ListingLink

\* Commands, failures and edits keep the invariant.
LEMMA ModStep ==
  ASSUME ModInv, [ModNext]_mod_vars
  PROVE  ModInv'
  <1> USE ModuleAssumption
  <1>1. ASSUME NEW p \in Path, NEW body \in Manifest \cup {Absent}, Publish(p, body)  PROVE ModInv'
    BY <1>1 DEF Publish, ModInv, ModTypeOK, CommandsLink, RegistryAsMeant, SignaturesLink, ListingLink
  <1>2. ASSUME NEW p \in Path, NEW out \in Path, NEW k \in Key, NEW b \in BOOLEAN, manifest_sign(p, out, k, b)
        PROVE  ModInv'
    <2> DEFINE sig == [key |-> k, over |-> manifests[p]]
    <2>1. /\ manifests[p] \in Manifest /\ signatures' = [signatures EXCEPT ![out] = sig]
          /\ signed' = signed \cup {sig}
          /\ UNCHANGED <<manifests, registry, command, saving, listing, meant, overlap, crashed>>
      BY <1>2 DEF manifest_sign, ModInv, ModTypeOK
    <2>2. sig \in Signature
      BY <2>1 DEF Signature
    <2> HIDE DEF sig
    <2>3. ModTypeOK'
      BY <2>1, <2>2 DEF ModInv, ModTypeOK
    <2>4. SignaturesLink'
      BY <2>1, <2>2 DEF ModInv, ModTypeOK, SignaturesLink
    <2>5. ListingLink'
      BY <2>1 DEF ModInv, ListingLink
    <2> QED BY <2>1, <2>3, <2>4, <2>5 DEF ModInv, CommandsLink, RegistryAsMeant
  <1>3. ASSUME NEW s \in Shell, NEW p \in Path, NEW sig \in Path, NEW b \in BOOLEAN,
               register_manifest(s, p, sig, b)
        PROVE  ModInv'
    <2>1. manifests[p].id \in Module /\ [path |-> p, sig |-> sig, enabled |-> b] \in Entry
      BY <1>3 DEF register_manifest, ModInv, ModTypeOK, Manifest, Entry
    <2> QED BY <1>3, <2>1, StartPreserves DEF register_manifest
  <1>4. ASSUME NEW s \in Shell, NEW m \in Module, unregister_manifest(s, m)  PROVE ModInv'
    BY <1>4, StartPreserves DEF unregister_manifest
  <1>5. ASSUME NEW s \in Shell, NEW m \in Module, NEW b \in BOOLEAN, set_module_enabled(s, m, b)
        PROVE  ModInv'
    <2>1. PICK doc \in load_registry : doc[m] # Absent /\ Start(s, doc, m, [doc[m] EXCEPT !.enabled = b])
      BY <1>5 DEF set_module_enabled
    <2>2. doc[m] \in Entry
      BY <2>1 DEF load_registry, ModInv, ModTypeOK, Registry
    <2>3. [doc[m] EXCEPT !.enabled = b] \in Entry
      BY <2>2 DEF Entry
    <2> QED BY <2>1, <2>3, StartPreserves
  <1>6. ASSUME NEW s \in Shell, Truncate(s)  PROVE ModInv'
    BY <1>6 DEF Truncate, ModInv, ModTypeOK, CommandsLink, RegistryAsMeant, SignaturesLink, ListingLink
  <1>7. ASSUME NEW s \in Shell, save_registry(s)  PROVE ModInv'
    <2>1. command[s] # Absent /\ command[s] \in Command
      BY <1>7 DEF save_registry, ModInv, ModTypeOK, CommandsLink
    <2>2. command[s].doc \in Registry /\ command[s].module \in Module /\ command[s].entry \in Entry \cup {Absent}
      BY <2>1 DEF Command
    <2>3. ModTypeOK'
      <3>1. meant' \in Registry
        BY <1>7, <2>2 DEF save_registry, ModInv, ModTypeOK, Registry
      <3> QED BY <1>7, <2>2, <3>1 DEF save_registry, ModInv, ModTypeOK
    <2>4. ~overlap' => /\ ~overlap /\ registry' = meant'
                       /\ \A t \in Shell : command'[t] = Absent
      BY <1>7, <2>1 DEF save_registry, ModInv, ModTypeOK, CommandsLink
    <2>5. \A t \in saving' : command'[t] # Absent
      BY <1>7 DEF save_registry, ModInv, ModTypeOK, CommandsLink
    <2>6. CommandsLink' /\ RegistryAsMeant'
      BY <2>4, <2>5 DEF CommandsLink, RegistryAsMeant
    <2> QED BY <1>7, <2>3, <2>6 DEF save_registry, ModInv, SignaturesLink, ListingLink
  <1>8. ASSUME NEW s \in Shell, Die(s)  PROVE ModInv'
    <2>1. ModTypeOK'
      BY <1>8 DEF Die, ModInv, ModTypeOK
    <2>2. CommandsLink'
      BY <1>8 DEF Die, ModInv, ModTypeOK, CommandsLink
    <2>3. RegistryAsMeant'
      BY <1>8 DEF Die, ModInv, ModTypeOK, RegistryAsMeant
    <2> QED BY <1>8, <2>1, <2>2, <2>3 DEF Die, ModInv, SignaturesLink, ListingLink
  <1>9. ASSUME NEW ex \in Signer \cup {Anyone}, manifest_verify_all(ex)  PROVE ModInv'
    <2> DEFINE item(doc, m) == [module |-> m, path |-> doc[m].path, sig |-> doc[m].sig]
               lst(doc) == [expected |-> ex, asked |-> enabled_in(doc), due |-> enabled_in(meant),
                            left |-> {item(doc, m) : m \in enabled_in(doc)},
                            reading |-> Absent, body |-> Absent, verified |-> {}, failures |-> 0]
    <2>1. PICK doc \in load_registry : listing' = lst(doc)
      BY <1>9 DEF manifest_verify_all
    <2>2. doc \in Registry /\ (~overlap => doc = meant) /\ meant \in Registry
      BY DEF load_registry, ModInv, ModTypeOK, RegistryAsMeant
    <2>3. \A m \in enabled_in(doc) : m \in Module /\ item(doc, m) \in Item /\ item(doc, m).module = m
      BY <2>2 DEF enabled_in, Registry, Entry, Item
    <2>4. enabled_in(doc) \subseteq Module /\ enabled_in(meant) \subseteq Module
      BY DEF enabled_in
    <2>5. enabled_in(meant) = enabled_in(doc) \/ overlap
      BY <2>2
    <2> HIDE DEF item
    <2>6. /\ lst(doc) \in Listing /\ lst(doc).asked = enabled_in(doc) /\ lst(doc).due = enabled_in(meant)
          /\ lst(doc).left = {item(doc, m) : m \in enabled_in(doc)} /\ lst(doc).verified = {}
      BY <2>3, <2>4 DEF Listing
    <2>7. UNCHANGED <<manifests, signatures, registry, command, saving, meant, signed, overlap, crashed>>
      BY <1>9 DEF manifest_verify_all
    <2> HIDE DEF lst
    <2>8. ListingLink'
      BY <2>1, <2>3, <2>5, <2>6, <2>7 DEF ListingLink
    <2> QED BY <2>1, <2>6, <2>7, <2>8 DEF ModInv, ModTypeOK, CommandsLink, RegistryAsMeant, SignaturesLink
  <1>10. ASSUME NEW e \in Item, ReadManifest(e)  PROVE ModInv'
    <2> DEFINE b == canonical_form(manifests[e.path])
    <2>1. /\ listing # Absent /\ listing \in Listing /\ listing.reading = Absent /\ e \in listing.left
          /\ e \in Item /\ e.path \in Path /\ listing.failures \in Nat
          /\ UNCHANGED <<manifests, signatures, registry, command, saving, meant, signed, overlap, crashed>>
      BY <1>10 DEF ReadManifest, ModInv, ModTypeOK, Listing, Item
    <2>2. CASE manifests[e.path] = Absent
      <3> DEFINE n == listing.failures + 1
      <3>1. listing' = [listing EXCEPT !.left = listing.left \ {e}, !.failures = n] /\ n \in Nat /\ n # 0
        BY <1>10, <2>1, <2>2 DEF ReadManifest, missing_manifest
      <3> HIDE DEF n
      <3>2. /\ listing' \in Listing /\ listing'.failures # 0 /\ listing'.verified = listing.verified
            /\ listing'.asked = listing.asked /\ listing'.due = listing.due
            /\ listing'.expected = listing.expected
        BY <2>1, <3>1 DEF Listing
      <3> QED BY <2>1, <3>2 DEF ModInv, ModTypeOK, ListingLink, CommandsLink, RegistryAsMeant, SignaturesLink
    <2>3. CASE manifests[e.path] # Absent
      <3>1. b \in Manifest
        <4>1. PICK f \in Manifest : f = manifests[e.path]
          BY <2>1, <2>3 DEF ModInv, ModTypeOK
        <4>2. canonical_form(f) \in Manifest
          BY DEF Manifest, canonical_form
        <4> QED BY <4>1, <4>2
      <3>2. listing' = [listing EXCEPT !.left = @ \ {e}, !.reading = e, !.body = b]
        BY <1>10, <2>3 DEF ReadManifest
      <3> HIDE DEF b
      <3>3. /\ listing' \in Listing /\ listing'.failures = listing.failures /\ listing'.reading = e
            /\ listing'.left = listing.left \ {e} /\ listing'.verified = listing.verified
            /\ listing'.asked = listing.asked /\ listing'.due = listing.due /\ listing'.expected = listing.expected
        BY <2>1, <3>1, <3>2 DEF Listing
      <3>4. ListingLink'
        BY <2>1, <3>3 DEF ModInv, ListingLink
      <3> QED BY <2>1, <3>3, <3>4 DEF ModInv, ModTypeOK, CommandsLink, RegistryAsMeant, SignaturesLink
    <2> QED BY <2>2, <2>3
  <1>11. CASE ReadSignature
    <2> DEFINE v == [module |-> listing.reading.module, body |-> listing.body]
               done == [listing EXCEPT !.reading = Absent, !.body = Absent]
               sig == signatures[listing.reading.sig]
    <2>1. /\ listing # Absent /\ listing \in Listing /\ listing.reading # Absent /\ listing.failures \in Nat
          /\ listing.reading \in Item /\ listing.reading.sig \in Path /\ listing.reading.module \in Module
          /\ UNCHANGED <<manifests, signatures, registry, command, saving, meant, signed, overlap, crashed>>
      BY <1>11 DEF ReadSignature, ModInv, ModTypeOK, Listing, Item
    <2>2. /\ done \in Listing /\ done.failures = listing.failures /\ done.reading = Absent
          /\ done.left = listing.left /\ done.verified = listing.verified /\ done.asked = listing.asked
          /\ done.due = listing.due /\ done.expected = listing.expected
      BY <2>1 DEF Listing
    <2>3. CASE verify_manifest(listing.body, sig, listing.expected)
      <3>1. listing' = [done EXCEPT !.verified = @ \cup {v}]
        BY <1>11, <2>3 DEF ReadSignature
      <3>2. /\ sig \in Signature /\ sig.over = listing.body /\ sig \in signed /\ listing.body \in Manifest
            /\ sig.key \in expected_keys(listing.expected)
        BY <2>1, <2>3 DEF verify_manifest, ModInv, ModTypeOK, SignaturesLink, Signature
      <3>3. v \in [module : Module, body : Manifest] /\ v.module = listing.reading.module /\ v.body = listing.body
        BY <2>1, <3>2
      <3> HIDE DEF v, done, sig
      <3>4. /\ listing' \in Listing /\ listing'.failures = listing.failures /\ listing'.reading = Absent
            /\ listing'.left = listing.left /\ listing'.verified = listing.verified \cup {v}
            /\ listing'.asked = listing.asked /\ listing'.due = listing.due /\ listing'.expected = listing.expected
        BY <2>2, <3>1, <3>3 DEF Listing
      <3>5. ListingLink'
        BY <2>1, <3>2, <3>3, <3>4 DEF ModInv, ListingLink
      <3> QED BY <2>1, <3>4, <3>5 DEF ModInv, ModTypeOK, CommandsLink, RegistryAsMeant, SignaturesLink
    <2>4. CASE ~verify_manifest(listing.body, sig, listing.expected)
      <3>1. listing' = [done EXCEPT !.failures = @ + 1]
        BY <1>11, <2>4 DEF ReadSignature
      <3> HIDE DEF done
      <3>2. /\ listing' \in Listing /\ listing'.failures # 0 /\ listing'.verified = listing.verified
            /\ listing'.asked = listing.asked /\ listing'.due = listing.due
            /\ listing'.expected = listing.expected
        BY <2>1, <2>2, <3>1 DEF Listing
      <3> QED BY <2>1, <3>2 DEF ModInv, ModTypeOK, ListingLink, CommandsLink, RegistryAsMeant, SignaturesLink
    <2> QED BY <2>3, <2>4
  <1>12. CASE UNCHANGED mod_vars
    BY <1>12 DEF mod_vars, ModInv, ModTypeOK, CommandsLink, RegistryAsMeant, SignaturesLink, ListingLink
  <1> QED BY <1>1, <1>2, <1>3, <1>4, <1>5, <1>6, <1>7, <1>8, <1>9, <1>10, <1>11, <1>12 DEF ModNext

-----------------------------------------------------------------------------
\* The peer registry.

\* Of the peers in a registry or copy, the verified ones have proven themselves, or were
\* recorded as someone described them.
Vouched(reg) == \A p \in Peer : reg[p] # Nil /\ reg[p].verified => p \in proven \cup told

\* The registry, the file, and what is about to be saved vouch for nobody else.
VouchedLink ==
    /\ Vouched(peers) /\ Vouched(mdns) /\ (peers_file # Nil => Vouched(peers_file))
    /\ \A t \in Thread : save[t] # Nil => Vouched(save[t])

\* Whoever is alone in saving is about to write what the registry is.
SaveIsCurrent ==
    ~out_of_order =>
        \A t \in Thread : save[t] # Nil /\ (\A u \in Thread \ {t} : AtRest(u)) => save[t] = peers

\* The inductive invariant of the peer registry.
MeshInv == MeshTypeOK /\ VouchedLink /\ SaveIsCurrent /\ FileFollowsRegistry

\* It holds at first,
LEMMA MeshInitHolds == MeshInit => MeshInv
  <1> SUFFICES ASSUME MeshInit PROVE MeshInv
    OBVIOUS
  <1>1. NoPeers \in PeerRegistry /\ \A p \in Peer : NoPeers[p] = Nil
    BY DEF NoPeers, PeerRegistry
  <1>2. MeshTypeOK
    <2>1. NoPeers \in [Peer -> Presence \cup {Nil}] /\ [t \in Thread |-> Nil] \in [Thread -> PeerRegistry \cup {Nil}]
      BY DEF NoPeers
    <2>2. 0 \in 0..MaxMeshTime /\ 0 \in 0..MaxMeshOps
      BY MeshAssumption
    <2> QED BY <1>1, <2>1, <2>2 DEF MeshInit, MeshTypeOK
  <1> QED BY <1>1, <1>2 DEF MeshInit, MeshInv, VouchedLink, Vouched, SaveIsCurrent, FileFollowsRegistry

\* says that peers are as proven,
LEMMA MeshInvSuffices == MeshInv => PeersAreAsProven
  BY DEF MeshInv, PeersAreAsProven, VouchedLink, Vouched, VerifiedWasProven

\* What discover_all() makes of a sighting is an entry, verified only if the presence file
\* that it is from says so, or the mDNS listener's was.
LEMMA LatestIsVouched ==
  ASSUME MeshInv, NEW p \in Peer, NEW synced \in SUBSET Peer, found(p, synced) # {}
  PROVE  /\ latest(p, synced) \in PeerInfo
         /\ latest(p, synced).verified =>
               p \in proven \cup told \/ (from_file(p, synced) /\ presence[p].info.verified)
  <1>1. mesh_time \in Nat /\ presence[p] \in Presence \cup {Nil} /\ mdns[p] \in PeerInfo \cup {Nil}
    BY MeshAssumption DEF MeshInv, MeshTypeOK, PeerRegistry
  <1>2. Sighted(mesh_time) \in PeerInfo /\ Sighted(mesh_time).verified = FALSE
    BY <1>1 DEF Sighted, PeerInfo
  <1>3. CASE from_file(p, synced)
    <2>1. presence[p] # Nil /\ latest(p, synced) = presence[p].info
      BY <1>3 DEF from_file, file_found, latest
    <2> QED BY <2>1, <1>1, <1>3 DEF Presence
  <1>4. CASE from_mdns(p, synced)
    <2>1. mdns[p] # Nil /\ latest(p, synced) = mdns[p]
      BY <1>4 DEF from_mdns, mdns_found, latest
    <2> QED BY <2>1, <1>1 DEF MeshInv, VouchedLink, Vouched
  <1>5. CASE ~from_file(p, synced) /\ ~from_mdns(p, synced)
    BY <1>5, <1>2 DEF latest
  <1> QED BY <1>3, <1>4, <1>5

\* A change of the registry: what it makes of it is vouched for.
LEMMA ChangePreserves ==
  ASSUME MeshInv, NEW t \in Thread, NEW to \in PeerRegistry, NEW alias \in SUBSET Peer,
         Change(t, to, alias), proven \subseteq proven', proven' \subseteq Peer \cup {Nil},
         told \subseteq told', told' \subseteq Peer,
         \A p \in Peer : to[p] # Nil /\ to[p].verified => p \in proven' \cup told'
  PROVE  MeshInv'
  <1>1. /\ AtRest(t) /\ peers' = to /\ shared' = alias /\ due' = due \cup {t}
        /\ mdns' = [p \in Peer |-> IF p \in alias THEN to[p] ELSE mdns[p]]
        /\ mesh_ops' \in 0..MaxMeshOps
        /\ UNCHANGED <<mesh_time, presence, peers_file, save, out_of_order>>
    BY MeshAssumption DEF Change, MeshInv, MeshTypeOK
  <1>2. MeshTypeOK'
    BY <1>1 DEF MeshInv, MeshTypeOK, PeerRegistry
  <1>3. VouchedLink'
    BY <1>1 DEF MeshInv, MeshTypeOK, VouchedLink, Vouched, PeerRegistry
  <1>4. ~AtRest(t)' /\ (\A u \in Thread : AtRest(u)' => u # t)
    BY <1>1 DEF AtRest
  <1>5. save[t] = Nil
    BY <1>1 DEF AtRest
  <1>6. SaveIsCurrent' /\ FileFollowsRegistry'
    BY <1>1, <1>4, <1>5 DEF SaveIsCurrent, FileFollowsRegistry
  <1> QED BY <1>2, <1>3, <1>6 DEF MeshInv

\* The backends, the threads and the user keep the invariant.
LEMMA MeshStep ==
  ASSUME MeshInv, [MeshNext]_mesh_vars
  PROVE  MeshInv'
  <1> USE MeshAssumption
  <1> USE DEF MeshInv
  <1>0. ASSUME NEW n \in Nat
        PROVE  Sighted(n) \in PeerInfo /\ Sighted(n).last_seen = n /\ Sighted(n).verified = FALSE
    BY DEF Sighted, PeerInfo
  <1>1. ASSUME NEW p \in Peer, NEW f \in Presence, Deliver(p, f)  PROVE MeshInv'
    BY <1>1 DEF Deliver, MeshTypeOK, VouchedLink, Vouched, SaveIsCurrent, FileFollowsRegistry, AtRest
  <1>13. ASSUME NEW p \in Peer, announce(p)  PROVE MeshInv'
    <2>1. mesh_time \in Nat
      BY DEF MeshTypeOK
    <2>2. Sighted(mesh_time) \in PeerInfo
      BY <1>0, <2>1
    <2>3. [mtime |-> mesh_time, info |-> Sighted(mesh_time)] \in Presence
      BY <2>1, <2>2 DEF Presence
    <2> QED BY <1>1, <1>13, <2>3 DEF announce
  <1>2. ASSUME NEW p \in Peer, add_service(p)  PROVE MeshInv'
    <2>1. mesh_time \in Nat
      BY DEF MeshTypeOK
    <2>2. MeshTypeOK' /\ VouchedLink'
      BY <1>2, <2>1, <1>0 DEF add_service, MeshTypeOK, PeerRegistry, VouchedLink, Vouched
    <2>3. SaveIsCurrent' /\ FileFollowsRegistry'
      BY <1>2 DEF add_service, SaveIsCurrent, FileFollowsRegistry, AtRest
    <2> QED BY <2>2, <2>3
  <1>3. ASSUME NEW t \in Thread, NEW synced \in SUBSET Peer, discover_all(t, synced)  PROVE MeshInv'
    <2> DEFINE to == [p \in Peer |-> IF found(p, synced) = {} THEN peers[p]
                                     ELSE IF peers[p] = Nil THEN latest(p, synced)
                                     ELSE again(p, latest(p, synced))]
               alias == shared \cup {p \in Peer : peers[p] = Nil /\ from_mdns(p, synced)}
               anew == {p \in Peer : peers[p] = Nil /\ from_file(p, synced) /\ presence[p].info.verified}
    <2>1. ASSUME NEW p \in Peer, found(p, synced) # {}, peers[p] # Nil
          PROVE  again(p, latest(p, synced)) \in PeerInfo
                 /\ again(p, latest(p, synced)).verified = peers[p].verified
      <3>1. peers[p] \in PeerInfo /\ latest(p, synced).last_seen \in Nat
        BY <2>1, LatestIsVouched DEF MeshTypeOK, PeerRegistry, PeerInfo
      <3> QED BY <3>1 DEF PeerInfo, again
    <2>2. Change(t, to, alias) /\ proven' = proven /\ told' = told \cup anew
      BY <1>3 DEF discover_all
    <2>3. to \in PeerRegistry /\ alias \in SUBSET Peer
      BY <2>1, LatestIsVouched DEF MeshTypeOK, PeerRegistry
    <2>4. \A p \in Peer : to[p] # Nil /\ to[p].verified => p \in proven \cup told \cup anew
      <3> SUFFICES ASSUME NEW p \in Peer, to[p] # Nil, to[p].verified
                   PROVE  p \in proven \cup told \cup anew
        OBVIOUS
      <3>1. CASE peers[p] # Nil
        BY <3>1, <2>1 DEF VouchedLink, Vouched
      <3>2. CASE peers[p] = Nil
        BY <3>2, LatestIsVouched
      <3> QED BY <3>1, <3>2
    <2>5. proven \subseteq Peer \cup {Nil} /\ told' \subseteq Peer
      BY <2>2 DEF MeshTypeOK
    <2> HIDE DEF to, alias, anew, MeshInv
    <2> QED BY <2>2, <2>3, <2>4, <2>5, ChangePreserves
  <1>4. ASSUME NEW t \in Thread, NEW p \in Peer, NEW info \in PeerInfo, NEW listed \in BOOLEAN,
               add_peer(t, p, info, listed)
        PROVE  MeshInv'
    <2> DEFINE to == [peers EXCEPT ![p] = info]
               alias == IF listed THEN shared \cup {p} ELSE shared \ {p}
    <2>1. /\ listed => mdns[p] = info
          /\ Change(t, to, alias) /\ proven' = proven
          /\ told' = IF info.verified /\ ~listed THEN told \cup {p} ELSE told
      BY <1>4 DEF add_peer
    <2>2. info # Nil /\ to \in PeerRegistry /\ alias \in SUBSET Peer
      BY DEF MeshTypeOK, PeerRegistry
    <2>3. \A q \in Peer : to[q] # Nil /\ to[q].verified => q \in proven \cup told'
      BY <2>1, <2>2 DEF MeshTypeOK, PeerRegistry, VouchedLink, Vouched
    <2>4. proven \subseteq Peer \cup {Nil} /\ told \subseteq told' /\ told' \subseteq Peer
      BY <2>1 DEF MeshTypeOK
    <2> HIDE DEF to, alias, MeshInv
    <2> QED BY <2>1, <2>2, <2>3, <2>4, ChangePreserves
  <1>5. ASSUME NEW t \in Thread, stop(t)  PROVE MeshInv'
    <2>1. Change(t, peers, shared) /\ proven' = proven /\ told' = told /\ shared \in SUBSET Peer
          /\ proven \subseteq Peer \cup {Nil} /\ told \subseteq Peer /\ peers \in PeerRegistry
          /\ \A q \in Peer : peers[q] # Nil /\ peers[q].verified => q \in proven \cup told
      BY <1>5 DEF stop, MeshTypeOK, VouchedLink, Vouched
    <2> HIDE DEF MeshInv
    <2> QED BY <2>1, ChangePreserves
  <1>6. ASSUME NEW t \in Thread, NEW p \in Peer, NEW k \in Peer \cup {Nil}, verify_peer(t, p, k)
        PROVE  MeshInv'
    <2> DEFINE e == [peers[p] EXCEPT !.verified = TRUE]
               to == IF peers[p] = Nil THEN peers ELSE [peers EXCEPT ![p] = e]
    <2>1. Change(t, to, shared) /\ proven' = proven \cup {p} /\ told' = told /\ shared \in SUBSET Peer
          /\ proven' \subseteq Peer \cup {Nil} /\ told \subseteq Peer
      BY <1>6 DEF verify_peer, answers, MeshTypeOK
    <2>2. peers[p] # Nil => e \in PeerInfo
      BY DEF MeshTypeOK, PeerRegistry, PeerInfo
    <2> HIDE DEF e
    <2>3. to \in PeerRegistry
      BY <2>2 DEF MeshTypeOK, PeerRegistry
    <2>4. \A q \in Peer : to[q] # Nil /\ to[q].verified => q \in proven' \cup told
      BY <2>1 DEF MeshTypeOK, PeerRegistry, VouchedLink, Vouched
    <2> HIDE DEF to, MeshInv
    <2> QED BY <2>1, <2>3, <2>4, ChangePreserves
  <1>7. ASSUME NEW t \in Thread, NEW p \in Peer, remove_peer(t, p)  PROVE MeshInv'
    <2>1. MeshTypeOK' /\ VouchedLink'
      BY <1>7 DEF remove_peer, MeshTypeOK, PeerRegistry, VouchedLink, Vouched
    <2>2. SaveIsCurrent' /\ FileFollowsRegistry'
      BY <1>7 DEF remove_peer, MeshTypeOK, SaveIsCurrent, FileFollowsRegistry, AtRest
    <2> QED BY <2>1, <2>2
  <1>8. ASSUME NEW t \in Thread, CopyRegistry(t)  PROVE MeshInv'
    <2>1. MeshTypeOK' /\ VouchedLink'
      BY <1>8 DEF CopyRegistry, copied, MeshTypeOK, VouchedLink, Vouched
    <2>2. ~AtRest(t) /\ ~AtRest(t)' /\ save'[t] = peers /\ peers' = peers
          /\ \A u \in Thread : u # t => (AtRest(u)' <=> AtRest(u)) /\ save'[u] = save[u]
      BY <1>8 DEF CopyRegistry, copied, MeshTypeOK, AtRest
    <2>3. SaveIsCurrent' /\ FileFollowsRegistry'
      BY <1>8, <2>2 DEF CopyRegistry, SaveIsCurrent, FileFollowsRegistry
    <2> QED BY <2>1, <2>3
  <1>9. ASSUME NEW t \in Thread, save_registry_file(t)  PROVE MeshInv'
    <2>1. MeshTypeOK' /\ VouchedLink'
      BY <1>9 DEF save_registry_file, MeshTypeOK, VouchedLink, Vouched
    <2>2. ~out_of_order' => ~out_of_order /\ (\A u \in Thread \ {t} : AtRest(u)) /\ save[t] = peers
      BY <1>9 DEF save_registry_file, MeshTypeOK, SaveIsCurrent
    <2>3. SaveIsCurrent' /\ FileFollowsRegistry'
      BY <1>9, <2>2 DEF save_registry_file, MeshTypeOK, SaveIsCurrent, FileFollowsRegistry, AtRest
    <2> QED BY <2>1, <2>3
  <1>10. ASSUME NEW torn \in BOOLEAN, MeshRestart(torn)  PROVE MeshInv'
    <2>1. NoPeers \in PeerRegistry /\ \A p \in Peer : NoPeers[p] = Nil
      BY DEF NoPeers, PeerRegistry
    <2>2. MeshTypeOK'
      BY <1>10, <2>1 DEF MeshRestart, MeshTypeOK
    <2>3. VouchedLink' /\ SaveIsCurrent' /\ FileFollowsRegistry'
      BY <1>10, <2>1 DEF MeshRestart, VouchedLink, Vouched, SaveIsCurrent, FileFollowsRegistry
    <2> QED BY <2>2, <2>3
  <1>11. CASE MeshTick
    BY <1>11 DEF MeshTick, MeshTypeOK, VouchedLink, Vouched, SaveIsCurrent, FileFollowsRegistry, AtRest
  <1>12. CASE UNCHANGED mesh_vars
    BY <1>12 DEF mesh_vars, MeshTypeOK, VouchedLink, Vouched, SaveIsCurrent, FileFollowsRegistry, AtRest
  <1> HIDE DEF MeshInv
  <1>14. ASSUME NEW p \in Peer, NEW mtime \in 0..MaxMeshTime, NEW at \in 0..MaxMeshTime, NEW v \in BOOLEAN,
                Deliver(p, [mtime |-> mtime, info |-> [last_seen |-> at, verified |-> v]])
         PROVE  MeshInv'
    <2>1. [mtime |-> mtime, info |-> [last_seen |-> at, verified |-> v]] \in Presence
      BY DEF Presence, PeerInfo
    <2> QED BY <1>1, <1>14, <2>1
  <1>15. ASSUME NEW t \in Thread, NEW p \in Peer, NEW v \in BOOLEAN, NEW listed \in BOOLEAN,
                add_peer(t, p, [last_seen |-> mesh_time, verified |-> v], listed)
         PROVE  MeshInv'
    <2>1. MeshInv => [last_seen |-> mesh_time, verified |-> v] \in PeerInfo
      BY DEF MeshInv, MeshTypeOK, PeerInfo
    <2> QED BY <1>4, <1>15, <2>1
  <1> QED BY <1>2, <1>3, <1>5, <1>6, <1>7, <1>8, <1>9, <1>10, <1>11, <1>12, <1>13, <1>14, <1>15 DEF MeshNext

-----------------------------------------------------------------------------
\* Peer challenges.

\* What the guard remembers is when the challenge expires, and it forgets a challenge that
\* it let pass no sooner than that.
GuardLink ==
    \A c \in Challenge :
        /\ IsFiniteSet(uses[c])
        /\ seen[c] # Unset => challenge[c] # Unset /\ seen[c] = expires(c)
        /\ uses[c] # {} => challenge[c] # Unset /\ (seen[c] # Unset \/ id_time >= expires(c))

\* Only a challenge that was made is answered.
AnsweredLink == \A c \in Challenge, p \in Prover : <<c, p>> \in answered => challenge[c] # Unset

\* A verification that is past its checks was in time, when it looked.
VerifyingLink ==
    verifying # Unset =>
        LET c == verifying.challenge IN
        /\ challenge[c] # Unset
        /\ verifying.aged => challenge[c].created - SKEW <= verifying.at /\ verifying.at <= expires(c)

\* The inductive invariant of peer challenges.
IdInv == IdTypeOK /\ GuardLink /\ AnsweredLink /\ VerifyingLink /\ ReplayOnlyAtExpiry

\* It holds at first,
LEMMA IdInitHolds == IdInit => IdInv
  BY IdentityAssumption, FS_EmptySet DEF IdInit, IdInv, IdTypeOK, GuardLink, AnsweredLink, VerifyingLink, ReplayOnlyAtExpiry

\* and challengers, provers, verifiers and time keep it.
LEMMA IdStep ==
  ASSUME IdInv, [IdNext]_id_vars
  PROVE  IdInv'
  <1> USE IdentityAssumption
  <1>0. id_time \in Nat /\ \A c \in Challenge : challenge[c] # Unset =>
           challenge[c] \in [to : Prover, created : Nat] /\ challenge[c].created \in Nat /\ expires(c) \in Nat
    BY DEF IdInv, IdTypeOK, expires
  <1>1. ASSUME NEW c \in Challenge, NEW p \in Prover, NEW d \in {0, SKEW, SKEW + 1}, create_challenge(c, p, d)
        PROVE  IdInv'
    <2> DEFINE r == [to |-> p, created |-> id_time + d]
    <2>1. /\ challenge[c] = Unset /\ challenge' = [challenge EXCEPT ![c] = r]
          /\ UNCHANGED <<id_time, answered, verifying, seen, uses>>
      BY <1>1 DEF create_challenge
    <2>2. r \in [to : Prover, created : Nat]
      BY <1>0
    <2> HIDE DEF r
    <2>3. IdTypeOK'
      BY <2>1, <2>2 DEF IdInv, IdTypeOK
    <2>4. \A e \in Challenge : challenge[e] # Unset => challenge'[e] = challenge[e] /\ expires(e)' = expires(e)
      BY <2>1 DEF IdInv, IdTypeOK, expires
    <2>5. GuardLink' /\ AnsweredLink' /\ VerifyingLink'
      BY <2>1, <2>4 DEF IdInv, IdTypeOK, GuardLink, AnsweredLink, VerifyingLink
    <2>6. ReplayOnlyAtExpiry'
      BY <2>1, <2>4 DEF IdInv, GuardLink, ReplayOnlyAtExpiry
    <2> QED BY <2>3, <2>5, <2>6 DEF IdInv
  <1>2. ASSUME NEW c \in Challenge, NEW p \in Prover, respond_to_challenge(c, p)  PROVE IdInv'
    BY <1>2 DEF respond_to_challenge, IdInv, IdTypeOK, GuardLink, AnsweredLink, VerifyingLink, ReplayOnlyAtExpiry, expires
  <1>3. ASSUME NEW c \in Challenge, NEW p \in Prover, NEW aged \in BOOLEAN, verify_challenge(c, p, aged)
        PROVE  IdInv'
    <2> DEFINE v == [challenge |-> c, at |-> id_time, aged |-> aged]
    <2>1. /\ challenge[c] # Unset /\ (aged => timely(c)) /\ verifying' = v
          /\ UNCHANGED <<id_time, challenge, answered, seen, uses>>
      BY <1>3 DEF verify_challenge, IdInv, IdTypeOK, AnsweredLink
    <2>2. /\ v \in [challenge : Challenge, at : Nat, aged : BOOLEAN]
          /\ v.challenge = c /\ v.at = id_time /\ v.aged = aged
      BY <1>0
    <2> HIDE DEF v
    <2>3. VerifyingLink'
      BY <1>0, <2>1, <2>2 DEF VerifyingLink, timely, expires
    <2> QED BY <2>1, <2>2, <2>3 DEF IdInv, IdTypeOK, GuardLink, AnsweredLink, ReplayOnlyAtExpiry, expires
  <1>4. CASE replay_guard
    <2> DEFINE c == verifying.challenge
               u == [checked |-> verifying.at, aged |-> verifying.aged, passed |-> id_time, n |-> Cardinality(uses[c])]
    <2>1. /\ verifying # Unset /\ c \in Challenge /\ verifying.at \in Nat /\ verifying.aged \in BOOLEAN
          /\ verifying' = Unset /\ UNCHANGED <<id_time, challenge, answered>>
          /\ IF prune[c] = Unset
             THEN seen' = [prune EXCEPT ![c] = expires(c)] /\ uses' = [uses EXCEPT ![c] = @ \cup {u}]
             ELSE seen' = prune /\ uses' = uses
      BY <1>4 DEF replay_guard, IdInv, IdTypeOK
    <2>2. \A e \in Challenge : expires(e)' = expires(e)
      BY <2>1 DEF expires
    <2>3. /\ challenge[c] # Unset /\ expires(c) \in Nat
          /\ verifying.aged => challenge[c].created - SKEW <= verifying.at /\ verifying.at <= expires(c)
      BY <1>0, <2>1 DEF IdInv, VerifyingLink
    <2>4. /\ prune \in [Challenge -> Nat \cup {Unset}]
          /\ \A e \in Challenge : \/ prune[e] = seen[e]
                                  \/ seen[e] # Unset /\ prune[e] = Unset /\ seen[e] <= id_time
      BY DEF prune, IdInv, IdTypeOK
    <2>5. /\ IsFiniteSet(uses[c]) /\ u.n \in Nat
          /\ u \in [checked : Nat, aged : BOOLEAN, passed : Nat, n : Nat] /\ u.aged = verifying.aged
          /\ u.checked = verifying.at /\ u.passed = id_time /\ u.n = Cardinality(uses[c])
      BY <1>0, <2>1, FS_CardinalityType DEF IdInv, GuardLink
    <2>6. u.n > 0 /\ prune[c] = Unset => id_time >= expires(c)
      <3>1. u.n > 0 => uses[c] # {}
        BY <2>5, FS_EmptySet
      <3> QED BY <1>0, <2>1, <2>4, <3>1 DEF IdInv, GuardLink
    <2>7. IsFiniteSet(uses[c] \cup {u})
      BY <2>5, FS_AddElement
    <2> HIDE DEF u, c
    <2>8. IdTypeOK'
      BY <2>1, <2>3, <2>4, <2>5 DEF IdInv, IdTypeOK
    <2>9. GuardLink'
      <3> SUFFICES ASSUME NEW e \in Challenge
                   PROVE  /\ IsFiniteSet(uses'[e])
                          /\ seen'[e] # Unset => challenge[e] # Unset /\ seen'[e] = expires(e)
                          /\ uses'[e] # {} => challenge[e] # Unset /\ (seen'[e] # Unset \/ id_time >= expires(e))
        BY <2>1, <2>2 DEF GuardLink
      <3>1. /\ IsFiniteSet(uses[e])
            /\ seen[e] # Unset => challenge[e] # Unset /\ seen[e] = expires(e)
            /\ uses[e] # {} => challenge[e] # Unset /\ (seen[e] # Unset \/ id_time >= expires(e))
        BY DEF IdInv, GuardLink
      <3>2. CASE prune[c] = Unset /\ e = c
        <4>1. seen'[e] = expires(c) /\ uses'[e] = uses[c] \cup {u}
          BY <2>1, <2>4, <3>2 DEF IdInv, IdTypeOK
        <4> QED BY <2>3, <2>7, <3>2, <4>1
      <3>3. CASE ~(prune[c] = Unset /\ e = c)
        <4>1. seen'[e] = prune[e] /\ uses'[e] = uses[e]
          BY <2>1, <2>4, <3>3 DEF IdInv, IdTypeOK
        <4> QED BY <1>0, <2>4, <3>1, <4>1
      <3> QED BY <3>2, <3>3
    <2>10. ReplayOnlyAtExpiry'
      <3> SUFFICES ASSUME NEW e \in Challenge, NEW x \in uses'[e]
                   PROVE  /\ x.n > 0 => x.passed >= expires(e)
                          /\ x.aged => challenge[e].created - SKEW <= x.checked /\ x.checked <= expires(e)
        BY <2>1, <2>2 DEF ReplayOnlyAtExpiry
      <3>1. x \in uses[e] \/ (e = c /\ x = u /\ prune[c] = Unset)
        BY <2>1 DEF IdInv, IdTypeOK
      <3> QED BY <2>3, <2>5, <2>6, <3>1 DEF IdInv, ReplayOnlyAtExpiry
    <2> QED BY <2>1, <2>8, <2>9, <2>10 DEF IdInv, AnsweredLink, VerifyingLink
  <1>5. CASE IdTick
    <2>1. IdTypeOK'
      BY <1>5 DEF IdTick, IdInv, IdTypeOK
    <2>2. GuardLink'
      BY <1>0, <1>5 DEF IdTick, IdInv, GuardLink, expires
    <2> QED BY <1>5, <2>1, <2>2 DEF IdTick, IdInv, AnsweredLink, VerifyingLink, ReplayOnlyAtExpiry, expires
  <1>6. CASE UNCHANGED id_vars
    BY <1>6 DEF id_vars, IdInv, IdTypeOK, GuardLink, AnsweredLink, VerifyingLink, ReplayOnlyAtExpiry, expires
  <1> QED BY <1>1, <1>2, <1>3, <1>4, <1>5, <1>6 DEF IdNext

-----------------------------------------------------------------------------
\* Sealing.

\* What a seal_meta() under way has established: what it resolved, now and at first, alone
\* matched the selector; the signer is still the one that was asked for unless it may do
\* without; and the signer that was looked up has that name, and is the only one if that is
\* certain.
SealingLink ==
    sealing # Missing =>
        /\ {sealing.rcpt, sealing.report} \subseteq sealing.alone
        /\ sealing.report # sealing.rcpt => sealing.again
        /\ sealing.sign_by \in {sealing.wanted, Missing}
        /\ ~sealing.allow_unsigned => sealing.sign_by = sealing.wanted
        /\ sealing.signer_fpr # Missing => sealing.sign_by # Missing /\ uid_of[sealing.signer_fpr] = sealing.sign_by
        /\ sealing.sure /\ sealing.sign_by # Missing => signers(sealing.sign_by) = {sealing.signer_fpr}

\* The inductive invariant of sealing.
SealInv == SealTypeOK /\ SealingLink /\ SealReportsAreTrue

\* It holds at first,
LEMMA SealInitHolds == SealInit => SealInv
  BY SealAssumption DEF SealInit, SealInv, SealTypeOK, SealingLink, SealReportsAreTrue,
        SealedToResolved, NoSilentFallback, SignerAsReported, ValidIsGoodSignature

\* A recipient that is resolved is a key of the keyring.
LEMMA ResolvedIsKey ==
  ASSUME NEW to, NEW f \in resolve_recipient(to)
  PROVE  f \in Fpr
  BY DEF resolve_recipient, list_primary_fprs

\* What has a secret key with a user id is a key with that user id.
LEMMA SignersAreNamed ==
  ASSUME NEW u \in Uid
  PROVE  \A f \in signers(u) : f \in Fpr /\ uid_of[f] = u
  BY SealAssumption DEF signers, list_primary_fprs

\* and seal(), the keyring and its changes keep it.
LEMMA SealStep ==
  ASSUME SealInv, [SealNext]_seal_vars
  PROVE  SealInv'
  <1> USE SealAssumption DEF SealInv
  <1>0. ASSUME UNCHANGED <<sealed, opened>>
        PROVE  SealReportsAreTrue'
    BY <1>0 DEF SealReportsAreTrue, SealedToResolved, NoSilentFallback, SignerAsReported, ValidIsGoodSignature
  <1>1. ASSUME NEW f \in Fpr, NEW k \in KeyStates, ChangeKeyring(f, k)  PROVE SealInv'
    <2> DEFINE s == [sealing EXCEPT !.sure = FALSE]
    <2>1. /\ keyring' = [keyring EXCEPT ![f] = k] /\ UNCHANGED <<sealed, opened>>
          /\ sealing' = IF sealing = Missing THEN Missing ELSE s
      BY <1>1 DEF ChangeKeyring
    <2>2. sealing # Missing => /\ s \in Sealing /\ s.sure = FALSE
                               /\ s.rcpt = sealing.rcpt /\ s.report = sealing.report
                               /\ s.alone = sealing.alone /\ s.again = sealing.again
                               /\ s.sign_by = sealing.sign_by /\ s.wanted = sealing.wanted
                               /\ s.allow_unsigned = sealing.allow_unsigned
                               /\ s.signer_fpr = sealing.signer_fpr
      BY DEF SealTypeOK, Sealing
    <2> HIDE DEF s
    <2>3. SealTypeOK'
      BY <2>1, <2>2 DEF SealTypeOK
    <2>4. SealingLink'
      BY <2>1, <2>2 DEF SealingLink
    <2> QED BY <1>0, <2>1, <2>3, <2>4
  <1>2. ASSUME NEW to \in Fpr \cup Uid, NEW u \in Uid \cup {Missing}, NEW b \in BOOLEAN, seal_meta(to, u, b)
        PROVE  SealInv'
    <2> DEFINE s(f) == [to |-> to, sign_by |-> u, allow_unsigned |-> b, rcpt |-> f,
                        report |-> f, signer_fpr |-> Missing,
                        stage |-> IF u = Missing THEN "gpg" ELSE "signer",
                        again |-> FALSE, wanted |-> u, alone |-> {f}, sure |-> FALSE]
    <2>1. PICK f \in resolve_recipient(to) : sealing' = s(f)
      BY <1>2 DEF seal_meta
    <2>2. f \in Fpr /\ UNCHANGED <<keyring, sealed, opened>>
      BY <1>2, ResolvedIsKey DEF seal_meta
    <2>3. /\ s(f) \in Sealing /\ s(f).rcpt = f /\ s(f).report = f /\ s(f).alone = {f}
          /\ s(f).sign_by = u /\ s(f).wanted = u /\ s(f).signer_fpr = Missing /\ s(f).sure = FALSE
      BY <2>2 DEF Sealing
    <2> HIDE DEF s
    <2>4. SealTypeOK'
      BY <2>1, <2>2, <2>3 DEF SealTypeOK
    <2>5. SealingLink'
      BY <2>1, <2>3 DEF SealingLink
    <2> QED BY <1>0, <2>2, <2>4, <2>5
  <1>3. CASE signer_fpr
    <2> DEFINE has == signers(sealing.sign_by)
               s(f) == [sealing EXCEPT !.stage = "gpg", !.signer_fpr = f, !.sure = (has = {f})]
    <2>1. PICK f \in (IF has = {} THEN {Missing} ELSE has) : sealing' = s(f)
      BY <1>3 DEF signer_fpr
    <2>2. /\ sealing \in Sealing /\ sealing # Missing /\ sealing.sign_by \in Uid \cup {Missing}
          /\ UNCHANGED <<keyring, sealed, opened>>
      BY <1>3 DEF signer_fpr, SealTypeOK, Sealing
    <2>3. sealing.sign_by = Missing => has = {}
      BY DEF signers, list_primary_fprs
    <2>4. f # Missing => f \in Fpr /\ sealing.sign_by # Missing /\ uid_of[f] = sealing.sign_by
      BY <2>2, <2>3, SignersAreNamed
    <2>5. /\ s(f) \in Sealing /\ s(f).signer_fpr = f /\ s(f).sure = (has = {f})
          /\ s(f).rcpt = sealing.rcpt /\ s(f).report = sealing.report /\ s(f).alone = sealing.alone
          /\ s(f).again = sealing.again /\ s(f).sign_by = sealing.sign_by /\ s(f).wanted = sealing.wanted
          /\ s(f).allow_unsigned = sealing.allow_unsigned
      <3> HIDE DEF has
      <3> QED BY <2>2, <2>4 DEF Sealing
    <2>6. signers(sealing.sign_by)' = has
      BY <2>1, <2>2, <2>5 DEF signers, list_primary_fprs
    <2> HIDE DEF s, has
    <2>7. SealTypeOK'
      BY <2>1, <2>2, <2>5 DEF SealTypeOK
    <2>8. SealingLink'
      BY <2>1, <2>2, <2>4, <2>5, <2>6 DEF SealingLink
    <2> QED BY <1>0, <2>2, <2>7, <2>8
  <1>4. ASSUME NEW signer \in Fpr \cup {Missing}, gpg_encrypt(signer)  PROVE SealInv'
    <2> DEFINE msg(f) == [to |-> f, signer |-> signer]
               r(f) == [message |-> msg(f), signed |-> sealing.sign_by # Missing,
                        signer_fpr |-> sealing.signer_fpr, recipient |-> sealing.report,
                        allow_unsigned |-> sealing.allow_unsigned, again |-> sealing.again,
                        wanted |-> sealing.wanted, alone |-> sealing.alone, sure |-> sealing.sure]
    <2>1. PICK f \in recipients_of(sealing) : sealed' = sealed \cup {r(f)}
      BY <1>4 DEF gpg_encrypt
    <2>2. /\ sealing # Missing /\ sealing \in Sealing /\ sealing' = Missing
          /\ UNCHANGED <<keyring, opened>>
      BY <1>4 DEF gpg_encrypt, SealTypeOK
    <2>3. f \in Fpr /\ f = sealing.rcpt
      BY <2>2 DEF recipients_of, list_primary_fprs, Sealing
    <2>4. /\ sealing.sign_by \in Uid \cup {Missing}
          /\ sealing.sign_by = Missing => signer = Missing
          /\ sealing.sign_by # Missing => signer \in signers(sealing.sign_by)
      BY <1>4, <2>2 DEF gpg_encrypt, Sealing
    <2>5. sealing.sign_by # Missing => signer \in Fpr /\ uid_of[signer] = sealing.sign_by
      BY <2>4, SignersAreNamed
    <2>6. msg(f) \in Message /\ msg(f).to = f /\ msg(f).signer = signer
      BY <2>3 DEF Message
    <2>7. /\ r(f).message = msg(f) /\ r(f).signed = (sealing.sign_by # Missing)
          /\ r(f).signer_fpr = sealing.signer_fpr /\ r(f).recipient = sealing.report
          /\ r(f).allow_unsigned = sealing.allow_unsigned /\ r(f).wanted = sealing.wanted
          /\ r(f).again = sealing.again /\ r(f).alone = sealing.alone /\ r(f).sure = sealing.sure
      OBVIOUS
    <2> HIDE DEF msg
    <2>8. r(f) \in SealResult
      <3>1. /\ sealing.signer_fpr \in Fpr \cup {Missing} /\ sealing.report \in Fpr
            /\ sealing.allow_unsigned \in BOOLEAN /\ sealing.again \in BOOLEAN
            /\ sealing.wanted \in Uid \cup {Missing} /\ sealing.alone \in SUBSET Fpr
            /\ sealing.sure \in BOOLEAN
        BY <2>2 DEF Sealing
      <3>2. ASSUME NEW b \in BOOLEAN
            PROVE  [message |-> msg(f), signed |-> b, signer_fpr |-> sealing.signer_fpr,
                    recipient |-> sealing.report, allow_unsigned |-> sealing.allow_unsigned,
                    again |-> sealing.again, wanted |-> sealing.wanted, alone |-> sealing.alone,
                    sure |-> sealing.sure] \in SealResult
        BY <2>6, <3>1, <3>2 DEF SealResult
      <3>3. (sealing.sign_by # Missing) \in BOOLEAN
        OBVIOUS
      <3> QED BY <3>2, <3>3, Zenon
    <2> HIDE DEF r
    <2>9. SealTypeOK' /\ SealingLink'
      BY <2>1, <2>2, <2>8 DEF SealTypeOK, SealingLink
    <2>10. SealedToResolved'
      BY <2>1, <2>2, <2>3, <2>6, <2>7 DEF SealReportsAreTrue, SealedToResolved, SealingLink
    <2>11. NoSilentFallback'
      <3>1. /\ sealing.wanted # Missing /\ ~sealing.allow_unsigned => sealing.sign_by # Missing
            /\ sealing.sign_by # Missing => sealing.wanted = sealing.sign_by
        BY <2>2 DEF SealingLink
      <3>2. /\ r(f).wanted # Missing /\ ~r(f).allow_unsigned => r(f).signed
            /\ r(f).signed <=> r(f).message.signer # Missing
            /\ r(f).signed => uid_of[r(f).message.signer] = r(f).wanted
        BY <2>4, <2>5, <2>6, <2>7, <3>1, SealAssumption
      <3>3. \A x \in sealed' : x \in sealed \/ x = r(f)
        BY <2>1
      <3> QED BY <3>2, <3>3 DEF SealReportsAreTrue, NoSilentFallback
    <2>12. SignerAsReported'
      BY <2>1, <2>2, <2>4, <2>6, <2>7 DEF SealReportsAreTrue, SignerAsReported, SealingLink
    <2> QED BY <2>2, <2>9, <2>10, <2>11, <2>12 DEF SealReportsAreTrue, ValidIsGoodSignature
  <1>5. CASE Fallback
    <2>1. PICK f \in resolve_recipient(sealing.to) : sealing' = unsigned_try(sealing, f)
      BY <1>5 DEF Fallback
    <2>2. /\ sealing \in Sealing /\ sealing # Missing /\ sealing.allow_unsigned /\ f \in Fpr
          /\ UNCHANGED <<keyring, sealed, opened>>
      BY <1>5, ResolvedIsKey DEF Fallback, may_fall_back, SealTypeOK
    <2>3. /\ sealing' \in Sealing /\ sealing'.rcpt = f /\ sealing'.again = TRUE
          /\ sealing'.alone = sealing.alone \cup {f} /\ sealing'.report = sealing.report
          /\ sealing'.sign_by = Missing /\ sealing'.signer_fpr = Missing
          /\ sealing'.allow_unsigned = sealing.allow_unsigned
      BY <2>1, <2>2 DEF Sealing, unsigned_try
    <2>4. SealTypeOK' /\ SealingLink'
      BY <2>2, <2>3 DEF SealTypeOK, SealingLink
    <2> QED BY <1>0, <2>2, <2>4
  <1>6. CASE Fail
    BY <1>0, <1>6 DEF Fail, SealTypeOK, SealingLink
  <1>7. ASSUME NEW r \in sealed, NEW b \in BOOLEAN, unseal_verify(r.message, b)  PROVE SealInv'
    <2> DEFINE m == r.message
               by == IF standing_of(m.signer) = "unknown" THEN Missing ELSE m.signer
               o == [message |-> m, valid |-> valid(m.signer), signer_fpr |-> by,
                     standing |-> standing_of(m.signer)]
    <2>1. m \in Message /\ m.signer \in Fpr \cup {Missing}
      BY DEF SealTypeOK, SealResult, Message
    <2>2. opened' = o /\ UNCHANGED <<keyring, sealing, sealed>>
      BY <1>7 DEF unseal_verify
    <2>3. standing_of(m.signer) \in {"good", "revoked", "expired", "unknown"}
      BY <2>1 DEF standing_of, SealTypeOK, KeyState
    <2>4. /\ o \in UnsealResult /\ o.message = m /\ o.valid = valid(m.signer)
          /\ o.standing = standing_of(m.signer) /\ o.signer_fpr = by
      BY <2>1, <2>3 DEF UnsealResult, valid
    <2> HIDE DEF m, o
    <2>5. ValidIsGoodSignature'
      BY <2>2, <2>3, <2>4 DEF ValidIsGoodSignature, valid
    <2>6. SealingLink'
      BY <2>2 DEF SealingLink, signers, list_primary_fprs
    <2> QED BY <2>2, <2>4, <2>5, <2>6 DEF SealTypeOK, SealReportsAreTrue, SealedToResolved,
                                          NoSilentFallback, SignerAsReported
  <1>8. CASE UNCHANGED seal_vars
    BY <1>0, <1>8 DEF seal_vars, SealTypeOK, SealingLink, signers, list_primary_fprs
  <1> HIDE DEF SealInv
  <1> QED BY <1>1, <1>2, <1>3, <1>4, <1>5, <1>6, <1>7, <1>8 DEF SealNext

-----------------------------------------------------------------------------
\* Logins.

\* A token that claims nothing, or the identity it was signed by, unless that one was not asked for.
OwnClaims(token) == token.claims \in {Lost, Nameless, token.sub} \/ token.fallback \/ token.edited

\* Until a login reads the claims, profile.yml names its identity or none, unless the named
\* key was not to be had or the profile was edited.
Names(token) == profile_yml \in {Lost, Nameless, token.sub} \/ token.fallback \/ token.edited

\* What do_login() knows of the identity it began with, and what it has claimed.
AttemptLink ==
    \A c \in Client : login[c] # Lost =>
        /\ OwnClaims(login[c].file.token)
        /\ login[c].step \in {"fetch", "sign"} => Names(login[c].file.token)

\* A token file that can be read is of the host it is kept for, from its last login.
FileLink ==
    \A h \in Host_names : token_file[h] \notin {Lost, Half} =>
        /\ host_of[token_file[h].token.url] = h
        /\ token_file[h].token = last_login[h]

\* The inductive invariant of logins.
LoginInv == LoginTypeOK /\ AttemptLink /\ FileLink /\ ClaimsAreOwn /\ HandedIsLastLogin

\* It holds at first.
LEMMA LoginInitHolds == LoginInit => LoginInv
  BY ClientAssumption DEF LoginInit, LoginInv, LoginTypeOK, AttemptLink, FileLink, ClaimsAreOwn,
                         HandedIsLastLogin, TokenPath

\* A login that goes on: its token is of the same identity, service and edits.
LEMMA ProceedPreserves ==
  ASSUME LoginInv, NEW c \in Client, NEW to \in Attempt \cup {Lost}, Proceed(c, to),
         to # Lost => /\ OwnClaims(to.file.token)
                      /\ to.step \in {"fetch", "sign"} => Names(to.file.token),
         UNCHANGED <<login_time, profile_yml, gpg_keys>>
  PROVE  AttemptLink' /\ login' \in [Client -> Attempt \cup {Lost}]
  <1>1. login' = [login EXCEPT ![c] = to] /\ login \in [Client -> Attempt \cup {Lost}]
    BY DEF Proceed, LoginInv, LoginTypeOK
  <1> QED BY <1>1 DEF LoginInv, AttemptLink, OwnClaims, Names

\* The updates of do_login(): of the claims,
LEMMA ClaimsUpdate ==
  ASSUME NEW a \in Attempt, NEW claims_of \in ProfileYml
  PROVE  LET x == [a EXCEPT !.step = "post", !.file.token.claims = claims_of]
             t == a.file.token
         IN /\ x \in Attempt /\ x.step = "post" /\ x.file.token.claims = claims_of /\ x.file.token.sub = t.sub
            /\ x.file.token.fallback = t.fallback /\ x.file.token.edited = t.edited
  <1> DEFINE f == a.file
             t == f.token
             tx == [t EXCEPT !.claims = claims_of]
             fx == [f EXCEPT !.token = tx]
             x == [a EXCEPT !.step = "post", !.file = fx]
  <1>1. f \in TokenFile /\ t \in LoginToken
    BY DEF Attempt, TokenFile
  <1>2. /\ tx \in LoginToken /\ tx.claims = claims_of /\ tx.sub = t.sub /\ tx.fallback = t.fallback /\ tx.edited = t.edited
    BY <1>1 DEF LoginToken
  <1>3. [a EXCEPT !.step = "post", !.file.token.claims = claims_of] = x
    OBVIOUS
  <1> HIDE DEF tx
  <1>4. fx \in TokenFile /\ fx.token = tx
    BY <1>1, <1>2 DEF TokenFile
  <1> HIDE DEF fx
  <1>5. x \in Attempt /\ x.file = fx /\ x.step = "post"
    BY <1>4 DEF Attempt
  <1> HIDE DEF x
  <1> QED BY <1>2, <1>3, <1>4, <1>5

\* of the token,
LEMMA IssueUpdate ==
  ASSUME NEW a \in Attempt, NEW token \in LoginToken
  PROVE  LET x == [a EXCEPT !.step = "reply", !.file.token = token]
         IN x \in Attempt /\ x.step = "reply" /\ x.file.token = token
  <1> DEFINE f == a.file
             fx == [f EXCEPT !.token = token]
             x == [a EXCEPT !.step = "reply", !.file = fx]
  <1>1. f \in TokenFile
    BY DEF Attempt
  <1>2. fx \in TokenFile /\ fx.token = token
    BY <1>1 DEF TokenFile
  <1>3. [a EXCEPT !.step = "reply", !.file.token = token] = x
    OBVIOUS
  <1> HIDE DEF fx
  <1>4. x \in Attempt /\ x.file = fx /\ x.step = "reply"
    BY <1>2 DEF Attempt
  <1> HIDE DEF x
  <1> QED BY <1>2, <1>3, <1>4

\* of the time of caching,
LEMMA CacheUpdate ==
  ASSUME NEW a \in Attempt, NEW at \in Nat
  PROVE  LET x == [a EXCEPT !.step = "write", !.file.cached_at = at]
         IN x \in Attempt /\ x.step = "write" /\ x.file.token = a.file.token
  <1> DEFINE f == a.file
             fx == [f EXCEPT !.cached_at = at]
             x == [a EXCEPT !.step = "write", !.file = fx]
  <1>1. f \in TokenFile
    BY DEF Attempt
  <1>2. fx \in TokenFile /\ fx.token = f.token
    BY <1>1 DEF TokenFile
  <1>3. [a EXCEPT !.step = "write", !.file.cached_at = at] = x
    OBVIOUS
  <1> HIDE DEF fx
  <1>4. x \in Attempt /\ x.file = fx /\ x.step = "write"
    BY <1>2 DEF Attempt
  <1> HIDE DEF x
  <1> QED BY <1>2, <1>3, <1>4

\* and the history of an edit.
LEMMA EditUpdate ==
  ASSUME NEW a \in Attempt
  PROVE  LET x == [a EXCEPT !.file.token.edited = TRUE]
         IN x \in Attempt /\ x.file.token.edited = TRUE
  <1> DEFINE f == a.file
             t == f.token
             tx == [t EXCEPT !.edited = TRUE]
             fx == [f EXCEPT !.token = tx]
             x == [a EXCEPT !.file = fx]
  <1>1. f \in TokenFile /\ t \in LoginToken
    BY DEF Attempt, TokenFile
  <1>2. tx \in LoginToken /\ tx.edited = TRUE
    BY <1>1 DEF LoginToken
  <1>3. [a EXCEPT !.file.token.edited = TRUE] = x
    OBVIOUS
  <1> HIDE DEF tx
  <1>4. fx \in TokenFile /\ fx.token = tx
    BY <1>1, <1>2 DEF TokenFile
  <1> HIDE DEF fx
  <1>5. x \in Attempt /\ x.file = fx
    BY <1>4 DEF Attempt
  <1> HIDE DEF x
  <1> QED BY <1>2, <1>3, <1>4, <1>5

\* load_identity() takes the named key, unless it falls back.
LEMMA IdentityIsNamed ==
  ASSUME LoginInv
  PROVE  LET id == load_identity IN
         /\ id.fp \in Account /\ id.by \in {"gpg", "file"}
         /\ named \in gpg_keys \cup {profile} => id.fp = named
         /\ profile_yml \in {Lost, Nameless, named}
  BY ClientAssumption DEF load_identity, named, ProfileYml, LoginInv, LoginTypeOK

\* The steps of do_login(), of time and of the user keep the invariant.
LEMMA LoginStep ==
  ASSUME LoginInv, [LoginNext]_login_vars
  PROVE  LoginInv'
  <1> USE ClientAssumption
  <1>0. login \in [Client -> Attempt \cup {Lost}] /\ login_time \in Nat
    BY DEF LoginInv, LoginTypeOK
  <1>1. ASSUME NEW c \in Client, NEW u \in Url, NEW out \in Out \cup {Lost}, do_login(c, u, out)
         PROVE LoginInv'
    <2> DEFINE id == load_identity
               token == [sub |-> id.fp, url |-> u, iat |-> 0, expires |-> FALSE, claims |-> Lost,
                         edited |-> FALSE, fallback |-> named \notin gpg_keys \cup {profile}]
               file == [token |-> token, cached_at |-> 0]
               to == [step |-> "fetch", fp |-> id.fp, by |-> id.by, output |-> out, file |-> file]
    <2>1. /\ id.fp \in Account /\ id.by \in {"gpg", "file"} /\ profile_yml \in {Lost, Nameless, named}
          /\ named \in gpg_keys \cup {profile} => id.fp = named
      BY IdentityIsNamed
    <2>2. /\ Proceed(c, to)
          /\ UNCHANGED <<login_time, profile_yml, gpg_keys, granted, token_file, handed, last_login>>
      BY <1>1 DEF do_login, Proceed
    <2> HIDE DEF id
    <2>3. /\ token \in LoginToken /\ token.claims = Lost /\ token.sub = id.fp
          /\ token.fallback = (named \notin gpg_keys \cup {profile})
      BY <2>1 DEF LoginToken, ProfileYml
    <2> HIDE DEF token
    <2>4. file \in TokenFile /\ file.token = token
      BY <2>3 DEF TokenFile
    <2> HIDE DEF file
    <2>5. to \in Attempt /\ to.file = file
      BY <2>1, <2>4 DEF Attempt
    <2> HIDE DEF to
    <2>6. OwnClaims(token) /\ Names(token)
      BY <2>1, <2>3 DEF OwnClaims, Names
    <2>7. AttemptLink' /\ login' \in [Client -> Attempt \cup {Lost}]
      BY <2>2, <2>4, <2>5, <2>6, ProceedPreserves
    <2> QED BY <2>2, <2>7 DEF LoginInv, LoginTypeOK, FileLink, ClaimsAreOwn, HandedIsLastLogin
  <1>2. ASSUME NEW c \in Client, fetch_challenge(c)  PROVE LoginInv'
    <2> DEFINE to == [login[c] EXCEPT !.step = "sign"]
    <2>1. login[c] # Lost /\ login[c] \in Attempt
      BY <1>0, <1>2 DEF fetch_challenge, At
    <2>2. /\ Proceed(c, to)
          /\ UNCHANGED <<login_time, profile_yml, gpg_keys, granted, token_file, handed, last_login>>
      BY <1>2 DEF fetch_challenge
    <2>3. to \in Attempt /\ to.file.token = login[c].file.token
      BY <2>1 DEF Attempt
    <2> HIDE DEF to
    <2>4. login[c].step = "fetch" /\ OwnClaims(login[c].file.token) /\ Names(login[c].file.token)
      BY <1>2, <2>1 DEF fetch_challenge, At, LoginInv, AttemptLink
    <2>5. AttemptLink' /\ login' \in [Client -> Attempt \cup {Lost}]
      BY <2>2, <2>3, <2>4, ProceedPreserves
    <2> QED BY <2>2, <2>5 DEF LoginInv, LoginTypeOK, FileLink, ClaimsAreOwn, HandedIsLastLogin
  <1>3. ASSUME NEW c \in Client, NEW b \in BOOLEAN, sign(c, b)  PROVE LoginInv'
    <2> DEFINE to == [login[c] EXCEPT !.step = "post", !.file.token.claims = load_claims(b)]
               t == login[c].file.token
    <2>1. login[c] # Lost /\ login[c] \in Attempt /\ load_claims(b) \in ProfileYml
          /\ load_claims(b) \in {Lost, profile_yml}
      BY <1>0, <1>3 DEF sign, At, load_claims, ProfileYml, LoginInv, LoginTypeOK
    <2>2. /\ Proceed(c, to)
          /\ UNCHANGED <<login_time, profile_yml, gpg_keys, granted, token_file, handed, last_login>>
      BY <1>3 DEF sign
    <2>3. /\ to \in Attempt /\ to.step = "post" /\ to.file.token.claims = load_claims(b) /\ to.file.token.sub = t.sub
          /\ to.file.token.fallback = t.fallback /\ to.file.token.edited = t.edited
      BY <2>1, ClaimsUpdate
    <2> HIDE DEF to
    <2>4. Names(t)
      BY <1>3, <2>1 DEF sign, At, LoginInv, AttemptLink
    <2>5. OwnClaims(to.file.token)
      BY <2>1, <2>3, <2>4 DEF OwnClaims, Names
    <2>6. AttemptLink' /\ login' \in [Client -> Attempt \cup {Lost}]
      BY <2>2, <2>3, <2>5, ProceedPreserves
    <2> QED BY <2>2, <2>6 DEF LoginInv, LoginTypeOK, FileLink, ClaimsAreOwn, HandedIsLastLogin
  <1>4. ASSUME NEW c \in Client, NEW tells \in BOOLEAN, post_response(c, tells)  PROVE LoginInv'
    <2> DEFINE t == login[c].file.token
               token == [t EXCEPT !.iat = login_time, !.expires = tells]
               to == [login[c] EXCEPT !.step = "reply", !.file.token = token]
    <2>1. login[c] # Lost /\ login[c] \in Attempt /\ t \in LoginToken
      BY <1>0, <1>4 DEF post_response, At, Attempt, TokenFile
    <2>2. /\ Proceed(c, to) /\ granted' = granted \cup {token}
          /\ UNCHANGED <<login_time, profile_yml, gpg_keys, token_file, handed, last_login>>
      BY <1>4 DEF post_response
    <2>3. /\ token \in LoginToken /\ token.claims = t.claims /\ token.sub = t.sub
          /\ token.fallback = t.fallback /\ token.edited = t.edited
      BY <1>0, <1>4, <2>1 DEF LoginToken
    <2> HIDE DEF token
    <2>4. to \in Attempt /\ to.step = "reply" /\ to.file.token = token
      BY <2>1, <2>3, IssueUpdate
    <2> HIDE DEF to
    <2>5. OwnClaims(token)
      BY <2>1, <2>3 DEF LoginInv, AttemptLink, OwnClaims
    <2>6. AttemptLink' /\ login' \in [Client -> Attempt \cup {Lost}]
      BY <2>2, <2>4, <2>5, ProceedPreserves
    <2>7. ClaimsAreOwn'
      BY <2>2, <2>5 DEF LoginInv, ClaimsAreOwn, OwnClaims
    <2> QED BY <2>2, <2>3, <2>6, <2>7 DEF LoginInv, LoginTypeOK, FileLink, HandedIsLastLogin
  <1>5. ASSUME NEW c \in Client, cache_tokens(c)  PROVE LoginInv'
    <2> DEFINE to == [login[c] EXCEPT !.step = "write", !.file.cached_at = login_time]
               p == path_of(login[c])
    <2>1. login[c] # Lost /\ login[c] \in Attempt
      BY <1>0, <1>5 DEF cache_tokens, At
    <2>2. /\ Proceed(c, to) /\ token_file' = [token_file EXCEPT ![p] = Half]
          /\ UNCHANGED <<login_time, profile_yml, gpg_keys, granted, handed, last_login>>
      BY <1>5 DEF cache_tokens
    <2>3. to \in Attempt /\ to.step = "write" /\ to.file.token = login[c].file.token
      BY <1>0, <2>1, CacheUpdate
    <2> HIDE DEF to, p
    <2>4. AttemptLink' /\ login' \in [Client -> Attempt \cup {Lost}]
      BY <2>1, <2>2, <2>3, ProceedPreserves DEF LoginInv, AttemptLink
    <2>5. FileLink' /\ token_file' \in [TokenPath -> TokenFile \cup {Lost, Half}]
      BY <2>2 DEF LoginInv, LoginTypeOK, FileLink, TokenPath
    <2> QED BY <2>2, <2>4, <2>5 DEF LoginInv, LoginTypeOK, ClaimsAreOwn, HandedIsLastLogin
  <1>6. ASSUME NEW c \in Client, NEW b \in BOOLEAN, WriteTokens(c, b)  PROVE LoginInv'
    <2> DEFINE f == login[c].file
               p == path_of(login[c])
               g == IF b THEN Half ELSE f
    <2>1. login[c] # Lost /\ login[c] \in Attempt
      BY <1>0, <1>6 DEF WriteTokens, At
    <2>2. /\ f \in TokenFile /\ f.token \in LoginToken /\ f.token.url \in Url
          /\ login[c].output \in Out \cup {Lost}
      BY <2>1 DEF Attempt, TokenFile, LoginToken
    <2>3. p \in TokenPath /\ (p \in Host_names => p = host_of[f.token.url])
      BY <2>2 DEF path_of, file_of, TokenPath, Host_names
    <2>4. /\ Proceed(c, Lost) /\ token_file' = [token_file EXCEPT ![p] = g]
          /\ last_login' = [last_login EXCEPT ![p] = f.token]
          /\ UNCHANGED <<login_time, profile_yml, gpg_keys, granted, handed>>
      BY <1>6 DEF WriteTokens
    <2>5. g \in TokenFile \cup {Half} /\ (g \notin {Lost, Half} => g = f)
      BY <2>2
    <2> HIDE DEF f, g, p
    <2>6. AttemptLink' /\ login' \in [Client -> Attempt \cup {Lost}]
      BY <2>4, ProceedPreserves
    <2>7. /\ token_file' \in [TokenPath -> TokenFile \cup {Lost, Half}]
          /\ last_login' \in [TokenPath -> LoginToken \cup {Lost}]
      BY <2>2, <2>3, <2>4, <2>5 DEF LoginInv, LoginTypeOK
    <2>8. ASSUME NEW h \in Host_names, token_file'[h] \notin {Lost, Half}
          PROVE  host_of[token_file'[h].token.url] = h /\ token_file'[h].token = last_login'[h]
      <3>1. h \in TokenPath
        BY DEF TokenPath
      <3>2. CASE h = p
        BY <2>3, <2>4, <2>5, <2>8, <3>1, <3>2 DEF LoginInv, LoginTypeOK
      <3>3. CASE h # p
        BY <2>4, <2>8, <3>1, <3>3 DEF LoginInv, LoginTypeOK, FileLink
      <3> QED BY <3>2, <3>3
    <2>9. FileLink'
      BY <2>8 DEF FileLink
    <2> QED BY <2>4, <2>6, <2>7, <2>9 DEF LoginInv, LoginTypeOK, ClaimsAreOwn, HandedIsLastLogin
  <1>7. ASSUME NEW c \in Client, GiveUp(c)  PROVE LoginInv'
    <2>1. Proceed(c, Lost) /\ UNCHANGED <<login_time, profile_yml, gpg_keys, granted, token_file, handed, last_login>>
      BY <1>7 DEF GiveUp
    <2>2. AttemptLink' /\ login' \in [Client -> Attempt \cup {Lost}]
      BY <2>1, ProceedPreserves
    <2> QED BY <2>1, <2>2 DEF LoginInv, LoginTypeOK, FileLink, ClaimsAreOwn, HandedIsLastLogin
  <1>8. ASSUME NEW u \in Url, load_cached_token(u)  PROVE LoginInv'
    <2> DEFINE h == host_of[u]
               f == token_file[h]
               r == [host |-> h, file |-> f, last |-> last_login[h]]
    <2>1. /\ handed' = IF f \in {Lost, Half} \/ ~unexpired(f) THEN Lost ELSE r
          /\ UNCHANGED <<login_time, profile_yml, gpg_keys, login, granted, token_file, last_login>>
      BY <1>8 DEF load_cached_token, file_of
    <2>2. r.host = h /\ r.file = f /\ r.last = last_login[h] /\ h \in Host_names
      BY DEF Host_names
    <2> HIDE DEF r
    <2>3. HandedIsLastLogin'
      BY <2>1, <2>2 DEF LoginInv, FileLink, HandedIsLastLogin
    <2> QED BY <2>1, <2>3 DEF LoginInv, LoginTypeOK, AttemptLink, Names, FileLink, ClaimsAreOwn
  <1>9. ASSUME NEW a \in ProfileYml, EditProfile(a)  PROVE LoginInv'
    <2> DEFINE e(c) == [login[c] EXCEPT !.file.token.edited = TRUE]
    <2>1. /\ profile_yml' = a
          /\ login' = [c \in Client |-> IF At(c, "fetch") \/ At(c, "sign") THEN e(c) ELSE login[c]]
          /\ UNCHANGED <<login_time, gpg_keys, granted, token_file, handed, last_login>>
      BY <1>9 DEF EditProfile, Edit
    <2>2. ASSUME NEW c \in Client, login[c] # Lost
          PROVE  e(c) \in Attempt /\ e(c).file.token.edited = TRUE
      BY <1>0, <2>2, EditUpdate
    <2> HIDE DEF e
    <2>3. login' \in [Client -> Attempt \cup {Lost}] /\ AttemptLink'
      BY <1>0, <2>1, <2>2 DEF AttemptLink, OwnClaims, Names, At, LoginInv
    <2> QED BY <2>1, <2>3 DEF LoginInv, LoginTypeOK, FileLink, ClaimsAreOwn, HandedIsLastLogin
  <1>10. ASSUME NEW a \in Account, MoveKey(a)  PROVE LoginInv'
    BY <1>10 DEF MoveKey, Edit, LoginInv, LoginTypeOK, AttemptLink, Names, FileLink, ClaimsAreOwn, HandedIsLastLogin
  <1>11. CASE LoginTick
    BY <1>11 DEF LoginTick, LoginInv, LoginTypeOK, AttemptLink, Names, FileLink, ClaimsAreOwn, HandedIsLastLogin
  <1>12. CASE UNCHANGED login_vars
    BY <1>12 DEF login_vars, LoginInv, LoginTypeOK, AttemptLink, Names, FileLink, ClaimsAreOwn, HandedIsLastLogin
  <1> QED BY <1>1, <1>2, <1>3, <1>4, <1>5, <1>6, <1>7, <1>8, <1>9, <1>10, <1>11, <1>12 DEF LoginNext

-----------------------------------------------------------------------------
\* Membership claims.

\* A claim that can be read was approved, under its own id.
ClaimsLink ==
    \A c \in ClaimId : parsed(c) => claims[c].id = c /\ c \in approved_done

\* A write under way is of a claim that was approved, or is the only one of a new claim.
WritesLink ==
    /\ \A s \in opened_file : writing[s] # NoClaim
    /\ \A s \in Steward : writing[s] # NoClaim =>
          IF writing[s].revoked THEN writing[s].id \in approved_done
          ELSE /\ ~parsed(writing[s].id) /\ writing[s].id \notin revoked_done
               /\ \A t \in Steward \ {s} : writing[t] # NoClaim => writing[t].id # writing[s].id

\* A claim stays revoked.
RevokedLink ==
    \A c \in revoked_done : claims[c] # NoClaim /\ (parsed(c) => claims[c].revoked)

\* A copy that a member holds was taken of a claim that was approved.
CopiesLink ==
    /\ \A x \in copies : x.id \in approved_done
    /\ verdict # NoClaim => verdict.claim \in copies

\* The inductive invariant of membership claims.
ClaimInv ==
    ClaimTypeOK /\ ClaimsLink /\ WritesLink /\ RevokedLink /\ CopiesLink /\ SignedCopyIsApproved

\* It holds at first,
LEMMA ClaimInitHolds == ClaimInit => ClaimInv
  BY DEF ClaimInit, ClaimInv, ClaimTypeOK, ClaimsLink, WritesLink, RevokedLink, CopiesLink,
         SignedCopyIsApproved, parsed

\* The links say that whoever counts as a member was approved and not revoked.
LEMMA ClaimInvSuffices == ClaimInv => MembersAreApproved
  BY DEF ClaimInv, MembersAreApproved, ActiveClaimStands, active_claims, ClaimsLink, RevokedLink

\* approve_request() and revoke_claim() up to the write.
LEMMA WriteClaimBegins ==
  ASSUME ClaimInv, NEW s \in Steward, NEW claim \in MembershipClaim, Write_claim(s, claim),
         IF claim.revoked THEN parsed(claim.id)
         ELSE claims[claim.id] = NoClaim /\ \A t \in Steward : writing[t] # NoClaim => writing[t].id # claim.id
  PROVE  ClaimInv'
  <1>1. /\ writing' = [writing EXCEPT ![s] = claim] /\ writing[s] = NoClaim
        /\ UNCHANGED <<requests, claims, opened_file, copies, verdict, approved_done, revoked_done>>
    BY DEF Write_claim
  <1>2. claim.id \in ClaimId /\ claim.revoked \in BOOLEAN
    BY DEF MembershipClaim
  <1>3. ClaimTypeOK'
    BY <1>1 DEF ClaimInv, ClaimTypeOK
  <1>4. ClaimsLink' /\ RevokedLink' /\ CopiesLink' /\ SignedCopyIsApproved'
    BY <1>1 DEF ClaimInv, ClaimsLink, RevokedLink, CopiesLink, SignedCopyIsApproved, parsed
  <1>5. \A t \in opened_file' : writing'[t] # NoClaim
    BY <1>1 DEF ClaimInv, ClaimTypeOK, WritesLink
  <1>6. ASSUME NEW t \in Steward, writing'[t] # NoClaim
        PROVE  IF writing'[t].revoked THEN writing'[t].id \in approved_done'
               ELSE /\ ~parsed(writing[t].id)' /\ writing'[t].id \notin revoked_done'
                    /\ \A u \in Steward \ {t} : writing'[u] # NoClaim => writing'[u].id # writing'[t].id
    <2>1. CASE t = s
      BY <2>1, <1>1, <1>2 DEF ClaimInv, ClaimTypeOK, ClaimsLink, RevokedLink, parsed
    <2>2. CASE t # s
      BY <2>2, <1>6, <1>1, <1>2 DEF ClaimInv, ClaimTypeOK, WritesLink, parsed
    <2> QED BY <2>1, <2>2
  <1> QED BY <1>3, <1>4, <1>5, <1>6 DEF ClaimInv, WritesLink

\* and the stewards and the copies keep it.
LEMMA ClaimStep ==
  ASSUME ClaimInv, [ClaimNext]_claim_vars
  PROVE  ClaimInv'
  <1> USE ClaimAssumption
  <1>1. ASSUME NEW r \in RequestId, create_request(r)  PROVE ClaimInv'
    BY <1>1 DEF create_request, ClaimInv, ClaimTypeOK, ClaimsLink, WritesLink, RevokedLink,
                CopiesLink, SignedCopyIsApproved, parsed
  <1>2. ASSUME NEW s \in Steward, NEW r \in RequestId, NEW c \in ClaimId, NEW b \in BOOLEAN,
               approve_request(s, r, c, b)
        PROVE  ClaimInv'
    <2> DEFINE claim == [id |-> c, request |-> r, signer |-> IF b THEN s ELSE NoClaim,
                         revoked |-> FALSE, altered |-> FALSE]
    <2>1. claim \in MembershipClaim /\ claim.id = c /\ claim.revoked = FALSE
      BY DEF MembershipClaim
    <2>2. /\ Write_claim(s, claim) /\ claims[c] = NoClaim
          /\ \A t \in Steward : writing[t] # NoClaim => writing[t].id # c
      BY <1>2 DEF approve_request
    <2> HIDE DEF claim
    <2> QED BY <2>1, <2>2, WriteClaimBegins
  <1>3. ASSUME NEW s \in Steward, NEW c \in ClaimId, revoke_claim(s, c)  PROVE ClaimInv'
    <2> DEFINE claim == [claims[c] EXCEPT !.revoked = TRUE]
    <2>1. parsed(c) /\ claims[c] \in MembershipClaim /\ claims[c].id = c
      BY <1>3 DEF revoke_claim, parsed, ClaimInv, ClaimTypeOK, ClaimsLink
    <2>2. claim \in MembershipClaim /\ claim.id = c /\ claim.revoked = TRUE
      BY <2>1 DEF MembershipClaim
    <2>3. Write_claim(s, claim)
      BY <1>3 DEF revoke_claim
    <2> HIDE DEF claim
    <2> QED BY <2>1, <2>2, <2>3, WriteClaimBegins
  <1>4. ASSUME NEW s \in Steward, OpenClaim(s)  PROVE ClaimInv'
    <2>1. writing[s] \in MembershipClaim /\ writing[s].id \in ClaimId
      BY <1>4 DEF OpenClaim, ClaimInv, ClaimTypeOK, MembershipClaim
    <2>2. ClaimTypeOK'
      BY <1>4, <2>1 DEF OpenClaim, ClaimInv, ClaimTypeOK
    <2>3. ASSUME NEW c \in ClaimId
          PROVE  claims'[c] = claims[c] \/ (claims'[c] = Cut /\ ~parsed(c)')
      BY <1>4, <2>1 DEF OpenClaim, ClaimInv, ClaimTypeOK, parsed
    <2>4. ClaimsLink' /\ RevokedLink'
      BY <1>4, <2>3 DEF OpenClaim, ClaimInv, ClaimTypeOK, ClaimsLink, RevokedLink, parsed
    <2>5. WritesLink'
      BY <1>4, <2>3 DEF OpenClaim, ClaimInv, ClaimTypeOK, WritesLink, parsed, MembershipClaim
    <2>6. CopiesLink' /\ SignedCopyIsApproved'
      BY <1>4 DEF OpenClaim, ClaimInv, CopiesLink, SignedCopyIsApproved
    <2> QED BY <2>2, <2>4, <2>5, <2>6 DEF ClaimInv
  <1>5. ASSUME NEW s \in Steward, WriteClaim(s)  PROVE ClaimInv'
    <2> DEFINE c == writing[s].id
    <2>1. s \in opened_file /\ writing[s] # NoClaim /\ writing[s] \in MembershipClaim
          /\ c \in ClaimId /\ writing[s].revoked \in BOOLEAN
      BY <1>5 DEF WriteClaim, ClaimInv, ClaimTypeOK, WritesLink, MembershipClaim
    <2>2. /\ claims' = [claims EXCEPT ![c] = writing[s]]
          /\ writing' = [writing EXCEPT ![s] = NoClaim] /\ opened_file' = opened_file \ {s}
          /\ UNCHANGED <<requests, copies, verdict>>
          /\ approved_done \subseteq approved_done'
          /\ writing[s].revoked => revoked_done' = revoked_done \cup {c} /\ approved_done' = approved_done
          /\ ~writing[s].revoked => revoked_done' = revoked_done /\ approved_done' = approved_done \cup {c}
      BY <1>5 DEF WriteClaim
    <2>3. c \in approved_done'
      BY <2>1, <2>2 DEF ClaimInv, WritesLink
    <2>4. \A t \in Steward : writing'[t] # NoClaim => t # s /\ writing'[t] = writing[t]
      BY <2>2 DEF ClaimInv, ClaimTypeOK
    <2>5. ClaimTypeOK'
      BY <2>1, <2>2 DEF ClaimInv, ClaimTypeOK
    <2>6. ClaimsLink'
      BY <2>1, <2>2, <2>3 DEF ClaimInv, ClaimTypeOK, ClaimsLink, parsed
    <2>7. RevokedLink'
      BY <2>1, <2>2 DEF ClaimInv, ClaimTypeOK, RevokedLink, WritesLink, parsed
    <2>8. ASSUME NEW t \in Steward, writing'[t] # NoClaim
          PROVE  IF writing'[t].revoked THEN writing'[t].id \in approved_done'
                 ELSE /\ ~parsed(writing[t].id)' /\ writing'[t].id \notin revoked_done'
                      /\ \A u \in Steward \ {t} : writing'[u] # NoClaim => writing'[u].id # writing'[t].id
      <3>1. t # s /\ writing'[t] = writing[t] /\ writing[t] \in MembershipClaim
            /\ writing[t].id \in ClaimId
        BY <2>4, <2>8 DEF ClaimInv, ClaimTypeOK, MembershipClaim
      <3>2. ~writing[t].revoked => c # writing[t].id
        BY <2>1, <2>8, <3>1 DEF ClaimInv, WritesLink
      <3>3. c # writing[t].id => (parsed(writing[t].id)' <=> parsed(writing[t].id))
        BY <2>1, <2>2, <3>1 DEF ClaimInv, ClaimTypeOK, parsed
      <3> QED BY <2>2, <2>4, <2>8, <3>1, <3>2, <3>3 DEF ClaimInv, WritesLink
    <2>9. WritesLink'
      <3>1. \A t \in opened_file' : writing'[t] # NoClaim
        BY <2>2 DEF ClaimInv, ClaimTypeOK, WritesLink
      <3> QED BY <3>1, <2>8 DEF WritesLink
    <2>10. CopiesLink' /\ SignedCopyIsApproved'
      BY <2>2 DEF ClaimInv, CopiesLink, SignedCopyIsApproved
    <2> QED BY <2>5, <2>6, <2>7, <2>9, <2>10 DEF ClaimInv
  <1>6. ASSUME NEW s \in Steward, StewardDies(s)  PROVE ClaimInv'
    <2>1. \A t \in Steward : writing'[t] # NoClaim => t # s /\ writing'[t] = writing[t]
      BY <1>6 DEF StewardDies, ClaimInv, ClaimTypeOK
    <2>2. ClaimTypeOK' /\ ClaimsLink' /\ RevokedLink' /\ CopiesLink' /\ SignedCopyIsApproved'
      BY <1>6 DEF StewardDies, ClaimInv, ClaimTypeOK, ClaimsLink, RevokedLink, CopiesLink,
                  SignedCopyIsApproved, parsed
    <2>3. \A t \in opened_file' : writing'[t] # NoClaim
      BY <1>6 DEF StewardDies, ClaimInv, ClaimTypeOK, WritesLink
    <2>4. WritesLink'
      BY <1>6, <2>1, <2>3 DEF StewardDies, ClaimInv, WritesLink, parsed
    <2> QED BY <2>2, <2>4 DEF ClaimInv
  <1>7. ASSUME NEW c \in ClaimId, NEW a \in BOOLEAN, NEW b \in BOOLEAN, TakeCopy(c, a, b)
        PROVE  ClaimInv'
    <2> DEFINE x == [claims[c] EXCEPT !.altered = a, !.signer = IF b THEN NoClaim ELSE @]
    <2>1. claims[c] \in MembershipClaim /\ claims[c].id = c /\ c \in approved_done
      BY <1>7 DEF TakeCopy, parsed, ClaimInv, ClaimTypeOK, ClaimsLink
    <2>2. x \in MembershipClaim /\ x.id = c
      BY <2>1 DEF MembershipClaim
    <2>3. /\ copies' = copies \cup {x}
          /\ UNCHANGED <<requests, claims, writing, opened_file, verdict, approved_done, revoked_done>>
      BY <1>7 DEF TakeCopy
    <2> HIDE DEF x
    <2> QED BY <2>1, <2>2, <2>3 DEF ClaimInv, ClaimTypeOK, ClaimsLink, WritesLink, RevokedLink,
                                    CopiesLink, SignedCopyIsApproved, parsed
  <1>8. ASSUME NEW x \in copies, NEW k \in Steward \cup {NoClaim}, verify_claim(x, k)
        PROVE  ClaimInv'
    <2> DEFINE ok == ~x.revoked /\ (k # NoClaim /\ x.signer # NoClaim => signature_good(x, k))
               v == [claim |-> x, key |-> k, ok |-> ok]
    <2>1. v.claim = x /\ v.key = k /\ v.ok = ok
      OBVIOUS
    <2>2. verdict' = v /\ UNCHANGED <<requests, claims, writing, opened_file, copies, approved_done, revoked_done>>
      BY <1>8 DEF verify_claim
    <2> HIDE DEF v
    <2>3. SignedCopyIsApproved'
      BY <2>1, <2>2 DEF ClaimInv, SignedCopyIsApproved, CopiesLink, signature_good
    <2> QED BY <2>1, <2>2, <2>3 DEF ClaimInv, ClaimTypeOK, ClaimsLink, WritesLink, RevokedLink,
                                    CopiesLink, parsed
  <1>9. CASE UNCHANGED claim_vars
    BY <1>9 DEF claim_vars, ClaimInv, ClaimTypeOK, ClaimsLink, WritesLink, RevokedLink,
                CopiesLink, SignedCopyIsApproved, parsed
  <1> QED BY <1>1, <1>2, <1>3, <1>4, <1>5, <1>6, <1>7, <1>8, <1>9 DEF ClaimNext

-----------------------------------------------------------------------------
\* The host.

\* A step of the host is for each component a step of its own, or leaves it alone.
LEMMA OneMoves ==
  ASSUME Next \/ UNCHANGED vars
  PROVE  /\ OpNext \/ UNCHANGED op_vars
         /\ StoreNext \/ UNCHANGED store_vars
         /\ LogNext \/ UNCHANGED log_vars
         /\ ModNext \/ UNCHANGED mod_vars
         /\ MeshNext \/ UNCHANGED mesh_vars
         /\ IdNext \/ UNCHANGED id_vars
         /\ SealNext \/ UNCHANGED seal_vars
         /\ LoginNext \/ UNCHANGED login_vars
         /\ ClaimNext \/ UNCHANGED claim_vars
  BY DEF Next, vars, Operator_step, Store_step, Log_step, Module_step, Mesh_step, Identity_step,
         Seal_step, Login_step, Claim_step

\* However the processes interleave, fail and overwrite each other's files, a session that
\* verify_session() accepts stands: it is from a fresh challenge of its own, within the limits
\* of time, and neither it nor its device had been revoked in a file that was not lost.
THEOREM OperatorSessionsStand == Spec => []SessionsStand
  <1>1. Init => OpInv
    BY OpInitHolds DEF Init
  <1>2. OpInv /\ [Next]_vars => OpInv'
    BY OneMoves, OpStep
  <1>3. OpInv => SessionsStand
    BY OpInvSuffices
  <1> QED BY <1>1, <1>2, <1>3, PTL DEF Spec

\* The device file is what the completed enroll(), remove() and clear() of all instances add
\* up to, unless two wrote at once.
THEOREM DevicesStayAsIntended == Spec => []DevicesAsIntended
  <1>1. Init => StoreInv
    BY StoreInitHolds DEF Init
  <1>2. StoreInv /\ [Next]_vars => StoreInv'
    BY OneMoves, StoreStep
  <1>3. StoreInv => DevicesAsIntended
    BY DEF StoreInv
  <1> QED BY <1>1, <1>2, <1>3, PTL DEF Spec

\* A log that nothing happened to verifies; a log that verifies lacks no entry whose append()
\* returned, unless it was rewritten; and no rewriting changes what lies behind a hash that an
\* auditor remembers.
THEOREM LogStaysEvidence == Spec => []LogIsEvidence
  <1>1. Init => LogInv
    BY LogInitHolds DEF Init
  <1>2. LogInv /\ [Next]_vars => LogInv'
    BY OneMoves, LogStep
  <1>3. LogInv => LogIsEvidence
    BY LogInvSuffices
  <1> QED BY <1>1, <1>2, <1>3, PTL DEF Spec

\* The registry is what its commands made it, and what verify-all vouches for is what the
\* operator signed.
THEOREM ModulesStayVouchedFor == Spec => []ModulesAreVouchedFor
  <1>1. Init => ModInv
    BY ModInitHolds DEF Init
  <1>2. ModInv /\ [Next]_vars => ModInv'
    BY OneMoves, ModStep
  <1>3. ModInv => ModulesAreVouchedFor
    BY ModInvSuffices
  <1> QED BY <1>1, <1>2, <1>3, PTL DEF Spec

\* A peer counts as verified only when it has proven itself, whichever of its announcements
\* came last; and at rest the file is the registry.
THEOREM PeersStayAsProven == Spec => []PeersAreAsProven
  <1>1. Init => MeshInv
    BY MeshInitHolds DEF Init
  <1>2. MeshInv /\ [Next]_vars => MeshInv'
    BY OneMoves, MeshStep
  <1>3. MeshInv => PeersAreAsProven
    BY MeshInvSuffices
  <1> QED BY <1>1, <1>2, <1>3, PTL DEF Spec

\* The replay guard lets a challenge pass twice only when the guard was asked at or after
\* its expiry, by a verifier whose check came before.
THEOREM ChallengesAreReplayedOnlyAtExpiry == Spec => []ReplayOnlyAtExpiry
  <1>1. Init => IdInv
    BY IdInitHolds DEF Init
  <1>2. IdInv /\ [Next]_vars => IdInv'
    BY OneMoves, IdStep
  <1>3. IdInv => ReplayOnlyAtExpiry
    BY DEF IdInv
  <1> QED BY <1>1, <1>2, <1>3, PTL DEF Spec

\* seal_meta() and unseal() report what gpg did: to whom, signed by whom, and whether the
\* signature is good, whatever happens to the keyring meanwhile.
THEOREM SealsReportTheTruth == Spec => []SealReportsAreTrue
  <1>1. Init => SealInv
    BY SealInitHolds DEF Init
  <1>2. SealInv /\ [Next]_vars => SealInv'
    BY OneMoves, SealStep
  <1>3. SealInv => SealReportsAreTrue
    BY DEF SealInv
  <1> QED BY <1>1, <1>2, <1>3, PTL DEF Spec

\* No login claims for itself what a profile.yml says that names another identity, but for a
\* key that was not to be had or an edit between the two readings of profile.yml; and the token
\* handed out later is of the login to that host that was last to write the cache.
THEOREM LoginsAreOfOneIdentity == Spec => []LoginIsOfOneIdentity
  <1>1. Init => LoginInv
    BY LoginInitHolds DEF Init
  <1>2. LoginInv /\ [Next]_vars => LoginInv'
    BY OneMoves, LoginStep
  <1>3. LoginInv => LoginIsOfOneIdentity
    BY DEF LoginInv, LoginIsOfOneIdentity
  <1> QED BY <1>1, <1>2, <1>3, PTL DEF Spec

\* A claim counts here only if its approval was written and no revoke_claim() of it returned; a
\* signed copy that verifies with a steward's key says what that steward signed and approved.
THEOREM MembersWereApproved == Spec => []MembersAreApproved
  <1>1. Init => ClaimInv
    BY ClaimInitHolds DEF Init
  <1>2. ClaimInv /\ [Next]_vars => ClaimInv'
    BY OneMoves, ClaimStep
  <1>3. ClaimInv => MembersAreApproved
    BY ClaimInvSuffices
  <1> QED BY <1>1, <1>2, <1>3, PTL DEF Spec

-----------------------------------------------------------------------------
\* The identity estate.

\* Snapshots are of times that were.
SnapshotLink ==
    /\ pubAt <= changes
    /\ \A s \in snapshots : s.keyAt <= changes /\ s.at <= now

\* The key of a clean bill is in the last snapshot that found it until that one is too old.
BillLink ==
    bill # Nothing =>
        /\ bill.private = IF bill.offline THEN Nothing ELSE bill.key
        /\ bill.kept <= now
        /\ now <= bill.kept + Retain => \E s \in snapshots : s.key = bill.key /\ s.at = bill.kept

\* The quarantine evidence of a key is about an archive that holds it.
Quarantined(policies) ==
    \A f \in Fp : policies[f] # Nothing /\ policies[f].quarantine # Nothing =>
        f \in policies[f].quarantine.holds

\* What was found to be in order when the archive was hashed was in order.
QuarantineLink ==
    /\ Quarantined(manifest)
    /\ audit # Nothing =>
          Quarantined(audit.manifest) /\ \A x \in audit.findings : x.code # "quarantine_evidence"
    /\ evidence # Nothing =>
          \A f \in Fp : finding("quarantine_evidence", "OK", f, Nothing) \in evidence.findings =>
              /\ evidence.archive # Nothing /\ evidence.archive.encrypted = TRUE
              /\ f \in evidence.archive.holds

\* The ignore file is in order from when it was found so to when it is edited.
IgnoreLink == vouched => Rule \subseteq folder.rules

\* The inductive invariant of the estate.
EstateInv ==
    /\ EstateTypeOK /\ SnapshotLink /\ BillLink /\ QuarantineLink /\ IgnoreLink
    /\ RemovedKeyIsQuarantined

\* Findings are findings.
LEMMA FindingIs ==
    ASSUME NEW c, NEW st, NEW f, NEW s
    PROVE  /\ finding(c, st, f, s).code = c /\ finding(c, st, f, s).status = st
           /\ finding(c, st, f, s).fp = f /\ finding(c, st, f, s).slot = s
BY DEF finding

\* What the scan says of a key is a finding, and not about its quarantine.
LEMMA ClassifyIs ==
    ASSUME EstateTypeOK, NEW s \in Slot, files[s] \in Fp, NEW p \in IdentityPolicy \cup {Nothing}
    PROVE  classify(s, p) \in EstateFinding /\ classify(s, p).code # "quarantine_evidence"
BY DEF classify, finding, EstateFinding, Status, Slot

\* So is what the first part of an audit finds,
LEMMA LoadFindings ==
    ASSUME EstateTypeOK
    PROVE  /\ load_findings \subseteq EstateFinding
           /\ \A x \in load_findings : x.code # "quarantine_evidence"
BY DEF load_findings, discover_roots, syncthing_policy, finding, EstateFinding, Status

\* what the scan finds,
LEMMA ScanFindings ==
    ASSUME EstateTypeOK, NEW policies \in EstateManifest, NEW gpg \in BOOLEAN
    PROVE  /\ scan_findings(policies, gpg) \subseteq EstateFinding
           /\ \A x \in scan_findings(policies, gpg) : x.code # "quarantine_evidence"
<1>1. \A s \in Unreadable : /\ finding("unreadable_key_artifact", "FAIL", Nothing, s) \in EstateFinding
                            /\ finding("unreadable_key_artifact", "FAIL", Nothing, s).code
                                   # "quarantine_evidence"
  BY DEF Unreadable, finding, EstateFinding, Status, Slot
<1>2. /\ finding("gpg_keyring", "WARN", Nothing, Nothing) \in EstateFinding
      /\ finding("gpg_keyring", "WARN", Nothing, Nothing).code # "quarantine_evidence"
  BY DEF finding, EstateFinding, Status
<1>3. \A s \in Artifacts(gpg) : /\ classify(s, policies[files[s]]) \in EstateFinding
                                /\ classify(s, policies[files[s]]).code # "quarantine_evidence"
  <2>1. SUFFICES ASSUME NEW s \in Artifacts(gpg)
                 PROVE  s \in Slot /\ files[s] \in Fp /\ policies[files[s]] \in IdentityPolicy \cup {Nothing}
    BY ClassifyIs
  <2> QED BY DEF Artifacts, Readable, EstateManifest
<1>4. \A f \in Fp : /\ finding("duplicate_secret", "WARN", f, Nothing) \in EstateFinding
                    /\ finding("duplicate_secret", "WARN", f, Nothing).code # "quarantine_evidence"
  BY DEF finding, EstateFinding, Status
<1> QED BY <1>1, <1>2, <1>3, <1>4 DEF scan_findings, duplicate_secrets

\* and what is found of the archives.
LEMMA HashFindings ==
    ASSUME NEW policies \in EstateManifest
    PROVE  hash_findings(policies) \subseteq EstateFinding
BY DEF hash_findings, quarantine_finding, finding, EstateFinding, Status

\* It holds at first,
LEMMA EstateInitHolds == EstateInit => EstateInv
<1> SUFFICES ASSUME EstateInit PROVE EstateInv
  OBVIOUS
<1> DEFINE arch == [holds |-> {Old}, encrypted |-> TRUE]
           active == [status |-> "active", roots |-> {"canonical"}, quarantine |-> Nothing]
           retired == [status |-> "retired", roots |-> {}, quarantine |-> arch]
<1>1. /\ arch \in Archive /\ arch.holds = {Old}
      /\ active \in IdentityPolicy /\ retired \in IdentityPolicy
      /\ active.quarantine = Nothing /\ retired.quarantine = arch
  BY EstateAssumption DEF Archive, IdentityPolicy, Root
<1> HIDE DEF arch, active, retired
<1>2. archive = arch /\ manifest = [f \in Fp |-> IF f = Live THEN active ELSE IF f = Old THEN retired ELSE Nothing]
  BY DEF EstateInit, arch, active, retired
<1>3. manifest \in EstateManifest /\ Quarantined(manifest)
  BY <1>1, <1>2, EstateAssumption DEF EstateManifest, Quarantined
<1>4. host \in HostState
  BY EstateAssumption DEF EstateInit, HostState, Healthy, Revocation
<1>5. files \in [Slot -> Content] /\ folder \in Folder
  BY EstateAssumption DEF EstateInit, Slot, Content, Folder
<1>6. EstateTypeOK
  <2>1. now \in 0..MaxDays /\ changes \in 0..MaxChanges /\ pubAt \in Nat /\ snapshots \subseteq Snapshot
        /\ bill \in Bill \cup {Nothing}
    BY CustodyAssumption DEF EstateInit
  <2>2. /\ peer \subseteq Rule /\ sync \in BOOLEAN /\ vouched \in BOOLEAN /\ legacy \in {"alias", "tree"}
        /\ audit = Nothing /\ evidence = Nothing /\ removed = {}
    BY DEF EstateInit
  <2> QED BY <1>1, <1>2, <1>3, <1>4, <1>5, <2>1, <2>2 DEF EstateTypeOK
<1> QED BY <1>3, <1>6 DEF EstateInit, EstateInv, SnapshotLink, BillLink, QuarantineLink, IgnoreLink,
           RemovedKeyIsQuarantined

-----------------------------------------------------------------------------
\* The steps of the host.

\* What a step of the host leaves alone of the estate.
LEMMA HostFrame ==
    ASSUME EstateInv, UNCHANGED estate_vars
    PROVE  QuarantineLink' /\ IgnoreLink' /\ RemovedKeyIsQuarantined'
BY DEF EstateInv, QuarantineLink, Quarantined, IgnoreLink, RemovedKeyIsQuarantined, estate_vars

\* A key file is put, replaced or lost: a new public.asc has a time of its own, or that of
\* the snapshot it comes from.
LEMMA PutFileStep ==
    ASSUME EstateInv, NEW s \in Slot, NEW v \in Content, PutFile(s, v), UNCHANGED estate_vars
    PROVE  EstateInv'
<1>1. /\ changes \in Nat /\ pubAt \in Nat /\ \A u \in snapshots : u.keyAt \in Nat /\ u.at \in Nat
      /\ changes' = changes + 1 /\ changes' \in 0..MaxChanges
  BY CustodyAssumption DEF EstateInv, EstateTypeOK, Snapshot, PutFile, Changing
<1>2. host' \in HostState
  BY DEF EstateInv, EstateTypeOK, PutFile, HostState
<1>3. files' \in [Slot -> Content] /\ pubAt' \in Nat
  BY <1>1 DEF EstateInv, EstateTypeOK, PutFile
<1>4. EstateTypeOK'
  BY <1>1, <1>2, <1>3 DEF EstateInv, EstateTypeOK, PutFile, estate_vars
<1>5. SnapshotLink'
  BY <1>1 DEF EstateInv, SnapshotLink, PutFile
<1>6. BillLink'
  BY DEF EstateInv, BillLink, PutFile
<1> QED BY <1>4, <1>5, <1>6, HostFrame DEF EstateInv

\* Something else the doctor looks at changes.
LEMMA UpkeepStep ==
    ASSUME EstateInv, NEW u \in Upkeeps, Upkeep(u.field, u.to), UNCHANGED estate_vars
    PROVE  EstateInv'
<1>1. /\ changes \in Nat /\ pubAt \in Nat /\ \A s \in snapshots : s.keyAt \in Nat
      /\ changes' = changes + 1 /\ changes' \in 0..MaxChanges
  BY CustodyAssumption DEF EstateInv, EstateTypeOK, Snapshot, Upkeep, Changing
<1>2. host' \in HostState
  BY EstateAssumption DEF EstateInv, EstateTypeOK, Upkeep
<1>3. EstateTypeOK'
  BY <1>1, <1>2 DEF EstateInv, EstateTypeOK, Upkeep, estate_vars
<1>4. SnapshotLink' /\ BillLink'
  BY <1>1 DEF EstateInv, SnapshotLink, BillLink, Upkeep
<1> QED BY <1>3, <1>4, HostFrame DEF EstateInv

\* The backup script takes a snapshot and drops old ones: the one that has the key of the
\* bill goes only when it is too old, or there is a newer one.
LEMMA BackupStep ==
    ASSUME EstateInv, Backup, UNCHANGED estate_vars
    PROVE  EstateInv'
<1> DEFINE new == [key |-> pub, keyAt |-> pubAt, at |-> now]
<1>1. /\ new \in Snapshot /\ new.key = pub /\ new.keyAt = pubAt /\ new.at = now
      /\ changes \in Nat /\ pubAt \in Nat /\ now \in Nat /\ Retain \in Nat
      /\ \A u \in snapshots : u.keyAt \in Nat /\ u.at \in Nat
  BY CustodyAssumption DEF EstateInv, EstateTypeOK, Snapshot, pub, Slot
<1> HIDE DEF new
<1>2. /\ snapshots' = rotate \cup {new}
      /\ bill' = IF bill # Nothing /\ bill.key = pub THEN [bill EXCEPT !.kept = now] ELSE bill
      /\ UNCHANGED <<now, files, pubAt, host, changes>>
  BY DEF Backup, new
<1>3. bill # Nothing => bill \in Bill
  BY DEF EstateInv, EstateTypeOK
<1>4. PICK k : k = [bill EXCEPT !.kept = now]
  OBVIOUS
<1>5. bill # Nothing => /\ k \in Bill /\ k.key = bill.key /\ k.private = bill.private
                        /\ k.offline = bill.offline /\ k.kept = now
  BY <1>1, <1>3, <1>4 DEF Bill
<1>6. EstateTypeOK'
  <2>1. bill' \in Bill \cup {Nothing}
    BY <1>2, <1>4, <1>5 DEF EstateInv, EstateTypeOK
  <2>2. snapshots' \subseteq Snapshot
    BY <1>1, <1>2 DEF EstateInv, EstateTypeOK, rotate
  <2> QED BY <1>2, <2>1, <2>2 DEF EstateInv, EstateTypeOK, estate_vars
<1>7. SnapshotLink'
  BY <1>1, <1>2 DEF EstateInv, SnapshotLink, rotate
<1>8. BillLink'
  <2>1. CASE bill # Nothing /\ bill.key = pub
    <3>1. bill' = k /\ new \in snapshots'
      BY <1>2, <1>4, <2>1
    <3> QED BY <1>1, <1>2, <1>5, <2>1, <3>1 DEF EstateInv, BillLink
  <2>2. CASE bill' = bill
    <3>1. ASSUME bill # Nothing, now <= bill.kept + Retain
          PROVE  \E s \in snapshots' : s.key = bill.key /\ s.at = bill.kept
      <4>1. PICK s \in snapshots : s.key = bill.key /\ s.at = bill.kept
        BY <3>1 DEF EstateInv, BillLink
      <4>2. s \in rotate
        BY <1>1, <3>1, <4>1 DEF rotate
      <4> QED BY <1>2, <4>1, <4>2
    <3> QED BY <1>2, <2>2, <3>1 DEF EstateInv, BillLink
  <2> QED BY <1>2, <2>1, <2>2
<1> QED BY <1>6, <1>7, <1>8, HostFrame DEF EstateInv

\* Time passes.
LEMMA DayStep ==
    ASSUME EstateInv, Tick, UNCHANGED estate_vars
    PROVE  EstateInv'
<1>1. EstateTypeOK' /\ now \in Nat /\ now' = now + 1
  BY CustodyAssumption DEF EstateInv, EstateTypeOK, Tick, estate_vars
<1>2. SnapshotLink'
  BY <1>1 DEF EstateInv, EstateTypeOK, Snapshot, SnapshotLink, Tick
<1>3. BillLink'
  <2>1. bill # Nothing => bill.kept \in Nat /\ Retain \in Nat
    BY CustodyAssumption DEF EstateInv, EstateTypeOK, Bill
  <2> QED BY <1>1, <2>1 DEF EstateInv, BillLink, Tick
<1> QED BY <1>1, <1>2, <1>3, HostFrame DEF EstateInv

\* A bounded set of numbers has a greatest element.
LEMMA GreatestOf ==
    ASSUME NEW S \in SUBSET Nat, S # {}, NEW top \in Nat, \A n \in S : n <= top
    PROVE  \E m \in S : \A n \in S : n <= m
<1> DEFINE Above == {b \in Nat : \A n \in S : n <= b}
<1>1. PICK b \in Above : \A c \in Above : b <= c
  <2>1. top \in Above
    OBVIOUS
  <2> QED BY <2>1, LeastOf
<1>2. CASE b = 0
  <2>1. PICK m \in S : m <= 0
    BY <1>1, <1>2
  <2> QED BY <1>1, <1>2, <2>1
<1>3. CASE b # 0
  <2>1. b - 1 \in Nat /\ b - 1 \notin Above
    BY <1>1, <1>3
  <2>2. PICK m \in S : ~(m <= b - 1)
    BY <2>1
  <2> QED BY <1>1, <2>2
<1> QED BY <1>2, <1>3

\* When every check is OK the newest key of the snapshots is public.asc, and private.asc goes
\* with it or is held elsewhere.
LEMMA CleanBill ==
    ASSUME EstateInv, overall(results) = "OK"
    PROVE  pub \in Fp /\ priv = (IF offline THEN Nothing ELSE pub) /\ \E s \in snapshots : s.key = pub
<1>1. "FAIL" \notin results /\ "WARN" \notin results
  BY DEF overall
<1>2. /\ keypair_match \notin {"FAIL", "WARN"} /\ key_status \notin {"FAIL", "WARN"}
      /\ backup_restorable \notin {"FAIL", "WARN"}
  BY <1>1 DEF results
<1>3. pub \in Fp
  BY <1>2 DEF key_status, Readable
<1>4. priv = IF offline THEN Nothing ELSE pub
  BY <1>2, <1>3 DEF keypair_match, offline
<1>5. newest_backup_key # Nothing /\ newest_backup_key = pub
  BY <1>2, <1>3 DEF backup_restorable, Readable
<1> DEFINE with == {s \in snapshots : s.key # Nothing}
           times == {s.keyAt : s \in with}
<1>6. with # {} /\ newest_backup_key = (CHOOSE s \in with : \A u \in with : u.keyAt <= s.keyAt).key
  BY <1>5 DEF newest_backup_key
<1>7. \E s \in with : \A u \in with : u.keyAt <= s.keyAt
  <2>1. changes \in Nat /\ times \in SUBSET Nat /\ times # {} /\ \A n \in times : n <= changes
    BY <1>6, CustodyAssumption DEF EstateInv, EstateTypeOK, Snapshot, SnapshotLink
  <2>2. PICK m \in times : \A n \in times : n <= m
    BY <2>1, GreatestOf
  <2>3. PICK s \in with : m = s.keyAt
    OBVIOUS
  <2> QED BY <2>2, <2>3
<1>8. \E s \in with : s.key = pub
  BY <1>5, <1>6, <1>7
<1> QED BY <1>3, <1>4, <1>8

\* The doctor gives a clean bill.
LEMMA DoctorStep ==
    ASSUME EstateInv, Doctor, UNCHANGED estate_vars
    PROVE  EstateInv'
<1>1. pub \in Fp /\ priv = (IF offline THEN Nothing ELSE pub) /\ \E s \in snapshots : s.key = pub
  BY CleanBill DEF Doctor
<1> DEFINE with == {s \in snapshots : s.key = pub}
           at == {s.at : s \in with}
<1>2. /\ now \in Nat /\ at \in SUBSET Nat /\ at # {} /\ \A n \in at : n <= now
      /\ Retain \in Nat
  BY <1>1, CustodyAssumption DEF EstateInv, EstateTypeOK, Snapshot, SnapshotLink
<1>3. kept(pub) \in at
  <2>1. \E m \in at : \A n \in at : n <= m
    BY <1>2, GreatestOf
  <2> QED BY <1>2, <2>1 DEF kept
<1>4. /\ kept(pub) \in Nat /\ kept(pub) <= now
      /\ \E s \in snapshots : s.key = pub /\ s.at = kept(pub)
  BY <1>2, <1>3
<1>5. /\ priv \in Content /\ offline \in BOOLEAN
  BY DEF EstateInv, EstateTypeOK, HostState, offline, priv, Slot
<1>6. PICK k : k = [key |-> pub, private |-> priv, offline |-> offline, kept |-> kept(pub)]
  OBVIOUS
<1>7. k \in Bill /\ k.key = pub /\ k.private = priv /\ k.offline = offline /\ k.kept = kept(pub)
  BY <1>1, <1>4, <1>5, <1>6 DEF Bill
<1>8. bill' = k /\ UNCHANGED <<now, files, pubAt, host, snapshots, changes>>
  BY <1>6 DEF Doctor
<1>9. EstateTypeOK' /\ SnapshotLink'
  BY <1>7, <1>8 DEF EstateInv, EstateTypeOK, SnapshotLink, estate_vars
<1>10. BillLink'
  BY <1>1, <1>4, <1>7, <1>8 DEF BillLink
<1> QED BY <1>9, <1>10, HostFrame DEF EstateInv

-----------------------------------------------------------------------------
\* The three parts of an audit.

\* The manifest is loaded; an ignore file in order is vouched for.
LEMMA AuditLoadStep ==
    ASSUME EstateInv, AuditLoad
    PROVE  EstateInv'
<1> DEFINE new == [manifest |-> manifest, scanned |-> FALSE,
                   findings |-> load_findings]
<1>1. /\ new \in EstateAudit /\ new.manifest = manifest /\ new.scanned = FALSE
      /\ new.findings = load_findings
  BY CustodyAssumption, LoadFindings DEF EstateInv, EstateTypeOK, EstateAudit
<1> HIDE DEF new
<1>2. /\ audit' = new /\ (vouched' <=> (vouched \/ syncthing_policy = "OK"))
      /\ vouched' \in BOOLEAN
      /\ UNCHANGED <<host_vars, manifest, archive, legacy, folder, peer, sync, evidence, removed>>
  BY DEF AuditLoad, new
<1>3. EstateTypeOK'
  BY <1>1, <1>2 DEF EstateInv, EstateTypeOK, host_vars
<1>4. SnapshotLink' /\ BillLink'
  BY <1>2 DEF EstateInv, SnapshotLink, BillLink, host_vars
<1>5. QuarantineLink'
  BY <1>1, <1>2, LoadFindings DEF EstateInv, QuarantineLink, Quarantined
<1>6. IgnoreLink'
  BY <1>2 DEF EstateInv, IgnoreLink, syncthing_policy, excludes_secrets, AuditLoad
<1> QED BY <1>2, <1>3, <1>4, <1>5, <1>6 DEF EstateInv, RemovedKeyIsQuarantined

\* The roots are scanned.
LEMMA AuditScanStep ==
    ASSUME EstateInv, NEW gpg \in BOOLEAN, AuditScan(gpg)
    PROVE  EstateInv'
<1>1. PICK a \in EstateAudit : a = audit
  BY DEF AuditScan, EstateInv, EstateTypeOK
<1> DEFINE new == [a EXCEPT !.scanned = TRUE, !.findings = @ \cup scan_findings(a.manifest, gpg)]
<1>2. /\ scan_findings(a.manifest, gpg) \subseteq EstateFinding
      /\ \A x \in scan_findings(a.manifest, gpg) : x.code # "quarantine_evidence"
  <2>1. a.manifest \in EstateManifest
    BY DEF EstateAudit
  <2> QED BY <2>1, ScanFindings DEF EstateInv
<1>3. /\ new \in EstateAudit /\ new.manifest = a.manifest /\ new.scanned = TRUE
      /\ new.findings = a.findings \cup scan_findings(a.manifest, gpg)
  BY <1>2 DEF EstateAudit
<1> HIDE DEF new
<1>4. /\ audit' = new /\ audit # Nothing /\ ~a.scanned
      /\ UNCHANGED <<host_vars, manifest, archive, legacy, folder, peer, sync, evidence, vouched, removed>>
  BY <1>1 DEF AuditScan, new
<1>5. EstateTypeOK'
  BY <1>3, <1>4 DEF EstateInv, EstateTypeOK, host_vars
<1>6. SnapshotLink' /\ BillLink'
  BY <1>4 DEF EstateInv, SnapshotLink, BillLink, host_vars
<1>7. QuarantineLink'
  BY <1>1, <1>2, <1>3, <1>4 DEF EstateInv, QuarantineLink, Quarantined
<1> QED BY <1>4, <1>5, <1>6, <1>7 DEF EstateInv, IgnoreLink, RemovedKeyIsQuarantined

\* An archive that is found in order holds the key.
LEMMA HashedIsHeld ==
    ASSUME NEW policies \in EstateManifest, Quarantined(policies), NEW f \in Fp,
           finding("quarantine_evidence", "OK", f, Nothing) \in hash_findings(policies)
    PROVE  archive # Nothing /\ archive.encrypted = TRUE /\ f \in archive.holds
<1>1. PICK k \in Fp : /\ policies[k] # Nothing /\ policies[k].status = "retired"
                      /\ finding("quarantine_evidence", "OK", f, Nothing) =
                            quarantine_finding(k, policies[k])
  BY DEF hash_findings
<1>2. k = f /\ quarantine_ok(policies[k])
  BY <1>1, FindingIs DEF quarantine_finding
<1> QED BY <1>1, <1>2 DEF quarantine_ok, Quarantined

\* The archives are hashed: what is found in order is in order, whatever manifest was read.
LEMMA AuditHashStep ==
    ASSUME EstateInv, AuditHash
    PROVE  EstateInv'
<1>1. PICK a \in EstateAudit : a = audit
  BY DEF AuditHash, EstateInv, EstateTypeOK
<1> DEFINE new == [findings |-> a.findings \cup hash_findings(a.manifest), archive |-> archive]
<1>2. /\ a.manifest \in EstateManifest /\ a.findings \subseteq EstateFinding
  BY DEF EstateAudit
<1>3. /\ new \in EstateReport /\ new.archive = archive
      /\ new.findings = a.findings \cup hash_findings(a.manifest)
  BY <1>2, HashFindings DEF EstateInv, EstateTypeOK, EstateReport
<1> HIDE DEF new
<1>4. /\ evidence' = new /\ audit' = Nothing /\ a.scanned /\ audit # Nothing
      /\ UNCHANGED <<host_vars, manifest, archive, legacy, folder, peer, sync, vouched, removed>>
  BY <1>1 DEF AuditHash, new
<1>5. EstateTypeOK'
  BY <1>3, <1>4 DEF EstateInv, EstateTypeOK, host_vars
<1>6. SnapshotLink' /\ BillLink'
  BY <1>4 DEF EstateInv, SnapshotLink, BillLink, host_vars
<1>7. QuarantineLink'
  <2>1. Quarantined(a.manifest) /\ \A x \in a.findings : x.code # "quarantine_evidence"
    BY <1>1, <1>4 DEF EstateInv, QuarantineLink
  <2>2. ASSUME NEW f \in Fp, finding("quarantine_evidence", "OK", f, Nothing) \in new.findings
        PROVE  new.archive # Nothing /\ new.archive.encrypted = TRUE /\ f \in new.archive.holds
    <3>1. finding("quarantine_evidence", "OK", f, Nothing).code = "quarantine_evidence"
      BY FindingIs
    <3>2. finding("quarantine_evidence", "OK", f, Nothing) \in hash_findings(a.manifest)
      BY <1>3, <2>1, <2>2, <3>1
    <3>3. archive # Nothing /\ archive.encrypted = TRUE /\ f \in archive.holds
      BY <1>2, <2>1, <3>2, HashedIsHeld
    <3> QED BY <1>3, <3>3
  <2> QED BY <1>4, <2>2 DEF EstateInv, QuarantineLink, Quarantined, finding
<1> QED BY <1>4, <1>5, <1>6, <1>7 DEF EstateInv, IgnoreLink, RemovedKeyIsQuarantined

-----------------------------------------------------------------------------
\* The operator and the user.

\* What a change of theirs leaves alone.
LEMMA OperatorFrame ==
    ASSUME EstateInv, Changing, UNCHANGED <<now, pubAt, host, snapshots, bill, peer, audit, evidence>>
    PROVE  /\ SnapshotLink' /\ BillLink'
           /\ now' \in 0..MaxDays /\ changes' \in 0..MaxChanges /\ pubAt' \in Nat
           /\ host' \in HostState /\ snapshots' \subseteq Snapshot /\ peer' \subseteq Rule
           /\ bill' \in Bill \cup {Nothing}
           /\ audit' \in EstateAudit \cup {Nothing} /\ evidence' \in EstateReport \cup {Nothing}
<1>1. /\ changes \in Nat /\ pubAt \in Nat /\ \A s \in snapshots : s.keyAt \in Nat
      /\ changes' = changes + 1 /\ changes' \in 0..MaxChanges
  BY CustodyAssumption DEF EstateInv, EstateTypeOK, Snapshot, Changing
<1>2. SnapshotLink' /\ BillLink'
  BY <1>1 DEF EstateInv, SnapshotLink, BillLink
<1> QED BY <1>1, <1>2 DEF EstateInv, EstateTypeOK

\* An entry of the manifest is replaced by one whose evidence is about an archive with the key.
LEMMA EditManifestStep ==
    ASSUME EstateInv, NEW f \in Fp, NEW p \in IdentityPolicy, EditManifest(f, p),
           p.quarantine # Nothing => f \in p.quarantine.holds
    PROVE  EstateInv'
<1>1. /\ UNCHANGED <<now, files, pubAt, host, snapshots, bill, archive, legacy, folder, peer, sync, audit,
                     evidence, vouched, removed>>
      /\ Changing /\ manifest' = [manifest EXCEPT ![f] = p]
  BY DEF EditManifest
<1>2. /\ SnapshotLink' /\ BillLink'
      /\ now' \in 0..MaxDays /\ changes' \in 0..MaxChanges
  BY <1>1, OperatorFrame
<1>3. manifest' \in EstateManifest /\ Quarantined(manifest)'
  BY <1>1 DEF EstateInv, EstateTypeOK, EstateManifest, Quarantined, QuarantineLink
<1>4. EstateTypeOK'
  BY <1>1, <1>2, <1>3 DEF EstateInv, EstateTypeOK
<1>5. QuarantineLink'
  BY <1>1, <1>3 DEF EstateInv, QuarantineLink, Quarantined
<1> QED BY <1>1, <1>2, <1>4, <1>5 DEF EstateInv, IgnoreLink, RemovedKeyIsQuarantined

\* A key is retired, or the evidence of its quarantine recorded.
LEMMA RetireStep ==
    ASSUME EstateInv, NEW f \in Fp, Retire(f) \/ RecordEvidence(f)
    PROVE  EstateInv'
<1>1. PICK p \in IdentityPolicy : p = manifest[f]
  BY DEF EstateInv, EstateTypeOK, EstateManifest, Retire, RecordEvidence
<1>2. p.quarantine # Nothing => f \in p.quarantine.holds
  BY <1>1, EstateAssumption DEF EstateInv, QuarantineLink, Quarantined
<1>3. CASE Retire(f)
  <2>1. PICK q : q = [p EXCEPT !.status = "retired"]
    OBVIOUS
  <2>2. q \in IdentityPolicy /\ q.quarantine = p.quarantine
    BY <2>1 DEF IdentityPolicy
  <2>3. EditManifest(f, q)
    BY <1>1, <1>3, <2>1 DEF Retire
  <2> QED BY <1>2, <2>2, <2>3, EditManifestStep
<1>4. CASE RecordEvidence(f)
  <2>1. PICK q : q = [p EXCEPT !.quarantine = archive]
    OBVIOUS
  <2>2. q \in IdentityPolicy /\ q.quarantine = archive
    BY <2>1 DEF IdentityPolicy, EstateInv, EstateTypeOK
  <2>3. EditManifest(f, q) /\ f \in archive.holds
    BY <1>1, <1>4, <2>1 DEF RecordEvidence
  <2> QED BY <2>2, <2>3, EditManifestStep
<1> QED BY <1>3, <1>4

\* The archive is written over; reports keep what was hashed.
LEMMA WriteArchiveStep ==
    ASSUME EstateInv, NEW keys \in SUBSET Fp, NEW e \in BOOLEAN, WriteArchive(keys, e)
    PROVE  EstateInv'
<1>1. /\ UNCHANGED <<now, files, pubAt, host, snapshots, bill, manifest, legacy, folder, peer, sync, audit,
                     evidence, vouched, removed>>
      /\ Changing /\ archive' = [holds |-> keys, encrypted |-> e]
  BY DEF WriteArchive
<1>2. /\ SnapshotLink' /\ BillLink'
      /\ now' \in 0..MaxDays /\ changes' \in 0..MaxChanges
  BY <1>1, OperatorFrame
<1>3. archive' \in Archive
  BY <1>1 DEF Archive
<1>4. EstateTypeOK'
  BY <1>1, <1>2, <1>3 DEF EstateInv, EstateTypeOK
<1>5. QuarantineLink'
  BY <1>1 DEF EstateInv, QuarantineLink, Quarantined
<1> QED BY <1>1, <1>2, <1>4, <1>5 DEF EstateInv, IgnoreLink, RemovedKeyIsQuarantined

\* A copy is removed on the evidence.
LEMMA RemoveCopyStep ==
    ASSUME EstateInv, NEW s \in Secret, RemoveCopy(s)
    PROVE  EstateInv'
<1> DEFINE new == [fp |-> files[s], archive |-> evidence.archive]
<1>1. /\ UNCHANGED <<now, pubAt, host, snapshots, bill, manifest, archive, legacy, folder, peer, sync, audit,
                     evidence, vouched>>
      /\ Changing /\ files' = [files EXCEPT ![s] = Nothing] /\ removed' = removed \cup {new}
      /\ evidence # Nothing /\ files[s] \in Fp
      /\ finding("quarantine_evidence", "OK", files[s], Nothing) \in evidence.findings
  BY DEF RemoveCopy, Readable
<1>2. s \in Slot /\ s # "public"
  BY DEF Secret, Slot
<1>3. files' \in [Slot -> Content] /\ files'["public"] = files["public"]
  BY <1>1, <1>2 DEF EstateInv, EstateTypeOK, Content, Slot
<1>4. /\ SnapshotLink' /\ BillLink'
      /\ now' \in 0..MaxDays /\ changes' \in 0..MaxChanges
  BY <1>1, <1>3, OperatorFrame
<1>5. /\ evidence.archive \in Archive /\ evidence.archive.encrypted
      /\ files[s] \in evidence.archive.holds
  BY <1>1 DEF EstateInv, QuarantineLink, EstateTypeOK, EstateReport
<1>6. new \in [fp : Fp, archive : Archive \cup {Nothing}] /\ new.fp = files[s] /\ new.archive = evidence.archive
  BY <1>1, <1>5
<1> HIDE DEF new
<1>7. EstateTypeOK'
  BY <1>1, <1>3, <1>4, <1>6 DEF EstateInv, EstateTypeOK
<1>8. RemovedKeyIsQuarantined'
  BY <1>1, <1>5, <1>6, EstateAssumption DEF EstateInv, RemovedKeyIsQuarantined
<1>9. QuarantineLink'
  BY <1>1 DEF EstateInv, QuarantineLink, Quarantined
<1> QED BY <1>1, <1>4, <1>7, <1>8, <1>9 DEF EstateInv, IgnoreLink

\* The legacy path changes.
LEMMA SetLegacyStep ==
    ASSUME EstateInv, NEW v \in {"alias", "tree"}, SetLegacy(v)
    PROVE  EstateInv'
<1>1. /\ UNCHANGED <<now, files, pubAt, host, snapshots, bill, manifest, archive, folder, peer, sync, audit,
                     evidence, vouched, removed>>
      /\ Changing /\ legacy' = v
  BY DEF SetLegacy
<1>2. /\ SnapshotLink' /\ BillLink'
      /\ now' \in 0..MaxDays /\ changes' \in 0..MaxChanges
  BY <1>1, OperatorFrame
<1>3. EstateTypeOK'
  BY <1>1, <1>2 DEF EstateInv, EstateTypeOK
<1> QED BY <1>1, <1>2, <1>3 DEF EstateInv, QuarantineLink, Quarantined, IgnoreLink, RemovedKeyIsQuarantined

\* The folder and its ignore file: the rules that were vouched for stay, or are vouched for no more.
LEMMA SetFolderStep ==
    ASSUME EstateInv, NEW f \in Folder, SetFolder(f), sync' \in BOOLEAN, vouched' \in BOOLEAN,
           vouched' => Rule \subseteq f.rules
    PROVE  EstateInv'
<1>1. /\ UNCHANGED <<now, files, pubAt, host, snapshots, bill, manifest, archive, legacy, peer, audit,
                     evidence, removed>>
      /\ Changing /\ folder' = f
  BY DEF SetFolder
<1>2. /\ SnapshotLink' /\ BillLink'
      /\ now' \in 0..MaxDays /\ changes' \in 0..MaxChanges
  BY <1>1, OperatorFrame
<1>3. EstateTypeOK'
  BY <1>1, <1>2 DEF EstateInv, EstateTypeOK
<1> QED BY <1>1, <1>2, <1>3 DEF EstateInv, QuarantineLink, Quarantined, IgnoreLink, RemovedKeyIsQuarantined

\* `capauth sync`, the user and the ignore file.
LEMMA SharingStep ==
    ASSUME EstateInv,
           sync_cmd \/ setup_folder \/ ShareByHand \/ \E e \in Edits : EditIgnore(e.rules, e.exception)
    PROVE  EstateInv'
<1>1. PICK d \in Folder : d = folder
  BY DEF EstateInv, EstateTypeOK
<1>2. d.rules \subseteq Rule /\ (vouched => Rule \subseteq d.rules) /\ sync \in BOOLEAN /\ vouched \in BOOLEAN
  BY <1>1 DEF EstateInv, EstateTypeOK, IgnoreLink, Folder
<1>3. CASE sync_cmd
  <2>1. PICK f : f = [d EXCEPT !.rules = d.rules \cup Rule]
    OBVIOUS
  <2>2. f \in Folder /\ f.rules = d.rules \cup Rule
    BY <1>2, <2>1 DEF Folder
  <2>3. SetFolder(f) /\ sync' \in BOOLEAN /\ vouched' = TRUE
    BY <1>1, <1>3, <2>1 DEF sync_cmd, ensured
  <2> QED BY <2>2, <2>3, SetFolderStep
<1>4. CASE setup_folder \/ ShareByHand
  <2>1. PICK f : f = [d EXCEPT !.shared = TRUE]
    OBVIOUS
  <2>2. f \in Folder /\ f.rules = d.rules
    BY <1>2, <2>1 DEF Folder
  <2>3. SetFolder(f) /\ sync' \in BOOLEAN /\ vouched' = vouched
    BY <1>1, <1>2, <1>4, <2>1 DEF setup_folder, ShareByHand
  <2> QED BY <1>2, <2>2, <2>3, SetFolderStep
<1>5. ASSUME NEW e \in Edits, EditIgnore(e.rules, e.exception) PROVE EstateInv'
  <2>1. PICK f : f = [d EXCEPT !.rules = e.rules, !.exception = e.exception]
    OBVIOUS
  <2>2. f \in Folder
    BY <1>2, <2>1, EstateAssumption DEF Folder
  <2>3. SetFolder(f) /\ sync' \in BOOLEAN /\ vouched' = FALSE
    BY <1>1, <1>2, <1>5, <2>1 DEF EditIgnore
  <2> QED BY <2>2, <2>3, SetFolderStep
<1> QED BY <1>3, <1>4, <1>5

\* Syncthing carries files away.
LEMMA ReplicateStep ==
    ASSUME EstateInv, Replicate
    PROVE  EstateInv'
<1>1. /\ UNCHANGED <<host_vars, manifest, archive, legacy, folder, sync, audit, evidence, vouched, removed>>
      /\ peer' \subseteq Rule
  BY DEF Replicate, EstateInv, EstateTypeOK
<1>2. UNCHANGED <<now, files, pubAt, host, snapshots, changes, bill>>
  BY <1>1 DEF host_vars
<1>3. EstateTypeOK'
  BY <1>1, <1>2 DEF EstateInv, EstateTypeOK
<1>4. SnapshotLink' /\ BillLink'
  BY <1>2 DEF EstateInv, SnapshotLink, BillLink
<1> QED BY <1>1, <1>3, <1>4 DEF EstateInv, QuarantineLink, Quarantined, IgnoreLink, RemovedKeyIsQuarantined

\* and every step keeps it.
LEMMA EstateStep ==
    ASSUME EstateInv, EstateNext \/ UNCHANGED all_vars
    PROVE  EstateInv'
<1>1. CASE HostStep
  <2>1. ASSUME NEW p \in Puts, PutFile(p.slot, p.content), UNCHANGED estate_vars PROVE EstateInv'
    <3>1. p.slot \in Slot /\ p.content \in Content
      BY EstateAssumption
    <3> QED BY <2>1, <3>1, PutFileStep
  <2> QED BY <1>1, <2>1, UpkeepStep, BackupStep, DoctorStep, DayStep DEF HostStep
<1>2. CASE UNCHANGED all_vars
  <2>1. UNCHANGED <<host_vars, estate_vars, now, files, pubAt, host, snapshots, changes, bill, manifest, archive,
                    legacy, folder, peer, sync, audit, evidence, vouched, removed>>
    BY <1>2 DEF all_vars, host_vars, estate_vars
  <2>2. EstateTypeOK'
    BY <2>1 DEF EstateInv, EstateTypeOK
  <2>3. SnapshotLink' /\ BillLink'
    BY <2>1 DEF EstateInv, SnapshotLink, BillLink
  <2> QED BY <2>1, <2>2, <2>3, HostFrame DEF EstateInv
<1> QED BY <1>1, <1>2, AuditLoadStep, AuditScanStep, AuditHashStep, RetireStep, WriteArchiveStep,
           RemoveCopyStep, SetLegacyStep, SharingStep, ReplicateStep DEF EstateNext

-----------------------------------------------------------------------------
\* The invariant holds from start to end.
LEMMA EstateAlways == EstateSpec => []EstateInv
<1>1. EstateInv /\ [EstateNext]_all_vars => EstateInv'
  BY EstateStep
<1> QED BY <1>1, EstateInitHolds, PTL DEF EstateSpec

\* The variables of the estate keep their types: what an audit finds are findings.
THEOREM EstateTypeCorrect == EstateSpec => []EstateTypeOK
<1>1. EstateInv => EstateTypeOK
  BY DEF EstateInv
<1> QED BY <1>1, EstateAlways, PTL

\* For any keys, files, snapshots, retention and number of changes: the key of a clean bill of
\* `capauth doctor custody` stays in a snapshot until the retention has passed since the last
\* backup that found it, and no bill is given over the private key of another identity.
THEOREM CleanBillsOutlastLosses == EstateSpec => []BillOutlastsLoss
<1>1. EstateInv => BillOutlastsLoss
  BY DEF EstateInv, BillLink, BillOutlastsLoss
<1> QED BY <1>1, EstateAlways, PTL

\* Whatever is rewritten between the loading of the manifest, the hashing of the archive and the
\* removal, a copy is only removed of a key that an encrypted archive held when it was hashed.
THEOREM RetirementLosesNoKey == EstateSpec => []RemovedKeyIsQuarantined
<1>1. EstateInv => RemovedKeyIsQuarantined
  BY DEF EstateInv
<1> QED BY <1>1, EstateAlways, PTL

\* No step sends a private key or the revocation certificate to another device once the ignore
\* file was found or made right, until it is edited or an exception overrides it.
THEOREM SecretsStayAtHome == EstateSpec => BoundaryHolds
<1>1. ASSUME EstateInv, [EstateNext]_all_vars, vouched, ~folder.exception
      PROVE  peer' = peer
  <2>1. ~Replicate
    BY <1>1 DEF Replicate, EstateInv, IgnoreLink
  <2>2. CASE HostStep \/ UNCHANGED all_vars
    BY <2>2 DEF HostStep, all_vars, estate_vars
  <2>3. ASSUME NEW f \in Fp, Retire(f) \/ RecordEvidence(f) PROVE peer' = peer
    BY <2>3 DEF Retire, RecordEvidence, EditManifest
  <2>4. ASSUME NEW keys \in SUBSET Fp, NEW e \in BOOLEAN, WriteArchive(keys, e) PROVE peer' = peer
    BY <2>4 DEF WriteArchive
  <2>5. ASSUME sync_cmd \/ setup_folder \/ ShareByHand \/ \E e \in Edits : EditIgnore(e.rules, e.exception)
        PROVE  peer' = peer
    BY <2>5 DEF sync_cmd, setup_folder, ShareByHand, EditIgnore, SetFolder
  <2>6. CASE AuditLoad \/ AuditHash \/ \E gpg \in BOOLEAN : AuditScan(gpg)
    BY <2>6 DEF AuditLoad, AuditHash, AuditScan
  <2>7. CASE (\E s \in Secret : RemoveCopy(s)) \/ \E v \in {"alias", "tree"} : SetLegacy(v)
    BY <2>7 DEF RemoveCopy, SetLegacy
  <2> QED BY <1>1, <2>1, <2>2, <2>3, <2>4, <2>5, <2>6, <2>7 DEF EstateNext
<1>2. EstateInv /\ [EstateNext]_all_vars => [vouched /\ ~folder.exception => peer' = peer]_all_vars
  BY <1>1
<1> QED BY <1>2, EstateAlways, PTL DEF BoundaryHolds, EstateSpec
=============================================================================
