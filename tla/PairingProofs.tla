---------------------------- MODULE PairingProofs ----------------------------
(***************************************************************************)
(* Proofs, for any number of processes, devices, keys, windows and crashes:  *)
(* a paired device only ever counts for a mode whose evidence was presented, *)
(* a window admits no more than it may, and the store loses nothing as long  *)
(* as operations follow one another.                                         *)
(***************************************************************************)
EXTENDS Pairing, FiniteSetTheorems, TLAPS

\* The types of what the store keeps and the operations under way carry.
StoreTypes ==
    /\ enrollments \in [Enrollment -> Pending \cup {None}]
    /\ file \in Rows \cup {Torn}
    /\ job \in [Proc -> Job \cup {None}]
    /\ origin \in [Enrollment -> Origin \cup {None}]
    /\ approved \subseteq Enrollment

\* An enrollment only comes about with the evidence of its mode.
OriginsHaveEvidence ==
    \A e \in Enrollment : origin[e] # None =>
        /\ origin[e].mode = "verified" => origin[e].signer = origin[e].key
        /\ origin[e].mode = "attested" =>
              origin[e].operator # None /\ origin[e].signer = origin[e].operator

\* A pending enrollment is the one that came about under its id.
PendingLink ==
    \A e \in Enrollment : enrollments[e] # None =>
        /\ origin[e] # None
        /\ enrollments[e].key = origin[e].key
        /\ enrollments[e].mode = origin[e].mode

\* A row of device e is right when it says what the enrollment said.
RowRight(e, row) ==
    /\ e \in approved /\ origin[e] # None
    /\ row.key = origin[e].key /\ row.mode = origin[e].mode

RowsRight(rows) == \A e \in Enrollment : rows[e] # None => RowRight(e, rows[e])

\* The rows on disk are right, and so are those that a process read some time ago
\* and is about to write, which is why lost updates cannot do harm here.
RowLink ==
    /\ file # Torn => RowsRight(file)
    /\ \A p \in Proc : job[p] # None =>
          RowRight(job[p].dev, job[p].row) /\ RowsRight(job[p].rows)

IInv == StoreTypes /\ OriginsHaveEvidence /\ PendingLink /\ RowLink

-----------------------------------------------------------------------------
\* The invariant implies the property: satisfies() looks at a row of the file.
LEMMA InvariantGivesEvidence == IInv => EvidenceBacked
  <1> SUFFICES ASSUME IInv, NEW e \in Enrollment, file # Torn, file[e] # None
               PROVE  /\ e \in approved
                      /\ mode_satisfies(file[e].mode, "attested") =>
                            origin[e].signer \in {origin[e].key, origin[e].operator} \ {None}
                      /\ mode_satisfies(file[e].mode, "verified") =>
                            origin[e].signer = file[e].key /\ origin[e].key = file[e].key
    BY DEF EvidenceBacked, satisfies
  <1>1. RowRight(e, file[e])
    BY DEF IInv, RowLink, RowsRight
  <1>2. file[e] \in Row /\ origin[e] \in Origin
    BY <1>1 DEF IInv, StoreTypes, Rows, RowRight
  <1>3. origin[e].key # None
    BY <1>2, PairingAssumption DEF Origin
  <1>4. /\ mode_satisfies(file[e].mode, "attested") => file[e].mode \in {"attested", "verified"}
        /\ mode_satisfies(file[e].mode, "verified") => file[e].mode = "verified"
    BY <1>2 DEF Row, Mode, mode_satisfies, MODE_SEVERITY
  <1> QED
    BY <1>1, <1>3, <1>4 DEF IInv, OriginsHaveEvidence, RowRight

\* Nothing is stored at the start.
LEMMA InitHolds == Init => IInv
  BY PairingAssumption
  DEF Init, IInv, StoreTypes, OriginsHaveEvidence, PendingLink, RowLink, RowsRight, NoRows, Rows

\* Saving an enrollment, gated by a window or not, brings in its evidence.
LEMMA SavePreserves ==
  ASSUME IInv, NEW e \in Enrollment, NEW req \in Request, NEW gate,
         origin[e] = None, SaveEnrollment(e, req, gate),
         UNCHANGED <<file, job, approved>>
  PROVE  IInv'
  <1>1. CASE UNCHANGED <<enrollments, origin>>
    BY <1>1 DEF IInv, StoreTypes, OriginsHaveEvidence, PendingLink, RowLink, RowsRight, RowRight
  <1>2. CASE req.named /\ Evidence(req)
    <2> DEFINE o == [mode |-> req.mode, key |-> req.key, signer |-> req.signer,
                     operator |-> req.operator]
    <2>1. enrollments' = [enrollments EXCEPT ![e] = [key |-> req.key, mode |-> req.mode]]
          /\ origin' = [origin EXCEPT ![e] = o]
      BY <1>2 DEF SaveEnrollment
    <2>2. o \in Origin /\ [key |-> req.key, mode |-> req.mode] \in Pending /\ req.mode \in Mode
      BY DEF Request, Origin, Pending
    <2>3. /\ o.mode = "verified" => o.signer = o.key
          /\ o.mode = "attested" => o.operator # None /\ o.signer = o.operator
      BY <1>2, <2>2 DEF Evidence, Mode
    <2> HIDE DEF o
    <2>4. StoreTypes'
      BY <2>1, <2>2 DEF IInv, StoreTypes
    <2>5. OriginsHaveEvidence'
      BY <2>1, <2>2, <2>3 DEF IInv, StoreTypes, OriginsHaveEvidence
    <2>6. PendingLink'
      BY <2>1, <2>2, PairingAssumption DEF IInv, StoreTypes, PendingLink, o
    <2>7. \A d \in Enrollment : \A row : RowRight(d, row) => RowRight(d, row)'
      BY <2>1 DEF IInv, StoreTypes, RowRight
    <2>8. RowLink'
      BY <2>7 DEF IInv, StoreTypes, Job, RowLink, RowsRight
    <2> QED BY <2>4, <2>5, <2>6, <2>8 DEF IInv
  <1> QED BY <1>1, <1>2 DEF SaveEnrollment

\* A process that begins to write a right row has read nothing yet.
LEMMA BeginPreserves ==
  ASSUME IInv, NEW p \in Proc, NEW op \in {"approve", "revoke"}, NEW e \in Enrollment,
         NEW row \in Row, Begin(p, op, e, row), RowRight(e, row)',
         UNCHANGED <<enrollments, file, origin>>,
         approved \subseteq approved', approved' \subseteq Enrollment
  PROVE  IInv'
  <1> DEFINE j == [op |-> op, step |-> "read", dev |-> e, row |-> row, rows |-> NoRows]
  <1>1. j \in Job /\ job' = [job EXCEPT ![p] = j]
    BY DEF Begin, Job, NoRows, Rows
  <1>2. j.dev = e /\ j.row = row /\ j.rows = NoRows
    OBVIOUS
  <1> HIDE DEF j
  <1>3. \A d, r : RowRight(d, r) => RowRight(d, r)'
    BY DEF RowRight
  <1>4. StoreTypes'
    BY <1>1 DEF IInv, StoreTypes
  <1>5. RowLink'
    <2>1. (file # Torn => RowsRight(file))'
      BY <1>3 DEF IInv, RowLink, RowsRight
    <2>2. ASSUME NEW q \in Proc, job'[q] # None
          PROVE  RowRight(job[q].dev, job[q].row)' /\ RowsRight(job[q].rows)'
      <3>1. CASE q = p
        BY <3>1, <1>1, <1>2 DEF IInv, StoreTypes, RowsRight, NoRows
      <3>2. CASE q # p
        BY <3>2, <2>2, <1>1, <1>3 DEF IInv, StoreTypes, RowLink, RowsRight
      <3> QED BY <3>1, <3>2
    <2> QED BY <2>1, <2>2 DEF RowLink
  <1> QED BY <1>4, <1>5 DEF IInv, OriginsHaveEvidence, PendingLink

\* Every action preserves the invariant.
LEMMA NextPreserves == IInv /\ [Next]_vars => IInv'
  <1> SUFFICES ASSUME IInv, [Next]_vars PROVE IInv'
    OBVIOUS
  <1> USE DEF IInv
  <1>1. CASE \E w \in Window, n \in Nonce : open_window(w, n)
    BY <1>1 DEF open_window, history, StoreTypes, OriginsHaveEvidence, PendingLink, RowLink,
                RowsRight, RowRight
  <1>2. CASE \E n \in Nonce : open(n)
    BY <1>2 DEF open, reopened, history, StoreTypes, OriginsHaveEvidence, PendingLink, RowLink,
                RowsRight, RowRight
  <1>3. CASE close
    BY <1>3 DEF close, closed, history, StoreTypes, OriginsHaveEvidence, PendingLink, RowLink,
                RowsRight, RowRight
  <1>4. ASSUME NEW e \in Enrollment, NEW req \in Request, NEW n \in Nonce \cup {None},
               NEW no \in 1..MaxAttempts, enroll_device(e, req, n, no)
        PROVE  IInv'
    <2>1. origin[e] = None /\ UNCHANGED <<file, job, approved>>
      BY <1>4 DEF enroll_device
    <2>2. CASE UNCHANGED <<enrollments, origin>>
      BY <2>1, <2>2 DEF StoreTypes, OriginsHaveEvidence, PendingLink, RowLink, RowsRight, RowRight
    <2>3. ASSUME NEW gate, SaveEnrollment(e, req, gate) PROVE IInv'
      <3> HIDE DEF IInv
      <3> QED BY <2>1, <2>3, SavePreserves
    <2>4. PICK gate : gate = [window |-> window.id, nonce |-> n, at |-> now]
      OBVIOUS
    <2> QED BY <1>4, <2>2, <2>3, <2>4 DEF enroll_device
  <1>5. ASSUME NEW e \in Enrollment, NEW req \in Request, enroll_device_ungated(e, req)
        PROVE  IInv'
    <2>1. /\ origin[e] = None /\ UNCHANGED <<file, job, approved>>
          /\ SaveEnrollment(e, req, None)
      BY <1>5 DEF enroll_device_ungated
    <2> HIDE DEF IInv
    <2> QED BY <2>1, SavePreserves
  <1>6. ASSUME NEW p \in Proc, NEW e \in Enrollment, approve(p, e)
        PROVE  IInv'
    <2>1. NewRow(e) \in Row /\ e \in approved' /\ origin[e] # None
          /\ NewRow(e).key = origin[e].key /\ NewRow(e).mode = origin[e].mode
      BY <1>6 DEF approve, NewRow, Row, StoreTypes, Pending, PendingLink
    <2>2. PICK row \in Row : row = NewRow(e)
      BY <2>1
    <2>3. /\ UNCHANGED <<enrollments, file, origin>> /\ Begin(p, "approve", e, row)
          /\ approved \subseteq approved' /\ approved' \subseteq Enrollment
      BY <1>6, <2>2 DEF approve, StoreTypes
    <2>4. RowRight(e, row)'
      BY <2>1, <2>2, <2>3 DEF RowRight
    <2> HIDE DEF IInv
    <2> QED BY <2>3, <2>4, BeginPreserves
  <1>7. ASSUME NEW p \in Proc, NEW e \in Enrollment, revoke(p, e)
        PROVE  IInv'
    <2>1. file[e] \in Row /\ RowRight(e, file[e])
      BY <1>7 DEF revoke, StoreTypes, Rows, RowLink, RowsRight
    <2>2. PICK row \in Row : /\ row = [file[e] EXCEPT !.revoked = TRUE]
                             /\ row.key = file[e].key /\ row.mode = file[e].mode
      <3>1. ASSUME NEW r \in Row
            PROVE  LET q == [r EXCEPT !.revoked = TRUE]
                   IN  q \in Row /\ q.key = r.key /\ q.mode = r.mode
        BY DEF Row
      <3> QED BY <2>1, <3>1
    <2>3. /\ UNCHANGED <<enrollments, file, origin, approved>>
          /\ Begin(p, "revoke", e, row)
      BY <1>7, <2>2 DEF revoke
    <2>4. RowRight(e, row)'
      BY <2>1, <2>2, <2>3 DEF RowRight
    <2>5. approved \subseteq approved' /\ approved' \subseteq Enrollment
      BY <2>3 DEF StoreTypes
    <2> HIDE DEF IInv
    <2> QED BY <2>3, <2>4, <2>5, BeginPreserves
  <1>8. ASSUME NEW p \in Proc, ReadPeer(p)
        PROVE  IInv'
    <2>1. job[p] \in Job /\ load_peer_raw \in Rows /\ RowsRight(load_peer_raw)
      BY <1>8 DEF ReadPeer, Step, Idle, StoreTypes, load_peer_raw, NoRows, Rows, RowLink, RowsRight
    <2> DEFINE rows == load_peer_raw
               j == [job[p] EXCEPT !.step = "truncate", !.rows = rows]
    <2>2. job' = [job EXCEPT ![p] = j]
      BY <1>8 DEF ReadPeer, StoreTypes
    <2>3. j \in Job /\ j.dev = job[p].dev /\ j.row = job[p].row /\ j.rows = rows
      BY <2>1 DEF Job
    <2>4. UNCHANGED <<enrollments, file, origin, approved>>
      BY <1>8 DEF ReadPeer, history
    <2>5. job[p] # None
      BY <1>8 DEF ReadPeer, Step, Idle
    <2> HIDE DEF j, rows
    <2>6. RowsRight(rows)
      BY <2>1 DEF rows
    <2>7. StoreTypes'
      BY <2>2, <2>3, <2>4 DEF StoreTypes
    <2>8. RowLink'
      BY <2>2, <2>3, <2>4, <2>5, <2>6 DEF StoreTypes, RowLink, RowsRight, RowRight
    <2> QED BY <2>4, <2>7, <2>8 DEF OriginsHaveEvidence, PendingLink
  <1>9. ASSUME NEW p \in Proc, TruncatePeer(p)
        PROVE  IInv'
    <2> DEFINE j == [job[p] EXCEPT !.step = "write"]
    <2>1. job[p] \in Job /\ job[p] # None
      BY <1>9 DEF TruncatePeer, Step, Idle, StoreTypes
    <2>2. job' = [job EXCEPT ![p] = j]
      BY <1>9 DEF TruncatePeer, StoreTypes
    <2>3. j \in Job /\ j.dev = job[p].dev /\ j.row = job[p].row /\ j.rows = job[p].rows
      BY <2>1 DEF Job
    <2>4. file' = Torn /\ UNCHANGED <<enrollments, origin, approved>>
      BY <1>9 DEF TruncatePeer, history
    <2> HIDE DEF j
    <2>5. StoreTypes'
      BY <2>2, <2>3, <2>4 DEF StoreTypes
    <2>6. RowLink'
      BY <2>1, <2>2, <2>3, <2>4 DEF StoreTypes, RowLink, RowsRight, RowRight
    <2> QED BY <2>4, <2>5, <2>6 DEF OriginsHaveEvidence, PendingLink
  <1>10. ASSUME NEW p \in Proc, WritePeer(p)
         PROVE  IInv'
    <2> DEFINE new == [job[p].rows EXCEPT ![job[p].dev] = job[p].row]
               j == [job[p] EXCEPT !.step = "delete"]
    <2>1. job[p] \in Job /\ job[p] # None
      BY <1>10 DEF WritePeer, Step, Idle, StoreTypes
    <2>2. new \in Rows /\ RowsRight(new)
      BY <2>1 DEF Job, Rows, RowLink, RowsRight
    <2>3. job' \in {[job EXCEPT ![p] = j], [job EXCEPT ![p] = None]}
      BY <1>10 DEF WritePeer, StoreTypes
    <2>4. j \in Job /\ j.dev = job[p].dev /\ j.row = job[p].row /\ j.rows = job[p].rows
      BY <2>1 DEF Job
    <2>5. file' \in {new, Torn} /\ UNCHANGED <<enrollments, origin, approved>>
      BY <1>10 DEF WritePeer
    <2> HIDE DEF j, new
    <2>6. StoreTypes'
      BY <2>2, <2>3, <2>4, <2>5 DEF StoreTypes
    <2>7. RowLink'
      BY <2>1, <2>2, <2>3, <2>4, <2>5 DEF StoreTypes, RowLink, RowsRight, RowRight
    <2> QED BY <2>5, <2>6, <2>7 DEF OriginsHaveEvidence, PendingLink
  <1>11. ASSUME NEW p \in Proc, FinishApprove(p)
         PROVE  IInv'
    BY <1>11 DEF FinishApprove, delete_enrollment, Step, Idle, StoreTypes, OriginsHaveEvidence,
                 PendingLink, RowLink, RowsRight, RowRight, Job
  <1>12. ASSUME NEW p \in Proc, Crash(p)
         PROVE  IInv'
    BY <1>12 DEF Crash, StoreTypes, OriginsHaveEvidence, PendingLink, RowLink, RowsRight, RowRight
  <1>13. CASE Tick
    BY <1>13 DEF Tick, history, StoreTypes, OriginsHaveEvidence, PendingLink, RowLink,
                 RowsRight, RowRight
  <1>14. CASE UNCHANGED vars
    BY <1>14 DEF vars, history, StoreTypes, OriginsHaveEvidence, PendingLink, RowLink,
                 RowsRight, RowRight
  <1> QED
    BY <1>1, <1>2, <1>3, <1>4, <1>5, <1>6, <1>7, <1>8, <1>9, <1>10, <1>11, <1>12, <1>13, <1>14
    DEF Next

-----------------------------------------------------------------------------
\* What a window admits.

\* The enrollments that were admitted, with this nonce, through this window since t, and
\* through it within throttle_window of t; and the attempts counted since t.
Admitted == {e \in Enrollment : passage[e] # None}
AdmittedBy(n) == {e \in Enrollment : passage[e] # None /\ passage[e].nonce = n}
Since(w, t) == {e \in Enrollment : passage[e] # None /\ passage[e].window = w /\ passage[e].at >= t}
Within(w, t) ==
    {e \in Enrollment : /\ passage[e] # None /\ passage[e].window = w
                        /\ passage[e].at \in t..(t + throttle_window - 1)}
Recent(attempts, t) == {a \in attempts : a.at >= t}

WindowTypes ==
    /\ now \in Nat /\ window \in WindowState \cup {None}
    /\ drawn \subseteq Nonce \cup Window
    /\ passage \in [Enrollment -> Passage \cup {None}]

\* Who was admitted came about, through a window and with a nonce that were in use.
PassageLink ==
    /\ IsFiniteSet(Admitted)
    /\ \A e \in Enrollment : passage[e] # None =>
          /\ origin[e] # None
          /\ passage[e].window \in drawn /\ passage[e].nonce \in drawn /\ passage[e].at <= now

AcceptBound == \A n \in Nonce : Cardinality(AdmittedBy(n)) <= max_accepts
RateBound == \A w \in Window, t \in Nat : Cardinality(Within(w, t)) <= max_attempts

\* The window object counts no less than it admitted: its accepts those of its nonce,
\* its attempts, which it forgets after throttle_window, those of its id.
Counts(win) ==
    /\ IsFiniteSet(win.attempts) /\ win.id \in drawn
    /\ win.nonce # None =>
          win.nonce \in drawn /\ Cardinality(AdmittedBy(win.nonce)) <= win.accepts
    /\ \A t \in Nat : t > now - throttle_window =>
          Cardinality(Since(win.id, t)) <= Cardinality(Recent(win.attempts, t))

WInv ==
    /\ WindowTypes /\ PassageLink /\ AcceptBound /\ RateBound
    /\ window # None => Counts(window)

\* The sets that are counted are finite.
LEMMA Countable ==
  ASSUME WInv
  PROVE  /\ \A n : IsFiniteSet(AdmittedBy(n)) /\ Cardinality(AdmittedBy(n)) \in Nat
         /\ \A w, t : /\ IsFiniteSet(Since(w, t)) /\ Cardinality(Since(w, t)) \in Nat
                      /\ IsFiniteSet(Within(w, t)) /\ Cardinality(Within(w, t)) \in Nat
         /\ window # None => \A t : /\ IsFiniteSet(Recent(window.attempts, t))
                                    /\ Cardinality(Recent(window.attempts, t)) \in Nat
  <1>1. IsFiniteSet(Admitted)
    BY DEF WInv, PassageLink
  <1>2. ASSUME NEW T, T \subseteq Admitted PROVE IsFiniteSet(T) /\ Cardinality(T) \in Nat
    BY <1>1, <1>2, FS_Subset, FS_CardinalityType
  <1>3. \A n : AdmittedBy(n) \subseteq Admitted
    BY DEF AdmittedBy, Admitted
  <1>4. \A w, t : Since(w, t) \subseteq Admitted /\ Within(w, t) \subseteq Admitted
    BY DEF Since, Within, Admitted
  <1>5. ASSUME window # None, NEW t
        PROVE  IsFiniteSet(Recent(window.attempts, t)) /\ Cardinality(Recent(window.attempts, t)) \in Nat
    <2>1. IsFiniteSet(window.attempts) /\ Recent(window.attempts, t) \subseteq window.attempts
      BY <1>5 DEF WInv, Counts, Recent
    <2> QED BY <2>1, FS_Subset, FS_CardinalityType
  <1> QED BY <1>2, <1>3, <1>4, <1>5

\* Steps that admit nobody: the bounds stay, and the counts stay with the window object.
LEMMA AdmitsNobody ==
  ASSUME WInv, UNCHANGED passage, now' \in Nat, now <= now', drawn \subseteq drawn',
         drawn' \subseteq Nonce \cup Window,
         \A e \in Enrollment : origin[e] # None => origin'[e] # None
  PROVE  /\ PassageLink' /\ AcceptBound' /\ RateBound'
         /\ passage' \in [Enrollment -> Passage \cup {None}]
         /\ \A win : Counts(win) => Counts(win)'
  <1>1. WindowTypes /\ PassageLink /\ AcceptBound /\ RateBound
    BY DEF WInv
  <1>2. PassageLink'
    <2>1. \A e \in Enrollment : passage[e] # None => passage[e].at \in Nat
      BY <1>1 DEF WindowTypes, Passage
    <2> QED BY <1>1, <2>1 DEF PassageLink, Admitted, WindowTypes
  <1>3. AcceptBound' /\ RateBound'
    BY <1>1 DEF AcceptBound, RateBound, AdmittedBy, Within
  <1>4. ASSUME NEW win, Counts(win) PROVE Counts(win)'
    BY <1>1, <1>4, PairingAssumption DEF Counts, AdmittedBy, Since, Recent, WindowTypes
  <1> QED BY <1>1, <1>2, <1>3, <1>4 DEF WindowTypes

\* An attempt is counted before anything is looked at, and only old ones are forgotten.
LEMMA AttemptCounted ==
  ASSUME WInv, window # None, NEW no \in 1..MaxAttempts, [at |-> now, no |-> no] \notin window.attempts,
         NEW tried, tried = attempted(window, no)
  PROVE  /\ tried \in WindowState /\ tried.id = window.id /\ tried.nonce = window.nonce
         /\ tried.accepts = window.accepts /\ IsFiniteSet(tried.attempts)
         /\ \A t \in Nat : t > now - throttle_window =>
               /\ Cardinality(Recent(tried.attempts, t)) \in Nat
               /\ Cardinality(Recent(tried.attempts, t)) <= Cardinality(tried.attempts)
               /\ Cardinality(Recent(tried.attempts, t)) =
                     Cardinality(Recent(window.attempts, t)) + (IF t <= now THEN 1 ELSE 0)
  <1>1. /\ now \in Nat /\ window \in WindowState /\ IsFiniteSet(window.attempts)
        /\ throttle_window \in Nat
    BY PairingAssumption DEF WInv, WindowTypes, Counts
  <1>2. PICK a \in Attempt : a = [at |-> now, no |-> no] /\ a.at = now
    <2>1. [at |-> now, no |-> no] \in Attempt
      BY <1>1 DEF Attempt
    <2> QED BY <2>1
  <1>3. PICK kept : kept = {b \in window.attempts : b.at > now - throttle_window}
    OBVIOUS
  <1>4. tried = [window EXCEPT !.attempts = kept \cup {a}]
    BY <1>2, <1>3 DEF attempted
  <1>5. kept \subseteq window.attempts /\ window.attempts \subseteq Attempt
    BY <1>1, <1>3 DEF WindowState
  <1>6. kept \cup {a} \in SUBSET Attempt
    BY <1>2, <1>5
  <1>7. /\ tried \in WindowState /\ tried.id = window.id /\ tried.nonce = window.nonce
        /\ tried.accepts = window.accepts /\ tried.attempts = kept \cup {a}
    BY <1>1, <1>4, <1>6 DEF WindowState
  <1>8. IsFiniteSet(tried.attempts)
    BY <1>1, <1>5, <1>7, FS_Subset, FS_AddElement
  <1>9. ASSUME NEW t \in Nat, t > now - throttle_window
        PROVE  /\ Cardinality(Recent(tried.attempts, t)) \in Nat
               /\ Cardinality(Recent(tried.attempts, t)) <= Cardinality(tried.attempts)
               /\ Cardinality(Recent(tried.attempts, t)) =
                     Cardinality(Recent(window.attempts, t)) + (IF t <= now THEN 1 ELSE 0)
    <2>1. Recent(tried.attempts, t) \subseteq tried.attempts
      BY DEF Recent
    <2>2. /\ Cardinality(Recent(tried.attempts, t)) \in Nat
          /\ Cardinality(Recent(tried.attempts, t)) <= Cardinality(tried.attempts)
      BY <1>8, <2>1, FS_Subset, FS_CardinalityType
    <2>3. /\ IsFiniteSet(Recent(window.attempts, t)) /\ Cardinality(Recent(window.attempts, t)) \in Nat
          /\ a \notin Recent(window.attempts, t)
      BY <1>2, Countable DEF Recent
    <2>4. \A b \in window.attempts : b.at \in Nat
      BY <1>5 DEF Attempt
    <2>5. CASE t <= now
      <3>1. Recent(tried.attempts, t) = Recent(window.attempts, t) \cup {a}
        BY <1>1, <1>2, <1>3, <1>7, <1>9, <2>4, <2>5 DEF Recent
      <3> QED BY <2>2, <2>3, <2>5, <3>1, FS_AddElement
    <2>6. CASE ~(t <= now)
      <3>1. Recent(tried.attempts, t) = Recent(window.attempts, t)
        BY <1>1, <1>2, <1>3, <1>7, <1>9, <2>4, <2>6 DEF Recent
      <3> QED BY <2>2, <2>3, <2>6, <3>1
    <2> QED BY <2>5, <2>6
  <1> QED BY <1>7, <1>8, <1>9

\* consume() counts the accept, and closes the window at the cap.
LEMMA AcceptCounted ==
  ASSUME NEW w \in WindowState, NEW next, next = consume(w)
  PROVE  /\ next \in WindowState /\ next.id = w.id /\ next.attempts = w.attempts
         /\ next.nonce \in {w.nonce, None} /\ next.accepts = w.accepts + 1
  <1>1. PICK c \in WindowState : /\ c = [w EXCEPT !.accepts = w.accepts + 1] /\ c.id = w.id
                                  /\ c.attempts = w.attempts /\ c.nonce = w.nonce
                                  /\ c.accepts = w.accepts + 1
    <2>1. w.accepts + 1 \in Nat
      BY DEF WindowState
    <2>2. [w EXCEPT !.accepts = w.accepts + 1] \in WindowState
      BY <2>1 DEF WindowState
    <2> QED BY <2>2 DEF WindowState
  <1>2. /\ closed(c) \in WindowState /\ closed(c).id = c.id /\ closed(c).attempts = c.attempts
        /\ closed(c).nonce = None /\ closed(c).accepts = c.accepts
    BY DEF closed, WindowState
  <1>3. next = c \/ next = closed(c)
    BY <1>1 DEF consume
  <1> QED BY <1>1, <1>2, <1>3

\* An attempt that admits nobody: it failed, or its evidence did.
LEMMA AttemptFails ==
  ASSUME WInv, window # None, NEW no \in 1..MaxAttempts, [at |-> now, no |-> no] \notin window.attempts,
         window' = attempted(window, no) \/ window' = consume(attempted(window, no)),
         UNCHANGED <<now, drawn, passage>>,
         \A e \in Enrollment : origin[e] # None => origin'[e] # None
  PROVE  WInv'
  <1>1. WindowTypes /\ Counts(window) /\ window \in WindowState
    BY DEF WInv, WindowTypes
  <1>2. PICK tried : tried = attempted(window, no)
    OBVIOUS
  <1>3. /\ tried \in WindowState /\ tried.id = window.id /\ tried.nonce = window.nonce
        /\ tried.accepts = window.accepts /\ IsFiniteSet(tried.attempts)
        /\ \A t \in Nat : t > now - throttle_window =>
              /\ Cardinality(Recent(tried.attempts, t)) \in Nat
              /\ Cardinality(Recent(tried.attempts, t)) >= Cardinality(Recent(window.attempts, t))
    BY <1>2, AttemptCounted, Countable
  <1>4. PICK next : next = consume(tried)
    OBVIOUS
  <1>5. /\ next \in WindowState /\ next.id = tried.id /\ next.attempts = tried.attempts
        /\ next.nonce \in {tried.nonce, None} /\ next.accepts = tried.accepts + 1
    BY <1>3, <1>4, AcceptCounted
  <1>6. PICK win : win = window'
    OBVIOUS
  <1>7. /\ win \in WindowState /\ win.id = window.id /\ win.attempts = tried.attempts
        /\ win.nonce \in {window.nonce, None} /\ win.accepts >= window.accepts
    <2>1. window.accepts \in Nat
      BY <1>1 DEF WindowState
    <2> QED BY <1>2, <1>3, <1>4, <1>5, <1>6, <2>1
  <1>8. Counts(win)
    <2>1. win.nonce # None => win.nonce \in drawn /\ Cardinality(AdmittedBy(win.nonce)) <= win.accepts
      <3>1. window.accepts \in Nat /\ win.accepts \in Nat /\ Cardinality(AdmittedBy(window.nonce)) \in Nat
        BY <1>1, <1>7, Countable DEF WindowState
      <3> QED BY <1>1, <1>7, <3>1 DEF Counts
    <2>2. ASSUME NEW t \in Nat, t > now - throttle_window
          PROVE  Cardinality(Since(win.id, t)) <= Cardinality(Recent(win.attempts, t))
      <3>1. Cardinality(Since(window.id, t)) <= Cardinality(Recent(window.attempts, t))
        BY <1>1, <2>2 DEF Counts
      <3>2. Cardinality(Since(window.id, t)) \in Nat /\ Cardinality(Recent(window.attempts, t)) \in Nat
        BY Countable
      <3> QED BY <1>3, <1>7, <2>2, <3>1, <3>2
    <2> QED BY <1>1, <1>3, <1>7, <2>1, <2>2 DEF Counts
  <1>9. /\ PassageLink' /\ AcceptBound' /\ RateBound' /\ Counts(win)'
        /\ passage' \in [Enrollment -> Passage \cup {None}]
    BY <1>1, <1>8, AdmitsNobody DEF WindowTypes
  <1>10. (window # None => Counts(window))'
    BY <1>6, <1>9
  <1>11. WindowTypes'
    BY <1>1, <1>6, <1>7, <1>9 DEF WindowTypes
  <1> QED BY <1>9, <1>10, <1>11 DEF WInv

\* An attempt that admits: one more in each count, and no bound is passed.
LEMMA AttemptAdmits ==
  ASSUME WInv, window # None, NEW no \in 1..MaxAttempts, [at |-> now, no |-> no] \notin window.attempts,
         NEW n \in Nonce \cup {None}, check(attempted(window, no), n),
         window' = consume(attempted(window, no)), UNCHANGED <<now, drawn>>,
         NEW e \in Enrollment, origin[e] = None, origin'[e] # None,
         passage' = [passage EXCEPT ![e] = [window |-> window.id, nonce |-> n, at |-> now]],
         \A d \in Enrollment : origin[d] # None => origin'[d] # None
  PROVE  WInv'
  <1>1. /\ WindowTypes /\ PassageLink /\ AcceptBound /\ RateBound /\ Counts(window)
        /\ window \in WindowState /\ now \in Nat /\ throttle_window \in Nat
        /\ max_accepts \in Nat /\ max_attempts \in Nat
    BY PairingAssumption DEF WInv, WindowTypes
  <1>2. PICK tried : tried = attempted(window, no)
    OBVIOUS
  <1>3. /\ tried \in WindowState /\ tried.id = window.id /\ tried.nonce = window.nonce
        /\ tried.accepts = window.accepts /\ IsFiniteSet(tried.attempts)
        /\ \A t \in Nat : t > now - throttle_window =>
              /\ Cardinality(Recent(tried.attempts, t)) \in Nat
              /\ Cardinality(Recent(tried.attempts, t)) <= Cardinality(tried.attempts)
              /\ Cardinality(Recent(tried.attempts, t)) =
                    Cardinality(Recent(window.attempts, t)) + (IF t <= now THEN 1 ELSE 0)
    BY <1>2, AttemptCounted
  <1>4. PICK next : next = window'
    OBVIOUS
  <1>5. /\ next \in WindowState /\ next.id = window.id /\ next.attempts = tried.attempts
        /\ next.nonce \in {window.nonce, None} /\ next.accepts = window.accepts + 1
    BY <1>2, <1>3, <1>4, AcceptCounted
  <1>6. /\ Cardinality(tried.attempts) <= max_attempts /\ n = window.nonce /\ n # None
        /\ window.accepts < max_accepts
    BY <1>2, <1>3 DEF check, is_open
  <1>7. PICK gate \in Passage : /\ gate = [window |-> window.id, nonce |-> n, at |-> now]
                                 /\ gate.window = window.id /\ gate.nonce = n /\ gate.at = now
    <2>1. window.id \in Window /\ n \in Nonce
      BY <1>1, <1>6 DEF WindowState
    <2>2. [window |-> window.id, nonce |-> n, at |-> now] \in Passage
      BY <1>1, <2>1 DEF Passage
    <2> QED BY <2>2
  <1>8. /\ passage' \in [Enrollment -> Passage \cup {None}] /\ passage'[e] = gate /\ gate # None
        /\ passage[e] = None /\ \A d \in Enrollment : d # e => passage'[d] = passage[d]
    <2>1. passage[e] = None
      BY <1>1 DEF PassageLink
    <2> QED BY <1>1, <1>7, <2>1, PairingAssumption DEF WindowTypes
  <1>9. /\ IsFiniteSet(Admitted) /\ Admitted' = Admitted \cup {e}
    BY <1>1, <1>8 DEF PassageLink, Admitted
  <1>10. PassageLink'
    <2>1. IsFiniteSet(Admitted')
      BY <1>9, FS_AddElement
    <2>2. ASSUME NEW d \in Enrollment, passage'[d] # None
          PROVE  /\ origin'[d] # None
                 /\ passage'[d].window \in drawn /\ passage'[d].nonce \in drawn /\ passage'[d].at <= now
      <3>1. CASE d = e
        BY <1>1, <1>6, <1>7, <1>8, <3>1 DEF Counts
      <3>2. CASE d # e
        BY <1>1, <1>8, <2>2, <3>2 DEF PassageLink
      <3> QED BY <3>1, <3>2
    <2> QED BY <2>1, <2>2 DEF PassageLink
  <1>11. /\ AdmittedBy(n)' = AdmittedBy(n) \cup {e} /\ e \notin AdmittedBy(n)
         /\ \A m \in Nonce : m # n => AdmittedBy(m)' = AdmittedBy(m)
    BY <1>7, <1>8 DEF AdmittedBy
  <1>12. /\ Cardinality(AdmittedBy(n)') = Cardinality(AdmittedBy(n)) + 1
         /\ Cardinality(AdmittedBy(n)) \in Nat /\ Cardinality(AdmittedBy(n)) <= window.accepts
    BY <1>1, <1>6, <1>11, Countable, FS_AddElement DEF Counts
  <1>13. window.accepts \in Nat /\ Cardinality(AdmittedBy(n)') <= window.accepts + 1
         /\ Cardinality(AdmittedBy(n)') <= max_accepts
    <2>1. window.accepts \in Nat
      BY <1>1 DEF WindowState
    <2> QED BY <1>1, <1>6, <1>12, <2>1
  <1>14. AcceptBound'
    BY <1>1, <1>11, <1>13 DEF AcceptBound
  <1>15. ASSUME NEW t \in Nat, t <= now
         PROVE  /\ Since(window.id, t)' = Since(window.id, t) \cup {e} /\ e \notin Since(window.id, t)
    <2>1. PICK w : w = window.id
      OBVIOUS
    <2>2. {d \in Enrollment : passage'[d] # None /\ passage'[d].window = w /\ passage'[d].at >= t}
             = Since(w, t) \cup {e} /\ e \notin Since(w, t)
      BY <1>1, <1>7, <1>8, <1>15, <2>1 DEF Since
    <2> QED BY <1>4, <1>5, <2>1, <2>2 DEF Since
  <1>16. ASSUME NEW t \in Nat, ~(t <= now)
         PROVE  Since(window.id, t)' = {}
    <2>1. \A d \in Enrollment : passage'[d] # None => passage'[d].at <= now /\ passage'[d].at \in Nat
      BY <1>1, <1>8, <1>10 DEF PassageLink, Passage
    <2> QED BY <1>1, <1>16, <2>1 DEF Since
  <1>17. ASSUME NEW t \in Nat, t > now - throttle_window
         PROVE  /\ Cardinality(Since(window.id, t)') \in Nat
                /\ Cardinality(Since(window.id, t)') <= Cardinality(Recent(tried.attempts, t))
    <2>1. /\ Cardinality(Since(window.id, t)) <= Cardinality(Recent(window.attempts, t))
          /\ IsFiniteSet(Since(window.id, t)) /\ Cardinality(Since(window.id, t)) \in Nat
          /\ Cardinality(Recent(window.attempts, t)) \in Nat
      BY <1>1, <1>17, Countable DEF Counts
    <2>2. CASE t <= now
      <3>1. Cardinality(Since(window.id, t)') = Cardinality(Since(window.id, t)) + 1
        BY <1>15, <2>1, <2>2, FS_AddElement
      <3> QED BY <1>3, <1>17, <2>1, <2>2, <3>1
    <2>3. CASE ~(t <= now)
      <3>1. Cardinality(Since(window.id, t)') = 0
        BY <1>16, <2>3, FS_EmptySet
      <3> QED BY <1>3, <1>17, <3>1
    <2> QED BY <2>2, <2>3
  <1>18. (window # None => Counts(window))'
    <2>1. /\ IsFiniteSet(next.attempts) /\ next.id \in drawn
          /\ next.nonce # None => next.nonce = n /\ n \in drawn
      BY <1>1, <1>3, <1>5, <1>6 DEF Counts
    <2>2. next.nonce # None => Cardinality(AdmittedBy(next.nonce)') <= next.accepts
      BY <1>5, <1>13, <2>1
    <2>3. \A t \in Nat : t > now - throttle_window =>
             Cardinality(Since(next.id, t)') <= Cardinality(Recent(next.attempts, t))
      BY <1>4, <1>5, <1>17
    <2>4. Counts(next)'
      BY <2>1, <2>2, <2>3 DEF Counts, AdmittedBy, Since, Recent
    <2> QED BY <1>4, <2>4
  <1>19. RateBound'
    <2> SUFFICES ASSUME NEW w \in Window, NEW t \in Nat PROVE Cardinality(Within(w, t)') <= max_attempts
      BY DEF RateBound
    <2>1. CASE w = window.id /\ now \in t..(t + throttle_window - 1)
      <3>1. t > now - throttle_window /\ t <= now
        BY <1>1, <2>1
      <3>2. PICK S : S = Since(window.id, t)'
        OBVIOUS
      <3>3. IsFiniteSet(S) /\ Cardinality(S) <= Cardinality(Recent(tried.attempts, t))
        BY <1>15, <1>17, <3>1, <3>2, Countable, FS_AddElement
      <3>4. Within(w, t)' \subseteq S
        <4>1. {d \in Enrollment : /\ passage'[d] # None /\ passage'[d].window = w
                                  /\ passage'[d].at \in t..(t + throttle_window - 1)}
                \subseteq {d \in Enrollment : passage'[d] # None /\ passage'[d].window = w /\ passage'[d].at >= t}
          BY <1>1
        <4>2. S = {d \in Enrollment : passage'[d] # None /\ passage'[d].window = w /\ passage'[d].at >= t}
          BY <1>4, <1>5, <2>1, <3>2 DEF Since
        <4> QED BY <4>1, <4>2 DEF Within
      <3>5. Cardinality(Within(w, t)') \in Nat /\ Cardinality(Within(w, t)') <= Cardinality(S)
            /\ Cardinality(S) \in Nat
        BY <3>3, <3>4, FS_Subset, FS_CardinalityType
      <3>6. Cardinality(Recent(tried.attempts, t)) <= max_attempts
        <4>1. Cardinality(tried.attempts) \in Nat
          BY <1>3, FS_CardinalityType
        <4> QED BY <1>1, <1>3, <1>6, <3>1, <4>1
      <3> QED BY <1>1, <1>3, <3>1, <3>3, <3>5, <3>6
    <2>2. CASE ~(w = window.id /\ now \in t..(t + throttle_window - 1))
      <3>1. Within(w, t)' = Within(w, t)
        BY <1>7, <1>8, <2>2 DEF Within
      <3> QED BY <1>1, <3>1 DEF RateBound
    <2> QED BY <2>1, <2>2
  <1>20. WindowTypes'
    BY <1>1, <1>4, <1>5, <1>8 DEF WindowTypes
  <1> QED BY <1>10, <1>14, <1>18, <1>19, <1>20 DEF WInv

\* Every step keeps the counts.
LEMMA WindowStep ==
  ASSUME IInv, WInv, [Next]_vars
  PROVE  WInv'
  <1>1. /\ WindowTypes /\ now \in Nat /\ window \in WindowState \cup {None}
        /\ drawn \subseteq Nonce \cup Window /\ origin \in [Enrollment -> Origin \cup {None}]
        /\ window # None => Counts(window)
    BY DEF WInv, WindowTypes, IInv, StoreTypes
  <1>2. ASSUME UNCHANGED <<window, drawn, passage, origin>>, now' = now \/ now' = now + 1
        PROVE  WInv'
    <2>1. now' \in Nat /\ now <= now'
      BY <1>1, <1>2
    <2>2. /\ PassageLink' /\ AcceptBound' /\ RateBound' /\ passage' \in [Enrollment -> Passage \cup {None}]
          /\ \A win : Counts(win) => Counts(win)'
      BY <1>1, <1>2, <2>1, AdmitsNobody
    <2> QED BY <1>1, <1>2, <2>1, <2>2 DEF WInv, WindowTypes
  <1>3. ASSUME NEW new \in SUBSET (Nonce \cup Window), NEW win \in WindowState, window' = win,
               drawn' = drawn \cup new, UNCHANGED <<now, passage, origin>>,
               win.nonce # None => win.nonce \in new \ drawn,
               win.accepts = 0,
               \/ win.attempts = {} /\ win.id \in new \ drawn
               \/ window # None /\ win.attempts = window.attempts /\ win.id = window.id
        PROVE  WInv'
    <2>1. /\ PassageLink' /\ AcceptBound' /\ RateBound' /\ passage' \in [Enrollment -> Passage \cup {None}]
          /\ \A w : Counts(w) => Counts(w)'
      BY <1>1, <1>3, AdmitsNobody
    <2>2. \A x : x \notin drawn => AdmittedBy(x) = {} /\ \A t : Since(x, t) = {}
      BY DEF WInv, PassageLink, AdmittedBy, Since
    <2>3. win.nonce # None => win.nonce \in drawn' /\ Cardinality(AdmittedBy(win.nonce)) <= win.accepts
      <3>1. win.nonce # None => AdmittedBy(win.nonce) = {}
        BY <1>3, <2>2
      <3> QED BY <1>3, <3>1, FS_EmptySet
    <2>4. /\ IsFiniteSet(win.attempts) /\ win.id \in drawn'
          /\ \A t \in Nat : t > now - throttle_window =>
                Cardinality(Since(win.id, t)) <= Cardinality(Recent(win.attempts, t))
      <3>1. CASE win.attempts = {} /\ win.id \in new \ drawn
        <4>1. \A t : Since(win.id, t) = {} /\ Recent(win.attempts, t) = {}
          BY <2>2, <3>1 DEF Recent
        <4>2. IsFiniteSet({}) /\ Cardinality({}) = 0
          BY FS_EmptySet
        <4> QED BY <1>3, <3>1, <4>1, <4>2
      <3>2. CASE window # None /\ win.attempts = window.attempts /\ win.id = window.id
        BY <1>1, <1>3, <3>2 DEF Counts
      <3> QED BY <1>3, <3>1, <3>2
    <2>5. Counts(win)'
      BY <1>3, <2>3, <2>4 DEF Counts, AdmittedBy, Since, Recent
    <2> QED BY <1>1, <1>3, <2>1, <2>5 DEF WInv, WindowTypes
  <1>4. ASSUME NEW w \in Window, NEW n \in Nonce, open_window(w, n) PROVE WInv'
    <2>1. PICK win \in WindowState : /\ win = window' /\ win.id = w /\ win.nonce = n /\ win.accepts = 0
                                      /\ win.attempts = {}
      <3>1. now + window_ttl \in Nat
        BY <1>1, PairingAssumption
      <3>2. [id |-> w, nonce |-> n, expires |-> now + window_ttl, accepts |-> 0, attempts |-> {}] \in WindowState
        BY <3>1 DEF WindowState
      <3> QED BY <1>4, <3>2 DEF open_window
    <2>2. drawn' = drawn \cup {w, n} /\ w \notin drawn /\ n \notin drawn /\ UNCHANGED <<now, passage, origin>>
      BY <1>4 DEF open_window, history
    <2>3. PICK new \in SUBSET (Nonce \cup Window) : new = {w, n}
      OBVIOUS
    <2> QED BY <1>3, <2>1, <2>2, <2>3
  <1>5. ASSUME NEW n \in Nonce, open(n) PROVE WInv'
    <2>1. window \in WindowState /\ window # None /\ n \notin drawn /\ drawn' = drawn \cup {n}
          /\ UNCHANGED <<now, passage, origin>>
      BY <1>1, <1>5 DEF open, history
    <2>2. PICK x \in Nat : x = now + window_ttl
      BY <1>1, PairingAssumption
    <2>3. PICK w1 \in WindowState : /\ w1 = [window EXCEPT !.nonce = n] /\ w1.nonce = n
                                     /\ w1.id = window.id /\ w1.attempts = window.attempts
      <3>1. [window EXCEPT !.nonce = n] \in WindowState
        BY <2>1 DEF WindowState
      <3> QED BY <2>1, <3>1 DEF WindowState
    <2>4. PICK win \in WindowState : /\ win = [w1 EXCEPT !.expires = x, !.accepts = 0] /\ win.nonce = n
                                      /\ win.id = window.id /\ win.attempts = window.attempts
                                      /\ win.accepts = 0
      <3>1. [w1 EXCEPT !.expires = x, !.accepts = 0] \in WindowState
        BY <2>2 DEF WindowState
      <3>2. PICK win : win = [w1 EXCEPT !.expires = x, !.accepts = 0]
        OBVIOUS
      <3>3. /\ win.nonce = w1.nonce /\ win.id = w1.id /\ win.attempts = w1.attempts /\ win.accepts = 0
        BY <3>2 DEF WindowState
      <3> QED BY <2>3, <3>1, <3>2, <3>3
    <2>5. window' = win
      BY <1>5, <2>2, <2>3, <2>4 DEF open, reopened
    <2>6. PICK new \in SUBSET (Nonce \cup Window) : new = {n}
      OBVIOUS
    <2> QED BY <1>3, <2>1, <2>4, <2>5, <2>6
  <1>6. CASE close
    <2>1. window \in WindowState /\ window # None /\ window' = closed(window)
          /\ UNCHANGED <<now, drawn, passage, origin>>
      BY <1>1, <1>6 DEF close, history
    <2>2. PICK win \in WindowState : /\ win = closed(window) /\ win.nonce = None /\ win.id = window.id
                                      /\ win.attempts = window.attempts
      <3>1. closed(window) \in WindowState
        BY <2>1 DEF closed, WindowState
      <3> QED BY <2>1, <3>1 DEF closed, WindowState
    <2>3. Counts(win)
      BY <1>1, <2>1, <2>2 DEF Counts
    <2>4. /\ PassageLink' /\ AcceptBound' /\ RateBound' /\ passage' \in [Enrollment -> Passage \cup {None}]
          /\ Counts(win)'
      BY <1>1, <2>1, <2>3, AdmitsNobody
    <2> QED BY <1>1, <2>1, <2>2, <2>4 DEF WInv, WindowTypes
  <1>7. ASSUME NEW e \in Enrollment, NEW req \in Request, NEW n \in Nonce \cup {None},
               NEW no \in 1..MaxAttempts, enroll_device(e, req, n, no)
        PROVE  WInv'
    <2>1. /\ origin[e] = None /\ window # None /\ [at |-> now, no |-> no] \notin window.attempts
          /\ UNCHANGED <<now, drawn>>
      BY <1>7 DEF enroll_device
    <2>2. CASE ~check(attempted(window, no), n)
      BY <1>7, <2>1, <2>2, AttemptFails DEF enroll_device
    <2>3. CASE check(attempted(window, no), n)
      <3>1. /\ window' = consume(attempted(window, no))
            /\ SaveEnrollment(e, req, [window |-> window.id, nonce |-> n, at |-> now])
        BY <1>7, <2>3 DEF enroll_device
      <3>2. CASE UNCHANGED <<passage, origin>>
        BY <2>1, <3>1, <3>2, AttemptFails
      <3>3. CASE req.named /\ Evidence(req)
        <4>1. /\ passage' = [passage EXCEPT ![e] = [window |-> window.id, nonce |-> n, at |-> now]]
              /\ origin'[e] # None /\ \A d \in Enrollment : d # e => origin'[d] = origin[d]
          <5>1. [mode |-> req.mode, key |-> req.key, signer |-> req.signer, operator |-> req.operator] \in Origin
            BY DEF Request, Origin
          <5> QED BY <1>1, <3>1, <3>3, <5>1, PairingAssumption DEF SaveEnrollment
        <4> QED BY <2>1, <2>3, <3>1, <4>1, AttemptAdmits
      <3> QED BY <3>1, <3>2, <3>3 DEF SaveEnrollment
    <2> QED BY <2>2, <2>3
  <1>8. ASSUME NEW e \in Enrollment, NEW req \in Request, enroll_device_ungated(e, req)
        PROVE  WInv'
    <2>1. origin[e] = None /\ SaveEnrollment(e, req, None) /\ UNCHANGED <<now, window, drawn>>
      BY <1>8 DEF enroll_device_ungated
    <2>2. passage[e] = None /\ passage \in [Enrollment -> Passage \cup {None}]
      BY <1>1, <2>1 DEF WInv, PassageLink, WindowTypes
    <2>3. passage' = passage
      BY <2>1, <2>2 DEF SaveEnrollment
    <2>4. \A d \in Enrollment : origin[d] # None => origin'[d] # None
      BY <1>1, <2>1 DEF SaveEnrollment
    <2>5. /\ PassageLink' /\ AcceptBound' /\ RateBound' /\ passage' \in [Enrollment -> Passage \cup {None}]
          /\ \A win : Counts(win) => Counts(win)'
      BY <1>1, <2>1, <2>3, <2>4, AdmitsNobody
    <2> QED BY <1>1, <2>1, <2>5 DEF WInv, WindowTypes
  <1>9. CASE \E p \in Proc : \/ \E e \in Enrollment : approve(p, e) \/ revoke(p, e)
                             \/ ReadPeer(p) \/ TruncatePeer(p) \/ WritePeer(p) \/ FinishApprove(p) \/ Crash(p)
    BY <1>2, <1>9 DEF approve, revoke, ReadPeer, TruncatePeer, WritePeer, FinishApprove, Crash, history
  <1>10. CASE Tick \/ UNCHANGED vars
    BY <1>2, <1>10 DEF Tick, vars, history
  <1> QED BY <1>4, <1>5, <1>6, <1>7, <1>8, <1>9, <1>10 DEF Next

LEMMA WindowInit == Init => WInv
  <1> SUFFICES ASSUME Init PROVE WInv
    OBVIOUS
  <1>1. Admitted = {} /\ (\A n : AdmittedBy(n) = {}) /\ (\A w, t : Within(w, t) = {})
    BY DEF Init, Admitted, AdmittedBy, Within
  <1>2. IsFiniteSet({}) /\ Cardinality({}) = 0
    BY FS_EmptySet
  <1>3. PassageLink
    BY <1>1, <1>2 DEF Init, PassageLink
  <1>4. AcceptBound /\ RateBound
    BY <1>1, <1>2, PairingAssumption DEF AcceptBound, RateBound
  <1> QED BY <1>3, <1>4 DEF Init, WInv, WindowTypes

-----------------------------------------------------------------------------
\* The store, as long as operations follow one another.

RestTypes == crashes \in Nat /\ overlapped \in BOOLEAN /\ returned \subseteq Enrollment /\ revoked \subseteq Enrollment

\* Rows that lose nothing: every device that was approved, and as revoked every one that
\* was revoked; what is in them is pending no more, but for the devices in but.
Settled(rows, but) ==
    /\ \A e \in returned : rows[e] # None
    /\ \A e \in revoked : rows[e] # None /\ rows[e].revoked = TRUE
    /\ \A e \in Enrollment \ but : rows[e] # None => enrollments[e] = None

\* An operation that nobody disturbs: what it read is what the file was, and while the
\* file is torn it holds the rows.
Midway(j) ==
    /\ j.op = "approve" => j.dev \notin revoked
    /\ j.op = "revoke" => enrollments[j.dev] = None /\ j.row.revoked = TRUE
    /\ j.step = "read" => file # Torn /\ Settled(file, {})
    /\ j.step = "truncate" => file # Torn /\ Settled(file, {}) /\ j.rows = file
    /\ j.step = "write" => file = Torn /\ Settled(j.rows, {})
    /\ j.step = "delete" => /\ j.op = "approve" /\ file # Torn /\ file[j.dev] # None
                            /\ Settled(file, {j.dev})

SInv ==
    /\ RestTypes
    /\ ~overlapped =>
          /\ \A p, q \in Proc : job[p] # None /\ job[q] # None => p = q
          /\ ~Busy => file # Torn /\ Settled(file, {})
          /\ \A p \in Proc : job[p] # None => Midway(job[p])

\* Steps of one operation.
LEMMA OneMoves ==
  ASSUME IInv, SInv, NEW p \in Proc, job[p] # None, NEW j, job' = [job EXCEPT ![p] = j],
         overlapped' = overlapped, RestTypes',
         ~overlapped /\ j = None => (file # Torn /\ Settled(file, {}))',
         ~overlapped /\ j # None => Midway(j)'
  PROVE  SInv'
  <1>1. CASE overlapped
    BY <1>1 DEF SInv
  <1>2. CASE ~overlapped
    <2>1. \A q \in Proc : q # p => job[q] = None
      BY <1>2 DEF SInv
    <2>2. job'[p] = j /\ \A q \in Proc : q # p => job'[q] = None
      BY <2>1 DEF IInv, StoreTypes
    <2>3. (~Busy)' => j = None
      BY <2>2 DEF Busy, Idle
    <2>4. ASSUME NEW q \in Proc, job'[q] # None PROVE Midway(job[q])'
      <3>1. q = p /\ job'[q] = j /\ j # None
        BY <2>2, <2>4
      <3> QED BY <1>2, <3>1
    <2> QED BY <1>2, <2>2, <2>3, <2>4 DEF SInv
  <1> QED BY <1>1, <1>2

\* A new enrollment is none of those the store knows.
LEMMA SavedElsewhere ==
  ASSUME IInv, SInv, NEW e \in Enrollment, origin[e] = None,
         \A d \in Enrollment : d # e => enrollments'[d] = enrollments[d],
         UNCHANGED <<file, job, returned, revoked, overlapped, crashes>>
  PROVE  SInv'
  <1>1. RestTypes'
    BY DEF SInv, RestTypes
  <1>2. ASSUME NEW rows, RowsRight(rows), NEW but, Settled(rows, but) PROVE Settled(rows, but)'
    <2>1. rows[e] = None
      BY <1>2 DEF RowsRight, RowRight
    <2> QED BY <1>2, <2>1 DEF Settled
  <1>3. file # Torn => RowsRight(file)
    BY DEF IInv, RowLink
  <1>4. ASSUME NEW p \in Proc, job[p] # None, Midway(job[p]) PROVE Midway(job[p])'
    <2>1. PICK j : j = job[p]
      OBVIOUS
    <2>2. RowRight(j.dev, j.row) /\ RowsRight(j.rows) /\ j.dev \in Enrollment
      BY <1>4, <2>1 DEF IInv, RowLink, StoreTypes, Job
    <2>3. j.dev # e
      BY <2>2 DEF RowRight
    <2>4. PICK rows, f, d : rows = j.rows /\ f = file /\ d = j.dev
      OBVIOUS
    <2>5. /\ Settled(rows, {}) => Settled(rows, {})'
          /\ file # Torn /\ Settled(f, {}) => Settled(f, {})'
          /\ file # Torn /\ Settled(f, {d}) => Settled(f, {d})'
      BY <1>2, <1>3, <2>2, <2>4
    <2>6. Midway(j)'
      BY <1>4, <2>1, <2>2, <2>3, <2>4, <2>5 DEF Midway
    <2> QED BY <2>1, <2>6
  <1>5. ~overlapped /\ ~Busy => (file # Torn /\ Settled(file, {}))'
    <2>1. PICK f : f = file
      OBVIOUS
    <2>2. file # Torn /\ Settled(f, {}) => Settled(f, {})'
      BY <1>2, <1>3, <2>1
    <2> QED BY <2>1, <2>2 DEF SInv
  <1> QED BY <1>1, <1>4, <1>5 DEF SInv, Busy, Idle

\* Operations begin one after another, or overlap.
LEMMA BeginsAlone ==
  ASSUME IInv, SInv, NEW p \in Proc, NEW j, job[p] = None, job' = [job EXCEPT ![p] = j],
         overlapped' = (overlapped \/ Busy), UNCHANGED <<enrollments, file, returned, revoked, crashes>>,
         j.step = "read",
         ~overlapped /\ ~Busy => /\ j.op = "approve" => j.dev \notin revoked
                                 /\ j.op = "revoke" => enrollments[j.dev] = None /\ j.row.revoked = TRUE
  PROVE  SInv'
  <1>1. RestTypes'
    <2>1. overlapped' \in BOOLEAN
      BY Zenon
    <2> QED BY <2>1 DEF SInv, RestTypes
  <1>2. CASE overlapped \/ Busy
    BY <1>1, <1>2 DEF SInv
  <1>3. CASE ~overlapped /\ ~Busy
    <2>1. job'[p] = j /\ \A q \in Proc : q # p => job'[q] = None
      BY <1>3 DEF IInv, StoreTypes, Busy, Idle
    <2>2. file # Torn /\ Settled(file, {})
      BY <1>3 DEF SInv
    <2>3. (file # Torn /\ Settled(file, {}))'
      BY <2>2 DEF Settled
    <2>4. Midway(j)'
      <3>1. /\ j.op = "approve" => j.dev \notin revoked'
            /\ j.op = "revoke" => enrollments'[j.dev] = None /\ j.row.revoked = TRUE
        BY <1>3
      <3>2. j.step = "read" /\ j.step # "truncate" /\ j.step # "write" /\ j.step # "delete"
        OBVIOUS
      <3> QED BY <2>3, <3>1, <3>2 DEF Midway
    <2>5. ASSUME NEW q \in Proc, job'[q] # None PROVE Midway(job[q])'
      <3>1. q = p /\ job'[q] = j
        BY <2>1, <2>5
      <3> QED BY <2>4, <3>1
    <2> QED BY <1>1, <2>1, <2>3, <2>5 DEF SInv
  <1> QED BY <1>2, <1>3

\* Every step keeps the store as it should be, unless operations overlap.
LEMMA SerialStep ==
  ASSUME IInv, SInv, [Next]_vars
  PROVE  SInv'
  <1>1. /\ StoreTypes /\ RestTypes /\ job \in [Proc -> Job \cup {None}] /\ file \in Rows \cup {Torn}
        /\ enrollments \in [Enrollment -> Pending \cup {None}]
    BY DEF IInv, StoreTypes, SInv
  <1>2. ASSUME UNCHANGED <<enrollments, file, job, returned, revoked, overlapped, crashes>> PROVE SInv'
    BY <1>2 DEF SInv, RestTypes, Busy, Idle, Midway, Settled
  <1>3. ASSUME NEW e \in Enrollment, NEW req \in Request, NEW gate, origin[e] = None,
               SaveEnrollment(e, req, gate) \/ UNCHANGED enrollments,
               UNCHANGED <<file, job, returned, revoked, overlapped, crashes>>
        PROVE  SInv'
    <2>1. \A d \in Enrollment : d # e => enrollments'[d] = enrollments[d]
      BY <1>1, <1>3 DEF SaveEnrollment
    <2> QED BY <1>3, <2>1, SavedElsewhere
  <1>4. ASSUME NEW p \in Proc, NEW e \in Enrollment, approve(p, e) PROVE SInv'
    <2> DEFINE j == [op |-> "approve", step |-> "read", dev |-> e, row |-> NewRow(e), rows |-> NoRows]
    <2>1. /\ job[p] = None /\ enrollments[e] # None /\ job' = [job EXCEPT ![p] = j]
          /\ overlapped' = (overlapped \/ Busy) /\ UNCHANGED <<enrollments, file, returned, revoked, crashes>>
      BY <1>4 DEF approve, Begin, Idle
    <2>2. j.op = "approve" /\ j.step = "read" /\ j.dev = e
      OBVIOUS
    <2> HIDE DEF j
    <2>3. ~overlapped /\ ~Busy => e \notin revoked
      BY <2>1 DEF SInv, Settled
    <2> QED BY <2>1, <2>2, <2>3, BeginsAlone
  <1>5. ASSUME NEW p \in Proc, NEW e \in Enrollment, revoke(p, e) PROVE SInv'
    <2>1. file # Torn /\ file[e] # None /\ file[e] \in Row
      BY <1>1, <1>5 DEF revoke, Rows
    <2>2. PICK row : row = [file[e] EXCEPT !.revoked = TRUE] /\ row.revoked = TRUE
      <3>1. PICK r \in Row : r = file[e]
        BY <2>1
      <3>2. [r EXCEPT !.revoked = TRUE].revoked = TRUE
        BY DEF Row
      <3> QED BY <3>1, <3>2
    <2> DEFINE j == [op |-> "revoke", step |-> "read", dev |-> e, row |-> row, rows |-> NoRows]
    <2>3. /\ job[p] = None /\ job' = [job EXCEPT ![p] = j]
          /\ overlapped' = (overlapped \/ Busy) /\ UNCHANGED <<enrollments, file, returned, revoked, crashes>>
      BY <1>5, <2>2 DEF revoke, Begin, Idle
    <2>4. j.op = "revoke" /\ j.step = "read" /\ j.dev = e /\ j.row = row
      OBVIOUS
    <2> HIDE DEF j
    <2>5. ~overlapped /\ ~Busy => enrollments[e] = None
      BY <2>1 DEF SInv, Settled
    <2> QED BY <2>2, <2>3, <2>4, <2>5, BeginsAlone
  <1>6. ASSUME NEW p \in Proc, ReadPeer(p) PROVE SInv'
    <2>1. /\ job[p] # None /\ job[p] \in Job /\ job[p].step = "read"
          /\ UNCHANGED <<enrollments, file, returned, revoked, overlapped, crashes>>
      BY <1>1, <1>6 DEF ReadPeer, Step, Idle, history
    <2>2. PICK rows \in Rows : rows = load_peer_raw
      BY <1>1 DEF load_peer_raw, NoRows, Rows
    <2>3. PICK j : /\ j = [job[p] EXCEPT !.step = "truncate", !.rows = rows] /\ j \in Job
                   /\ j.op = job[p].op /\ j.dev = job[p].dev /\ j.row = job[p].row
                   /\ j.step = "truncate" /\ j.rows = rows
      <3>1. PICK k \in Job : k = job[p]
        BY <2>1
      <3>2. [k EXCEPT !.step = "truncate", !.rows = rows] \in Job
        BY DEF Job
      <3>3. PICK j : j = [k EXCEPT !.step = "truncate", !.rows = rows]
        OBVIOUS
      <3>4. j.op = k.op /\ j.dev = k.dev /\ j.row = k.row /\ j.step = "truncate" /\ j.rows = rows
        BY <3>3 DEF Job
      <3> QED BY <3>1, <3>2, <3>3, <3>4
    <2>4. job' = [job EXCEPT ![p] = j]
      BY <1>1, <1>6, <2>2, <2>3 DEF ReadPeer
    <2>5. ~overlapped => Midway(j)'
      <3> SUFFICES ASSUME ~overlapped PROVE Midway(j)'
        OBVIOUS
      <3>1. Midway(job[p])
        BY <2>1 DEF SInv
      <3>2. file # Torn /\ Settled(file, {}) /\ rows = file
        BY <2>1, <2>2, <3>1 DEF Midway, load_peer_raw
      <3>3. (file # Torn /\ Settled(file, {}))'
        BY <2>1, <3>2 DEF Settled
      <3>4. /\ j.op = "approve" => j.dev \notin revoked'
            /\ j.op = "revoke" => enrollments'[j.dev] = None /\ j.row.revoked = TRUE
        BY <2>1, <2>3, <3>1 DEF Midway
      <3> QED BY <2>1, <2>3, <3>2, <3>3, <3>4 DEF Midway
    <2>6. RestTypes' /\ j # None
      BY <1>1, <2>1, <2>3, PairingAssumption DEF RestTypes
    <2> QED BY <2>1, <2>4, <2>5, <2>6, OneMoves
  <1>7. ASSUME NEW p \in Proc, TruncatePeer(p) PROVE SInv'
    <2>1. /\ job[p] # None /\ job[p] \in Job /\ job[p].step = "truncate" /\ file' = Torn
          /\ UNCHANGED <<enrollments, returned, revoked, overlapped, crashes>>
      BY <1>1, <1>7 DEF TruncatePeer, Step, Idle, history
    <2>2. PICK j : /\ j = [job[p] EXCEPT !.step = "write"] /\ j \in Job
                   /\ j.op = job[p].op /\ j.dev = job[p].dev /\ j.row = job[p].row
                   /\ j.step = "write" /\ j.rows = job[p].rows
      <3>1. PICK k \in Job : k = job[p]
        BY <2>1
      <3>2. [k EXCEPT !.step = "write"] \in Job
        BY DEF Job
      <3> QED BY <3>1, <3>2 DEF Job
    <2>3. job' = [job EXCEPT ![p] = j]
      BY <1>1, <1>7, <2>2 DEF TruncatePeer
    <2>4. ~overlapped => Midway(j)'
      <3> SUFFICES ASSUME ~overlapped PROVE Midway(j)'
        OBVIOUS
      <3>1. Midway(job[p])
        BY <2>1 DEF SInv
      <3>2. Settled(j.rows, {})
        BY <2>1, <2>2, <3>1 DEF Midway
      <3>3. Settled(j.rows, {})'
        BY <2>1, <3>2 DEF Settled
      <3>4. /\ j.op = "approve" => j.dev \notin revoked'
            /\ j.op = "revoke" => enrollments'[j.dev] = None /\ j.row.revoked = TRUE
        BY <2>1, <2>2, <3>1 DEF Midway
      <3> QED BY <2>1, <2>2, <3>3, <3>4 DEF Midway
    <2>5. RestTypes' /\ j # None
      BY <1>1, <2>1, <2>2, PairingAssumption DEF RestTypes
    <2> QED BY <2>1, <2>3, <2>4, <2>5, OneMoves
  <1>8. ASSUME NEW p \in Proc, WritePeer(p) PROVE SInv'
    <2>1. /\ job[p] # None /\ job[p] \in Job /\ job[p].step = "write"
          /\ UNCHANGED <<enrollments, returned, overlapped, crashes>>
      BY <1>1, <1>8 DEF WritePeer, Step, Idle
    <2>2. PICK d \in Enrollment, row \in Row, rows \in Rows :
              d = job[p].dev /\ row = job[p].row /\ rows = job[p].rows
      BY <2>1 DEF Job
    <2>3. PICK new \in Rows : new = [rows EXCEPT ![d] = row]
      BY DEF Rows
    <2>4. new[d] = row /\ row # None /\ \A e \in Enrollment : e # d => new[e] = rows[e]
      BY <2>3, PairingAssumption DEF Rows
    <2>5. file' = new \/ (file # Torn /\ file' = Torn)
      BY <1>8, <2>2, <2>3 DEF WritePeer
    <2>6. ~overlapped => /\ Midway(job[p]) /\ file' = new /\ new # Torn /\ Settled(rows, {})
      <3>1. ~overlapped => Midway(job[p])
        BY <2>1 DEF SInv
      <3>2. ~overlapped => file = Torn /\ Settled(rows, {})
        BY <2>1, <2>2, <3>1 DEF Midway
      <3> QED BY <2>3, <2>5, <3>1, <3>2, PairingAssumption
    <2>7. CASE job[p].op = "approve"
      <3>1. PICK j : /\ j = [job[p] EXCEPT !.step = "delete"] /\ j \in Job
                     /\ j.op = "approve" /\ j.dev = d /\ j.step = "delete"
        <4>1. PICK k \in Job : k = job[p]
          BY <2>1
        <4>2. [k EXCEPT !.step = "delete"] \in Job
          BY DEF Job
        <4> QED BY <2>2, <2>7, <4>1, <4>2 DEF Job
      <3>2. job' = [job EXCEPT ![p] = j] /\ revoked' = revoked
        BY <1>1, <1>8, <2>7, <3>1 DEF WritePeer
      <3>3. ~overlapped => Midway(j)'
        <4> SUFFICES ASSUME ~overlapped PROVE Midway(j)'
          OBVIOUS
        <4>1. d \notin revoked /\ Settled(rows, {})
          BY <2>2, <2>6, <2>7 DEF Midway
        <4>2. Settled(new, {d})'
          BY <1>1, <2>1, <2>4, <3>2, <4>1 DEF Settled, RestTypes
        <4>3. (file # Torn /\ file[d] # None /\ Settled(file, {d}))'
          BY <2>4, <2>6, <4>2
        <4>4. j.dev \notin revoked'
          BY <3>1, <3>2, <4>1
        <4> QED BY <3>1, <4>3, <4>4 DEF Midway
      <3>4. RestTypes' /\ j # None
        BY <1>1, <2>1, <3>1, <3>2, PairingAssumption DEF RestTypes
      <3> QED BY <2>1, <3>2, <3>3, <3>4, OneMoves
    <2>8. CASE job[p].op # "approve"
      <3>1. job[p].op = "revoke"
        BY <2>1, <2>8 DEF Job
      <3>2. job' = [job EXCEPT ![p] = None] /\ revoked' = revoked \cup {d}
        BY <1>8, <2>2, <2>8 DEF WritePeer
      <3>3. ~overlapped => (file # Torn /\ Settled(file, {}))'
        <4> SUFFICES ASSUME ~overlapped PROVE (file # Torn /\ Settled(file, {}))'
          OBVIOUS
        <4>1. enrollments[d] = None /\ row.revoked = TRUE /\ Settled(rows, {})
          BY <2>2, <2>6, <3>1 DEF Midway
        <4>2. Settled(new, {})'
          BY <1>1, <2>1, <2>4, <3>2, <4>1 DEF Settled, RestTypes
        <4> QED BY <2>6, <4>2
      <3>4. RestTypes'
        BY <1>1, <2>1, <3>2 DEF RestTypes
      <3>5. PICK j : j = None
        OBVIOUS
      <3> QED BY <2>1, <3>2, <3>3, <3>4, <3>5, OneMoves
    <2> QED BY <2>7, <2>8
  <1>9. ASSUME NEW p \in Proc, FinishApprove(p) PROVE SInv'
    <2>1. /\ job[p] # None /\ job[p] \in Job /\ job[p].step = "delete"
          /\ UNCHANGED <<file, revoked, overlapped, crashes>>
      BY <1>1, <1>9 DEF FinishApprove, Step, Idle
    <2>2. PICK d \in Enrollment : d = job[p].dev
      BY <2>1 DEF Job
    <2>3. /\ enrollments' = [enrollments EXCEPT ![d] = None] /\ returned' = returned \cup {d}
          /\ job' = [job EXCEPT ![p] = None]
      BY <1>9, <2>2 DEF FinishApprove, delete_enrollment
    <2>4. ~overlapped => (file # Torn /\ Settled(file, {}))'
      <3> SUFFICES ASSUME ~overlapped PROVE (file # Torn /\ Settled(file, {}))'
        OBVIOUS
      <3>1. Midway(job[p])
        BY <2>1 DEF SInv
      <3>2. file # Torn /\ file[d] # None /\ Settled(file, {d})
        BY <2>1, <2>2, <3>1 DEF Midway
      <3>3. \A e \in Enrollment : e # d => enrollments'[e] = enrollments[e]
        BY <1>1, <2>3
      <3>4. enrollments'[d] = None
        BY <1>1, <2>3
      <3> QED BY <2>1, <2>3, <3>2, <3>3, <3>4 DEF Settled
    <2>5. RestTypes'
      BY <1>1, <2>1, <2>3 DEF RestTypes
    <2>6. PICK j : j = None
      OBVIOUS
    <2> QED BY <2>1, <2>3, <2>4, <2>5, <2>6, OneMoves
  <1>10. ASSUME NEW p \in Proc, Crash(p) PROVE SInv'
    BY <1>1, <1>10 DEF Crash, SInv, RestTypes
  <1>11. CASE \/ \E w \in Window, n \in Nonce : open_window(w, n)
              \/ \E n \in Nonce : open(n)
              \/ close \/ Tick \/ UNCHANGED vars
    BY <1>2, <1>11 DEF open_window, open, close, Tick, vars, history
  <1>12. ASSUME NEW e \in Enrollment, NEW req \in Request, NEW n \in Nonce \cup {None},
                NEW no \in 1..MaxAttempts, enroll_device(e, req, n, no)
         PROVE  SInv'
    <2>1. PICK gate : gate = [window |-> window.id, nonce |-> n, at |-> now]
      OBVIOUS
    <2> QED BY <1>3, <1>12, <2>1 DEF enroll_device
  <1>13. ASSUME NEW e \in Enrollment, NEW req \in Request, enroll_device_ungated(e, req)
         PROVE  SInv'
    BY <1>3, <1>13 DEF enroll_device_ungated
  <1> QED BY <1>4, <1>5, <1>6, <1>7, <1>8, <1>9, <1>10, <1>11, <1>12, <1>13 DEF Next

LEMMA SerialInit == Init => SInv
  <1> SUFFICES ASSUME Init PROVE SInv
    OBVIOUS
  <1>1. NoRows # Torn
    BY PairingAssumption DEF NoRows, Rows
  <1> QED BY <1>1 DEF Init, SInv, RestTypes, Busy, Idle, Settled, NoRows

LEMMA AllAlways == Spec => [](IInv /\ WInv /\ SInv)
  <1>1. Init => IInv /\ WInv /\ SInv
    BY InitHolds, WindowInit, SerialInit
  <1>2. (IInv /\ WInv /\ SInv) /\ [Next]_vars => (IInv /\ WInv /\ SInv)'
    BY NextPreserves, WindowStep, SerialStep
  <1> QED BY <1>1, <1>2, PTL DEF Spec

-----------------------------------------------------------------------------
\* Every variable of the pairing kernel always holds a value of its type.
THEOREM PairingTypeCorrect == Spec => []TypeOK
  <1>1. IInv /\ WInv /\ SInv => TypeOK
    BY DEF IInv, WInv, SInv, StoreTypes, WindowTypes, RestTypes, TypeOK
  <1> QED BY <1>1, AllAlways, PTL

\* EvidenceBacked for every instance: whatever approvals, revocations, lost
\* updates, torn files and crashes do to the peer file, a device that satisfies a
\* mode was approved and enrolled with the evidence enroll_device() asks for.
THEOREM Evidenced == Spec => []EvidenceBacked
  BY AllAlways, InvariantGivesEvidence, PTL

\* SerialStoreIsSafe for every instance: the peer file is rewritten without a lock or a
\* rename, yet as long as no two of approve() and revoke() overlap and none is cut short
\* it always parses between them, lists every approved device, and keeps every revoked
\* one revoked.
THEOREM SerialStoreLosesNothing == Spec => []SerialStoreIsSafe
  <1>1. SInv => SerialStoreIsSafe
    BY DEF SInv, Settled, SerialStoreIsSafe
  <1> QED BY <1>1, AllAlways, PTL

\* WindowBounds for every instance: however windows are opened, closed and reopened,
\* attempts spread over time and enrollments fail on their evidence, check() and
\* consume() let through at most max_accepts per nonce and max_attempts per window in
\* any throttle_window.
THEOREM WindowsAreBounded == Spec => []WindowBounds
  <1>1. WInv => WindowBounds
    <2> SUFFICES ASSUME WInv PROVE WindowBounds
      OBVIOUS
    <2>1. AcceptBound /\ RateBound /\ now \in Nat
      BY DEF WInv, WindowTypes
    <2> QED BY <2>1 DEF AcceptBound, RateBound, AdmittedBy, Within, WindowBounds
  <1> QED BY <1>1, AllAlways, PTL

=============================================================================
