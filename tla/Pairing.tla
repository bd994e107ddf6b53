------------------------------- MODULE Pairing -------------------------------
(***************************************************************************)
(* The device-pairing kernel, capauth/pairing: the operator's pairing       *)
(* window (window.py), enroll_device, approve and revoke (kernel.py) and    *)
(* the files they keep (store.py).                                          *)
(*                                                                          *)
(* The window is an object of one process.  The store is files, which any   *)
(* number of processes (services, the command line) read and rewrite        *)
(* without a lock: approve and revoke are split at every file access.  The  *)
(* model has the peer file of one subject, with a row per device; another   *)
(* subject's file is independent of it.                                     *)
(***************************************************************************)
EXTENDS Integers, FiniteSets

CONSTANTS
    None,
    Torn,          \* the content of a file that is no JSON
    Proc,          \* processes that approve and revoke
    Enrollment,    \* enrollment ids, which become device ids: uuid4 draws
    Nonce,         \* window nonces: random draws
    Window,        \* window ids: uuid4 draws
    Key,           \* public keys, of devices and of operators
    window_ttl, max_accepts, throttle_window, max_attempts,
    MaxTime, MaxAttempts, MaxCrashes   \* bounds of the model

Mode == {"verified", "attested", "tofu"}
\* A request to enroll: who signed the challenge of its mode (None: nobody did),
\* the operator key sent along, and whether the subject has a canonical form.
\* Evidence that the mode does not look at is left out.
Request ==
    {r \in [key : Key, mode : Mode, signer : Key \cup {None},
            operator : Key \cup {None}, named : BOOLEAN] :
        (r.mode = "tofu" => r.signer = None) /\ (r.mode # "attested" => r.operator = None)}
\* An attempt that is counted: its time, and what tells it from others of that time.
Attempt == [at : Nat, no : 1..MaxAttempts]
\* The window object; attempts are those counted so far.
WindowState == [id : Window, nonce : Nonce \cup {None}, expires : Nat, accepts : Nat,
                attempts : SUBSET Attempt]
Pending == [key : Key, mode : Mode]
Row == [key : Key, mode : Mode, revoked : BOOLEAN]
Rows == [Enrollment -> Row \cup {None}]
\* An operation under way: its device, the row it will write, the rows it read.
Job == [op : {"approve", "revoke"}, step : {"read", "truncate", "write", "delete"},
        dev : Enrollment, row : Row, rows : Rows]
\* How an enrollment came about.
Origin == [mode : Mode, key : Key, signer : Key \cup {None}, operator : Key \cup {None}]
\* How it got through a window.
Passage == [window : Window, nonce : Nonce, at : Nat]

ASSUME PairingAssumption ==
    /\ window_ttl \in Nat /\ max_accepts \in Nat
    /\ throttle_window \in Nat /\ max_attempts \in Nat
    /\ MaxTime \in Nat /\ MaxAttempts \in Nat /\ MaxCrashes \in Nat
    /\ None \notin Key /\ None \notin Nonce /\ None \notin Window
    /\ None \notin Pending /\ None \notin Row /\ None \notin Job
    /\ None \notin Origin /\ None \notin Passage /\ None \notin WindowState /\ Torn \notin Rows

VARIABLES
    now,
    window,      \* the PairingWindow, or None before the first
    enrollments, \* the pending enrollment files
    file,        \* the peer file: its rows, or Torn
    job,         \* what each process is doing, or None
    drawn,       \* history: the nonces and window ids in use so far
    origin,      \* history: how each enrollment came about, or None
    passage,     \* history: how it got through a window, or None
    approved,    \* history: enrollments whose approval began
    returned,    \* history: devices whose approve() returned
    revoked,     \* history: devices whose revoke() returned
    overlapped,  \* history: two operations overlapped, or one was cut short
    crashes

history == <<origin, passage, approved, returned, revoked, overlapped>>
vars == <<now, window, enrollments, file, job, drawn, history, crashes>>

NoRows == [e \in Enrollment |-> None]

Init ==
    /\ now = 0
    /\ window = None
    /\ enrollments = [e \in Enrollment |-> None]
    /\ file = NoRows
    /\ job = [p \in Proc |-> None]
    /\ drawn = {}
    /\ origin = [e \in Enrollment |-> None] /\ passage = [e \in Enrollment |-> None]
    /\ approved = {} /\ returned = {} /\ revoked = {} /\ overlapped = FALSE
    /\ crashes = 0

-----------------------------------------------------------------------------
(* window.py                                                                *)

\* open_window(): a new window object, open, which knows of no attempts.
open_window(w, n) ==
    /\ {w, n} \cap drawn = {}
    /\ drawn' = drawn \cup {w, n}
    /\ window' = [id |-> w, nonce |-> n, expires |-> now + window_ttl, accepts |-> 0,
                  attempts |-> {}]
    /\ UNCHANGED <<now, enrollments, file, job, history, crashes>>

\* open(): a new nonce and expiry and no accepts, but the attempts are kept.
\* (The variant forgets them.)
reopenedFresh(n) ==
    [window EXCEPT !.nonce = n, !.expires = now + window_ttl, !.accepts = 0, !.attempts = {}]
reopened(n) ==
    [window EXCEPT !.nonce = n, !.expires = now + window_ttl, !.accepts = 0]

open(n) ==
    /\ window # None /\ n \notin drawn
    /\ drawn' = drawn \cup {n}
    /\ window' = reopened(n)
    /\ UNCHANGED <<now, enrollments, file, job, history, crashes>>

closed(w) == [w EXCEPT !.nonce = None, !.expires = 0]

close ==
    /\ window # None /\ window.nonce # None
    /\ window' = closed(window)
    /\ UNCHANGED <<now, enrollments, file, job, drawn, history, crashes>>

is_open(w) == w.nonce # None /\ now < w.expires

\* _throttled(): every attempt is recorded, and old ones are forgotten.
attempted(w, no) ==
    [w EXCEPT !.attempts = {a \in @ : a.at > now - throttle_window} \cup {[at |-> now, no |-> no]}]

\* check(): rate limit, window, nonce, accept cap.
check(w, nonce) ==
    /\ Cardinality(w.attempts) <= max_attempts
    /\ is_open(w)
    /\ nonce = w.nonce
    /\ w.accepts < max_accepts

\* consume(): the window closes at the cap.
consume(w) ==
    LET counted == [w EXCEPT !.accepts = @ + 1]
    IN  IF counted.accepts >= max_accepts THEN closed(counted) ELSE counted

-----------------------------------------------------------------------------
(* kernel.py: enroll_device                                                 *)

\* _proof_verifies() with the key the mode asks for.  (The variant takes
\* the signature of anyone.)
EvidenceOfAnyone(req) == req.mode # "tofu" => req.signer # None
Evidence(req) ==
    /\ req.mode = "verified" => req.signer = req.key
    /\ req.mode = "attested" => req.operator # None /\ req.signer = req.operator

\* The enrollment is saved when its subject resolves and its evidence holds.
SaveEnrollment(e, req, gate) ==
    IF req.named /\ Evidence(req)
    THEN /\ enrollments' = [enrollments EXCEPT ![e] = [key |-> req.key, mode |-> req.mode]]
         /\ origin' = [origin EXCEPT ![e] =
                [mode |-> req.mode, key |-> req.key, signer |-> req.signer,
                 operator |-> req.operator]]
         /\ passage' = [passage EXCEPT ![e] = gate]
    ELSE UNCHANGED <<enrollments, origin, passage>>

\* Through the window.  It runs in one process and its only file access is the
\* write of a new file at the end.  The accept is consumed before the evidence is
\* looked at.
enroll_device(e, req, nonce, no) ==
    /\ origin[e] = None
    /\ window # None /\ [at |-> now, no |-> no] \notin window.attempts
    /\ LET tried == attempted(window, no)
       IN  IF check(tried, nonce)
           THEN /\ window' = consume(tried)
                /\ SaveEnrollment(e, req, [window |-> window.id, nonce |-> nonce, at |-> now])
           ELSE window' = tried /\ UNCHANGED <<enrollments, origin, passage>>
    /\ UNCHANGED <<now, file, job, drawn, approved, returned, revoked, overlapped, crashes>>

\* Without a window the enrollment is not gated.
enroll_device_ungated(e, req) ==
    /\ origin[e] = None
    /\ SaveEnrollment(e, req, None)
    /\ UNCHANGED <<now, window, file, job, drawn, approved, returned, revoked, overlapped,
                   crashes>>

-----------------------------------------------------------------------------
(* kernel.py: approve and revoke, and upsert_device() of store.py           *)

Idle(p) == job[p] = None
Busy == \E p \in Proc : ~Idle(p)

\* A process begins to write row for device e; upsert_device() comes next.
Begin(p, op, e, row) ==
    /\ job' = [job EXCEPT ![p] =
                 [op |-> op, step |-> "read", dev |-> e, row |-> row, rows |-> NoRows]]
    /\ overlapped' = (overlapped \/ Busy)

\* approve(): load_enrollment().
NewRow(e) == [key |-> enrollments[e].key, mode |-> enrollments[e].mode, revoked |-> FALSE]

approve(p, e) ==
    /\ Idle(p) /\ enrollments[e] # None
    /\ Begin(p, "approve", e, NewRow(e))
    /\ approved' = approved \cup {e}
    /\ UNCHANGED <<now, window, enrollments, file, drawn, origin, passage, returned, revoked,
                   crashes>>

\* revoke(): find_device(), which skips a file it cannot parse.
revoke(p, e) ==
    /\ Idle(p) /\ file # Torn /\ file[e] # None
    /\ Begin(p, "revoke", e, [file[e] EXCEPT !.revoked = TRUE])
    /\ UNCHANGED <<now, window, enrollments, file, drawn, origin, passage, approved, returned,
                   revoked, crashes>>

Step(p, step) == ~Idle(p) /\ job[p].step = step

\* The rows upsert_device() starts from: none when the file does not parse.
load_peer_raw == IF file = Torn THEN NoRows ELSE file

ReadPeer(p) ==
    /\ Step(p, "read")
    /\ job' = [job EXCEPT ![p].step = "truncate", ![p].rows = load_peer_raw]
    /\ UNCHANGED <<now, window, enrollments, file, drawn, history, crashes>>

\* write_text(): opening the file for writing empties it ...
TruncatePeer(p) ==
    /\ Step(p, "truncate")
    /\ job' = [job EXCEPT ![p].step = "write"]
    /\ file' = Torn
    /\ UNCHANGED <<now, window, enrollments, drawn, history, crashes>>

\* ... and the text is written over whatever another process wrote meanwhile; a
\* shorter text leaves the end of a longer one.
WritePeer(p) ==
    /\ Step(p, "write")
    /\ LET new == [job[p].rows EXCEPT ![job[p].dev] = job[p].row]
       IN  file' \in IF file = Torn THEN {new} ELSE {new, Torn}
    /\ IF job[p].op = "approve"
       THEN job' = [job EXCEPT ![p].step = "delete"] /\ UNCHANGED revoked
       ELSE job' = [job EXCEPT ![p] = None] /\ revoked' = revoked \cup {job[p].dev}
    /\ UNCHANGED <<now, window, enrollments, drawn, origin, passage, approved, returned,
                   overlapped, crashes>>

\* approve(): delete_enrollment() and the return.  (The variant forgets to delete.)
enrollmentsKept(e) == enrollments
delete_enrollment(e) == [enrollments EXCEPT ![e] = None]

FinishApprove(p) ==
    /\ Step(p, "delete")
    /\ enrollments' = delete_enrollment(job[p].dev)
    /\ returned' = returned \cup {job[p].dev}
    /\ job' = [job EXCEPT ![p] = None]
    /\ UNCHANGED <<now, window, file, drawn, origin, passage, approved, revoked, overlapped,
                   crashes>>

\* A process dies in the middle of an operation.
Crash(p) ==
    /\ ~Idle(p) /\ crashes < MaxCrashes
    /\ crashes' = crashes + 1
    /\ job' = [job EXCEPT ![p] = None]
    /\ overlapped' = TRUE
    /\ UNCHANGED <<now, window, enrollments, file, drawn, origin, passage, approved, returned,
                   revoked>>

Tick ==
    /\ now < MaxTime
    /\ now' = now + 1
    /\ UNCHANGED <<window, enrollments, file, job, drawn, history, crashes>>

Next ==
    \/ \E w \in Window, n \in Nonce : open_window(w, n)
    \/ \E n \in Nonce : open(n)
    \/ close
    \/ \E e \in Enrollment, req \in Request, n \in Nonce \cup {None}, no \in 1..MaxAttempts :
            enroll_device(e, req, n, no)
    \/ \E e \in Enrollment, req \in Request : enroll_device_ungated(e, req)
    \/ \E p \in Proc, e \in Enrollment : approve(p, e)
    \/ \E p \in Proc, e \in Enrollment : revoke(p, e)
    \/ \E p \in Proc : ReadPeer(p)
    \/ \E p \in Proc : TruncatePeer(p)
    \/ \E p \in Proc : WritePeer(p)
    \/ \E p \in Proc : FinishApprove(p)
    \/ \E p \in Proc : Crash(p)
    \/ Tick

Spec == Init /\ [][Next]_vars

-----------------------------------------------------------------------------
(* records.py                                                               *)

MODE_SEVERITY == [tofu |-> 1, attested |-> 2, verified |-> 3]
mode_satisfies(mode, minimum) == MODE_SEVERITY[mode] >= MODE_SEVERITY[minimum]

\* DeviceRecord.satisfies(), of the device as list_devices() reports it.
satisfies(e, minimum) ==
    /\ file # Torn /\ file[e] # None
    /\ ~file[e].revoked /\ mode_satisfies(file[e].mode, minimum)

-----------------------------------------------------------------------------
\* Every variable holds a value of its type.
TypeOK ==
    /\ now \in Nat /\ crashes \in Nat /\ overlapped \in BOOLEAN
    /\ window \in WindowState \cup {None}
    /\ enrollments \in [Enrollment -> Pending \cup {None}]
    /\ file \in Rows \cup {Torn}
    /\ job \in [Proc -> Job \cup {None}]
    /\ drawn \subseteq Nonce \cup Window
    /\ origin \in [Enrollment -> Origin \cup {None}]
    /\ passage \in [Enrollment -> Passage \cup {None}]
    /\ approved \subseteq Enrollment /\ returned \subseteq Enrollment
    /\ revoked \subseteq Enrollment

\* Whatever processes do to the files, a device counts for a mode only if its
\* enrollment was approved and came with the evidence of that mode: its own key's
\* signature for verified, the signature of the operator key named in it for
\* attested.
EvidenceBacked ==
    \A e \in Enrollment :
        /\ satisfies(e, "tofu") => e \in approved
        /\ satisfies(e, "attested") =>
              origin[e].signer \in {origin[e].key, origin[e].operator} \ {None}
        /\ satisfies(e, "verified") =>
              origin[e].signer = file[e].key /\ origin[e].key = file[e].key

\* An opened window admits at most max_accepts enrollments, and a window object at
\* most max_attempts in any throttle_window, however often it is reopened.
WindowBounds ==
    /\ \A n \in Nonce :
          Cardinality({e \in Enrollment : passage[e] # None /\ passage[e].nonce = n})
              <= max_accepts
    /\ \A w \in Window, t \in 0..now :
          Cardinality({e \in Enrollment :
                          /\ passage[e] # None /\ passage[e].window = w
                          /\ passage[e].at \in t..(t + throttle_window - 1)})
              <= max_attempts

\* As long as approvals and revocations follow one another and none is cut short,
\* the store loses nothing: an approved device is listed, a revoked one stays
\* revoked (its enrollment cannot be approved again).
SerialStoreIsSafe ==
    ~overlapped /\ ~Busy =>
        /\ file # Torn
        /\ \A e \in returned : file[e] # None
        /\ \A e \in revoked : file[e] # None /\ file[e].revoked
=============================================================================
