-------------------------------- MODULE Bunker --------------------------------
(***************************************************************************)
(* The remote-signer broker, capauth/service/bunker.py, and its websocket   *)
(* endpoint bunker_ws of capauth/service/app.py.                            *)
(*                                                                          *)
(* Three things run side by side: the event loop, on which every websocket  *)
(* has a handler task; the writer thread, which writes queued snapshots of  *)
(* the sessions to disk; and the network, which closes sockets.  A handler  *)
(* runs without interruption from one await to the next.  The broker's lock *)
(* is released before a handler awaits a send, so what a handler has yet to *)
(* send (outbox) is overtaken by whatever the other handlers do meanwhile.  *)
(* The process can die at any step and is then restarted from the disk.     *)
(***************************************************************************)
EXTENDS Integers, Sequences, FiniteSets

CONSTANTS
    None,
    Session,      \* session ids: random, never drawn twice
    Socket,       \* websocket connections
    RequestId,    \* ids of the client's sign_request / enc messages
    TTL,          \* SESSION_TTL_SECONDS
    MaxSessions,  \* max_sessions
    DiskErrors,   \* whether _write_store may fail (it swallows the error)
    MaxTime, MaxCrashes   \* bounds of the model

Role == {"client", "signer"}
Other(role) == IF role = "client" THEN "signer" ELSE "client"

\* to_record(): the part of a session that is persisted.  The sockets are not.
Record == [createdAt : Nat, seen : SUBSET RequestId]
Snapshot == [Session -> Record \cup {None}]
Connection == [session : Session, role : Role]
\* A send a handler still has to do: a guarded request, or (id None) an event of
\* the broker or a message the replay guard does not look at.
Send == [to : Socket, id : RequestId \cup {None}]

ASSUME BunkerAssumption ==
    /\ TTL \in Nat /\ MaxSessions \in Nat /\ MaxTime \in Nat /\ MaxCrashes \in Nat
    /\ DiskErrors \in BOOLEAN
    /\ None \notin Record /\ None \notin Connection
    /\ None \notin Socket /\ None \notin RequestId /\ None \notin Nat

VARIABLES
    now,
    sessions,  \* _sessions, the durable part
    peers,     \* _sessions[s].peers: the socket of each role, or None
    queue,     \* _write_q: snapshots the writer thread has yet to write
    disk,      \* the store file
    failed,    \* the last write of the store failed
    state,     \* of a socket: "new", "open", "closed" (by the network),
               \* "leaving" (its handler still has to notify the peer), "gone"
    conn,      \* the session and role its handler joined, or None
    outbox,    \* what its handler has yet to send
    drawn,     \* history: when the session was created, or None
    admitted,  \* history: <<session, id>> the replay guard let pass
    relayed,   \* history: how often a request reached a signer
    lost,      \* history: admitted requests the disk did not know at a crash
    crashes

store == <<sessions, queue, disk, failed>>
net == <<state, conn, outbox>>
history == <<drawn, admitted, relayed, lost>>
vars == <<now, store, peers, net, history, crashes>>

NoPeers == [r \in Role |-> None]

Init ==
    /\ now = 0
    /\ sessions = [s \in Session |-> None]
    /\ peers = [s \in Session |-> NoPeers]
    /\ queue = <<>>
    /\ disk = [s \in Session |-> None] /\ failed = FALSE
    /\ state = [k \in Socket |-> "new"]
    /\ conn = [k \in Socket |-> None]
    /\ outbox = [k \in Socket |-> <<>>]
    /\ drawn = [s \in Session |-> None]
    /\ relayed = [s \in Session |-> [r \in RequestId |-> 0]]
    /\ admitted = {} /\ lost = {}
    /\ crashes = 0

-----------------------------------------------------------------------------
Live(s) == sessions[s] # None
is_expired(record) == now - record.createdAt >= TTL
Expired(s) == Live(s) /\ is_expired(sessions[s])

\* The sessions without those in S; their peers dict goes with them.  (The
\* variant forgets the sockets of a dropped session.)
Drop(S) == [s \in Session |-> IF s \in S THEN None ELSE sessions[s]]
KeepPeers(S) == peers
DropPeers(S) == [s \in Session |-> IF s \in S THEN NoPeers ELSE peers[s]]

\* _persist() on the event loop: the snapshot is queued for the writer thread.
\* (The variant does not persist.)
persistNothing(snapshot) == UNCHANGED queue
persist(snapshot) == queue' = Append(queue, snapshot)

\* The test of the cap.
AtCapacity(kept) == Cardinality({d \in Session : kept[d] # None}) >= MaxSessions

\* POST /bunker/session: create_session() with its _gc() sweep.  At the cap the
\* sweep still happens; a session that is dropped and one that is created are
\* each followed by a snapshot.
create_session(s) ==
    LET dead == {d \in Session : Expired(d)}
        kept == Drop(dead)
        swept == IF dead = {} THEN queue ELSE Append(queue, kept)
        new == [kept EXCEPT ![s] = [createdAt |-> now, seen |-> {}]]
    IN  /\ drawn[s] = None
        /\ IF AtCapacity(kept)
           THEN sessions' = kept /\ queue' = swept /\ UNCHANGED drawn
           ELSE sessions' = new /\ queue' = Append(swept, new) /\ drawn' = [drawn EXCEPT ![s] = now]
        /\ peers' = DropPeers(dead)
        /\ UNCHANGED <<now, disk, failed, net, admitted, relayed, lost, crashes>>

\* get_session() met an expired session: it is dropped and the drop persisted.
DropExpired(s) ==
    /\ sessions' = Drop({s})
    /\ peers' = DropPeers({s})
    /\ persist(Drop({s}))

\* bunker_ws accepts a socket and joins with the right pairing secret (any
\* other is refused and changes nothing).  A refused socket is closed.
join(k, s, role) ==
    /\ state[k] = "new"
    /\ Live(s)
    /\ IF Expired(s)
       THEN DropExpired(s) /\ state' = [state EXCEPT ![k] = "gone"]
                           /\ UNCHANGED <<conn, outbox>>
       ELSE IF peers[s][role] # None
       THEN /\ state' = [state EXCEPT ![k] = "gone"]
            /\ UNCHANGED <<sessions, peers, queue, conn, outbox>>
       ELSE LET mate == peers[s][Other(role)]
            IN  /\ peers' = [peers EXCEPT ![s][role] = k]
                /\ state' = [state EXCEPT ![k] = "open"]
                /\ conn' = [conn EXCEPT ![k] = [session |-> s, role |-> role]]
                \* _broadcast_paired(): the peer that was there first, first
                /\ outbox' = IF mate = None THEN outbox
                             ELSE [outbox EXCEPT ![k] =
                                     <<[to |-> mate, id |-> None],
                                       [to |-> k, id |-> None]>>]
                /\ UNCHANGED <<sessions, queue>>
    /\ UNCHANGED <<now, disk, failed, drawn, admitted, relayed, lost, crashes>>

\* The handler of socket k is waiting in receive_json().  (In the variant it
\* waits for ever once its session is gone.)
ReceivingWhileLive(k) == conn[k] # None /\ outbox[k] = <<>> /\ Live(conn[k].session)
Receiving(k) == conn[k] # None /\ outbox[k] = <<>>

\* Which messages the replay guard looks at, and when it turns one away.
Guarded(role, id) == id # None /\ role = "client"
Duplicate(s, id) == id \in sessions[s].seen

\* relay(): a message with a request id (only the client's is guarded) or one
\* without.  The id is recorded, and the record persisted, before the handler
\* finds out whether the other peer is there.
relay(k, id) ==
    LET s == conn[k].session
        role == conn[k].role
        target == peers[s][Other(role)]
        grown == [sessions EXCEPT ![s].seen = @ \cup {id}]
        guarded == Guarded(role, id)
    IN  /\ state[k] = "open" /\ Receiving(k)
        /\ Live(s)
        /\ IF Expired(s) THEN DropExpired(s) /\ UNCHANGED <<outbox, admitted>>
           ELSE /\ guarded => ~Duplicate(s, id)
                /\ IF guarded THEN sessions' = grown /\ persist(grown)
                              ELSE UNCHANGED <<sessions, queue>>
                /\ outbox' = IF target = None THEN outbox
                             ELSE [outbox EXCEPT ![k] =
                                     <<[to |-> target, id |-> IF guarded THEN id ELSE None]>>]
                /\ admitted' = IF guarded THEN admitted \cup {<<s, id>>} ELSE admitted
                /\ UNCHANGED peers
        /\ UNCHANGED <<now, disk, failed, state, conn, drawn, relayed, lost,
                       crashes>>

\* The handler's next awaited send completes; _safe_send swallows the failure
\* of one to a socket that is not open any more.
SendNext(k) ==
    LET m == Head(outbox[k])
        arrives == state[m.to] = "open"
    IN  /\ outbox[k] # <<>>
        /\ outbox' = [outbox EXCEPT ![k] = Tail(@)]
        /\ relayed' = IF arrives /\ m.id # None
                      THEN [relayed EXCEPT ![conn[k].session][m.id] = @ + 1] ELSE relayed
        \* a handler that left has nothing to do after its last send
        /\ state' = IF state[k] = "leaving" /\ Len(outbox[k]) = 1
                    THEN [state EXCEPT ![k] = "gone"] ELSE state
        /\ UNCHANGED <<now, store, peers, conn, drawn, admitted, lost, crashes>>

\* The network closes the socket; its handler learns of it in receive_json(),
\* once it has read what had arrived before (which relay() takes first).
Close(k) ==
    /\ state[k] = "open"
    /\ state' = [state EXCEPT ![k] = "closed"]
    /\ UNCHANGED <<now, store, peers, conn, outbox, history, crashes>>

\* A peer connects again.  The name of a socket that is gone is used for the new one
\* once no handler has a send to it left.
Reconnect(k) ==
    /\ state[k] = "gone"
    /\ \A h \in Socket : \A i \in DOMAIN outbox[h] : outbox[h][i].to # k
    /\ state' = [state EXCEPT ![k] = "new"]
    /\ UNCHANGED <<now, store, peers, conn, outbox, history, crashes>>

\* leave(), from the handler's finally block.  The last peer out takes the
\* session with it; a session that is gone already is left alone.
leave(k) ==
    LET s == conn[k].session
        role == conn[k].role
        mate == peers[s][Other(role)]
    IN  /\ state[k] = "closed" /\ Receiving(k)
        /\ IF Live(s) /\ mate = None
           THEN sessions' = Drop({s}) /\ peers' = DropPeers({s}) /\ persist(Drop({s}))
           ELSE /\ peers' = IF Live(s) THEN [peers EXCEPT ![s][role] = None] ELSE peers
                /\ UNCHANGED <<sessions, queue>>
        /\ IF Live(s) /\ mate # None
           THEN /\ outbox' = [outbox EXCEPT ![k] =
                                <<[to |-> mate, id |-> None]>>]
                /\ state' = [state EXCEPT ![k] = "leaving"]
           ELSE state' = [state EXCEPT ![k] = "gone"] /\ UNCHANGED outbox
        /\ conn' = [conn EXCEPT ![k] = None]
        /\ UNCHANGED <<now, disk, failed, history, crashes>>

-----------------------------------------------------------------------------
\* The writer thread: tmp file and os.replace(), so the file changes at once.
WriteStore ==
    /\ queue # <<>>
    /\ disk' = Head(queue) /\ failed' = FALSE
    /\ queue' = Tail(queue)
    /\ UNCHANGED <<now, sessions, peers, net, history, crashes>>

\* The same when the disk fails: logged, and the snapshot is dropped.
WriteFails ==
    /\ DiskErrors /\ queue # <<>>
    /\ queue' = Tail(queue) /\ failed' = TRUE
    /\ UNCHANGED <<now, sessions, disk, peers, net, history, crashes>>

\* A faulty variant: the replay guard is not read back.
ReloadedWithoutGuard == [s \in Session |->
    IF disk[s] # None /\ ~is_expired(disk[s]) THEN [disk[s] EXCEPT !.seen = {}] ELSE None]

\* _load_store(): what is on disk and not expired, written back inline (unless
\* that write fails).
Reloaded == [s \in Session |->
    IF disk[s] # None /\ ~is_expired(disk[s]) THEN disk[s] ELSE None]

\* The process dies, with its sockets and the queue, and a new one starts.
Restart ==
    /\ crashes < MaxCrashes
    /\ crashes' = crashes + 1
    /\ sessions' = Reloaded
    /\ \/ disk' = Reloaded /\ failed' = FALSE
       \/ DiskErrors /\ failed' = TRUE /\ UNCHANGED disk
    /\ queue' = <<>>
    /\ peers' = [s \in Session |-> NoPeers]
    /\ state' = [k \in Socket |-> IF state[k] = "new" THEN "new" ELSE "gone"]
    /\ outbox' = [k \in Socket |-> <<>>]
    /\ conn' = [k \in Socket |-> None]
    /\ lost' = lost \cup {p \in admitted : disk[p[1]] # None
                                             /\ p[2] \notin disk[p[1]].seen}
    /\ UNCHANGED <<now, drawn, admitted, relayed>>

Tick ==
    /\ now < MaxTime
    /\ now' = now + 1
    /\ UNCHANGED <<store, peers, net, history, crashes>>

Next ==
    \/ \E s \in Session : create_session(s)
    \/ \E k \in Socket, s \in Session, r \in Role : join(k, s, r)
    \/ \E k \in Socket, id \in RequestId \cup {None} : relay(k, id)
    \/ \E k \in Socket : SendNext(k)
    \/ \E k \in Socket : Close(k)
    \/ \E k \in Socket : Reconnect(k)
    \/ \E k \in Socket : leave(k)
    \/ WriteStore
    \/ WriteFails
    \/ Restart
    \/ Tick

Spec == Init /\ [][Next]_vars

\* The event loop runs every ready task, an awaited send ends (the peer takes it
\* or it fails), a handler notices that its socket closed, and the writer thread
\* is never starved.  Nothing makes peers connect, speak or stay.
FairSpec ==
    /\ Spec
    /\ \A k \in Socket : WF_vars(SendNext(k)) /\ WF_vars(leave(k))
    /\ WF_vars(WriteStore)

-----------------------------------------------------------------------------
\* Every variable holds a value of its type.
TypeOK ==
    /\ now \in Nat /\ crashes \in Nat
    /\ sessions \in Snapshot /\ disk \in Snapshot /\ queue \in Seq(Snapshot)
    /\ failed \in BOOLEAN
    /\ peers \in [Session -> [Role -> Socket \cup {None}]]
    /\ state \in [Socket -> {"new", "open", "closed", "leaving", "gone"}]
    /\ conn \in [Socket -> Connection \cup {None}]
    /\ outbox \in [Socket -> Seq(Send)]
    /\ drawn \in [Session -> Nat \cup {None}]
    /\ admitted \subseteq Session \X RequestId /\ lost \subseteq Session \X RequestId
    /\ relayed \in [Session -> [RequestId -> Nat]]

\* No change of a session that must survive a restart goes unpersisted: after
\* every handler (create, the expiry sweep, a grown replay guard, the last peer
\* leaving) the newest snapshot on its way to the disk is the sessions in memory,
\* and once all are written so is the disk, unless the last write failed.
StoreCatchesUp ==
    IF queue # <<>> THEN queue[Len(queue)] = sessions
                    ELSE failed \/ disk = sessions

\* A request of the client reaches a signer at most once in the lifetime of its
\* session, retries and restarts included, unless a crash beat the writer thread
\* to the very snapshot that recorded the request.
ReplayGuardHolds ==
    \A s \in Session, r \in RequestId : <<s, r>> \notin lost => relayed[s][r] <= 1

\* A role of a session is only ever held by a connected socket whose handler will
\* give it back: no expiry, takeover or late leave() strands a role as taken.
RolesAreHeld ==
    \A s \in Session, r \in Role :
        LET k == peers[s][r]
        IN  k # None => /\ Live(s)
                        /\ conn[k] = [session |-> s, role |-> r]
                        /\ state[k] \in {"open", "closed"}

\* A connection the network dropped is eventually cleaned up: its handler leaves
\* the session, so the role it held is free for the peer that reconnects.
ClosedSocketIsReleased ==
    \A k \in Socket : state[k] = "closed" ~> state[k] = "gone"

\* A request the guard admitted is eventually, and for good, known to the disk,
\* unless its session is gone from there, the last write failed or a crash lost it.
GuardBecomesDurable ==
    \A s \in Session, r \in RequestId :
        <<s, r>> \in admitted ~>
            [](disk[s] = None \/ r \in disk[s].seen \/ failed \/ <<s, r>> \in lost)

\* What the class comment promises of a restart: when everything had been written
\* before the process died, every session that had not expired is there again with
\* its replay guard, so that its peers rejoin it instead of getting unknown_session.
PairingSurvivesCrash ==
    [][crashes' # crashes /\ queue = <<>> /\ ~failed =>
         \A s \in Session : Live(s) /\ ~Expired(s) => sessions'[s] = sessions[s]]_vars

\* What the broker may be trusted with across a restart: what it admitted reaches the
\* disk in the end, and what was on the disk comes back.
StoreIsDurable == GuardBecomesDurable /\ PairingSurvivesCrash
=============================================================================
