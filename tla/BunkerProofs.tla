----------------------------- MODULE BunkerProofs -----------------------------
(***************************************************************************)
(* Proofs about the remote-signer broker, for any number of sessions,       *)
(* sockets, requests, crashes and disk failures: the store follows the      *)
(* memory, a role is held by a connected socket, and a request reaches a    *)
(* signer at most once.                                                     *)
(***************************************************************************)
EXTENDS Bunker, SequenceTheorems, TLAPS

-----------------------------------------------------------------------------
\* Types.

\* What the steps make of the sessions, the peers and the queue has their types.
LEMMA Pieces ==
  ASSUME TypeOK
  PROVE  /\ \A S : Drop(S) \in Snapshot
         /\ \A S : DropPeers(S) \in [Session -> [Role -> Socket \cup {None}]]
         /\ Reloaded \in Snapshot
         /\ \A q \in Seq(Snapshot), x \in Snapshot : Append(q, x) \in Seq(Snapshot)
  <1>1. \A S : Drop(S) \in Snapshot
    BY DEF TypeOK, Drop, Snapshot
  <1>2. \A S : DropPeers(S) \in [Session -> [Role -> Socket \cup {None}]]
    BY DEF TypeOK, DropPeers, NoPeers
  <1>3. Reloaded \in Snapshot
    BY DEF TypeOK, Reloaded, Snapshot
  <1> QED BY <1>1, <1>2, <1>3, AppendProperties

\* A change of one value of a function of functions.
LEMMA Inner ==
  ASSUME NEW A, NEW B, NEW C, NEW f \in [A -> [B -> C]], NEW a \in A, NEW b \in B, NEW v \in C
  PROVE  LET g == [f EXCEPT ![a][b] = v]
         IN  /\ g \in [A -> [B -> C]]
             /\ \A x \in A, y \in B : g[x][y] = IF x = a /\ y = b THEN v ELSE f[x][y]
  <1> DEFINE h == [f[a] EXCEPT ![b] = v]
  <1>1. h \in [B -> C] /\ \A y \in B : h[y] = IF y = b THEN v ELSE f[a][y]
    OBVIOUS
  <1> HIDE DEF h
  <1>2. LET g == [f EXCEPT ![a] = h]
        IN  g \in [A -> [B -> C]] /\ \A x \in A : g[x] = IF x = a THEN h ELSE f[x]
    BY <1>1
  <1> QED BY <1>1, <1>2 DEF h

\* The sessions when the replay guard of one has grown.
LEMMA Grown ==
  ASSUME TypeOK, NEW s \in Session, sessions[s] # None, NEW id \in RequestId
  PROVE  LET grown == [sessions EXCEPT ![s].seen = @ \cup {id}]
         IN  /\ grown \in Snapshot
             /\ grown[s] # None /\ grown[s].seen = sessions[s].seen \cup {id}
             /\ \A t \in Session \ {s} : grown[t] = sessions[t]
  <1> DEFINE r == sessions[s]
             x == [r EXCEPT !.seen = @ \cup {id}]
  <1>1. r \in Record
    BY DEF TypeOK, Snapshot
  <1>2. x \in Record /\ x.seen = r.seen \cup {id}
    BY <1>1 DEF Record
  <1>3. x # None
    BY <1>2, BunkerAssumption
  <1> HIDE DEF x
  <1>4. LET g == [sessions EXCEPT ![s] = x]
        IN  g \in Snapshot /\ g[s] = x /\ \A t \in Session \ {s} : g[t] = sessions[t]
    BY <1>2 DEF TypeOK, Snapshot
  <1> QED BY <1>2, <1>3, <1>4 DEF x

\* The variables have their types at first,
LEMMA InitTyped == Init => TypeOK
  <1> SUFFICES ASSUME Init PROVE TypeOK
    OBVIOUS
  <1>1. /\ now \in Nat /\ crashes \in Nat /\ failed \in BOOLEAN
        /\ state \in [Socket -> {"new", "open", "closed", "leaving", "gone"}]
        /\ conn \in [Socket -> Connection \cup {None}] /\ drawn \in [Session -> Nat \cup {None}]
        /\ admitted \subseteq Session \X RequestId /\ lost \subseteq Session \X RequestId
    BY DEF Init
  <1>2. sessions \in Snapshot /\ disk \in Snapshot /\ queue \in Seq(Snapshot)
    BY EmptySeq DEF Init, Snapshot
  <1>3. peers \in [Session -> [Role -> Socket \cup {None}]]
    BY DEF Init, NoPeers
  <1>4. outbox \in [Socket -> Seq(Send)]
    BY EmptySeq DEF Init
  <1>5. relayed \in [Session -> [RequestId -> Nat]]
    BY DEF Init
  <1> QED BY <1>1, <1>2, <1>3, <1>4, <1>5 DEF TypeOK

\* and each handler, the writer thread, a crash and time keep them.
LEMMA TypeStep ==
  ASSUME TypeOK, [Next]_vars
  PROVE  TypeOK'
  <1> USE BunkerAssumption
  <1>1. ASSUME NEW s \in Session, create_session(s) PROVE TypeOK'
    <2> DEFINE dead == {d \in Session : Expired(d)}
               kept == Drop(dead)
               new == [kept EXCEPT ![s] = [createdAt |-> now, seen |-> {}]]
               swept == IF dead = {} THEN queue ELSE Append(queue, kept)
    <2>1. kept \in Snapshot /\ DropPeers(dead) \in [Session -> [Role -> Socket \cup {None}]]
      BY Pieces
    <2>2. new \in Snapshot
      <3>1. [createdAt |-> now, seen |-> {}] \in Record
        BY DEF TypeOK, Record
      <3> HIDE DEF kept
      <3> QED BY <2>1, <3>1 DEF Snapshot
    <2>3. swept \in Seq(Snapshot)
      BY <2>1, Pieces DEF TypeOK
    <2>4. /\ \/ sessions' = kept /\ queue' = swept /\ UNCHANGED drawn
             \/ sessions' = new /\ queue' = Append(swept, new) /\ drawn' = [drawn EXCEPT ![s] = now]
          /\ peers' = DropPeers(dead)
          /\ UNCHANGED <<now, disk, failed, net, admitted, relayed, lost, crashes>>
      BY <1>1 DEF create_session
    <2> HIDE DEF dead, kept, new, swept
    <2>5. Append(swept, new) \in Seq(Snapshot)
      BY <2>2, <2>3, Pieces
    <2>6. sessions' \in Snapshot /\ queue' \in Seq(Snapshot) /\ drawn' \in [Session -> Nat \cup {None}]
      <3>1. sessions' \in Snapshot /\ queue' \in Seq(Snapshot)
        BY <2>1, <2>2, <2>3, <2>4, <2>5
      <3>2. drawn \in [Session -> Nat \cup {None}] /\ now \in Nat
        BY DEF TypeOK
      <3>3. drawn' \in [Session -> Nat \cup {None}]
        BY <2>4, <3>2
      <3> QED BY <3>1, <3>3
    <2>7. /\ UNCHANGED <<now, disk, failed, state, conn, outbox, admitted, relayed, lost, crashes>>
          /\ peers' \in [Session -> [Role -> Socket \cup {None}]]
      BY <2>1, <2>4 DEF net
    <2> QED BY <2>6, <2>7 DEF TypeOK
  <1>2. ASSUME NEW k \in Socket, NEW s \in Session, NEW r \in Role, join(k, s, r) PROVE TypeOK'
    <2>0. Drop({s}) \in Snapshot /\ DropPeers({s}) \in [Session -> [Role -> Socket \cup {None}]]
          /\ Append(queue, Drop({s})) \in Seq(Snapshot)
      BY Pieces DEF TypeOK
    <2>1. CASE Expired(s)
      BY <1>2, <2>0, <2>1 DEF join, DropExpired, persist, TypeOK
    <2>2. CASE ~Expired(s) /\ peers[s][r] # None
      BY <1>2, <2>2 DEF join, TypeOK
    <2>3. CASE ~Expired(s) /\ peers[s][r] = None
      <3> DEFINE mate == peers[s][Other(r)]
                 c == [session |-> s, role |-> r]
                 sends == <<[to |-> mate, id |-> None], [to |-> k, id |-> None]>>
      <3>1. mate \in Socket \cup {None} /\ c \in Connection
        BY DEF TypeOK, Other, Role, Connection
      <3>2. mate # None => sends \in Seq(Send)
        BY <3>1 DEF Send
      <3>3. /\ peers' = [peers EXCEPT ![s][r] = k]
            /\ state' = [state EXCEPT ![k] = "open"]
            /\ conn' = [conn EXCEPT ![k] = c]
            /\ outbox' = IF mate = None THEN outbox ELSE [outbox EXCEPT ![k] = sends]
            /\ UNCHANGED <<sessions, queue, now, disk, failed, drawn, admitted, relayed, lost, crashes>>
        BY <1>2, <2>3 DEF join
      <3> HIDE DEF mate, c, sends
      <3>4. peers' \in [Session -> [Role -> Socket \cup {None}]]
        BY <3>3, Inner DEF TypeOK
      <3> QED BY <3>1, <3>2, <3>3, <3>4 DEF TypeOK
    <2> QED BY <2>1, <2>2, <2>3
  <1>3. ASSUME NEW k \in Socket, NEW id \in RequestId \cup {None}, relay(k, id) PROVE TypeOK'
    <2> DEFINE s == conn[k].session
               role == conn[k].role
               target == peers[s][Other(role)]
               grown == [sessions EXCEPT ![s].seen = @ \cup {id}]
               m == <<[to |-> target, id |-> IF Guarded(role, id) THEN id ELSE None]>>
    <2>1. s \in Session /\ role \in Role /\ sessions[s] # None
      BY <1>3 DEF relay, Receiving, TypeOK, Connection, Live
    <2>2. target \in Socket \cup {None}
      BY <2>1 DEF TypeOK, Other, Role
    <2>3. Guarded(role, id) => grown \in Snapshot /\ Append(queue, grown) \in Seq(Snapshot) /\ id \in RequestId
      BY <2>1, Grown, Pieces DEF Guarded, TypeOK
    <2>4. target # None => m \in Seq(Send)
      BY <2>2 DEF Send
    <2>5. Drop({s}) \in Snapshot /\ DropPeers({s}) \in [Session -> [Role -> Socket \cup {None}]]
          /\ Append(queue, Drop({s})) \in Seq(Snapshot)
      BY Pieces DEF TypeOK
    <2>6. /\ UNCHANGED <<now, disk, failed, state, conn, drawn, relayed, lost, crashes>>
          /\ \/ DropExpired(s) /\ UNCHANGED <<outbox, admitted>>
             \/ /\ IF Guarded(role, id) THEN sessions' = grown /\ queue' = Append(queue, grown)
                                        ELSE UNCHANGED <<sessions, queue>>
                /\ outbox' = IF target = None THEN outbox ELSE [outbox EXCEPT ![k] = m]
                /\ admitted' = IF Guarded(role, id) THEN admitted \cup {<<s, id>>} ELSE admitted
                /\ UNCHANGED peers
      BY <1>3 DEF relay, persist
    <2> HIDE DEF s, role, target, grown, m
    <2>7. /\ sessions' \in Snapshot /\ queue' \in Seq(Snapshot)
          /\ peers' \in [Session -> [Role -> Socket \cup {None}]]
      BY <2>3, <2>5, <2>6 DEF TypeOK, DropExpired, persist
    <2>8. outbox' \in [Socket -> Seq(Send)] /\ admitted' \subseteq Session \X RequestId
      <3>1. admitted' = admitted \/ (id \in RequestId /\ admitted' = admitted \cup {<<s, id>>})
        BY <2>3, <2>6
      <3>2. outbox' = outbox \/ (m \in Seq(Send) /\ outbox' = [outbox EXCEPT ![k] = m])
        BY <2>4, <2>6
      <3>3. admitted \subseteq Session \X RequestId /\ outbox \in [Socket -> Seq(Send)]
        BY DEF TypeOK
      <3>4. admitted' \subseteq Session \X RequestId
        BY <2>1, <3>1, <3>3
      <3>5. outbox' \in [Socket -> Seq(Send)]
        BY <3>2, <3>3
      <3> QED BY <3>4, <3>5
    <2> QED BY <2>6, <2>7, <2>8 DEF TypeOK
  <1>4. ASSUME NEW k \in Socket, SendNext(k) PROVE TypeOK'
    <2> DEFINE m == Head(outbox[k])
               s == conn[k].session
    <2>1. m \in Send /\ Tail(outbox[k]) \in Seq(Send)
      BY <1>4, HeadTailProperties DEF SendNext, TypeOK
    <2>2. /\ outbox' = [outbox EXCEPT ![k] = Tail(outbox[k])]
          /\ \/ m.id # None /\ relayed' = [relayed EXCEPT ![s][m.id] = @ + 1]
             \/ relayed' = relayed
          /\ state' = [state EXCEPT ![k] = "gone"] \/ state' = state
          /\ UNCHANGED <<now, store, peers, conn, drawn, admitted, lost, crashes>>
      BY <1>4 DEF SendNext
    <2> HIDE DEF m, s
    <2>3. relayed' \in [Session -> [RequestId -> Nat]]
      <3>1. CASE m.id # None /\ s \in Session /\ relayed' = [relayed EXCEPT ![s][m.id] = @ + 1]
        <4>1. m.id \in RequestId /\ relayed[s][m.id] + 1 \in Nat
          BY <2>1, <3>1 DEF Send, TypeOK
        <4> QED BY <3>1, <4>1, Inner DEF TypeOK
      <3>2. CASE s \notin Session /\ relayed' = [relayed EXCEPT ![s][m.id] = @ + 1]
        BY <3>2 DEF TypeOK
      <3> QED BY <2>2, <3>1, <3>2 DEF TypeOK
    <2> QED BY <2>1, <2>2, <2>3 DEF TypeOK, store
  <1>5. ASSUME NEW k \in Socket, Close(k) PROVE TypeOK'
    BY <1>5 DEF Close, TypeOK, store, history
  <1>6. ASSUME NEW k \in Socket, Reconnect(k) PROVE TypeOK'
    BY <1>6 DEF Reconnect, TypeOK, store, history
  <1>7. ASSUME NEW k \in Socket, leave(k) PROVE TypeOK'
    <2> DEFINE s == conn[k].session
               role == conn[k].role
               mate == peers[s][Other(role)]
    <2>1. s \in Session /\ role \in Role
      BY <1>7 DEF leave, Receiving, TypeOK, Connection
    <2>2. mate \in Socket \cup {None}
      BY <2>1 DEF TypeOK, Other, Role
    <2>3. mate # None => <<[to |-> mate, id |-> None]>> \in Seq(Send)
      BY <2>2 DEF Send
    <2>4. Drop({s}) \in Snapshot /\ DropPeers({s}) \in [Session -> [Role -> Socket \cup {None}]]
          /\ Append(queue, Drop({s})) \in Seq(Snapshot)
      BY Pieces DEF TypeOK
    <2>5. /\ UNCHANGED <<now, disk, failed, history, crashes>>
          /\ conn' = [conn EXCEPT ![k] = None]
          /\ \/ sessions' = Drop({s}) /\ peers' = DropPeers({s}) /\ queue' = Append(queue, Drop({s}))
             \/ /\ peers' = [peers EXCEPT ![s][role] = None] \/ peers' = peers
                /\ UNCHANGED <<sessions, queue>>
          /\ \/ /\ mate # None
                /\ outbox' = [outbox EXCEPT ![k] = <<[to |-> mate, id |-> None]>>]
                /\ state' = [state EXCEPT ![k] = "leaving"]
             \/ state' = [state EXCEPT ![k] = "gone"] /\ UNCHANGED outbox
      BY <1>7 DEF leave, persist
    <2> HIDE DEF s, role, mate
    <2>6. peers' \in [Session -> [Role -> Socket \cup {None}]]
      <3>1. [peers EXCEPT ![s][role] = None] \in [Session -> [Role -> Socket \cup {None}]]
        BY <2>1, Inner DEF TypeOK
      <3> QED BY <2>4, <2>5, <3>1 DEF TypeOK
    <2>7. sessions' \in Snapshot /\ queue' \in Seq(Snapshot)
      BY <2>4, <2>5 DEF TypeOK
    <2>8. /\ outbox' \in [Socket -> Seq(Send)] /\ conn' \in [Socket -> Connection \cup {None}]
          /\ state' \in [Socket -> {"new", "open", "closed", "leaving", "gone"}]
      BY <2>3, <2>5, ZenonT(40) DEF TypeOK
    <2> QED BY <2>5, <2>6, <2>7, <2>8 DEF TypeOK, history
  <1>8. CASE WriteStore
    <2>1. Head(queue) \in Snapshot /\ Tail(queue) \in Seq(Snapshot)
      BY <1>8, HeadTailProperties DEF WriteStore, TypeOK
    <2> QED BY <1>8, <2>1 DEF WriteStore, TypeOK, net, history
  <1>9. CASE WriteFails
    <2>1. Tail(queue) \in Seq(Snapshot)
      BY <1>9, HeadTailProperties DEF WriteFails, TypeOK
    <2> QED BY <1>9, <2>1 DEF WriteFails, TypeOK, net, history
  <1>10. CASE Restart
    <2>1. Reloaded \in Snapshot /\ << >> \in Seq(Snapshot) /\ << >> \in Seq(Send)
      BY Pieces, EmptySeq
    <2>2. peers' \in [Session -> [Role -> Socket \cup {None}]]
      BY <1>10 DEF Restart, NoPeers
    <2>3. /\ sessions' \in Snapshot /\ disk' \in Snapshot /\ queue' \in Seq(Snapshot)
          /\ failed' \in BOOLEAN /\ crashes' \in Nat
      <3>1. /\ sessions' = Reloaded /\ queue' = << >> /\ crashes' = crashes + 1
            /\ (disk' = Reloaded /\ failed' = FALSE) \/ (failed' = TRUE /\ disk' = disk)
        BY <1>10 DEF Restart
      <3>2. failed' \in BOOLEAN
        BY <3>1, Zenon
      <3>5. crashes' \in Nat
        BY <3>1 DEF TypeOK
      <3>3. sessions' \in Snapshot /\ queue' \in Seq(Snapshot)
        BY <2>1, <3>1
      <3>4. disk' \in Snapshot
        BY <2>1, <3>1 DEF TypeOK
      <3> QED BY <3>2, <3>3, <3>4, <3>5
    <2>5. lost' \subseteq Session \X RequestId
      BY <1>10 DEF Restart, TypeOK
    <2>4. /\ state' \in [Socket -> {"new", "open", "closed", "leaving", "gone"}]
          /\ conn' \in [Socket -> Connection \cup {None}] /\ outbox' \in [Socket -> Seq(Send)]
      BY <1>10, <2>1 DEF Restart, TypeOK
    <2> QED BY <1>10, <2>2, <2>3, <2>4, <2>5 DEF Restart, TypeOK
  <1>11. CASE Tick
    BY <1>11 DEF Tick, TypeOK, store, net, history
  <1>12. CASE UNCHANGED vars
    BY <1>12 DEF vars, TypeOK, store, net, history
  <1> QED BY <1>1, <1>2, <1>3, <1>4, <1>5, <1>6, <1>7, <1>8, <1>9, <1>10, <1>11, <1>12 DEF Next

\* Every variable of the broker keeps its type, whatever the network, the disk and crashes do.
THEOREM BunkerTypeCorrect == Spec => []TypeOK
  BY InitTyped, TypeStep, PTL DEF Spec

-----------------------------------------------------------------------------
\* The store.

\* What was queued last is last.
LEMMA QueuedLast ==
  ASSUME NEW q \in Seq(Snapshot), NEW x \in Snapshot
  PROVE  Append(q, x) # << >> /\ Append(q, x)[Len(Append(q, x))] = x
  <1>1. Len(Append(q, x)) = Len(q) + 1 /\ Len(q) \in Nat /\ Append(q, x)[Len(q) + 1] = x
    BY AppendProperties, LenProperties
  <1> QED BY <1>1, AppendProperties

\* The writer thread takes the first snapshot and leaves the last, unless it is the same.
LEMMA OneWritten ==
  ASSUME NEW q \in Seq(Snapshot), q # << >>
  PROVE  IF Tail(q) # << >> THEN Tail(q)[Len(Tail(q))] = q[Len(q)] ELSE Head(q) = q[Len(q)]
  <1>1. /\ Tail(q) \in Seq(Snapshot) /\ Len(Tail(q)) = Len(q) - 1 /\ Head(q) = q[1]
        /\ \A i \in 1..Len(Tail(q)) : Tail(q)[i] = q[i + 1]
        /\ Len(q) \in Nat /\ Len(q) # 0
    BY HeadTailProperties, LenProperties, EmptySeq
  <1>2. CASE Tail(q) = << >>
    <2>1. Len(Tail(q)) = 0
      BY <1>2, EmptySeq
    <2>2. Len(q) = 1
      <3> DEFINE n == Len(q)
      <3>1. n \in Nat /\ n - 1 = 0
        BY <1>1, <2>1
      <3> HIDE DEF n
      <3>2. n = 1
        BY <3>1
      <3> QED BY <3>2 DEF n
    <2> QED BY <1>1, <1>2, <2>2
  <1>3. CASE Tail(q) # << >>
    <2>1. Len(Tail(q)) # 0
      BY <1>1, <1>3, EmptySeq
    <2>2. Len(Tail(q)) \in 1..Len(Tail(q)) /\ Len(Tail(q)) + 1 = Len(q)
      BY <1>1, <2>1
    <2> QED BY <1>1, <1>3, <2>2
  <1> QED BY <1>2, <1>3

\* A step that queues the sessions it makes, or changes neither.
LEMMA QueuedOrNot ==
  ASSUME TypeOK, TypeOK', StoreCatchesUp,
         \/ \E q \in Seq(Snapshot) : queue' = Append(q, sessions')
         \/ UNCHANGED <<sessions, queue, disk, failed>>
  PROVE  StoreCatchesUp'
  <1>1. ASSUME NEW q \in Seq(Snapshot), queue' = Append(q, sessions') PROVE StoreCatchesUp'
    <2>1. sessions' \in Snapshot
      BY DEF TypeOK
    <2> QED BY <1>1, <2>1, QueuedLast DEF StoreCatchesUp
  <1>2. CASE UNCHANGED <<sessions, queue, disk, failed>>
    BY <1>2 DEF StoreCatchesUp
  <1> QED BY <1>1, <1>2

\* Every handler queues the sessions as it leaves them; the writer thread and a restart catch up.
LEMMA StoreStep ==
  ASSUME TypeOK, StoreCatchesUp, [Next]_vars
  PROVE  StoreCatchesUp'
  <1>0. TypeOK' /\ queue \in Seq(Snapshot)
    BY TypeStep DEF TypeOK
  <1>1. ASSUME NEW s \in Session, create_session(s) PROVE StoreCatchesUp'
    <2> DEFINE dead == {d \in Session : Expired(d)}
               kept == Drop(dead)
               new == [kept EXCEPT ![s] = [createdAt |-> now, seen |-> {}]]
               swept == IF dead = {} THEN queue ELSE Append(queue, kept)
    <2>1. \/ sessions' = kept /\ queue' = swept
          \/ sessions' = new /\ queue' = Append(swept, new)
      BY <1>1 DEF create_session
    <2>2. disk' = disk /\ failed' = failed
      BY <1>1 DEF create_session
    <2>3. swept \in Seq(Snapshot)
      BY <1>0, Pieces
    <2>4. dead = {} => kept = sessions
      BY DEF Drop, TypeOK, Snapshot
    <2>5. dead # {} => swept = Append(queue, kept)
      OBVIOUS
    <2>6. dead = {} => swept = queue
      OBVIOUS
    <2> HIDE DEF dead, kept, new, swept
    <2> QED BY <1>0, <2>1, <2>2, <2>3, <2>4, <2>5, <2>6, QueuedOrNot
  <1>2. ASSUME NEW k \in Socket, NEW s \in Session, NEW r \in Role, join(k, s, r) PROVE StoreCatchesUp'
    <2>1. \/ queue' = Append(queue, sessions')
          \/ UNCHANGED <<sessions, queue, disk, failed>>
      BY <1>2 DEF join, DropExpired, persist
    <2> QED BY <1>0, <2>1, QueuedOrNot
  <1>3. ASSUME NEW k \in Socket, NEW id \in RequestId \cup {None}, relay(k, id) PROVE StoreCatchesUp'
    <2>1. \/ queue' = Append(queue, sessions')
          \/ UNCHANGED <<sessions, queue, disk, failed>>
      BY <1>3 DEF relay, DropExpired, persist
    <2> QED BY <1>0, <2>1, QueuedOrNot
  <1>4. ASSUME NEW k \in Socket, SendNext(k) \/ Close(k) \/ Reconnect(k) PROVE StoreCatchesUp'
    BY <1>4 DEF SendNext, Close, Reconnect, store, StoreCatchesUp
  <1>5. ASSUME NEW k \in Socket, leave(k) PROVE StoreCatchesUp'
    <2>1. \/ queue' = Append(queue, sessions')
          \/ UNCHANGED <<sessions, queue, disk, failed>>
      BY <1>5 DEF leave, persist
    <2> QED BY <1>0, <2>1, QueuedOrNot
  <1>6. CASE WriteStore
    BY <1>0, <1>6, OneWritten DEF WriteStore, StoreCatchesUp
  <1>7. CASE WriteFails
    BY <1>0, <1>7, OneWritten DEF WriteFails, StoreCatchesUp
  <1>8. CASE Restart
    BY <1>8 DEF Restart, StoreCatchesUp
  <1>9. CASE Tick \/ UNCHANGED vars
    BY <1>9 DEF Tick, vars, store, StoreCatchesUp
  <1> QED BY <1>1, <1>2, <1>3, <1>4, <1>5, <1>6, <1>7, <1>8, <1>9 DEF Next

\* No change of a session goes unpersisted: the newest snapshot on its way to the disk is the
\* sessions in memory, and with none on its way the disk is, unless the last write failed.
THEOREM StoreAlwaysCatchesUp == Spec => []StoreCatchesUp
  <1>1. Init => TypeOK /\ StoreCatchesUp
    BY InitTyped DEF Init, StoreCatchesUp
  <1>2. TypeOK /\ StoreCatchesUp /\ [Next]_vars => (TypeOK /\ StoreCatchesUp)'
    BY TypeStep, StoreStep
  <1> QED BY <1>1, <1>2, PTL DEF Spec

\* A crash after which nothing was left to write costs no session that had not expired, nor
\* any of its replay guard.
THEOREM SessionsSurviveCrash == Spec => PairingSurvivesCrash
  <1> DEFINE A == crashes' # crashes /\ queue = << >> /\ ~failed =>
                    \A s \in Session : Live(s) /\ ~Expired(s) => sessions'[s] = sessions[s]
  <1>1. TypeOK /\ StoreCatchesUp /\ [Next]_vars => A
    <2> SUFFICES ASSUME TypeOK, StoreCatchesUp, [Next]_vars, crashes' # crashes, queue = << >>, ~failed,
                        NEW s \in Session, Live(s), ~Expired(s)
                 PROVE  sessions'[s] = sessions[s]
      OBVIOUS
    <2>1. Restart
      BY DEF Next, vars, create_session, join, relay, SendNext, Close, Reconnect, leave, WriteStore,
             WriteFails, Tick
    <2>2. disk = sessions
      BY DEF StoreCatchesUp
    <2> QED BY <2>1, <2>2 DEF Restart, Reloaded, Live, Expired
  <1>2. TypeOK /\ StoreCatchesUp /\ [Next]_vars => [A]_vars
    BY <1>1
  <1>3. Spec => []TypeOK /\ []StoreCatchesUp
    BY BunkerTypeCorrect, StoreAlwaysCatchesUp, PTL
  <1> QED BY <1>2, <1>3, PTL DEF Spec, PairingSurvivesCrash

-----------------------------------------------------------------------------
\* Roles.

\* A handler that joined a session has a socket that it has not left.
ConnLink == \A k \in Socket : conn[k] # None => state[k] \in {"open", "closed"}

\* Sockets come, go and come again so that this stays so.
LEMMA ConnStep ==
  ASSUME TypeOK, ConnLink, [Next]_vars
  PROVE  ConnLink'
  <1> USE DEF ConnLink, TypeOK
  <1>1. ASSUME NEW s \in Session, create_session(s) PROVE ConnLink'
    BY <1>1 DEF create_session, net
  <1>2. ASSUME NEW k \in Socket, NEW s \in Session, NEW r \in Role, join(k, s, r) PROVE ConnLink'
    BY <1>2 DEF join
  <1>3. ASSUME NEW k \in Socket, NEW id \in RequestId \cup {None}, relay(k, id) PROVE ConnLink'
    BY <1>3 DEF relay
  <1>4. ASSUME NEW k \in Socket, SendNext(k) \/ Close(k) \/ Reconnect(k) PROVE ConnLink'
    BY <1>4 DEF SendNext, Close, Reconnect
  <1>5. ASSUME NEW k \in Socket, leave(k) PROVE ConnLink'
    BY <1>5 DEF leave
  <1>6. CASE WriteStore \/ WriteFails \/ Tick \/ UNCHANGED vars
    BY <1>6 DEF WriteStore, WriteFails, Tick, vars, net
  <1>7. CASE Restart
    BY <1>7 DEF Restart
  <1> QED BY <1>1, <1>2, <1>3, <1>4, <1>5, <1>6, <1>7 DEF Next

\* The roles of dropped sessions are dropped with them.
LEMMA DropKeepsRoles ==
  ASSUME TypeOK, RolesAreHeld, NEW S, peers' = DropPeers(S),
         \A t \in Session \ S : Live(t) => sessions'[t] # None,
         \A k \in Socket : state[k] \in {"open", "closed"} => conn'[k] = conn[k] /\ state'[k] = state[k]
  PROVE  RolesAreHeld'
  <1> SUFFICES ASSUME NEW t \in Session, NEW r \in Role, peers'[t][r] # None
               PROVE  /\ sessions'[t] # None
                      /\ conn'[peers'[t][r]] = [session |-> t, role |-> r]
                      /\ state'[peers'[t][r]] \in {"open", "closed"}
    BY DEF RolesAreHeld, Live
  <1>1. t \notin S /\ peers'[t] = peers[t]
    BY DEF DropPeers, NoPeers
  <1>2. peers[t][r] \in Socket
    BY <1>1 DEF TypeOK
  <1> QED BY <1>1, <1>2 DEF RolesAreHeld

\* Sockets that are not connected come and go without a change of roles.
LEMMA OthersKeepRoles ==
  ASSUME TypeOK, RolesAreHeld, UNCHANGED <<sessions, peers, conn>>,
         \A k \in Socket : state[k] \in {"open", "closed"} => state'[k] \in {"open", "closed"}
  PROVE  RolesAreHeld'
  <1> SUFFICES ASSUME NEW t \in Session, NEW r \in Role, peers[t][r] # None
               PROVE  /\ sessions[t] # None
                      /\ conn[peers[t][r]] = [session |-> t, role |-> r]
                      /\ state'[peers[t][r]] \in {"open", "closed"}
    BY DEF RolesAreHeld, Live
  <1>1. peers[t][r] \in Socket
    BY DEF TypeOK
  <1> QED BY <1>1 DEF RolesAreHeld, Live

\* Each step keeps the roles with their holders.
LEMMA RolesStep ==
  ASSUME TypeOK, ConnLink, RolesAreHeld, [Next]_vars
  PROVE  RolesAreHeld'
  <1> USE BunkerAssumption
  <1>1. ASSUME NEW s \in Session, create_session(s) PROVE RolesAreHeld'
    <2> DEFINE dead == {d \in Session : Expired(d)}
               kept == Drop(dead)
               new == [kept EXCEPT ![s] = [createdAt |-> now, seen |-> {}]]
    <2>1. peers' = DropPeers(dead) /\ UNCHANGED <<conn, state>> /\ sessions' \in {kept, new}
      BY <1>1 DEF create_session, net
    <2>2. \A t \in Session \ dead : kept[t] = sessions[t]
      BY DEF Drop
    <2>3. [createdAt |-> now, seen |-> {}] # None
      BY DEF TypeOK, Record
    <2>4. kept \in Snapshot
      BY Pieces
    <2>5. \A t \in Session \ dead : Live(t) => new[t] # None
      <3> HIDE DEF kept, dead
      <3> QED BY <2>2, <2>3, <2>4 DEF Live, Snapshot
    <2>6. \A t \in Session \ dead : Live(t) => sessions'[t] # None
      <3> HIDE DEF kept, dead, new
      <3> QED BY <2>1, <2>2, <2>5 DEF Live
    <2> HIDE DEF kept, dead, new
    <2> QED BY <2>1, <2>6, DropKeepsRoles
  <1>2. ASSUME NEW k \in Socket, NEW s \in Session, NEW r \in Role, join(k, s, r) PROVE RolesAreHeld'
    <2>1. CASE Expired(s)
      <3>1. /\ peers' = DropPeers({s}) /\ sessions' = Drop({s}) /\ conn' = conn
            /\ state' = [state EXCEPT ![k] = "gone"] /\ state[k] = "new"
        BY <1>2, <2>1 DEF join, DropExpired
      <3>2. \A t \in Session \ {s} : sessions'[t] = sessions[t]
        BY <3>1 DEF Drop
      <3>3. \A l \in Socket : state[l] \in {"open", "closed"} => conn'[l] = conn[l] /\ state'[l] = state[l]
        BY <3>1 DEF TypeOK
      <3> QED BY <3>1, <3>2, <3>3, DropKeepsRoles DEF Live
    <2>2. CASE ~Expired(s) /\ peers[s][r] # None
      <3>1. /\ UNCHANGED <<sessions, peers, conn>> /\ state[k] = "new"
            /\ state' = [state EXCEPT ![k] = "gone"]
        BY <1>2, <2>2 DEF join
      <3> QED BY <3>1, OthersKeepRoles DEF TypeOK
    <2>3. CASE ~Expired(s) /\ peers[s][r] = None
      <3> DEFINE c == [session |-> s, role |-> r]
      <3>1. /\ peers' = [peers EXCEPT ![s][r] = k] /\ conn' = [conn EXCEPT ![k] = c]
            /\ state' = [state EXCEPT ![k] = "open"] /\ state[k] = "new"
            /\ sessions' = sessions /\ sessions[s] # None
        BY <1>2, <2>3 DEF join, Live
      <3>2. \A t \in Session, q \in Role : peers'[t][q] = IF t = s /\ q = r THEN k ELSE peers[t][q]
        BY <3>1, Inner DEF TypeOK
      <3> SUFFICES ASSUME NEW t \in Session, NEW q \in Role, peers'[t][q] # None
                   PROVE  /\ sessions'[t] # None
                          /\ conn'[peers'[t][q]] = [session |-> t, role |-> q]
                          /\ state'[peers'[t][q]] \in {"open", "closed"}
        BY DEF RolesAreHeld, Live
      <3>3. CASE t = s /\ q = r
        BY <3>1, <3>2, <3>3 DEF TypeOK
      <3>4. CASE ~(t = s /\ q = r)
        <4>1. peers'[t][q] = peers[t][q] /\ peers[t][q] \in Socket
          BY <3>2, <3>4 DEF TypeOK
        <4>2. sessions[t] # None /\ conn[peers[t][q]] = [session |-> t, role |-> q]
              /\ state[peers[t][q]] \in {"open", "closed"}
          BY <4>1 DEF RolesAreHeld, Live
        <4>3. peers[t][q] # k
          BY <3>1, <4>2
        <4> HIDE DEF c
        <4> QED BY <3>1, <4>1, <4>2, <4>3 DEF TypeOK
      <3> QED BY <3>3, <3>4
    <2> QED BY <2>1, <2>2, <2>3
  <1>3. ASSUME NEW k \in Socket, NEW id \in RequestId \cup {None}, relay(k, id) PROVE RolesAreHeld'
    <2> DEFINE s == conn[k].session
    <2>1. s \in Session /\ sessions[s] # None /\ UNCHANGED <<conn, state>>
      BY <1>3 DEF relay, Receiving, TypeOK, Connection, Live
    <2>2. CASE Expired(s)
      <3>1. peers' = DropPeers({s}) /\ sessions' = Drop({s})
        BY <1>3, <2>2 DEF relay, DropExpired
      <3>2. \A t \in Session \ {s} : sessions'[t] = sessions[t]
        BY <3>1 DEF Drop
      <3> QED BY <2>1, <3>1, <3>2, DropKeepsRoles DEF Live
    <2>3. CASE ~Expired(s)
      <3>1. peers' = peers /\ \/ sessions' = sessions
                              \/ id \in RequestId /\ sessions' = [sessions EXCEPT ![s].seen = @ \cup {id}]
        BY <1>3, <2>3 DEF relay, Guarded
      <3> HIDE DEF s
      <3>2. \A t \in Session : Live(t) => sessions'[t] # None
        <4>1. CASE id \in RequestId /\ sessions' = [sessions EXCEPT ![s].seen = @ \cup {id}]
          BY <2>1, <4>1, Grown DEF Live
        <4> QED BY <3>1, <4>1 DEF Live
      <3> QED BY <2>1, <3>1, <3>2 DEF RolesAreHeld, Live
    <2> QED BY <2>2, <2>3
  <1>4. ASSUME NEW k \in Socket, SendNext(k) PROVE RolesAreHeld'
    <2>1. /\ UNCHANGED <<sessions, peers, conn>>
          /\ \/ state' = state
             \/ state[k] = "leaving" /\ state' = [state EXCEPT ![k] = "gone"]
      BY <1>4 DEF SendNext, store
    <2> QED BY <2>1, OthersKeepRoles DEF TypeOK
  <1>5. ASSUME NEW k \in Socket, Close(k) \/ Reconnect(k) PROVE RolesAreHeld'
    <2>1. /\ UNCHANGED <<sessions, peers, conn>>
          /\ \/ state[k] = "open" /\ state' = [state EXCEPT ![k] = "closed"]
             \/ state[k] = "gone" /\ state' = [state EXCEPT ![k] = "new"]
      BY <1>5 DEF Close, Reconnect, store
    <2> QED BY <2>1, OthersKeepRoles DEF TypeOK
  <1>6. ASSUME NEW k \in Socket, leave(k) PROVE RolesAreHeld'
    <2> DEFINE s == conn[k].session
               role == conn[k].role
    <2>1. /\ s \in Session /\ role \in Role /\ conn[k] = [session |-> s, role |-> role]
          /\ conn' = [conn EXCEPT ![k] = None] /\ state[k] = "closed"
          /\ state' \in {[state EXCEPT ![k] = "leaving"], [state EXCEPT ![k] = "gone"]}
      BY <1>6 DEF leave, Receiving, TypeOK, Connection
    <2>2. \/ sessions' = Drop({s}) /\ peers' = DropPeers({s})
          \/ sessions' = sessions /\ sessions[s] # None /\ peers' = [peers EXCEPT ![s][role] = None]
          \/ sessions' = sessions /\ sessions[s] = None /\ peers' = peers
      BY <1>6 DEF leave, Live
    <2> SUFFICES ASSUME NEW t \in Session, NEW q \in Role, peers'[t][q] # None
                 PROVE  /\ sessions'[t] # None
                        /\ conn'[peers'[t][q]] = [session |-> t, role |-> q]
                        /\ state'[peers'[t][q]] \in {"open", "closed"}
      BY DEF RolesAreHeld, Live
    <2> HIDE DEF s, role
    <2>3. /\ peers'[t][q] = peers[t][q] /\ sessions'[t] = sessions[t] /\ ~(t = s /\ q = role)
      <3>1. CASE sessions' = Drop({s}) /\ peers' = DropPeers({s})
        BY <3>1 DEF Drop, DropPeers, NoPeers
      <3>2. CASE sessions' = sessions /\ peers' = [peers EXCEPT ![s][role] = None]
        BY <2>1, <3>2, Inner DEF TypeOK
      <3>3. CASE sessions' = sessions /\ sessions[s] = None /\ peers' = peers
        BY <3>3 DEF RolesAreHeld, Live
      <3> QED BY <2>2, <3>1, <3>2, <3>3
    <2>4. /\ peers[t][q] \in Socket /\ sessions[t] # None
          /\ conn[peers[t][q]] = [session |-> t, role |-> q] /\ state[peers[t][q]] \in {"open", "closed"}
      BY <2>3 DEF RolesAreHeld, Live, TypeOK
    <2>5. peers[t][q] # k
      BY <2>1, <2>3, <2>4
    <2> QED BY <2>1, <2>3, <2>4, <2>5 DEF TypeOK
  <1>7. CASE WriteStore \/ WriteFails \/ Tick \/ UNCHANGED vars
    BY <1>7 DEF WriteStore, WriteFails, Tick, vars, net, store, RolesAreHeld, Live
  <1>8. CASE Restart
    BY <1>8 DEF Restart, RolesAreHeld, NoPeers
  <1> QED BY <1>1, <1>2, <1>3, <1>4, <1>5, <1>6, <1>7, <1>8 DEF Next

\* A role of a session is only ever held by a socket that is connected and whose handler will
\* give it back, whatever expires, leaves late, reconnects or crashes.
THEOREM RolesAreAlwaysHeld == Spec => []RolesAreHeld
  <1>1. Init => TypeOK /\ ConnLink /\ RolesAreHeld
    BY InitTyped DEF Init, ConnLink, RolesAreHeld, NoPeers
  <1>2. TypeOK /\ ConnLink /\ RolesAreHeld /\ [Next]_vars => (TypeOK /\ ConnLink /\ RolesAreHeld)'
    BY TypeStep, ConnStep, RolesStep
  <1> QED BY <1>1, <1>2, PTL DEF Spec

-----------------------------------------------------------------------------
\* The replay guard.

\* Only a session that was created is in memory, on its way to the disk, or there; and only
\* in such a one is a request admitted.
DrawnLink ==
    \A s \in Session : drawn[s] = None =>
        /\ sessions[s] = None /\ disk[s] = None
        /\ \A i \in DOMAIN queue : queue[i][s] = None
        /\ \A r \in RequestId : <<s, r>> \notin admitted

\* A session remembers what it admitted, unless a crash lost it.
GuardLink ==
    \A s \in Session, r \in RequestId :
        <<s, r>> \in admitted /\ <<s, r>> \notin lost /\ sessions[s] # None => r \in sessions[s].seen

\* No request is on its way to the signer in these sends.
NoIds(sends) == \A i \in DOMAIN sends : sends[i].id = None

\* The handler of socket k is about to send request r of session s.
Carries(k, s, r) ==
    /\ conn[k] # None /\ conn[k].session = s
    /\ outbox[k] # << >> /\ Len(outbox[k]) = 1 /\ Head(outbox[k]).id = r

\* A request is on its way by itself, with one handler, and has not arrived before.
FlightLink ==
    /\ \A k \in Socket : NoIds(outbox[k]) \/ \E s \in Session, r \in RequestId : Carries(k, s, r)
    /\ \A k \in Socket, s \in Session, r \in RequestId :
          Carries(k, s, r) => /\ <<s, r>> \in admitted
                              /\ <<s, r>> \in lost \/ relayed[s][r] = 0
    /\ \A k, l \in Socket, s \in Session, r \in RequestId :
          Carries(k, s, r) /\ Carries(l, s, r) /\ k # l => <<s, r>> \in lost

\* A request that was not admitted has not arrived.
ArrivedLink ==
    \A s \in Session, r \in RequestId : <<s, r>> \notin admitted => relayed[s][r] = 0

\* The inductive invariant of the replay guard.
RelayInv ==
    TypeOK /\ ConnLink /\ DrawnLink /\ GuardLink /\ FlightLink /\ ArrivedLink /\ ReplayGuardHolds

\* Every snapshot in a queue is without session s.
LEMMA QueueWithout ==
  ASSUME NEW q \in Seq(Snapshot), NEW x \in Snapshot, NEW s \in Session,
         x[s] = None, \A i \in DOMAIN q : q[i][s] = None
  PROVE  \A i \in DOMAIN Append(q, x) : Append(q, x)[i][s] = None
  <1>1. /\ Append(q, x) \in Seq(Snapshot) /\ Len(Append(q, x)) = Len(q) + 1 /\ Len(q) \in Nat
        /\ DOMAIN q = 1..Len(q) /\ Append(q, x)[Len(q) + 1] = x
        /\ \A i \in 1..Len(q) : Append(q, x)[i] = q[i]
    BY AppendProperties, LenProperties
  <1>2. DOMAIN Append(q, x) = 1..(Len(q) + 1)
    BY <1>1, LenProperties
  <1> SUFFICES ASSUME NEW i \in DOMAIN Append(q, x) PROVE Append(q, x)[i][s] = None
    OBVIOUS
  <1>3. i \in DOMAIN q \/ i = Len(q) + 1
    BY <1>1, <1>2
  <1> QED BY <1>1, <1>3

\* What the writer thread has taken out of the queue.
LEMMA TailWithout ==
  ASSUME NEW q \in Seq(Snapshot), q # << >>, NEW s \in Session, \A i \in DOMAIN q : q[i][s] = None
  PROVE  Head(q)[s] = None /\ \A i \in DOMAIN Tail(q) : Tail(q)[i][s] = None
  <1>1. /\ Tail(q) \in Seq(Snapshot) /\ Len(Tail(q)) = Len(q) - 1 /\ Head(q) = q[1]
        /\ \A i \in 1..Len(Tail(q)) : Tail(q)[i] = q[i + 1]
        /\ Len(q) \in Nat /\ Len(q) # 0 /\ DOMAIN q = 1..Len(q)
    BY HeadTailProperties, LenProperties, EmptySeq
  <1>2. DOMAIN Tail(q) = 1..(Len(q) - 1) /\ 1 \in DOMAIN q
    BY <1>1, LenProperties
  <1> SUFFICES ASSUME NEW i \in DOMAIN Tail(q) PROVE Tail(q)[i][s] = None
    BY <1>1, <1>2
  <1>3. i \in 1..Len(Tail(q)) /\ i + 1 \in DOMAIN q
    BY <1>1, <1>2
  <1> QED BY <1>1, <1>3

\* Steps that admit and deliver nothing, and queue what they make of the sessions.
LEMMA DrawnKept ==
  ASSUME TypeOK, TypeOK', DrawnLink,
         UNCHANGED <<disk, drawn>>, admitted' = admitted,
         \A s \in Session : sessions'[s] = None \/ drawn[s] # None,
         queue' = queue \/ queue' = Append(queue, sessions')
  PROVE  DrawnLink'
  <1> SUFFICES ASSUME NEW s \in Session, drawn[s] = None
               PROVE  /\ sessions'[s] = None /\ disk[s] = None
                      /\ \A i \in DOMAIN queue' : queue'[i][s] = None
                      /\ \A r \in RequestId : <<s, r>> \notin admitted
    BY DEF DrawnLink
  <1>1. sessions'[s] = None /\ sessions' \in Snapshot /\ queue \in Seq(Snapshot)
    BY DEF TypeOK
  <1>2. \A i \in DOMAIN queue : queue[i][s] = None
    BY DEF DrawnLink
  <1>3. \A i \in DOMAIN Append(queue, sessions') : Append(queue, sessions')[i][s] = None
    BY <1>1, <1>2, QueueWithout
  <1> QED BY <1>1, <1>2, <1>3 DEF DrawnLink

\* Steps that only drop sessions.
LEMMA DroppedOnly ==
  ASSUME TypeOK, GuardLink, UNCHANGED <<admitted, lost>>,
         \A s \in Session : sessions'[s] \in {None, sessions[s]}
  PROVE  GuardLink'
  BY DEF GuardLink

\* Steps after which a handler sends what it sent before, or sends no request.
LEMMA FlightKept ==
  ASSUME FlightLink, UNCHANGED <<admitted, relayed, lost>>,
         \A k \in Socket : \/ NoIds(outbox'[k])
                           \/ outbox'[k] = outbox[k] /\ conn'[k] = conn[k]
  PROVE  FlightLink'
  <1>1. ASSUME NEW k \in Socket, NEW s \in Session, NEW r \in RequestId, Carries(k, s, r)'
        PROVE  Carries(k, s, r)
    <2>1. ~NoIds(outbox'[k])
      <3>1. /\ outbox'[k] # << >> /\ Len(outbox'[k]) = 1 /\ Head(outbox'[k]).id = r
        BY <1>1 DEF Carries
      <3> QED BY <3>1, BunkerAssumption DEF NoIds
    <2> QED BY <1>1, <2>1 DEF Carries
  <1>2. ASSUME NEW k \in Socket, ~NoIds(outbox'[k])
        PROVE  \E s \in Session, r \in RequestId : Carries(k, s, r)'
    <2>1. outbox'[k] = outbox[k] /\ conn'[k] = conn[k]
      BY <1>2
    <2> QED BY <1>2, <2>1 DEF FlightLink, Carries
  <1> QED BY <1>1, <1>2 DEF FlightLink

\* Tick and the like leave all of it alone.
LEMMA RelayUnmoved ==
  ASSUME RelayInv, TypeOK', ConnLink',
         UNCHANGED <<sessions, disk, queue, drawn, admitted, relayed, lost, outbox, conn>>
  PROVE  RelayInv'
  <1>1. FlightLink'
    BY FlightKept DEF RelayInv
  <1> QED BY <1>1 DEF RelayInv, DrawnLink, GuardLink, ArrivedLink, ReplayGuardHolds

\* The parts of the invariant that steps of one kind disturb, put together.
LEMMA RelayRest ==
  ASSUME RelayInv, TypeOK', ConnLink', UNCHANGED <<admitted, relayed, lost>>,
         DrawnLink', GuardLink', FlightLink'
  PROVE  RelayInv'
  BY DEF RelayInv, ArrivedLink, ReplayGuardHolds

\* relay() of a request that the guard lets pass.
LEMMA RequestAdmitted ==
  ASSUME RelayInv, TypeOK', ConnLink', NEW k \in Socket, NEW id \in RequestId, relay(k, id),
         ~Expired(conn[k].session), Guarded(conn[k].role, id)
  PROVE  RelayInv'
  <1> USE BunkerAssumption
  <1> DEFINE s == conn[k].session
             target == peers[s][Other(conn[k].role)]
             m == [to |-> target, id |-> id]
             grown == [sessions EXCEPT ![s].seen = @ \cup {id}]
  <1>1. /\ s \in Session /\ sessions[s] # None /\ id \notin sessions[s].seen
        /\ conn[k] # None /\ outbox[k] = << >>
    BY DEF relay, Receiving, RelayInv, TypeOK, Connection, Live, Duplicate
  <1>2. /\ UNCHANGED <<disk, conn, drawn, relayed, lost>>
        /\ sessions' = grown /\ queue' = Append(queue, grown)
        /\ outbox' = outbox \/ outbox' = [outbox EXCEPT ![k] = <<m>>]
        /\ admitted' = admitted \cup {<<s, id>>}
    BY DEF relay, persist
  <1>3. /\ grown \in Snapshot /\ grown[s] # None /\ grown[s].seen = sessions[s].seen \cup {id}
        /\ \A t \in Session \ {s} : grown[t] = sessions[t]
    BY <1>1, Grown DEF RelayInv
  <1>4. m.id = id /\ Len(<<m>>) = 1 /\ Head(<<m>>) = m /\ <<m>> # << >>
    OBVIOUS
  <1> HIDE DEF s, target, m, grown
  <1>5. /\ queue \in Seq(Snapshot) /\ outbox \in [Socket -> Seq(Send)] /\ sessions \in Snapshot
    BY DEF RelayInv, TypeOK
  <1>6. <<s, id>> \in lost \/ <<s, id>> \notin admitted
    BY <1>1 DEF RelayInv, GuardLink
  <1>7. DrawnLink'
    <2> SUFFICES ASSUME NEW t \in Session, drawn[t] = None
                 PROVE  /\ sessions'[t] = None /\ disk[t] = None
                        /\ \A i \in DOMAIN queue' : queue'[i][t] = None
                        /\ \A r \in RequestId : <<t, r>> \notin admitted'
      BY <1>2 DEF DrawnLink
    <2>1. /\ sessions[t] = None /\ disk[t] = None /\ \A i \in DOMAIN queue : queue[i][t] = None
          /\ \A r \in RequestId : <<t, r>> \notin admitted
      BY DEF RelayInv, DrawnLink
    <2>2. t # s /\ grown[t] = None
      BY <1>1, <1>3, <2>1
    <2>3. \A i \in DOMAIN Append(queue, grown) : Append(queue, grown)[i][t] = None
      BY <1>3, <1>5, <2>1, <2>2, QueueWithout
    <2> QED BY <1>2, <2>1, <2>2, <2>3
  <1>8. GuardLink'
    <2> SUFFICES ASSUME NEW t \in Session, NEW r \in RequestId, <<t, r>> \in admitted',
                        <<t, r>> \notin lost, grown[t] # None
                 PROVE  r \in grown[t].seen
      BY <1>2 DEF GuardLink
    <2>1. CASE t = s /\ r = id
      BY <1>3, <2>1
    <2>2. CASE ~(t = s /\ r = id)
      <3>1. <<t, r>> \in admitted
        BY <1>2, <2>2
      <3>2. sessions[t] # None
        BY <1>1, <1>3
      <3> QED BY <1>3, <3>1, <3>2 DEF RelayInv, GuardLink
    <2> QED BY <2>1, <2>2
  <1>9. \A l \in Socket, t \in Session, r \in RequestId :
           Carries(l, t, r)' => (l = k /\ t = s /\ r = id) \/ (l # k /\ Carries(l, t, r))
    <2> SUFFICES ASSUME NEW l \in Socket, NEW t \in Session, NEW r \in RequestId, Carries(l, t, r)'
                 PROVE  (l = k /\ t = s /\ r = id) \/ (l # k /\ Carries(l, t, r))
      OBVIOUS
    <2>1. CASE l = k
      <3>1. outbox'[k] = <<m>>
        BY <1>1, <1>2, <1>5, <2>1 DEF Carries
      <3> QED BY <1>2, <1>4, <2>1, <3>1 DEF Carries, s
    <2>2. CASE l # k
      BY <1>2, <1>5, <2>2 DEF Carries
    <2> QED BY <2>1, <2>2
  <1>10. FlightLink'
    <2>1. ASSUME NEW l \in Socket PROVE NoIds(outbox'[l]) \/ \E t \in Session, r \in RequestId : Carries(l, t, r)'
      <3>1. CASE l = k /\ outbox' = [outbox EXCEPT ![k] = <<m>>]
        <4>1. outbox'[k] = <<m>>
          BY <1>5, <3>1
        <4>2. PICK t \in Session : t = s
          BY <1>1
        <4>3. Carries(k, t, id)'
          BY <1>1, <1>2, <1>4, <4>1, <4>2 DEF Carries, s
        <4> QED BY <3>1, <4>3
      <3>2. CASE ~(l = k /\ outbox' = [outbox EXCEPT ![k] = <<m>>])
        <4>1. outbox'[l] = outbox[l] /\ conn' = conn
          BY <1>2, <1>5, <3>2
        <4>2. \A t, r : Carries(l, t, r)' <=> Carries(l, t, r)
          BY <4>1 DEF Carries
        <4> QED BY <4>1, <4>2 DEF RelayInv, FlightLink
      <3> QED BY <3>1, <3>2
    <2>2. ASSUME NEW l \in Socket, NEW t \in Session, NEW r \in RequestId, Carries(l, t, r)'
          PROVE  <<t, r>> \in admitted' /\ (<<t, r>> \in lost' \/ relayed'[t][r] = 0)
      <3>1. CASE t = s /\ r = id
        <4>1. <<s, id>> \in lost \/ relayed[s][id] = 0
          BY <1>1, <1>6 DEF RelayInv, ArrivedLink
        <4> QED BY <1>2, <3>1, <4>1
      <3>2. CASE ~(t = s /\ r = id)
        BY <1>2, <1>9, <2>2, <3>2 DEF RelayInv, FlightLink
      <3> QED BY <3>1, <3>2
    <2>3. ASSUME NEW l \in Socket, NEW h \in Socket, NEW t \in Session, NEW r \in RequestId,
                 Carries(l, t, r)', Carries(h, t, r)', l # h
          PROVE  <<t, r>> \in lost'
      <3>1. CASE t = s /\ r = id
        <4>1. <<s, id>> \in admitted
          BY <1>9, <2>3, <3>1 DEF RelayInv, FlightLink
        <4> QED BY <1>2, <1>6, <3>1, <4>1
      <3>2. CASE ~(t = s /\ r = id)
        BY <1>2, <1>9, <2>3, <3>2 DEF RelayInv, FlightLink
      <3> QED BY <3>1, <3>2
    <2> QED BY <2>1, <2>2, <2>3 DEF FlightLink
  <1>11. ArrivedLink' /\ ReplayGuardHolds'
    BY <1>2 DEF RelayInv, ArrivedLink, ReplayGuardHolds
  <1> QED BY <1>7, <1>8, <1>10, <1>11 DEF RelayInv

\* A send that completes: of a request, when a handler carries one.
LEMMA RequestSent ==
  ASSUME RelayInv, TypeOK', ConnLink', NEW k \in Socket, SendNext(k)
  PROVE  RelayInv'
  <1> USE BunkerAssumption
  <1> DEFINE m == Head(outbox[k])
             q == outbox[k]
  <1>1. /\ UNCHANGED <<sessions, disk, queue, conn, drawn, admitted, lost>>
        /\ outbox' = [outbox EXCEPT ![k] = Tail(q)] /\ q # << >>
        /\ \/ relayed' = relayed
           \/ m.id # None /\ relayed' = [relayed EXCEPT ![conn[k].session][m.id] = @ + 1]
    BY DEF SendNext, store
  <1>2. outbox \in [Socket -> Seq(Send)] /\ relayed \in [Session -> [RequestId -> Nat]]
    BY DEF RelayInv, TypeOK
  <1>3. /\ Tail(q) \in Seq(Send) /\ Len(Tail(q)) = Len(q) - 1 /\ m = q[1] /\ m \in Send
        /\ \A i \in 1..Len(Tail(q)) : Tail(q)[i] = q[i + 1]
        /\ Len(q) \in Nat /\ DOMAIN q = 1..Len(q) /\ Len(q) # 0
    BY <1>1, <1>2, HeadTailProperties, LenProperties, EmptySeq
  <1>4. DOMAIN Tail(q) = 1..Len(Tail(q))
    BY <1>3, LenProperties
  <1>5. outbox'[k] = Tail(q) /\ \A l \in Socket \ {k} : outbox'[l] = outbox[l]
    BY <1>1, <1>2
  <1>6. NoIds(outbox'[k])
    <2>1. CASE NoIds(q)
      <3> SUFFICES ASSUME NEW i \in DOMAIN Tail(q) PROVE Tail(q)[i].id = None
        BY <1>5 DEF NoIds
      <3>1. i + 1 \in DOMAIN q /\ i \in 1..Len(Tail(q))
        BY <1>3, <1>4
      <3> QED BY <1>3, <2>1, <3>1 DEF NoIds
    <2>2. CASE Len(q) = 1
      <3>1. Len(Tail(q)) = 0
        BY <1>3, <2>2
      <3>2. DOMAIN Tail(q) = {}
        <4> DEFINE d == DOMAIN Tail(q)
                   n == Len(Tail(q))
        <4>1. d = 1..n /\ n = 0
          BY <1>4, <3>1
        <4> HIDE DEF d, n
        <4>2. d = {}
          BY <4>1
        <4> QED BY <4>2 DEF d
      <3> QED BY <1>5, <3>2 DEF NoIds
    <2> QED BY <2>1, <2>2 DEF RelayInv, FlightLink, Carries
  <1>7. \A l \in Socket : NoIds(outbox'[l]) \/ (outbox'[l] = outbox[l] /\ conn'[l] = conn[l])
    BY <1>1, <1>5, <1>6
  <1>8. DrawnLink' /\ GuardLink'
    BY <1>1 DEF RelayInv, DrawnLink, GuardLink
  <1>9. CASE relayed' = relayed
    <2>1. FlightLink'
      BY <1>1, <1>7, <1>9, FlightKept DEF RelayInv
    <2> QED BY <1>1, <1>8, <1>9, <2>1, RelayRest
  <1>10. CASE m.id # None /\ relayed' = [relayed EXCEPT ![conn[k].session][m.id] = @ + 1]
    <2>1. ~NoIds(q)
      BY <1>3, <1>10 DEF NoIds
    <2>2. PICK s \in Session, r \in RequestId : Carries(k, s, r)
      BY <2>1 DEF RelayInv, FlightLink
    <2>3. conn[k].session = s /\ m.id = r /\ relayed[s][r] + 1 \in Nat
      BY <1>2, <2>2 DEF Carries
    <2>4. /\ <<s, r>> \in admitted
          /\ <<s, r>> \in lost \/ relayed[s][r] = 0
          /\ \A l \in Socket : Carries(l, s, r) /\ l # k => <<s, r>> \in lost
      BY <2>2 DEF RelayInv, FlightLink
    <2>5. \A t \in Session, x \in RequestId :
             relayed'[t][x] = IF t = s /\ x = r THEN relayed[s][r] + 1 ELSE relayed[t][x]
      BY <1>2, <1>10, <2>3, Inner
    <2>6. \A l \in Socket, t \in Session, x \in RequestId :
             Carries(l, t, x)' => Carries(l, t, x) /\ l # k
      <3> SUFFICES ASSUME NEW l \in Socket, NEW t \in Session, NEW x \in RequestId, Carries(l, t, x)'
                   PROVE  Carries(l, t, x) /\ l # k
        OBVIOUS
      <3>1. l # k
        <4> SUFFICES ASSUME l = k PROVE FALSE
          OBVIOUS
        <4>1. Tail(q) # << >> /\ Len(Tail(q)) = 1 /\ Head(Tail(q)).id = x
          BY <1>5 DEF Carries
        <4>2. Head(Tail(q)) = Tail(q)[1] /\ 1 \in DOMAIN Tail(q)
          BY <1>3, <1>4, <4>1
        <4> QED BY <1>5, <1>6, <4>1, <4>2 DEF NoIds
      <3> QED BY <1>1, <1>5, <3>1 DEF Carries
    <2>7. FlightLink'
      <3>1. ASSUME NEW l \in Socket
            PROVE  NoIds(outbox'[l]) \/ \E t \in Session, x \in RequestId : Carries(l, t, x)'
        <4>1. CASE l # k
          <5>1. \A t, x : Carries(l, t, x)' <=> Carries(l, t, x)
            BY <1>1, <1>5, <4>1 DEF Carries
          <5> QED BY <1>5, <4>1, <5>1 DEF RelayInv, FlightLink
        <4> QED BY <1>6, <4>1
      <3>2. ASSUME NEW l \in Socket, NEW t \in Session, NEW x \in RequestId, Carries(l, t, x)'
            PROVE  <<t, x>> \in admitted /\ (<<t, x>> \in lost \/ relayed'[t][x] = 0)
        <4>1. CASE t = s /\ x = r
          BY <2>4, <2>6, <3>2, <4>1
        <4>2. CASE ~(t = s /\ x = r)
          BY <2>5, <2>6, <3>2, <4>2 DEF RelayInv, FlightLink
        <4> QED BY <4>1, <4>2
      <3>3. ASSUME NEW l \in Socket, NEW h \in Socket, NEW t \in Session, NEW x \in RequestId,
                   Carries(l, t, x)', Carries(h, t, x)', l # h
            PROVE  <<t, x>> \in lost
        BY <2>6, <3>3 DEF RelayInv, FlightLink
      <3> QED BY <1>1, <3>1, <3>2, <3>3 DEF FlightLink
    <2>8. ArrivedLink'
      BY <1>1, <2>4, <2>5 DEF RelayInv, ArrivedLink
    <2>9. ReplayGuardHolds'
      <3> SUFFICES ASSUME NEW t \in Session, NEW x \in RequestId, <<t, x>> \notin lost
                   PROVE  relayed'[t][x] <= 1
        BY <1>1 DEF ReplayGuardHolds
      <3>1. CASE t = s /\ x = r
        BY <2>4, <2>5, <3>1
      <3>2. CASE ~(t = s /\ x = r)
        BY <2>5, <3>2 DEF RelayInv, ReplayGuardHolds
      <3> QED BY <3>1, <3>2
    <2> QED BY <1>8, <2>7, <2>8, <2>9 DEF RelayInv
  <1> QED BY <1>1, <1>9, <1>10

\* Each step keeps the invariant of the replay guard.
LEMMA RelayStep ==
  ASSUME RelayInv, [Next]_vars
  PROVE  RelayInv'
  <1> USE BunkerAssumption
  <1>0. /\ TypeOK /\ TypeOK' /\ ConnLink /\ ConnLink' /\ DrawnLink /\ GuardLink /\ FlightLink
        /\ queue \in Seq(Snapshot) /\ sessions \in Snapshot /\ outbox \in [Socket -> Seq(Send)]
        /\ conn \in [Socket -> Connection \cup {None}]
    BY TypeStep, ConnStep DEF RelayInv, TypeOK
  <1>1. ASSUME NEW s \in Session, create_session(s) PROVE RelayInv'
    <2> DEFINE dead == {d \in Session : Expired(d)}
               kept == Drop(dead)
               new == [kept EXCEPT ![s] = [createdAt |-> now, seen |-> {}]]
               swept == IF dead = {} THEN queue ELSE Append(queue, kept)
    <2>1. /\ \/ sessions' = kept /\ queue' = swept /\ UNCHANGED drawn
             \/ sessions' = new /\ queue' = Append(swept, new) /\ drawn' = [drawn EXCEPT ![s] = now]
          /\ UNCHANGED <<disk, conn, outbox, admitted, relayed, lost>> /\ drawn[s] = None
      BY <1>1 DEF create_session, net
    <2>2. kept \in Snapshot /\ \A t \in Session : kept[t] \in {None, sessions[t]}
      BY <1>0, Pieces DEF Drop
    <2>3. new \in Snapshot /\ \A t \in Session \ {s} : new[t] = kept[t]
      <3>1. [createdAt |-> now, seen |-> {}] \in Record
        BY <1>0 DEF TypeOK, Record
      <3> HIDE DEF kept
      <3> QED BY <2>2, <3>1 DEF Snapshot
    <2>4. swept \in {queue, Append(queue, kept)} /\ swept \in Seq(Snapshot)
      BY <1>0, <2>2, Pieces
    <2> HIDE DEF dead, kept, new, swept
    <2>5. \A r \in RequestId : <<s, r>> \notin admitted
      BY <1>0, <2>1 DEF DrawnLink
    <2>6. GuardLink'
      <3> SUFFICES ASSUME NEW t \in Session, NEW r \in RequestId, <<t, r>> \in admitted,
                          <<t, r>> \notin lost, sessions'[t] # None
                   PROVE  r \in sessions'[t].seen
        BY <2>1 DEF GuardLink
      <3>1. t # s
        BY <2>5
      <3>2. sessions'[t] = sessions[t]
        BY <2>1, <2>2, <2>3, <3>1
      <3> QED BY <1>0, <3>2 DEF GuardLink
    <2>7. DrawnLink'
      <3> SUFFICES ASSUME NEW t \in Session, drawn'[t] = None
                   PROVE  /\ sessions'[t] = None /\ disk[t] = None
                          /\ \A i \in DOMAIN queue' : queue'[i][t] = None
                          /\ \A r \in RequestId : <<t, r>> \notin admitted
        BY <2>1 DEF DrawnLink
      <3>1. drawn[t] = None /\ (drawn' # drawn => t # s)
        BY <1>0, <2>1 DEF TypeOK
      <3>2. /\ sessions[t] = None /\ disk[t] = None /\ \A i \in DOMAIN queue : queue[i][t] = None
            /\ \A r \in RequestId : <<t, r>> \notin admitted
        BY <1>0, <3>1 DEF DrawnLink
      <3>3. kept[t] = None /\ \A i \in DOMAIN swept : swept[i][t] = None
        BY <1>0, <2>2, <2>4, <3>2, QueueWithout, SMTT(30)
      <3>4. CASE sessions' = kept /\ queue' = swept
        BY <3>2, <3>3, <3>4
      <3>5. CASE sessions' = new /\ queue' = Append(swept, new) /\ drawn' = [drawn EXCEPT ![s] = now]
        <4>1. t # s
          BY <1>0, <3>5, <3>1, <2>1 DEF TypeOK
        <4>2. new[t] = None
          BY <2>3, <3>3, <4>1
        <4>3. \A i \in DOMAIN Append(swept, new) : Append(swept, new)[i][t] = None
          BY <2>3, <2>4, <3>3, <4>2, QueueWithout
        <4> QED BY <3>2, <3>5, <4>2, <4>3
      <3> QED BY <2>1, <3>4, <3>5
    <2>8. FlightLink'
      BY <1>0, <2>1, FlightKept
    <2> QED BY <1>0, <2>1, <2>6, <2>7, <2>8, RelayRest
  <1>2. ASSUME NEW k \in Socket, NEW s \in Session, NEW r \in Role, join(k, s, r) PROVE RelayInv'
    <2>1. /\ UNCHANGED <<disk, drawn, admitted, relayed, lost>> /\ state[k] = "new"
          /\ \/ sessions' = Drop({s}) /\ queue' = Append(queue, sessions')
             \/ sessions' = sessions /\ queue' = queue
          /\ \A l \in Socket \ {k} : conn'[l] = conn[l] /\ outbox'[l] = outbox[l]
      BY <1>0, <1>2 DEF join, DropExpired, persist
    <2>2. \A t \in Session : sessions'[t] \in {None, sessions[t]}
      BY <2>1 DEF Drop
    <2>3. DrawnLink'
      BY <1>0, <2>1, <2>2, DrawnKept DEF DrawnLink
    <2>4. GuardLink'
      BY <1>0, <2>1, <2>2, DroppedOnly
    <2>5. NoIds(outbox'[k])
      <3>1. NoIds(outbox[k])
        BY <1>0, <2>1 DEF ConnLink, FlightLink, Carries
      <3> DEFINE mate == peers[s][Other(r)]
                 sends == <<[to |-> mate, id |-> None], [to |-> k, id |-> None]>>
      <3>2. outbox'[k] = outbox[k] \/ outbox'[k] = sends
        BY <1>0, <1>2 DEF join
      <3>3. NoIds(sends)
        BY DEF NoIds
      <3> HIDE DEF sends
      <3> QED BY <3>1, <3>2, <3>3
    <2>6. FlightLink'
      BY <1>0, <2>1, <2>5, FlightKept
    <2> QED BY <1>0, <2>1, <2>3, <2>4, <2>6, RelayRest
  <1>3. ASSUME NEW k \in Socket, NEW id \in RequestId \cup {None}, relay(k, id) PROVE RelayInv'
    <2> DEFINE s == conn[k].session
    <2>1. CASE ~Expired(s) /\ Guarded(conn[k].role, id)
      BY <1>0, <1>3, <2>1, RequestAdmitted DEF Guarded
    <2>2. CASE Expired(s)
      <3>1. /\ UNCHANGED <<disk, drawn, admitted, relayed, lost, conn, outbox>>
            /\ sessions' = Drop({s}) /\ queue' = Append(queue, sessions')
        BY <1>3, <2>2 DEF relay, DropExpired, persist
      <3>2. \A t \in Session : sessions'[t] \in {None, sessions[t]}
        BY <3>1 DEF Drop
      <3>3. DrawnLink'
        BY <1>0, <3>1, <3>2, DrawnKept DEF DrawnLink
      <3>4. GuardLink'
        BY <1>0, <3>1, <3>2, DroppedOnly
      <3>5. FlightLink'
        BY <1>0, <3>1, FlightKept
      <3> QED BY <1>0, <3>1, <3>3, <3>4, <3>5, RelayRest
    <2>3. CASE ~Expired(s) /\ ~Guarded(conn[k].role, id)
      <3> DEFINE target == peers[s][Other(conn[k].role)]
                 sends == <<[to |-> target, id |-> None]>>
      <3>1. /\ UNCHANGED <<sessions, queue, disk, drawn, admitted, relayed, lost, conn>>
            /\ outbox' = outbox \/ outbox' = [outbox EXCEPT ![k] = sends]
        BY <1>3, <2>3 DEF relay
      <3>2. NoIds(sends)
        BY DEF NoIds
      <3> HIDE DEF sends
      <3>3. FlightLink'
        BY <1>0, <3>1, <3>2, FlightKept
      <3>4. DrawnLink' /\ GuardLink'
        BY <1>0, <3>1 DEF DrawnLink, GuardLink
      <3> QED BY <1>0, <3>1, <3>3, <3>4, RelayRest
    <2> QED BY <2>1, <2>2, <2>3
  <1>4. ASSUME NEW k \in Socket, SendNext(k) PROVE RelayInv'
    BY <1>0, <1>4, RequestSent
  <1>5. ASSUME NEW k \in Socket, Close(k) \/ Reconnect(k) PROVE RelayInv'
    BY <1>0, <1>5, RelayUnmoved DEF Close, Reconnect, store, history
  <1>6. ASSUME NEW k \in Socket, leave(k) PROVE RelayInv'
    <2> DEFINE s == conn[k].session
               mate == peers[s][Other(conn[k].role)]
               sends == <<[to |-> mate, id |-> None]>>
    <2>1. /\ UNCHANGED <<disk, drawn, admitted, relayed, lost>> /\ outbox[k] = << >>
          /\ conn' = [conn EXCEPT ![k] = None]
          /\ \/ sessions' = Drop({s}) /\ queue' = Append(queue, sessions')
             \/ sessions' = sessions /\ queue' = queue
          /\ outbox' = outbox \/ outbox' = [outbox EXCEPT ![k] = sends]
      BY <1>6 DEF leave, persist, Receiving, history
    <2>2. \A t \in Session : sessions'[t] \in {None, sessions[t]}
      BY <2>1 DEF Drop
    <2>3. NoIds(sends) /\ NoIds(<< >>)
      BY DEF NoIds
    <2> HIDE DEF s, mate, sends
    <2>4. DrawnLink'
      BY <1>0, <2>1, <2>2, DrawnKept DEF DrawnLink
    <2>5. GuardLink'
      BY <1>0, <2>1, <2>2, DroppedOnly
    <2>6. FlightLink'
      <3>1. NoIds(outbox'[k]) /\ \A l \in Socket \ {k} : outbox'[l] = outbox[l] /\ conn'[l] = conn[l]
        BY <1>0, <2>1, <2>3
      <3> QED BY <1>0, <2>1, <3>1, FlightKept
    <2> QED BY <1>0, <2>1, <2>4, <2>5, <2>6, RelayRest
  <1>7. CASE WriteStore \/ WriteFails
    <2>1. /\ UNCHANGED <<sessions, drawn, admitted, relayed, lost, outbox, conn>>
          /\ queue # << >> /\ queue' = Tail(queue) /\ disk' \in {disk, Head(queue)}
      BY <1>7 DEF WriteStore, WriteFails, net, history
    <2>2. DrawnLink'
      BY <1>0, <2>1, TailWithout DEF DrawnLink
    <2>3. GuardLink' /\ FlightLink'
      BY <1>0, <2>1, FlightKept DEF GuardLink
    <2> QED BY <1>0, <2>1, <2>2, <2>3, RelayRest
  <1>8. CASE Restart
    <2>1. /\ UNCHANGED <<drawn, admitted, relayed>> /\ sessions' = Reloaded
          /\ disk' \in {disk, Reloaded} /\ queue' = << >>
          /\ outbox' = [l \in Socket |-> << >>]
          /\ lost' = lost \cup {p \in admitted : disk[p[1]] # None /\ p[2] \notin disk[p[1]].seen}
      BY <1>8 DEF Restart
    <2>2. \A t \in Session : Reloaded[t] \in {None, disk[t]}
      BY DEF Reloaded
    <2>3. DrawnLink'
      BY <1>0, <2>1, <2>2 DEF DrawnLink
    <2>4. GuardLink'
      <3> SUFFICES ASSUME NEW t \in Session, NEW r \in RequestId, <<t, r>> \in admitted,
                          <<t, r>> \notin lost', Reloaded[t] # None
                   PROVE  r \in Reloaded[t].seen
        BY <2>1 DEF GuardLink
      <3>1. <<t, r>>[1] = t /\ <<t, r>>[2] = r
        OBVIOUS
      <3> QED BY <2>1, <2>2, <3>1
    <2>5. FlightLink'
      <3>1. \A l \in Socket : outbox'[l] = << >>
        BY <2>1
      <3> QED BY <3>1 DEF FlightLink, Carries, NoIds
    <2>6. ArrivedLink' /\ ReplayGuardHolds'
      BY <2>1 DEF RelayInv, ArrivedLink, ReplayGuardHolds
    <2> QED BY <1>0, <2>3, <2>4, <2>5, <2>6 DEF RelayInv
  <1>9. CASE Tick \/ UNCHANGED vars
    BY <1>0, <1>9, RelayUnmoved DEF Tick, vars, store, net, history
  <1> QED BY <1>1, <1>2, <1>3, <1>4, <1>5, <1>6, <1>7, <1>8, <1>9 DEF Next

\* A request of the client reaches a signer at most once in the lifetime of its session,
\* retries, reconnects, failed writes and restarts included, unless a crash beat the writer
\* thread to the snapshot that recorded it.
THEOREM RequestsArriveOnce == Spec => []ReplayGuardHolds
  <1>1. Init => RelayInv
    <2> SUFFICES ASSUME Init PROVE RelayInv
      OBVIOUS
    <2>1. TypeOK /\ ConnLink
      BY InitTyped DEF Init, ConnLink
    <2>2. DrawnLink /\ GuardLink
      BY DEF Init, DrawnLink, GuardLink
    <2>3. FlightLink
      BY DEF Init, FlightLink, NoIds, Carries
    <2>4. ArrivedLink /\ ReplayGuardHolds
      BY DEF Init, ArrivedLink, ReplayGuardHolds
    <2> QED BY <2>1, <2>2, <2>3, <2>4 DEF RelayInv
  <1>2. RelayInv /\ [Next]_vars => RelayInv'
    BY RelayStep
  <1>3. RelayInv => ReplayGuardHolds
    BY DEF RelayInv
  <1> QED BY <1>1, <1>2, <1>3, PTL DEF Spec
=============================================================================
