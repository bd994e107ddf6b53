------------------------------ MODULE PeerMesh ------------------------------
(***************************************************************************)
(* The peer mesh (capauth/mesh.py) with its discovery back ends             *)
(* (capauth/discovery).                                                     *)
(*                                                                          *)
(* Threads change the registry under a lock and save it in steps of their   *)
(* own: a copy under the lock, then the file without it.  remove_peer()     *)
(* alone saves with the lock held.  Presence files are read as they are in  *)
(* the shared folder, whoever put them there: one that announce() wrote, or *)
(* any other.  A peer that was found by mDNS is one object in the registry  *)
(* and in the listener, and what is set of the one is set of the other.  To *)
(* look for peers and to record them are taken as one step.                 *)
(***************************************************************************)
EXTENDS Integers, FiniteSets

CONSTANTS
    Nil,
    Thread, Peer,         \* threads of the mesh, fingerprints of others
    STALE,                \* seconds after which a presence file is passed over
    MaxMeshTime, MaxMeshOps \* bounds

PeerInfo == [last_seen : Nat, verified : BOOLEAN]
PeerRegistry == [Peer -> PeerInfo \cup {Nil}]
\* A presence file: when it was written, and the PeerInfo in it.
Presence == [mtime : Nat, info : PeerInfo]

ASSUME MeshAssumption == {STALE, MaxMeshTime, MaxMeshOps} \subseteq Nat /\ Nil \notin PeerRegistry \cup Presence \cup PeerInfo

VARIABLES
    mesh_time,
    presence, mdns,    \* presence files, and MDNSDiscovery._peers
    shared,            \* peers whose entry in the registry is the object in mdns
    peers,             \* PeerMesh._registry
    peers_file,        \* peer_registry.json, or Nil when it cannot be parsed
    due,               \* threads that changed the registry and have yet to copy it
    save,              \* of each thread: the copy it will write, or Nil
    proven,            \* history: peers whose key answered a challenge
    told,              \* history: peers recorded anew from a presence file, or by a caller of
                       \* add_peer(), that said they were verified
    out_of_order,      \* history: one thread saved between another's change and its write
    mesh_ops           \* counter

mesh_vars == <<mesh_time, presence, mdns, shared, peers, peers_file, due, save, proven, told, out_of_order, mesh_ops>>

NoPeers == [p \in Peer |-> Nil]

MeshInit ==
    /\ mesh_time = 0
    /\ presence = NoPeers /\ mdns = NoPeers /\ peers = NoPeers /\ peers_file = NoPeers
    /\ shared = {} /\ due = {} /\ save = [t \in Thread |-> Nil]
    /\ proven = {} /\ told = {} /\ out_of_order = FALSE
    /\ mesh_ops = 0

-----------------------------------------------------------------------------
Sighted(at) == [last_seen |-> at, verified |-> FALSE]

\* A presence file comes into the shared folder, as a synchronisation leaves it.
Deliver(p, file) ==
    /\ presence[p] # file
    /\ presence' = [presence EXCEPT ![p] = file]
    /\ UNCHANGED <<mesh_time, mdns, shared, peers, peers_file, due, save, proven, told, out_of_order, mesh_ops>>

\* FileDiscovery.announce() in the start() of a peer.
announce(p) == Deliver(p, [mtime |-> mesh_time, info |-> Sighted(mesh_time)])

\* MDNSDiscovery.add_service() and update_service() make a new object; remove_service()
\* keeps the peer.
add_service(p) ==
    /\ mdns[p] # Sighted(mesh_time)
    /\ mdns' = [mdns EXCEPT ![p] = Sighted(mesh_time)]
    /\ shared' = shared \ {p}
    /\ UNCHANGED <<mesh_time, presence, peers, peers_file, due, save, proven, told, out_of_order, mesh_ops>>

\* What the back ends find: FileDiscovery.discover() passes over files that were not
\* written of late and takes what the others say, MDNSDiscovery.discover() passes over
\* nothing, and SyncthingDiscovery.discover() sees now the peers that have an agent file
\* with a device that Syncthing knows (synced).
file_found(p) ==
    IF presence[p] # Nil /\ mesh_time - presence[p].mtime <= STALE THEN {presence[p].info} ELSE {}
mdns_found(p) == {mdns[p]} \ {Nil}
syncthing_found(p, synced) == IF p \in synced THEN {Sighted(mesh_time)} ELSE {}

\* discover_all() takes the latest sighting of each peer, and of equal ones the first in
\* the order of the back ends.
found(p, synced) == file_found(p) \cup mdns_found(p) \cup syncthing_found(p, synced)
IsLatest(s, p, synced) == \A r \in found(p, synced) : r.last_seen <= s.last_seen
from_file(p, synced) == \E s \in file_found(p) : IsLatest(s, p, synced)
from_mdns(p, synced) == ~from_file(p, synced) /\ \E s \in mdns_found(p) : IsLatest(s, p, synced)
latest(p, synced) ==
    IF from_file(p, synced) THEN presence[p].info
    ELSE IF from_mdns(p, synced) THEN mdns[p]
    ELSE Sighted(mesh_time)

AtRest(t) == t \notin due /\ save[t] = Nil

\* A change of the registry with the lock held, by which the entries in alias are those of
\* the mDNS listener; the save is still to come.
Change(t, to, alias) ==
    /\ AtRest(t) /\ mesh_ops < MaxMeshOps
    /\ mesh_ops' = mesh_ops + 1
    /\ peers' = to
    /\ shared' = alias
    /\ mdns' = [p \in Peer |-> IF p \in alias THEN to[p] ELSE mdns[p]]
    /\ due' = due \cup {t}
    /\ UNCHANGED <<mesh_time, presence, peers_file, save, out_of_order>>

\* A faulty variant takes over all that was found of a peer it knows.
again_whole(p, s) == s

\* A peer that is known and found again: its entry stays, and when it was seen changes.
again(p, s) == [peers[p] EXCEPT !.last_seen = s.last_seen]

discover_all(t, synced) ==
    /\ Change(t, [p \in Peer |-> IF found(p, synced) = {} THEN peers[p]
                                 ELSE IF peers[p] = Nil THEN latest(p, synced)
                                 ELSE again(p, latest(p, synced))],
                 shared \cup {p \in Peer : peers[p] = Nil /\ from_mdns(p, synced)})
    /\ told' = told \cup {p \in Peer : peers[p] = Nil /\ from_file(p, synced) /\ presence[p].info.verified}
    /\ UNCHANGED proven

\* add_peer() stores the caller's object, maybe one that the mDNS listener has as well.
add_peer(t, p, info, listed) ==
    /\ listed => mdns[p] = info
    /\ Change(t, [peers EXCEPT ![p] = info], IF listed THEN shared \cup {p} ELSE shared \ {p})
    /\ told' = IF info.verified /\ ~listed THEN told \cup {p} ELSE told
    /\ UNCHANGED proven

\* stop() saves what there is.
stop(t) ==
    /\ Change(t, peers, shared)
    /\ UNCHANGED <<proven, told>>

\* A faulty variant: the response is verified under the key it came with.
answers_any(key, p) == TRUE

\* respond_to_challenge() and verify_challenge() in verify_peer(): the response is from
\* the key that was challenged.
answers(key, p) == key = p

\* The caller has some key, Nil for one that is no peer's.
verify_peer(t, p, key) ==
    /\ answers(key, p)
    /\ Change(t, IF peers[p] = Nil THEN peers ELSE [peers EXCEPT ![p].verified = TRUE], shared)
    /\ proven' = proven \cup {key}
    /\ UNCHANGED told

\* remove_peer() saves before it lets go of the lock.
remove_peer(t, p) ==
    /\ AtRest(t) /\ mesh_ops < MaxMeshOps
    /\ mesh_ops' = mesh_ops + 1
    /\ peers[p] # Nil
    /\ peers' = [peers EXCEPT ![p] = Nil]
    /\ shared' = shared \ {p}
    /\ peers_file' = peers'
    /\ out_of_order' = (out_of_order \/ \E u \in Thread \ {t} : ~AtRest(u))
    /\ UNCHANGED <<mesh_time, presence, mdns, due, save, proven, told>>

\* _save_registry(): the copy under the lock; a faulty variant copies what the file has.
copied_from_file == peers_file
copied == peers

CopyRegistry(t) ==
    /\ t \in due
    /\ due' = due \ {t} /\ save' = [save EXCEPT ![t] = copied]
    /\ UNCHANGED <<mesh_time, presence, mdns, shared, peers, peers_file, proven, told, out_of_order, mesh_ops>>

\* Then the file.
save_registry_file(t) ==
    /\ save[t] # Nil
    /\ peers_file' = save[t]
    /\ save' = [save EXCEPT ![t] = Nil]
    /\ out_of_order' = (out_of_order \/ \E u \in Thread \ {t} : ~AtRest(u))
    /\ UNCHANGED <<mesh_time, presence, mdns, shared, peers, due, proven, told, mesh_ops>>

\* The process ends, maybe while it writes, and starts again: _load_registry() begins
\* with nothing when it cannot parse the file.
MeshRestart(torn) ==
    /\ torn => \E t \in Thread : save[t] # Nil
    /\ peers_file' = IF torn THEN Nil ELSE peers_file
    /\ peers' = IF peers_file' = Nil THEN NoPeers ELSE peers_file'
    /\ due' = {} /\ save' = [t \in Thread |-> Nil]
    /\ mdns' = NoPeers /\ shared' = {}
    /\ UNCHANGED <<mesh_time, presence, proven, told, out_of_order, mesh_ops>>

MeshTick ==
    /\ mesh_time < MaxMeshTime
    /\ mesh_time' = mesh_time + 1
    /\ UNCHANGED <<presence, mdns, shared, peers, peers_file, due, save, proven, told, out_of_order, mesh_ops>>

MeshNext ==
    \/ \E p \in Peer : announce(p) \/ add_service(p)
    \/ \E p \in Peer, mtime, seen \in 0..MaxMeshTime, v \in BOOLEAN :
          Deliver(p, [mtime |-> mtime, info |-> [last_seen |-> seen, verified |-> v]])
    \/ \E t \in Thread : \/ \E synced \in SUBSET Peer : discover_all(t, synced)
                         \/ stop(t) \/ CopyRegistry(t) \/ save_registry_file(t)
                         \/ \E p \in Peer, v, listed \in BOOLEAN :
                               add_peer(t, p, [last_seen |-> mesh_time, verified |-> v], listed)
                         \/ \E p \in Peer : remove_peer(t, p)
                         \/ \E p \in Peer, k \in Peer \cup {Nil} : verify_peer(t, p, k)
    \/ \E torn \in BOOLEAN : MeshRestart(torn)
    \/ MeshTick

-----------------------------------------------------------------------------
MeshTypeOK ==
    /\ mesh_time \in 0..MaxMeshTime /\ mesh_ops \in 0..MaxMeshOps
    /\ peers \in PeerRegistry /\ peers_file \in PeerRegistry \cup {Nil}
    /\ due \subseteq Thread /\ save \in [Thread -> PeerRegistry \cup {Nil}]
    /\ presence \in [Peer -> Presence \cup {Nil}] /\ mdns \in PeerRegistry
    /\ proven \subseteq Peer \cup {Nil} /\ told \subseteq Peer /\ out_of_order \in BOOLEAN
    /\ shared \subseteq Peer /\ \A p \in shared : mdns[p] = peers[p]

\* A peer is verified, in memory and in the file, only if its own key answered, or if it
\* was recorded for the first time, or anew, as someone described it who said that it was:
\* a presence file, or a caller of add_peer().  It does not become so by being found again
\* in whatever file, nor is it by mDNS or Syncthing, by being read back after a crash, or
\* by way of the object that the mDNS listener keeps when the peer is removed.
VerifiedWasProven ==
    \A p \in Peer :
        /\ peers[p] # Nil /\ peers[p].verified => p \in proven \cup told
        /\ peers_file # Nil /\ peers_file[p] # Nil /\ peers_file[p].verified => p \in proven \cup told

\* At rest the file is the registry, unless two threads saved at once or it was torn.
FileFollowsRegistry ==
    (\A t \in Thread : AtRest(t)) /\ ~out_of_order /\ peers_file # Nil => peers_file = peers

\* What the mesh takes for verified was proven or told, and the file says what it knows.
PeersAreAsProven == VerifiedWasProven /\ FileFollowsRegistry
=============================================================================
