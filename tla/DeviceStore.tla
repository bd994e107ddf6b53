----------------------------- MODULE DeviceStore -----------------------------
(***************************************************************************)
(* The store of operator devices (DeviceStore in                            *)
(* capauth/pairing/operator_session.py).  Each instance keeps a copy of the *)
(* file, reads it again before a change and replaces the file with all it   *)
(* has.  Its lock is its own, so that nothing orders instances.             *)
(***************************************************************************)
EXTENDS Integers, FiniteSets

CONSTANTS
    Idle,
    Store, Handset,          \* instances (of several processes), device fingerprints
    MaxStoreOps, MaxStoreFaults \* bounds

StoreChange == [adds : SUBSET Handset, drops : SUBSET Handset, blind : BOOLEAN]

ASSUME StoreAssumption == {MaxStoreOps, MaxStoreFaults} \subseteq Nat

VARIABLES
    devices,        \* devices.json
    store_readable, \* it can be read
    cache,          \* _data of each instance
    doing,          \* of each instance: the change it has yet to write, or Idle
    intended,       \* history: what the completed changes add up to
    raced,          \* history: one instance wrote between another's read and write
    store_ops, store_faults \* counters

store_vars == <<devices, store_readable, cache, doing, intended, raced, store_ops, store_faults>>

StoreInit ==
    /\ devices = {} /\ store_readable = TRUE
    /\ cache = [s \in Store |-> {}] /\ doing = [s \in Store |-> Idle]
    /\ intended = {} /\ raced = FALSE
    /\ store_ops = 0 /\ store_faults = 0

\* A faulty variant: the store trusts what it has in memory.
reload_locked_never(s) == cache[s]

\* _reload_locked() keeps what it has when the file cannot be read.
reload_locked(s) == IF store_readable THEN devices ELSE cache[s]

\* The step up to the write: the instance has read the file and changed its copy.  What
\* it adds and drops is history, and so is that it could not read.
Mutate(s, data, adds, drops) ==
    /\ doing[s] = Idle /\ store_ops < MaxStoreOps
    /\ store_ops' = store_ops + 1
    /\ cache' = [cache EXCEPT ![s] = data]
    /\ doing' = [doing EXCEPT ![s] = [adds |-> adds, drops |-> drops, blind |-> ~store_readable]]
    /\ UNCHANGED <<devices, store_readable, intended, raced, store_faults>>

enroll(s, d) == Mutate(s, reload_locked(s) \cup {d}, {d}, {})

remove(s, d) ==
    /\ d \in reload_locked(s)
    /\ Mutate(s, reload_locked(s) \ {d}, {}, {d})

clear(s) == Mutate(s, {}, {}, Handset)

\* _write(): a temporary file, then os.replace().
write(s) ==
    /\ doing[s] # Idle
    /\ devices' = cache[s] /\ store_readable' = TRUE
    /\ intended' = IF doing[s].blind THEN cache[s]
                   ELSE (intended \ doing[s].drops) \cup doing[s].adds
    /\ raced' = (raced \/ \E t \in Store \ {s} : doing[t] # Idle)
    /\ doing' = [doing EXCEPT ![s] = Idle]
    /\ UNCHANGED <<cache, store_ops, store_faults>>

\* The process dies, maybe before os.replace(), and makes a new instance; __init__()
\* raises when it cannot read the file.
Reopen(s) ==
    /\ store_readable
    /\ doing' = [doing EXCEPT ![s] = Idle]
    /\ cache' = [cache EXCEPT ![s] = devices]
    /\ UNCHANGED <<devices, store_readable, intended, raced, store_ops, store_faults>>

\* The file cannot be read for a while, or never again.
StoreFault ==
    /\ store_faults < MaxStoreFaults
    /\ store_faults' = store_faults + 1
    /\ store_readable' = ~store_readable
    /\ UNCHANGED <<devices, cache, doing, intended, raced, store_ops>>

StoreNext ==
    \/ \E s \in Store : \/ \E d \in Handset : enroll(s, d) \/ remove(s, d)
                        \/ clear(s) \/ write(s) \/ Reopen(s)
    \/ StoreFault

-----------------------------------------------------------------------------
StoreTypeOK ==
    /\ devices \subseteq Handset /\ intended \subseteq Handset
    /\ cache \in [Store -> SUBSET Handset]
    /\ doing \in [Store -> StoreChange \cup {Idle}]
    /\ store_readable \in BOOLEAN /\ raced \in BOOLEAN

\* The file is what the completed enroll(), remove() and clear() add up to, whichever
\* instance made them and however old its copy was, unless two instances wrote at once:
\* no stale copy brings back a device that another instance removed.
DevicesAsIntended == ~raced => devices = intended
=============================================================================
