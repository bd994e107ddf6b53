------------------------------- MODULE KeyLog -------------------------------
(***************************************************************************)
(* The key transparency log (capauth/key_transparency.py): a file of lines, *)
(* each with the hash of the one before.  append() reads the whole file and *)
(* adds a line, with no lock between processes; a crash may leave part of a *)
(* line, or a line without its end.  Somebody with access to the file may   *)
(* rewrite it, hashes included.  The hash is taken to be injective.         *)
(***************************************************************************)
EXTENDS Integers, Sequences, SequencesExt

CONSTANTS
    Writer, Event,        \* processes; event type, fingerprint and payload of an entry
    MaxEntries, MaxTampers \* bounds

VARIABLES
    log,        \* the lines of the file
    open_line,  \* the last line lacks its end
    pending,    \* the entry a process is about to write, or << >>
    audited,    \* history: the log as an auditor last found it to verify
    returned,   \* history: entries whose append() returned
    disturbed,  \* history: a crash, or two processes appending at once
    appends, tampers \* counters

log_vars == <<log, open_line, pending, audited, returned, disturbed, appends, tampers>>

GENESIS_PREV_HASH == << >>

\* A line that is not an entry.
Torn == [malformed |-> TRUE]

\* A faulty variant hashes the entry alone.
canonical_hash_unlinked(seq, event, prev) == <<seq, event>>

\* _canonical_hash(): as good as the value itself, when SHA-256 does not collide.
canonical_hash(seq, event, prev) == <<seq, event, prev>>

\* LogEntry
LogEntry(seq, event, prev) ==
    [seq |-> seq, event |-> event, prev_hash |-> prev, entry_hash |-> canonical_hash(seq, event, prev)]

LogInit ==
    /\ log = << >> /\ open_line = FALSE
    /\ pending = [w \in Writer |-> << >>]
    /\ audited = << >> /\ returned = {} /\ disturbed = FALSE
    /\ appends = 0 /\ tampers = 0

\* _iter_entries() raises at a line that is not an entry.
malformed == \E i \in DOMAIN log : log[i] = Torn

\* A faulty variant numbers from one.
next_entry_from_one(event) ==
    IF log = << >> THEN LogEntry(1, event, GENESIS_PREV_HASH)
    ELSE LogEntry(Last(log).seq + 1, event, Last(log).entry_hash)

\* The entry that append() makes of the last one.
next_entry(event) ==
    IF log = << >> THEN LogEntry(0, event, GENESIS_PREV_HASH)
    ELSE LogEntry(Last(log).seq + 1, event, Last(log).entry_hash)

\* append() up to the write.
append(w, event) ==
    /\ pending[w] = << >> /\ appends < MaxEntries
    /\ ~malformed
    /\ pending' = [pending EXCEPT ![w] = <<next_entry(event)>>]
    /\ appends' = appends + 1
    /\ UNCHANGED <<log, open_line, audited, returned, disturbed, tampers>>

\* _write_line(): a line without its end runs into the next one.
write_line(w) ==
    /\ pending[w] # << >>
    /\ log' = IF open_line THEN Append(Front(log), Torn) ELSE log \o pending[w]
    /\ open_line' = FALSE
    /\ returned' = returned \cup ToSet(pending[w])
    /\ pending' = [pending EXCEPT ![w] = << >>]
    /\ disturbed' = (disturbed \/ \E v \in Writer \ {w} : pending[v] # << >>)
    /\ UNCHANGED <<audited, appends, tampers>>

\* The process dies while it writes: part of the line is there, or all but its end.
Crash(w, whole) ==
    /\ pending[w] # << >>
    /\ log' = IF open_line THEN Append(Front(log), Torn)
              ELSE IF whole THEN log \o pending[w] ELSE Append(log, Torn)
    /\ open_line' = TRUE
    /\ pending' = [pending EXCEPT ![w] = << >>]
    /\ disturbed' = TRUE
    /\ UNCHANGED <<audited, returned, appends, tampers>>

\* Somebody rewrites the file: drops lines, or changes an entry and, to hide it, its hash.
Tamper ==
    /\ tampers < MaxTampers
    /\ tampers' = tampers + 1
    /\ \/ \E i \in 0..Len(log) : log' = SubSeq(log, 1, i)
       \/ \E i \in DOMAIN log : log' = RemoveAt(log, i)
       \/ \E i \in DOMAIN log, e \in Event :
            /\ log[i] # Torn
            /\ \/ log' = [log EXCEPT ![i].event = e]
               \/ log' = [log EXCEPT ![i] = LogEntry(@.seq, e, @.prev_hash)]
    /\ open_line' = FALSE
    /\ UNCHANGED <<pending, audited, returned, disturbed, appends>>

\* Then, one after another, entries are numbered, linked and hashed again.
Relink(i) ==
    /\ tampers > 0
    /\ log[i] # Torn /\ (i > 1 => log[i - 1] # Torn)
    /\ log' = [log EXCEPT ![i] = LogEntry(i - 1, @.event, IF i = 1 THEN GENESIS_PREV_HASH
                                                          ELSE log[i - 1].entry_hash)]
    /\ log' # log
    /\ UNCHANGED <<open_line, pending, audited, returned, disturbed, appends, tampers>>

\* A faulty variant passes over lines that are not entries.
entry_ok_lenient(i) ==
    log[i] # Torn => /\ log[i].seq = i - 1
                     /\ log[i].entry_hash = canonical_hash(log[i].seq, log[i].event, log[i].prev_hash)

\* One round of the loop of verify_chain().
entry_ok(i) ==
    /\ log[i] # Torn
    /\ log[i].seq = i - 1
    /\ log[i].prev_hash = (IF i = 1 THEN GENESIS_PREV_HASH ELSE log[i - 1].entry_hash)
    /\ log[i].entry_hash = canonical_hash(log[i].seq, log[i].event, log[i].prev_hash)

\* verify_chain() answers ok; the loop ends at the first entry that is not.
verify_chain == \A i \in DOMAIN log : (\A k \in 1..(i - 1) : log[k] # Torn) => entry_ok(i)

\* An auditor takes note of a log that verifies.
Audit ==
    /\ verify_chain /\ log # << >>
    /\ audited' = log
    /\ UNCHANGED <<log, open_line, pending, returned, disturbed, appends, tampers>>

LogNext ==
    \/ \E w \in Writer : \/ \E e \in Event : append(w, e)
                         \/ write_line(w)
                         \/ \E whole \in BOOLEAN : Crash(w, whole)
    \/ Tamper
    \/ \E i \in DOMAIN log : Relink(i)
    \/ Audit

-----------------------------------------------------------------------------
LogTypeOK ==
    /\ open_line \in BOOLEAN /\ disturbed \in BOOLEAN
    /\ appends \in 0..MaxEntries /\ tampers \in 0..MaxTampers
    /\ \A i \in DOMAIN log : log[i] # Torn => log[i].seq \in Nat /\ log[i].event \in Event

\* An auditor who remembers the last hash of a log that verified need not trust the file:
\* when the chain verifies again and holds that hash, all up to it is as it was then,
\* whatever was rewritten, rehashed, cut or lost.
HeadFixesHistory ==
    audited # << >> /\ verify_chain =>
        \A i \in DOMAIN log :
            Torn \notin {log[i], Last(audited)} /\ log[i].entry_hash = Last(audited).entry_hash =>
                SubSeq(log, 1, i) = audited

\* Unless somebody rewrites the file, a chain that verifies has every entry whose append()
\* returned: racing processes and torn lines never lose one unnoticed.
VerifiedIsComplete ==
    tampers = 0 /\ verify_chain => \A e \in returned : \E i \in DOMAIN log : log[i] = e

\* One process at a time, no crash and no rewriting: the chain verifies.
QuietChainVerifies == tampers = 0 /\ ~disturbed => verify_chain

\* The log is evidence: it verifies when nothing went wrong, is complete when it verifies,
\* and cannot be changed behind a head that somebody remembers.
LogIsEvidence == QuietChainVerifies /\ VerifiedIsComplete /\ HeadFixesHistory
=============================================================================
