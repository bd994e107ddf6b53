----------------------------- MODULE NonceStore -----------------------------
(***************************************************************************)
(* The nonce store of capauth/authentik/nonce_store.py: a cache that maps   *)
(* a nonce id to the record issue() wrote.  It is stateless here: the       *)
(* operators take the cache as an argument, so that the verification        *)
(* service (which runs a whole handler between two awaits) and the          *)
(* Authentik stage (whose workers interleave between the get and the set of *)
(* consume()) can both be built from them.                                  *)
(***************************************************************************)
EXTENDS Integers

CONSTANTS
    None,           \* "not found", Python's None
    NONCE_TTL,      \* NONCE_TTL_SECONDS: a nonce lives this long
    Grace,          \* the extra ten seconds of the two cache timeouts
    UseDjango       \* _USE_DJANGO: entries time out; the dict keeps them

ASSUME TtlAssumption == NONCE_TTL \in Nat
ASSUME GraceAssumption == Grace \in Nat \ {0}
ASSUME DjangoAssumption == UseDjango \in BOOLEAN

\* The record issue() stores.  evictAt is the cache's own timeout.
NonceRecord(Owner) ==
    [fingerprint : Owner, issuedAt : Nat, used : BOOLEAN, evictAt : Nat]

expiresAt(rec) == rec.issuedAt + NONCE_TTL

\* The time at which an entry set now with this timeout leaves the cache; the
\* dict has no timeouts (0 stands for none).
timeoutAt(now, seconds) == IF UseDjango THEN now + seconds ELSE 0

\* issue(): the cache with a new, unused record for nonce n.
issue(cache, n, fp, now) ==
    [cache EXCEPT ![n] = [fingerprint |-> fp, issuedAt |-> now, used |-> FALSE,
                          evictAt |-> timeoutAt(now, NONCE_TTL + Grace)]]

\* peek(), and the read at the head of consume(): None once Django dropped it.
peek(cache, n, now) ==
    IF cache[n] # None /\ UseDjango /\ now >= cache[n].evictAt
    THEN None
    ELSE cache[n]

\* Faulty variants of the next definition: a used nonce is accepted; the
\* lifetime ends one tick early; the lifetime never ends.
consumeErrorIgnoringUsed(rec, fp, now) ==
    IF (rec # None => rec.fingerprint # fp) THEN "invalid_nonce"
    ELSE IF now > expiresAt(rec) THEN "expired_nonce"
    ELSE ""
consumeErrorTooEarly(rec, fp, now) ==
    IF (rec # None => rec.fingerprint # fp) THEN "invalid_nonce"
    ELSE IF now >= expiresAt(rec) THEN "expired_nonce"
    ELSE IF rec.used THEN "invalid_nonce"
    ELSE ""
consumeErrorNoExpiry(rec, fp, now) ==
    IF (rec # None => rec.fingerprint # fp) THEN "invalid_nonce"
    ELSE IF rec.used THEN "invalid_nonce"
    ELSE ""

\* The checks of consume() on the record it read: "" when the nonce is good.
consumeError(rec, fp, now) ==
    IF (rec # None => rec.fingerprint # fp) THEN "invalid_nonce"
    ELSE IF now > expiresAt(rec) THEN "expired_nonce"
    ELSE IF rec.used THEN "invalid_nonce"
    ELSE ""

\* The write at the end of consume(): the record it read, with used set.
markUsed(cache, n, rec, now) ==
    [cache EXCEPT ![n] = [rec EXCEPT !.used = TRUE, !.evictAt = timeoutAt(now, Grace)]]
=============================================================================
