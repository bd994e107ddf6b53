------------------------------ MODULE MCEstate ------------------------------
(* Estate on a host with two keys.                                         *)
EXTENDS Estate, TLC

CONSTANTS k1, k2

MCExpires == [f \in Fp |-> MaxDays + 1]
MCPuts == {[slot |-> s, content |-> c] : s \in {"private"}, c \in {k2, Nothing}}
          \cup {[slot |-> "public", content |-> c] : c \in {k1, k2, Nothing}}
          \cup {[slot |-> "agent", content |-> c] : c \in {k1, Garbage}}
          \cup {[slot |-> "conflict", content |-> k1]}
MCUpkeeps == {[field |-> "declared", to |-> TRUE], [field |-> "exposed", to |-> TRUE],
              [field |-> "revoked", to |-> TRUE], [field |-> "cert", to |-> [by |-> k1, of |-> "subkey"]],
              [field |-> "cert", to |-> [by |-> k2, of |-> "key"]],
              [field |-> "cert", to |-> Plain], [field |-> "keystore", to |-> "corrupt"],
              [field |-> "nextcloud", to |-> "absent"]}
MCEdits == {[rules |-> {"private"}, exception |-> FALSE],
            [rules |-> {"private", "revocation"}, exception |-> TRUE]}

\* The two doctors read different things: audits are explored on a host on which only
\* keys are moved, and the custody checks on one that is not audited.
Apart == audit # Nothing \/ evidence # Nothing =>
            now = 0 /\ snapshots = {} /\ host = [Healthy EXCEPT !.cert = [by |-> Live, of |-> "key"]]
=============================================================================
