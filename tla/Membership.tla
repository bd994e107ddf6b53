----------------------------- MODULE Membership -----------------------------
(***************************************************************************)
(* Membership requests and claims (capauth/pma.py): one file each, written  *)
(* in place and without a lock by the processes of stewards, and copies of  *)
(* claims that members carry away and show to others.  Capabilities that    *)
(* approve_request() gives have no end, so that none expires.  The          *)
(* steward's name and fingerprint in a claim are what the caller says;      *)
(* nothing compares them with the key that signs or with the one that       *)
(* verifies, and they are left out: who signed is all there is.             *)
(***************************************************************************)
EXTENDS Integers, FiniteSets

CONSTANTS
    NoClaim, Cut,         \* no file, a file that was cut short
    Steward,              \* stewards, each with a process and a key of its own
    RequestId, ClaimId,
    MaxClaimOps           \* bound

\* A claim as it is in a file or a copy, signed by signer if by anyone; altered is
\* history: whoever carried the copy changed what it says.
MembershipClaim == [id : ClaimId, request : RequestId, signer : Steward \cup {NoClaim},
                    revoked : BOOLEAN, altered : BOOLEAN]

ASSUME ClaimAssumption == MaxClaimOps \in Nat /\ Cut # NoClaim

VARIABLES
    requests,      \* request files, which stay
    claims,        \* claim files
    writing,       \* of each steward: the claim it is writing, or NoClaim
    opened_file,   \* stewards whose file is open, and so empty
    copies,        \* copies in the hands of members
    verdict,       \* the last verify_claim(), or NoClaim
    approved_done, revoked_done, \* history: claims whose approval, revocation returned
    claim_ops      \* counter

claim_vars == <<requests, claims, writing, opened_file, copies, verdict, approved_done, revoked_done, claim_ops>>

ClaimInit ==
    /\ requests = {} /\ claims = [c \in ClaimId |-> NoClaim]
    /\ writing = [s \in Steward |-> NoClaim] /\ opened_file = {}
    /\ copies = {} /\ verdict = NoClaim
    /\ approved_done = {} /\ revoked_done = {} /\ claim_ops = 0

-----------------------------------------------------------------------------
create_request(r) ==
    /\ requests' = requests \cup {r} /\ requests' # requests
    /\ UNCHANGED <<claims, writing, opened_file, copies, verdict, approved_done, revoked_done, claim_ops>>

\* What load_requests(), load_claims() and get_membership_status() can read.
parsed(c) == claims[c] \notin {NoClaim, Cut}

Write_claim(s, claim) ==
    /\ writing[s] = NoClaim /\ claim_ops < MaxClaimOps
    /\ claim_ops' = claim_ops + 1
    /\ writing' = [writing EXCEPT ![s] = claim]
    /\ UNCHANGED <<requests, claims, opened_file, copies, verdict, approved_done, revoked_done>>

\* approve_request(), of a request that may have been approved before; _sign_claim() that
\* fails leaves the claim unsigned.
approve_request(s, r, c, signed) ==
    /\ r \in requests
    /\ claims[c] = NoClaim /\ \A t \in Steward : writing[t] # NoClaim => writing[t].id # c
    /\ Write_claim(s, [id |-> c, request |-> r, signer |-> IF signed THEN s ELSE NoClaim,
                       revoked |-> FALSE, altered |-> FALSE])

\* revoke_claim() up to the write; False for a claim that is not there or not readable.
revoke_claim(s, c) ==
    /\ parsed(c)
    /\ Write_claim(s, [claims[c] EXCEPT !.revoked = TRUE])

\* write_text(): the file is opened,
OpenClaim(s) ==
    /\ writing[s] # NoClaim /\ s \notin opened_file
    /\ opened_file' = opened_file \cup {s}
    /\ claims' = [claims EXCEPT ![writing[s].id] = Cut]
    /\ UNCHANGED <<requests, writing, copies, verdict, approved_done, revoked_done, claim_ops>>

\* and written.
WriteClaim(s) ==
    /\ s \in opened_file
    /\ opened_file' = opened_file \ {s}
    /\ claims' = [claims EXCEPT ![writing[s].id] = writing[s]]
    /\ writing' = [writing EXCEPT ![s] = NoClaim]
    /\ IF writing[s].revoked
       THEN revoked_done' = revoked_done \cup {writing[s].id} /\ approved_done' = approved_done
       ELSE approved_done' = approved_done \cup {writing[s].id} /\ revoked_done' = revoked_done
    /\ UNCHANGED <<requests, copies, verdict, claim_ops>>

\* The process dies.
StewardDies(s) ==
    /\ writing[s] # NoClaim
    /\ writing' = [writing EXCEPT ![s] = NoClaim] /\ opened_file' = opened_file \ {s}
    /\ UNCHANGED <<requests, claims, copies, verdict, approved_done, revoked_done, claim_ops>>

\* A member takes a copy as it is, or changes it, its signature kept or left out.
TakeCopy(c, altered, stripped) ==
    /\ parsed(c)
    /\ copies' = copies \cup {[claims[c] EXCEPT !.altered = altered,
                                               !.signer = IF stripped THEN NoClaim ELSE @]}
    /\ copies' # copies
    /\ UNCHANGED <<requests, claims, writing, opened_file, verdict, approved_done, revoked_done, claim_ops>>

\* A faulty variant takes the presence of a signature for a good one.
signature_good_any(claim, key) == claim.signer # NoClaim

\* The signature of key over what the claim says.
signature_good(claim, key) == claim.signer = key /\ ~claim.altered

\* verify_claim(): the signature is looked at when there is one, and a key to check it.
verify_claim(claim, key) ==
    /\ verdict' = [claim |-> claim, key |-> key,
                   ok |-> ~claim.revoked /\ (key # NoClaim /\ claim.signer # NoClaim => signature_good(claim, key))]
    /\ verdict' # verdict
    /\ UNCHANGED <<requests, claims, writing, opened_file, copies, approved_done, revoked_done, claim_ops>>

ClaimNext ==
    \/ \E r \in RequestId : create_request(r)
    \/ \E s \in Steward : \/ \E r \in RequestId, c \in ClaimId, b \in BOOLEAN : approve_request(s, r, c, b)
                          \/ \E c \in ClaimId : revoke_claim(s, c)
                          \/ OpenClaim(s) \/ WriteClaim(s) \/ StewardDies(s)
    \/ \E c \in ClaimId, a, b \in BOOLEAN : TakeCopy(c, a, b)
    \/ \E x \in copies, k \in Steward \cup {NoClaim} : verify_claim(x, k)

\* A faulty variant counts what can be read.
active_claims_all == {c \in ClaimId : parsed(c)}

\* get_membership_status(): is_member, if there is one.
active_claims == {c \in ClaimId : parsed(c) /\ ~claims[c].revoked}

-----------------------------------------------------------------------------
ClaimTypeOK ==
    /\ requests \subseteq RequestId /\ claims \in [ClaimId -> MembershipClaim \cup {NoClaim, Cut}]
    /\ writing \in [Steward -> MembershipClaim \cup {NoClaim}] /\ opened_file \subseteq Steward
    /\ copies \subseteq MembershipClaim
    /\ approved_done \subseteq ClaimId /\ revoked_done \subseteq ClaimId

\* A claim counts only after its approval was written and never again once a revoke_claim()
\* of it returned, whichever stewards revoke it at once, or die while they do.
ActiveClaimStands == active_claims \subseteq approved_done \ revoked_done

\* A copy with a signature that verifies against a steward's key says what that steward
\* signed, in an approval that was written.
SignedCopyIsApproved ==
    verdict # NoClaim /\ verdict.ok /\ verdict.key # NoClaim /\ verdict.claim.signer # NoClaim =>
        /\ verdict.claim.signer = verdict.key /\ ~verdict.claim.altered
        /\ verdict.claim.id \in approved_done

\* Whoever counts as a member, here or by a signed copy, was approved by a steward and, here,
\* has not been revoked.
MembersAreApproved == ActiveClaimStands /\ SignedCopyIsApproved
=============================================================================
