-------------------------------- MODULE Host --------------------------------
(***************************************************************************)
(* What the processes and threads of one host share besides the identity    *)
(* estate: the files of operator sessions and of the device store, the key  *)
(* transparency log, the module registry, the peer registry, the guard of   *)
(* peer challenges, the keyring, the tokens of logins, and the membership   *)
(* claims.  The nine do not touch each other's state.                       *)
(***************************************************************************)
EXTENDS OperatorSession, DeviceStore, KeyLog, ModuleRegistry, PeerMesh, IdentityChallenge, Seal,
        LoginClient, Membership

vars == <<op_vars, store_vars, log_vars, mod_vars, mesh_vars, id_vars, seal_vars, login_vars, claim_vars>>

Init ==
    /\ OpInit /\ StoreInit /\ LogInit /\ ModInit /\ MeshInit /\ IdInit /\ SealInit
    /\ LoginInit /\ ClaimInit

\* One component moves.
Operator_step ==
    OpNext /\ UNCHANGED <<store_vars, log_vars, mod_vars, mesh_vars, id_vars, seal_vars, login_vars, claim_vars>>
Store_step ==
    StoreNext /\ UNCHANGED <<op_vars, log_vars, mod_vars, mesh_vars, id_vars, seal_vars, login_vars, claim_vars>>
Log_step ==
    LogNext /\ UNCHANGED <<op_vars, store_vars, mod_vars, mesh_vars, id_vars, seal_vars, login_vars, claim_vars>>
Module_step ==
    ModNext /\ UNCHANGED <<op_vars, store_vars, log_vars, mesh_vars, id_vars, seal_vars, login_vars, claim_vars>>
Mesh_step ==
    MeshNext /\ UNCHANGED <<op_vars, store_vars, log_vars, mod_vars, id_vars, seal_vars, login_vars, claim_vars>>
Identity_step ==
    IdNext /\ UNCHANGED <<op_vars, store_vars, log_vars, mod_vars, mesh_vars, seal_vars, login_vars, claim_vars>>
Seal_step ==
    SealNext /\ UNCHANGED <<op_vars, store_vars, log_vars, mod_vars, mesh_vars, id_vars, login_vars, claim_vars>>
Login_step ==
    LoginNext /\ UNCHANGED <<op_vars, store_vars, log_vars, mod_vars, mesh_vars, id_vars, seal_vars, claim_vars>>
Claim_step ==
    ClaimNext /\ UNCHANGED <<op_vars, store_vars, log_vars, mod_vars, mesh_vars, id_vars, seal_vars, login_vars>>

Next ==
    \/ Operator_step \/ Store_step \/ Log_step \/ Module_step \/ Mesh_step \/ Identity_step
    \/ Seal_step \/ Login_step \/ Claim_step

Spec == Init /\ [][Next]_vars

-----------------------------------------------------------------------------
\* Every variable holds a value of its type.
TypeOK ==
    /\ OpTypeOK /\ StoreTypeOK /\ LogTypeOK /\ ModTypeOK /\ MeshTypeOK /\ IdTypeOK /\ SealTypeOK
    /\ LoginTypeOK /\ ClaimTypeOK
=============================================================================
