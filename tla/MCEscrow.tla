-------------------------------- MODULE MCEscrow -------------------------------
(****************************************************************************)
(* What is held under keys of the installation, each part on its own: one   *)
(* mailbox held in escrow, with one matter and requests of its key holders, *)
(* and the keys the configuration's secrets are sealed with.                *)
(****************************************************************************)
EXTENDS EscrowAccess, ConfigKeys, TLC
VARIABLE part
MCSymmetry == Permutations(EscOps) \cup Permutations(Users) \cup Permutations(Copies)

MCInit == part \in {"escrow", "keys"} /\ EscInit /\ KeyInit
MCNext ==
    \/ part = "escrow" /\ EscNext /\ UNCHANGED <<keyVars, part>>
    \/ part = "keys" /\ KeyNext /\ UNCHANGED <<escVars, part>>
MCSpec == MCInit /\ [][MCNext]_<<escVars, keyVars, part>>
================================================================================
