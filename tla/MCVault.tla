-------------------------------- MODULE MCVault --------------------------------
(****************************************************************************)
(* The vault of an owner's mailbox among its devices, the same vault while  *)
(* one device is at work and signing certificates are installed, and the    *)
(* keys of a shared mailbox.                                                *)
(****************************************************************************)
EXTENDS KeyVault, TLC
VARIABLE part
MCVaultSymmetry == UNION {Permutations(S) : S \in {Devices, Drivers, People}}

NobodyElse == Cardinality({d \in Devices : dev'[d].at # "idle"}) <= 1
MCInit ==
    /\ part \in {"devices", "enrolling", "shared"} /\ KvInit
    /\ ShInit /\ (part # "shared" => \A u \in People : access[u] = "full")
MCNext ==
    \/ part = "devices" /\ KvNext /\ enr' = enr /\ UNCHANGED <<shVars, part>>
    \/ part = "enrolling" /\ KvNext /\ NobodyElse /\ UNCHANGED <<shVars, part>>
    \/ part = "shared" /\ ShNext /\ UNCHANGED <<kvVars, part>>
MCSpec == MCInit /\ [][MCNext]_<<part, kvVars, shVars>>
================================================================================
