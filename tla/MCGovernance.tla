------------------------------ MODULE MCGovernance -----------------------------
(****************************************************************************)
(* What administrators run.  Erasure and retention under the legal holds    *)
(* they share, one part of the composition at a time: an erasure run by two *)
(* replicas, two requests run by one replica without faults, the message    *)
(* passes, or the quarantine passes.  Apart from them, the plugins of the   *)
(* installation and their secrets.                                          *)
(****************************************************************************)
EXTENDS Erasure, Retention, Plugins
CONSTANTS b1, b2, base, app
VARIABLE part
MCBoxOf(i) == IF i = 2 THEN b2 ELSE b1
MCWorkerSymmetry == Permutations(EWorkers)

\* The first version of app is made for the first version of base only.
MCNeeds == {[of |-> app, at |-> 1, dep |-> base, range |-> {1}], [of |-> app, at |-> 2, dep |-> base, range |-> {1, 2}]}

Parts == {"one request", "one replica", "messages", "quarantine", "plugins", "secrets"}
ErRest == <<place, filed, job, admin, gens, eFaults, ghosts>>
RtRest == <<work, ret, qua, edits, rtFaults, since, excused>>
GovInit ==
    /\ ErInit /\ RtInit /\ PlInit /\ PsInit /\ part \in Parts
    /\ part # "messages" => msg = [i \in Msgs |-> "live"]
    /\ part # "secrets" => ~oldPods /\ \A p \in SecretRows : srow[p].held = "none" /\ ~srow[p].gone
ErasureMoves ==
    /\ part \in {"one request", "one replica"} /\ ErNext /\ UNCHANGED <<RtRest, plvars, psvars, part>>
    /\ part = "one request" => \A r \in Requests \ {1} : req'[r] = NoRequest
    /\ part = "one replica" => eFaults' = 0 /\ Cardinality({w \in EWorkers : job'[w].at # "idle"}) <= 1
RetentionMoves ==
    /\ part \in {"messages", "quarantine"} /\ RtNext /\ UNCHANGED <<ErRest, plvars, psvars, part>>
    /\ part = "messages" => qua' = NoRun /\ ent' = ent
    /\ part = "quarantine" => ret' = NoRun /\ msg' = msg /\ bodies' = bodies
PluginsMove == part = "plugins" /\ PlNext /\ UNCHANGED <<erVars, rtVars, psvars, part>>
SecretsMove == part = "secrets" /\ PsNext /\ UNCHANGED <<erVars, rtVars, plvars, part>>
GovSpec ==
    GovInit /\ [][ErasureMoves \/ RetentionMoves \/ PluginsMove \/ SecretsMove]_<<erVars, rtVars, plvars, psvars, part>>
================================================================================
