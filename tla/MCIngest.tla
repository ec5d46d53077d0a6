-------------------------------- MODULE MCIngest -------------------------------
(****************************************************************************)
(* The mail that comes in, in two parts, each on its own: what one call of  *)
(* the MTA stages for its recipients, and what the workers do with one      *)
(* entry of the queue: either two of them at a time, or one after the other *)
(* while the mailbox is erased.                                             *)
(****************************************************************************)
EXTENDS IngestQueue, Delivery, TLC
CONSTANTS b1, z1, l1, l2, x1, x2
VARIABLE part
MCWorkers == Permutations(Workers)

\* At first each list names the other, a mailbox and a member elsewhere; each may be given any of these.
MCLists == {<<b1, l2, x1>>, <<z1, l1, x2>>, <<x1, x2>>}
Rule(act, on, stop) == [acts |-> {act}, on |-> on, stop |-> stop]
MCRules == {<<Rule("quarantine", TRUE, TRUE), Rule("reject", TRUE, FALSE)>>,
            <<Rule("copy", TRUE, FALSE), Rule("quarantine", FALSE, TRUE)>>,
            <<Rule("reject", TRUE, TRUE)>>}

MCInit ==
    /\ part \in {"queue", "erasure", "delivery"} /\ Init /\ DlInit
    /\ part = "delivery" => entry.sealed
    /\ list[l1].members = <<b1, l2, x1>> /\ list[l2].members = <<z1, l1, x2>>
MCNext ==
    \/ part = "queue" /\ Next /\ steps' = 0 /\ UNCHANGED <<part, dlVars>>
    \/ part = "erasure" /\ Next /\ Cardinality({w \in Workers : pc'[w] # "idle"}) <= 1 /\ UNCHANGED <<part, dlVars>>
    \/ part = "delivery" /\ DlNext /\ UNCHANGED <<part, vars>>
MCSpec == MCInit /\ [][MCNext]_<<part, vars, dlVars>>
================================================================================
