--------------------------------- MODULE MCMail --------------------------------
(****************************************************************************)
(* What a mailbox and its owner keep, each part on its own: its addresses,  *)
(* its grants, its well-known folders, their counts, a message's            *)
(* attachments, the quota, what is done with a received message, a          *)
(* correspondent's keys, the server's index of readable mail, and the       *)
(* index and the records of a sealed mailbox.                               *)
(****************************************************************************)
EXTENDS Addresses, MailboxAccess, ContactKeys, MessageActions, Attachments, Folders,
        SearchIndexing, SealedData, TLC
CONSTANTS f1, f2, u1, u2, u3
VARIABLE part

MCAliases == {{}} \cup {{a} : a \in Addrs}
\* Two users who see one of the folders each, and one who sees both.
MCUserPlaces == (u1 :> {f1}) @@ (u2 :> {f2}) @@ (u3 :> {f1, f2})
MCSlotOf == [k \in Keys |-> IF k \in {"p1", "p2"} THEN "openpgp" ELSE "x509"]
MCVouched == {<<"x1", "x2">>, <<"p1", "p2">>}
Answered(a, s, c, d) == [active |-> a, superseded |-> s, compromised |-> c, seen |-> d]
MCResponses ==
    {Answered({"x1", "p1"}, {}, {}, 1), Answered({"x2"}, {}, {}, 2), Answered({"x3", "p2"}, {}, {}, 1),
     Answered({"x2", "p2"}, {"x1", "p1"}, {}, 2), Answered({"x3"}, {}, {"x1", "p1"}, 1)}

Parts == {"addresses", "access", "keys", "actions", "attachments", "quota", "folders", "counts", "search", "index", "records"}
MCInit ==
    /\ part \in Parts /\ AdInit /\ AcInit /\ CkInit /\ MaInit /\ AtInit /\ FlInit /\ SiInit /\ SdInit
    /\ part # "attachments" => at = f1
    /\ part # "folders" => wkAcl = NoAcl
    /\ part # "search" => ~msg.draft
MailVars == <<adVars, acVars, ckvars, mavars, atvars, flvars, sivars, sdvars>>
MCNext ==
    \/ part = "addresses" /\ AdNext /\ UNCHANGED <<acVars, ckvars, mavars, atvars, flvars, sivars, sdvars, part>>
    \/ part = "access" /\ AcNext /\ UNCHANGED <<adVars, ckvars, mavars, atvars, flvars, sivars, sdvars, part>>
    \/ part = "keys" /\ CkNext /\ UNCHANGED <<adVars, acVars, mavars, atvars, flvars, sivars, sdvars, part>>
    \/ part = "actions" /\ MaNext /\ UNCHANGED <<adVars, acVars, ckvars, atvars, flvars, sivars, sdvars, part>>
    \/ part = "attachments" /\ ScNext /\ UNCHANGED <<adVars, acVars, ckvars, mavars, qvars, flvars, sivars, sdvars, part>>
    \/ part = "quota" /\ QNext /\ UNCHANGED <<adVars, acVars, ckvars, mavars, scvars, flvars, sivars, sdvars, part>>
    \/ part = "folders" /\ WkNext /\ UNCHANGED <<adVars, acVars, ckvars, mavars, atvars, fcvars, sivars, sdvars, part>>
    \/ part = "counts" /\ FcNext /\ UNCHANGED <<adVars, acVars, ckvars, mavars, atvars, wkvars, sivars, sdvars, part>>
    \/ part = "search" /\ SiNext /\ UNCHANGED <<adVars, acVars, ckvars, mavars, atvars, flvars, sdvars, part>>
    \/ part = "index" /\ IdxNext /\ UNCHANGED <<adVars, acVars, ckvars, mavars, atvars, flvars, sivars, recvars, part>>
    \/ part = "records" /\ RecNext /\ UNCHANGED <<adVars, acVars, ckvars, mavars, atvars, flvars, sivars, idxvars, part>>
MCSpec == MCInit /\ [][MCNext]_<<MailVars, part>>
================================================================================
