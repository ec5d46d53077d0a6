------------------------------- MODULE ImportJob -------------------------------
(****************************************************************************)
(* MailboxImportJob on one request: the messages of an uploaded file, one   *)
(* by one, into a folder, charged to the mailbox's quota. Each message has  *)
(* a Message-ID and attachments; the folder holds nothing of the file yet.  *)
(* A copy is whole once its attachments are written.                        *)
(****************************************************************************)
EXTENDS LeasedRequest

CONSTANTS
    Total,   \* messages of the file
    Quota    \* messages the mailbox has room for

ASSUME ImportAssumption == Total \in Nat /\ Quota \in Nat

VARIABLES
    source,    \* the uploaded file is in the blob store
    copies,    \* of each message, the copies in the folder: the attempt that wrote it, whether it is whole
    used,      \* usedBytes, in messages
    pos,       \* each worker's message
    skipped,   \* history: messages counted as failed, by attempt
    overran    \* history: attempts that were reclaimed from a worker still at work

importVars == <<leaseVars, source, copies, used, pos, skipped, overran>>
fileVars == <<source, copies, used, skipped>>

Mine(x, whole) == [by |-> mine[x], whole |-> whole]
ImportInit ==
    /\ LeaseInit /\ source = TRUE /\ copies = [i \in 1..Total |-> {}] /\ used = 0
    /\ pos = [x \in Workers |-> 1] /\ skipped = {} /\ overran = {}

ClaimImport(x) ==
    Claim(x, "next") /\ pos' = [pos EXCEPT ![x] = 1] /\ UNCHANGED <<fileVars, overran>>
\* Failed before the claim: processRequest() deletes the file only when its own markFailed() wrote the row; the
\* one of run() leaves it.
FailImport(x) ==
    (FailUnclaimed(x, "idle") \/ FailUnclaimed(x, "discard")) /\ UNCHANGED <<fileVars, pos, overran>>
ReclaimImport(x) ==
    /\ Reclaim(x, "discard") /\ UNCHANGED <<fileVars, pos>>
    /\ overran' = overran \cup {mine[y] : y \in {z \in Workers : at[z] # "idle" /\ mine[z] = row.att}}
RenewImport(x) == at[x] = "next" /\ RenewLease(x) /\ UNCHANGED <<fileVars, pos, overran>>
\* renewLease() throws before the next message once another has the row. (A lost lease is always due for renewal.)
Loses(x) ==
    /\ at[x] = "next" /\ x \notin latest /\ Moves(x, "mark")
    /\ UNCHANGED <<row, age, latest, mine, faults, fileVars, pos, overran>>
\* Anything else throws outside a message: the file cannot be read, the folder's counts not refreshed.
Breaks(x) ==
    /\ at[x] = "next" /\ Fault /\ Moves(x, "mark")
    /\ UNCHANGED <<row, age, latest, mine, fileVars, pos, overran>>
Checks(x) ==
    /\ at[x] = "next" /\ x \in latest /\ pos[x] <= Total /\ Moves(x, "look")
    /\ UNCHANGED <<row, age, latest, mine, faults, fileVars, pos, overran>>
Recognised_Partial(c) == TRUE
\* alreadyImported(), from the second attempt on: a whole copy counts as imported, a partial one is rolled back
\* and refunded.
Recognised(c) == c.whole
Looks(x) ==
    /\ at[x] = "look"
    /\ LET i == pos[x] IN
       \/ /\ mine[x] = 1 \/ copies[i] = {}
          /\ Moves(x, "charge") /\ UNCHANGED <<pos, copies, used>>
       \/ \E c \in copies[i] : /\ mine[x] > 1
            /\ IF Recognised(c) THEN Moves(x, "next") /\ pos' = [pos EXCEPT ![x] = i + 1] /\ UNCHANGED <<copies, used>>
               ELSE /\ Moves(x, "charge") /\ copies' = [copies EXCEPT ![i] = @ \ {c}]
                    /\ used' = IF used = 0 THEN 0 ELSE used - 1
                    /\ UNCHANGED pos
    /\ UNCHANGED <<row, age, latest, mine, faults, source, skipped, overran>>
\* persistImportedMessage(): an infected message is not imported, a full mailbox ends the import.
Charge(x) ==
    /\ at[x] = "charge"
    /\ IF used < Quota THEN used' = used + 1 /\ Moves(x, "write") /\ UNCHANGED faults
       ELSE Moves(x, "full") /\ UNCHANGED <<used, faults>>
    /\ UNCHANGED <<row, age, latest, mine, source, copies, pos, skipped, overran>>
Infected(x) ==
    /\ at[x] = "charge" /\ Fault /\ Moves(x, "next") /\ pos' = [pos EXCEPT ![x] = @ + 1]
    /\ skipped' = skipped \cup {[by |-> mine[x], msg |-> pos[x]]}
    /\ UNCHANGED <<row, age, latest, mine, source, copies, used, overran>>
\* writeImportedMessage(): the row, then the attachments.
WriteRow(x) ==
    /\ at[x] = "write" /\ Moves(x, "attach") /\ copies' = [copies EXCEPT ![pos[x]] = @ \cup {Mine(x, FALSE)}]
    /\ UNCHANGED <<row, age, latest, mine, faults, source, used, pos, skipped, overran>>
Completed(x) ==
    IF Mine(x, FALSE) \in copies[pos[x]]
    THEN [copies EXCEPT ![pos[x]] = (@ \ {Mine(x, FALSE)}) \cup {Mine(x, TRUE)}] ELSE copies
WriteAttachments(x) ==
    /\ at[x] = "attach" /\ Moves(x, "next") /\ pos' = [pos EXCEPT ![x] = @ + 1] /\ copies' = Completed(x)
    /\ UNCHANGED <<row, age, latest, mine, faults, source, used, skipped, overran>>
\* A write fails: what was written is rolled back, the charge refunded, the message counted as failed.
WriteFails(x) ==
    /\ at[x] \in {"write", "attach"} /\ Fault /\ Moves(x, "next") /\ pos' = [pos EXCEPT ![x] = @ + 1]
    /\ copies' = [copies EXCEPT ![pos[x]] = @ \ {Mine(x, FALSE)}] /\ used' = IF used = 0 THEN 0 ELSE used - 1
    /\ skipped' = skipped \cup {[by |-> mine[x], msg |-> pos[x]]}
    /\ UNCHANGED <<row, age, latest, mine, source, overran>>
\* The last update, by the version held; the file is deleted by whoever wrote the row's last status.
EndsAs(x) == IF at[x] = "full" THEN "failed" ELSE "completed"
FinishImport(x) ==
    /\ at[x] = "full" \/ (at[x] = "next" /\ pos[x] > Total)
    /\ IF x \in latest
       THEN Writes(x, [row EXCEPT !.is = EndsAs(x)]) /\ Moves(x, "discard") /\ UNCHANGED <<mine, faults>>
       ELSE Moves(x, "mark") /\ UNCHANGED <<row, age, latest, mine, faults>>
    /\ UNCHANGED <<fileVars, pos, overran>>
MarkImportFailed(x) == at[x] = "mark" /\ MarkFailed(x, "discard") /\ UNCHANGED <<fileVars, pos, overran>>
Discard(x) ==
    /\ at[x] = "discard" /\ Moves(x, "idle")
    /\ \/ source' = FALSE /\ UNCHANGED faults
       \/ Fault /\ UNCHANGED source
    /\ UNCHANGED <<row, age, latest, mine, copies, used, pos, skipped, overran>>
CrashImport(x) == Crash(x) /\ UNCHANGED <<fileVars, pos, overran>>

ImportStep(x) ==
    \/ ClaimImport(x) \/ ReclaimImport(x) \/ Loses(x) \/ Checks(x) \/ Looks(x) \/ Charge(x) \/ WriteRow(x) \/ WriteAttachments(x)
    \/ FinishImport(x) \/ MarkImportFailed(x) \/ Discard(x)
ImportFault(x) == FailImport(x) \/ RenewImport(x) \/ Breaks(x) \/ Infected(x) \/ WriteFails(x) \/ CrashImport(x)
ImportTime == Passes /\ UNCHANGED <<fileVars, pos, overran>>
ImportNext == ImportTime \/ \E x \in Workers : ImportStep(x) \/ ImportFault(x)
ImportSpec == ImportInit /\ [][ImportNext]_importVars

--------------------------------------------------------------------------------
\* A completed import has a whole copy of every message its last attempt did not count as failed, though earlier
\* attempts died or were overtaken in the middle of a message, and the file is there as long as it is needed. Only
\* a second or later attempt that overran its lease can cost a message, one each: it takes its successor's
\* half-written copy for a leftover.
Lost == {i \in 1..Total : [by |-> row.att, msg |-> i] \notin skipped /\ \A c \in copies[i] : ~c.whole}
CompletedIsImported ==
    /\ row.is = "completed" => Cardinality(Lost) <= Cardinality(overran \ {1})
    /\ row.is \notin Final => source
\* A retry never doubles a message: each further copy of one is the message a worker was at when its lease was
\* taken from it.
OneCopyPerOverrun == \A i \in 1..Total : Cardinality(copies[i]) <= 1 + Cardinality(overran)
\* The quota never counts less than is stored, unless a worker that lost its lease refunded what its successor had.
NeverUndercharged ==
    LET stored == Cardinality({<<i, c>> \in (1..Total) \X UNION {copies[j] : j \in 1..Total} : c \in copies[i]})
    IN stored <= used + Cardinality(overran)

\* The three together.
ImportAccounted == CompletedIsImported /\ OneCopyPerOverrun /\ NeverUndercharged
================================================================================

