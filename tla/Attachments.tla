---------------------------- MODULE Attachments -----------------------------
(***************************************************************************)
(* Records that live in a folder (BaseScopedChildRoute), seen on the one   *)
(* kind whose place is another record's: the attachments of a message that *)
(* may move (BaseAttachmentRoute); and the mailbox's quota, charged by     *)
(* uploads, refunded by purges and recounted by MailboxQuotaRecalcJob.     *)
(* Every attachment weighs one unit.                                       *)
(***************************************************************************)
EXTENDS Naturals, FiniteSets

CONSTANTS Atts,            \* attachments of one message
          Places,          \* folders, each of a mailbox of its own
          UserPlaces,      \* the folders each user may list, change and empty: [users -> SUBSET Places]
          ScRequests, MaxScRequests,
          Uploads, Quota, MaxQuotaTries, MaxQuotaOps, MaxQuotaFaults

VARIABLES at,        \* the message's folder
          stored,    \* [Atts -> [there, folder, rev]]: the folder an attachment's row names may be stale
          flag,      \* [has, rev]: the message's hasAttachments
          onHold,    \* folders whose mailbox is under a legal hold
          scReq,     \* the requests
          scCount, 
          scGhost,   \* ghost: [wrong, crossed]
          used,      \* [bytes, rev]: the mailbox row's quota
          rows,      \* how many charged rows the mailbox holds
          up,        \* the uploads and purges in flight
          recalc,    \* the recalculation job
          qops, qfaults,
          drift      \* ghost: a charge was lost or counted twice where the code lets it

scvars == <<at, stored, flag, onHold, scReq, scCount, scGhost>>
qvars == <<used, rows, up, recalc, qops, qfaults, drift>>
atvars == <<scvars, qvars>>

-----------------------------------------------------------------------------
(* Access.                                                                 *)

NoReq == [pc |-> "idle", op |-> "none", user |-> CHOOSE u \in DOMAIN UserPlaces : TRUE, att |-> {}, folder |-> CHOOSE f \in Places : TRUE,
          rev |-> 0, ever |-> {}, held |-> {}, count |-> 0]

Attached == {a \in Atts : stored[a].there}
HasAccess(u, f) == f \in UserPlaces[u]

ScAsk(r, q) == /\ scReq[r].pc = "idle" /\ scCount < MaxScRequests /\ scCount' = scCount + 1
             /\ scReq' = [scReq EXCEPT ![r] = [q EXCEPT !.ever = {at}, !.held = onHold]]
ScStep(r, pc) == scReq' = [scReq EXCEPT ![r].pc = pc]
ScEnds(r) == scReq' = [scReq EXCEPT ![r] = NoReq]

\* The message is moved by someone who may change both folders; a hold keeps it in its mailbox.
\* Its attachments' rows are not touched.
MoveMessage(u, f) ==
    /\ scCount < MaxScRequests /\ scCount' = scCount + 1
    /\ f # at /\ HasAccess(u, at) /\ HasAccess(u, f) /\ at \notin onHold
    /\ at' = f /\ flag' = [flag EXCEPT !.rev = @ + 1]
    /\ scReq' = [r \in ScRequests |-> [scReq[r] EXCEPT !.ever = @ \cup {f}]]
    /\ UNCHANGED <<stored, onHold, scGhost>>

ToggleHold(f) ==
    /\ scCount < MaxScRequests /\ scCount' = scCount + 1
    /\ onHold' = IF f \in onHold THEN onHold \ {f} ELSE onHold \cup {f}
    \* a request answers for the holds that stood from its start
    /\ scReq' = [r \in ScRequests |-> [scReq[r] EXCEPT !.held = @ \cap onHold']]
    /\ UNCHANGED <<at, stored, flag, scGhost>>

\* An upload names the folder its message is in.
UploadAttachment(r, u, a) ==
    /\ ~stored[a].there /\ HasAccess(u, at)
    /\ \A q \in ScRequests : a \notin scReq[q].att \/ scReq[q].pc = "idle"
    /\ ScAsk(r, [NoReq EXCEPT !.pc = "count", !.op = "upload", !.user = u, !.att = {a}])
    /\ stored' = [stored EXCEPT ![a] = [there |-> TRUE, folder |-> at, rev |-> @.rev + 1]]
    /\ UNCHANGED <<at, flag, onHold, scGhost>>

\* A delete or an update is checked where the attachment really is, then its row is brought there.
BeginOne(r, u, a, op) ==
    /\ stored[a].there
    /\ HasAccess(u, at)
    /\ ScAsk(r, [NoReq EXCEPT !.pc = "realign", !.op = op, !.user = u, !.att = {a}])
    /\ UNCHANGED <<at, stored, flag, onHold, scGhost>>

Located(a) == IF stored[a].there /\ stored[a].folder # at THEN [stored[a] EXCEPT !.folder = at, !.rev = @ + 1] ELSE stored[a]
Realigned_NotAtAll(as) == stored
Realigned(as) == [a \in Atts |-> IF a \in as THEN Located(a) ELSE stored[a]]

RealignRows(r) ==
    /\ scReq[r].pc = "realign" /\ ScStep(r, "check")
    /\ stored' = Realigned(IF scReq[r].op = "truncate" THEN {a \in Attached : stored[a].folder = scReq[r].folder} ELSE scReq[r].att)
    /\ UNCHANGED <<at, flag, onHold, scCount, scGhost>>

\* A folder is emptied by someone who may empty it, stale rows brought home first.
BeginTruncate(r, u, f) ==
    /\ HasAccess(u, f)
    /\ ScAsk(r, [NoReq EXCEPT !.pc = "realign", !.op = "truncate", !.user = u, !.folder = f])
    /\ UNCHANGED <<at, stored, flag, onHold, scGhost>>

\* The hold that counts is the one on the mailbox the message is in.
CheckLegalHold(as) == as = {} \/ at \notin onHold

\* The rows are read again, the inherited checks made against the folder they name, then the
\* holds, for everything but an update within the mailbox.
CheckAgain(r) ==
    /\ scReq[r].pc = "check"
    /\ LET q == scReq[r]
           matched == IF q.op = "truncate" THEN {a \in Attached : stored[a].folder = q.folder} ELSE q.att \cap Attached
           allowed == \A a \in matched : HasAccess(q.user, stored[a].folder)
       IN  IF matched # {} /\ allowed /\ CheckLegalHold(matched)
           THEN scReq' = [scReq EXCEPT ![r].pc = "write", ![r].att = matched,
                                       ![r].rev = IF q.op = "update" THEN stored[CHOOSE a \in matched : TRUE].rev ELSE 0]
           ELSE ScEnds(r)
    /\ UNCHANGED <<at, stored, flag, onHold, scCount, scGhost>>

\* What a request may not have changed: nothing of a message it never reached, or that a hold covered throughout.
Wrongly(q, hit) == hit # {} /\ (UserPlaces[q.user] \cap q.ever = {} \/ q.ever \subseteq q.held)
Gone(hit) == [a \in Atts |-> IF a \in hit THEN [stored[a] EXCEPT !.there = FALSE, !.rev = @ + 1] ELSE stored[a]]

\* An update writes the row as it was read, or not at all.
UpdateRow(r) ==
    /\ scReq[r].pc = "write" /\ scReq[r].op = "update" /\ ScEnds(r)
    /\ LET hit == {a \in scReq[r].att \cap Attached : stored[a].rev = scReq[r].rev}
       IN  /\ stored' = [a \in Atts |-> IF a \in hit THEN [stored[a] EXCEPT !.rev = @ + 1] ELSE stored[a]]
           /\ scGhost' = [scGhost EXCEPT !.wrong = @ \/ Wrongly(scReq[r], hit)]
    /\ UNCHANGED <<at, flag, onHold, scCount>>

\* A delete removes the row by its uid; the message's flag follows.
DeleteRow(r) ==
    /\ scReq[r].pc = "write" /\ scReq[r].op = "delete" /\ ScStep(r, "count")
    /\ LET hit == scReq[r].att \cap Attached
       IN  stored' = Gone(hit) /\ scGhost' = [scGhost EXCEPT !.wrong = @ \/ Wrongly(scReq[r], hit)]
    /\ UNCHANGED <<at, flag, onHold, scCount>>

\* A truncate removes every row it matched; no flag follows.
TruncateRows(r) ==
    /\ scReq[r].pc = "write" /\ scReq[r].op = "truncate" /\ ScEnds(r)
    /\ LET hit == scReq[r].att \cap Attached
       IN  stored' = Gone(hit) /\ scGhost' = [scGhost EXCEPT !.wrong = @ \/ Wrongly(scReq[r], hit), !.emptied = TRUE]
    /\ UNCHANGED <<at, flag, onHold, scCount>>

\* hasAttachments: the rows are counted, then the message read and written if it has not changed.
CountAttachments(r) ==
    /\ scReq[r].pc = "count"
    /\ scReq' = [scReq EXCEPT ![r].pc = "sync", ![r].count = Cardinality(Attached)]
    /\ scGhost' = [scGhost EXCEPT !.crossed = @ \/ \E q \in ScRequests \ {r} : scReq[q].pc = "sync"]
    /\ UNCHANGED <<at, stored, flag, onHold, scCount>>

SyncsTo(r) == scReq[r].count > 0

SyncMessageHasAttachments(r) ==
    /\ scReq[r].pc = "sync" /\ ScEnds(r)
    /\ flag' = IF flag.has = SyncsTo(r) THEN flag ELSE [has |-> SyncsTo(r), rev |-> flag.rev + 1]
    /\ UNCHANGED <<at, stored, onHold, scCount, scGhost>>

ScInit == /\ at \in Places /\ stored = [a \in Atts |-> [there |-> FALSE, folder |-> at, rev |-> 0]]
          /\ flag = [has |-> FALSE, rev |-> 0] /\ onHold = {}
          /\ scReq = [r \in ScRequests |-> NoReq] /\ scCount = 0
          /\ scGhost = [wrong |-> FALSE, crossed |-> FALSE, emptied |-> FALSE]

ScNext == \/ \E f \in Places : ToggleHold(f) \/ \E u \in DOMAIN UserPlaces : MoveMessage(u, f)
          \/ \E r \in ScRequests :
                \/ \E u \in DOMAIN UserPlaces :
                      \/ \E a \in Atts : UploadAttachment(r, u, a) \/ BeginOne(r, u, a, "delete") \/ BeginOne(r, u, a, "update")
                      \/ \E f \in Places : BeginTruncate(r, u, f)
                \/ RealignRows(r) \/ CheckAgain(r) \/ UpdateRow(r) \/ DeleteRow(r) \/ TruncateRows(r) \/ CountAttachments(r) \/ SyncMessageHasAttachments(r)

-----------------------------------------------------------------------------
(* The quota.                                                              *)

NoUpload == [pc |-> "idle", seen |-> 0, rev |-> 0, tries |-> 0]
NoRecalc == [pc |-> "idle", start |-> 0, startRev |-> 0, found |-> 0, seen |-> 0, rev |-> 0, alone |-> TRUE]
QuotaOp == qops < MaxQuotaOps /\ qops' = qops + 1
UpStep(w, pc) == up' = [up EXCEPT ![w].pc = pc]
\* InFlight a charge and its row, or a row and its refund, the counts differ.
InFlight == \E w \in Uploads : up[w].pc \notin {"idle", "charge"} \/ (up[w].pc = "charge" /\ up[w].tries > 0)
Unsettled == recalc' = IF recalc.pc = "idle" THEN recalc ELSE [recalc EXCEPT !.alone = FALSE]

\* The mailbox row is read; what would exceed the quota is refused.
ChargeReads(w) ==
    /\ up[w].pc \in {"idle", "charge"} /\ used.bytes < Quota
    /\ IF up[w].pc = "idle" THEN QuotaOp ELSE UNCHANGED qops
    /\ up' = [up EXCEPT ![w] = [pc |-> "charged", seen |-> used.bytes, rev |-> used.rev, tries |-> @.tries]]
    /\ Unsettled /\ UNCHANGED <<used, rows, qfaults, drift>>

Unmoved(rev) == used.rev = rev
TriesAgain(u, pc) == IF u.tries + 1 = MaxQuotaTries THEN NoUpload ELSE [u EXCEPT !.pc = pc, !.tries = @ + 1]

\* The increment is written if the row is the one read; else it is read again, a few times.
ChargeMailboxQuota(w) ==
    /\ up[w].pc = "charged"
    /\ IF Unmoved(up[w].rev)
       THEN used' = [bytes |-> up[w].seen + 1, rev |-> used.rev + 1] /\ UpStep(w, "create")
       ELSE /\ up' = [up EXCEPT ![w] = TriesAgain(@, "charge")]
            /\ UNCHANGED used
    /\ Unsettled /\ UNCHANGED <<rows, qops, qfaults, drift>>

RetryRefused(w) == /\ up[w].pc = "charge" /\ used.bytes >= Quota
                   /\ up' = [up EXCEPT ![w] = NoUpload]
                   /\ UNCHANGED <<used, rows, recalc, qops, qfaults, drift>>

\* The blob and the row follow; one that fails gives its charge back; a server that stops does not.
CreateRow(w) ==
    /\ up[w].pc = "create"
    /\ \/ rows' = rows + 1 /\ up' = [up EXCEPT ![w] = NoUpload] /\ UNCHANGED <<qfaults, drift>>
       \/ /\ qfaults < MaxQuotaFaults /\ qfaults' = qfaults + 1 /\ UNCHANGED rows
          /\ \/ up' = [up EXCEPT ![w] = [NoUpload EXCEPT !.pc = "refund"]] /\ UNCHANGED drift
             \/ up' = [up EXCEPT ![w] = NoUpload] /\ drift' = TRUE
    /\ Unsettled /\ UNCHANGED <<used, qops>>

\* A purge removes the row, then refunds it.
PurgeRow(w) ==
    /\ up[w].pc = "idle" /\ rows > 0 /\ rows' = rows - 1 /\ QuotaOp
    /\ up' = [up EXCEPT ![w] = [NoUpload EXCEPT !.pc = "refund"]]
    /\ Unsettled /\ UNCHANGED <<used, qfaults, drift>>

RefundReads(w) ==
    /\ up[w].pc = "refund"
    /\ up' = [up EXCEPT ![w] = [@ EXCEPT !.pc = "refunded", !.seen = used.bytes, !.rev = used.rev]]
    /\ Unsettled /\ UNCHANGED <<used, rows, qops, qfaults, drift>>

RefundMailboxQuota(w) ==
    /\ up[w].pc = "refunded"
    /\ IF Unmoved(up[w].rev)
       THEN /\ used' = [bytes |-> IF up[w].seen = 0 THEN 0 ELSE up[w].seen - 1, rev |-> used.rev + 1]
            /\ up' = [up EXCEPT ![w] = NoUpload] /\ UNCHANGED drift
       ELSE /\ up' = [up EXCEPT ![w] = TriesAgain(@, "refund")]
            /\ drift' = (drift \/ up[w].tries + 1 = MaxQuotaTries) /\ UNCHANGED used
    /\ Unsettled /\ UNCHANGED <<rows, qops, qfaults>>

\* The recalculation reads the row, adds up what is stored, reads the row again ...
RecalcStarts ==
    /\ recalc.pc = "idle" /\ QuotaOp
    /\ recalc' = [NoRecalc EXCEPT !.pc = "scan", !.start = used.bytes, !.startRev = used.rev, !.alone = ~InFlight]
    /\ UNCHANGED <<used, rows, up, qfaults, drift>>

\* Bodies whose blob cannot be read now are not counted.
BodySizes(unsized) == rows - unsized

RecalcScans ==
    /\ recalc.pc = "scan"
    /\ \/ /\ recalc' = IF BodySizes(0) = recalc.start THEN NoRecalc ELSE [recalc EXCEPT !.pc = "look", !.found = BodySizes(0)]
          /\ UNCHANGED qfaults
       \* an incomplete count only lets the figure grow
       \/ /\ qfaults < MaxQuotaFaults /\ qfaults' = qfaults + 1 /\ rows > 0
          /\ recalc' = IF BodySizes(1) <= recalc.start THEN NoRecalc
                       ELSE [recalc EXCEPT !.pc = "look", !.found = BodySizes(1), !.alone = FALSE]
    /\ UNCHANGED <<used, rows, up, qops, drift>>

RecalcTarget(r) == IF r.rev # r.startRev THEN IF r.seen + r.found < r.start THEN 0 ELSE r.seen + r.found - r.start ELSE r.found

RecalcLooks ==
    /\ recalc.pc = "look"
    /\ recalc' = [recalc EXCEPT !.pc = "write", !.seen = used.bytes, !.rev = used.rev]
    /\ UNCHANGED <<used, rows, up, qops, qfaults, drift>>

\* ... and writes the drift it found onto it, if it is still the row read.
RecalcMailbox ==
    /\ recalc.pc = "write" /\ recalc' = NoRecalc
    /\ IF Unmoved(recalc.rev) /\ RecalcTarget(recalc) # used.bytes
       THEN used' = [bytes |-> RecalcTarget(recalc), rev |-> used.rev + 1] /\ drift' = ~recalc.alone
       ELSE UNCHANGED <<used, drift>>
    /\ UNCHANGED <<rows, up, qops, qfaults>>

QInit == /\ used = [bytes |-> 0, rev |-> 0] /\ rows = 0 /\ up = [w \in Uploads |-> NoUpload]
         /\ recalc = NoRecalc /\ qops = 0 /\ qfaults = 0 /\ drift = FALSE
QNext == \/ \E w \in Uploads : \/ ChargeReads(w) \/ ChargeMailboxQuota(w) \/ RetryRefused(w) \/ CreateRow(w)
                               \/ PurgeRow(w) \/ RefundReads(w) \/ RefundMailboxQuota(w)
         \/ RecalcStarts \/ RecalcScans \/ RecalcLooks \/ RecalcMailbox

-----------------------------------------------------------------------------
AtInit == ScInit /\ QInit
AtNext == (ScNext /\ UNCHANGED qvars) \/ (QNext /\ UNCHANGED scvars)
AtSpec == AtInit /\ [][AtNext]_atvars

-----------------------------------------------------------------------------
(* Properties.                                                             *)

\* However moves of the message cross a delete, an update or a truncate, an attachment is changed
\* or removed only by someone who could reach the message since the request began, and never while
\* every place it has been in since then was under a hold.
ReachedRightfully == ~scGhost.wrong

\* When no request is under way, the message's flag says whether it has attachments - but for two
\* requests that counted across each other and a folder emptied as a whole.
FlagFollows == (\A r \in ScRequests : scReq[r].pc = "idle") /\ ~scGhost.crossed /\ ~scGhost.emptied
                  => (flag.has <=> Attached # {})

\* When nothing is under way the mailbox is charged exactly for what it holds, whatever charges,
\* refunds and failures crossed - until a server stops between two steps, a refund gives up or the
\* recalculation ran across a charge; one that runs alone makes it exact again.
UsedIsExact == (\A w \in Uploads : up[w].pc = "idle") /\ recalc.pc = "idle" /\ ~drift => used.bytes = rows

\* A message's attachments stay with those who may reach them, and its flag and the mailbox's quota follow them
\* (BaseScopedChildRoute, MailboxQuotaUtils).
AttachmentsHold == ReachedRightfully /\ FlagFollows /\ UsedIsExact
=============================================================================
