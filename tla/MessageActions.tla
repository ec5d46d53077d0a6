--------------------------- MODULE MessageActions ---------------------------
(***************************************************************************)
(* What is done to a message that was received, by requests and by the     *)
(* scan queue's workers at once: marked read or unread with the receipt it *)
(* asked for, receipts approved or declined, its delivery receipt, archived*)
(* or classified, reported, sealed, recalled by its sender; and, on the    *)
(* sender's side, the recall request and the receipts coming back.  Each   *)
(* reads the row, and writes it only if it is still the row it read, but   *)
(* for a recall's delete.                                                  *)
(***************************************************************************)
EXTENDS Naturals, FiniteSets

CONSTANTS Actors, MaxActs, MaxRowAttempts, MaxMailFailures, MaxGeneration,
          Seals,       \* seals of a verification
          Receivers,   \* addresses whose receipts come back
          Blockable      \* entries of the mailbox's sender lists

VARIABLES got,         \* the received message's row
          act,         \* the requests and workers
          acts, mailFailures,
          vaultGen,    \* the key vault's master key generation
          receipts,    \* [read, delivery]: receipts that went out
          sentMsg,     \* the sender's copy: [recall, roster, rev]
          lists,       \* the mailbox's sender lists: [of: [Blockable -> none, safe or blocked], rev]
          recallNotices,  \* recall notices that went out
          maGhost      \* ghost: [double, slipped, opened]

mavars == <<got, act, acts, mailFailures, vaultGen, receipts, sentMsg, lists, recallNotices, maGhost>>

-----------------------------------------------------------------------------
Message0 == [read |-> FALSE, gone |-> FALSE, folder |-> "inbox", rr |-> "none", dr |-> "none",
             reported |-> FALSE, seal |-> {}, sealGen |-> 0, rev |-> 0]
Lists0 == [of |-> [e \in Blockable |-> "none"], rev |-> 0]
Sent0 == [recall |-> FALSE, roster |-> {}, rev |-> 0]
\* Of a row that was read, what the handler goes by.
FlagBefore(row) == [read |-> row.read, rr |-> row.rr]
Seen(row) == [rev |-> row.rev, seal |-> row.seal, sealGen |-> row.sealGen]
NoAct == [op |-> "none", pc |-> "idle", was |-> FlagBefore(Message0), seen |-> Seen(Message0), sent |-> Sent0, lists |-> Lists0, arg |-> {}, gen |-> 0, tries |-> 1]
MaUnch == UNCHANGED <<vaultGen, sentMsg, lists, recallNotices>>

ActGoes(a, pc) == act' = [act EXCEPT ![a].pc = pc]
ActEnds(a) == act' = [act EXCEPT ![a] = NoAct]
ActStarts(a, op, arg) == /\ act[a].pc = "idle" /\ acts < MaxActs /\ acts' = acts + 1
                      /\ act' = [act EXCEPT ![a] = [NoAct EXCEPT !.op = op, !.pc = "read", !.arg = arg]]

\* RepoUtils.update(): a write only of the row that was read.
Fresh(a) == ~got.gone /\ got.rev = act[a].seen.rev
Written(row) == got' = [row EXCEPT !.rev = got.rev + 1]
FreshSent(a) == sentMsg.rev = act[a].sent.rev

\* A request or an entry arrives.
BeginAct(a) ==
    /\ \/ \E op \in {"mark_read", "mark_unread", "archive", "approve_read", "approve_delivery", "decline_read", "deliver", "report", "recall"} : ActStarts(a, op, {})
       \/ \E s \in Seals : ActStarts(a, "seal", {s})
       \/ \E r \in Receivers : ActStarts(a, "receipt", {r})
       \/ ActStarts(a, "request_recall", {})
       \/ \E e \in Blockable, to \in {"safe", "blocked", "untrust", "unblock"} : ActStarts(a, "sender", {<<e, to>>})
    /\ MaUnch /\ UNCHANGED <<got, mailFailures, receipts, maGhost>>

\* The vault is re-keyed.
Rekey == /\ vaultGen < MaxGeneration /\ vaultGen' = vaultGen + 1
         /\ UNCHANGED <<got, act, acts, mailFailures, receipts, sentMsg, lists, recallNotices, maGhost>>

\* update(): the row as it was before, then the change, judged on both.
ReadBefore(a) ==
    /\ act[a].pc = "read" /\ act[a].op \in {"mark_read", "mark_unread"}
    /\ act' = [act EXCEPT ![a] = IF got.gone THEN NoAct ELSE [@ EXCEPT !.pc = "write", !.was = FlagBefore(got)]]
    /\ MaUnch /\ UNCHANGED <<got, acts, mailFailures, receipts, maGhost>>

WriteFlag(a) ==
    /\ act[a].pc = "write" /\ act[a].op \in {"mark_read", "mark_unread"}
    /\ LET row == [got EXCEPT !.read = act[a].op = "mark_read", !.rev = @ + 1]
           asks == ~act[a].was.read /\ row.read /\ act[a].was.rr = "none" /\ row.rr = "none"
       IN  IF got.gone THEN ActEnds(a) /\ UNCHANGED <<got, maGhost>>
           ELSE /\ got' = row
                /\ act' = [act EXCEPT ![a] = IF asks THEN [@ EXCEPT !.pc = "decide", !.seen = Seen(row)] ELSE NoAct]
                /\ maGhost' = [maGhost EXCEPT !.slipped = @ \/ (row.read /\ \E b \in Actors : act[b].op = "recall" /\ act[b].pc = "delete")]
    /\ MaUnch /\ UNCHANGED <<acts, mailFailures, receipts>>

\* Held for the owner's approval, or claimed before it is sent: of two that mark it read one goes on.
MaybeSendReadReceipt(a) ==
    /\ act[a].pc = "decide"
    /\ IF Fresh(a)
       THEN \/ Written([got EXCEPT !.rr = "pending"]) /\ ActEnds(a)
            \/ /\ Written([got EXCEPT !.rr = "sent"])
               /\ act' = [act EXCEPT ![a].pc = "mail", ![a].seen = Seen(got')]
       ELSE ActEnds(a) /\ UNCHANGED got
    /\ MaUnch /\ UNCHANGED <<acts, mailFailures, receipts, maGhost>>

\* The receipt goes out, or fails and its claim is taken back while it is still the same row.
MailFails == mailFailures < MaxMailFailures /\ mailFailures' = mailFailures + 1
SendReadReceipt(a) ==
    /\ act[a].pc = "mail" /\ act[a].op = "mark_read"
    /\ \/ receipts' = [receipts EXCEPT !.read = @ + 1] /\ ActEnds(a) /\ UNCHANGED mailFailures
       \/ MailFails /\ ActGoes(a, "release") /\ UNCHANGED receipts
    /\ MaUnch /\ UNCHANGED <<got, acts, maGhost>>
ReleaseReadClaim(a) ==
    /\ act[a].pc = "release" /\ act[a].op = "mark_read" /\ ActEnds(a)
    /\ IF Fresh(a) THEN Written([got EXCEPT !.rr = "none"]) ELSE UNCHANGED got
    /\ MaUnch /\ UNCHANGED <<acts, mailFailures, receipts, maGhost>>

\* approveReceipt() and declineReceipt(): only of a receipt that is pending.
RequirePendingReceipt(a) ==
    /\ act[a].pc = "read" /\ act[a].op \in {"approve_read", "approve_delivery", "decline_read"}
    /\ LET pending == IF act[a].op = "approve_delivery" THEN got.dr = "pending" ELSE got.rr = "pending"
       IN  act' = [act EXCEPT ![a] = IF pending /\ ~got.gone
                                     THEN [@ EXCEPT !.pc = IF act[a].op = "decline_read" THEN "write" ELSE "mail", !.seen = Seen(got)] ELSE NoAct]
    /\ maGhost' = [maGhost EXCEPT !.double = @ \/ \E b \in Actors \ {a} : act[b].op = act[a].op /\ act[b].pc \in {"mail", "sent", "unsent"}]
    /\ MaUnch /\ UNCHANGED <<got, acts, mailFailures, receipts>>

\* An approval is sent first and recorded after.
ApproveSends(a) ==
    /\ act[a].pc = "mail" /\ act[a].op \in {"approve_read", "approve_delivery"}
    /\ \/ /\ receipts' = IF act[a].op = "approve_read" THEN [receipts EXCEPT !.read = @ + 1] ELSE [receipts EXCEPT !.delivery = @ + 1]
          /\ ActGoes(a, "sent") /\ UNCHANGED mailFailures
       \/ MailFails /\ ActGoes(a, "unsent") /\ UNCHANGED receipts
    /\ MaUnch /\ UNCHANGED <<got, acts, maGhost>>
ApproveRecords(a) ==
    /\ act[a].pc \in {"sent", "unsent"} /\ ActEnds(a)
    /\ LET to == IF act[a].pc = "sent" THEN "sent" ELSE "none"
       IN  IF Fresh(a) THEN Written(IF act[a].op = "approve_read" THEN [got EXCEPT !.rr = to] ELSE [got EXCEPT !.dr = to]) /\ UNCHANGED maGhost
           ELSE UNCHANGED got /\ maGhost' = [maGhost EXCEPT !.double = @ \/ act[a].pc = "sent"]
    /\ MaUnch /\ UNCHANGED <<acts, mailFailures, receipts>>
DeclineReceipt(a) ==
    /\ act[a].pc = "write" /\ act[a].op = "decline_read" /\ ActEnds(a)
    /\ IF Fresh(a) THEN Written([got EXCEPT !.rr = "declined"]) ELSE UNCHANGED got
    /\ MaUnch /\ UNCHANGED <<acts, mailFailures, receipts, maGhost>>

\* The delivery receipt of the message just filed: nothing when one was sent, is pending or was
\* declined; else claimed with a few tries, then sent, and released when the send failed.
CompleteDeliveryReceipt(a) ==
    /\ act[a].pc = "read" /\ act[a].op = "deliver"
    /\ act' = [act EXCEPT ![a] = IF got.gone \/ got.dr # "none" THEN NoAct ELSE [@ EXCEPT !.pc = "claim", !.seen = Seen(got)]]
    /\ MaUnch /\ UNCHANGED <<got, acts, mailFailures, receipts, maGhost>>

NextTry(x, pc) == IF x.tries < MaxRowAttempts THEN [x EXCEPT !.pc = pc, !.tries = @ + 1] ELSE NoAct
Again(a, pc) == act' = [act EXCEPT ![a] = NextTry(@, pc)]

ClaimDeliveryReceipt(a) ==
    /\ act[a].pc = "claim" /\ act[a].op = "deliver"
    /\ IF Fresh(a)
       THEN \/ Written([got EXCEPT !.dr = "pending"]) /\ ActEnds(a)
            \/ Written([got EXCEPT !.dr = "sent"]) /\ act' = [act EXCEPT ![a].pc = "mail", ![a].tries = 1]
       ELSE Again(a, "read") /\ UNCHANGED got
    /\ MaUnch /\ UNCHANGED <<acts, mailFailures, receipts, maGhost>>
SendDeliveryReceipt(a) ==
    /\ act[a].pc = "mail" /\ act[a].op = "deliver"
    /\ \/ receipts' = [receipts EXCEPT !.delivery = @ + 1] /\ ActEnds(a) /\ UNCHANGED mailFailures
       \/ MailFails /\ ActGoes(a, "reread") /\ UNCHANGED receipts
    /\ MaUnch /\ UNCHANGED <<got, acts, maGhost>>
ReleaseReads(a) ==
    /\ act[a].pc = "reread"
    /\ act' = [act EXCEPT ![a] = IF got.dr = "sent" /\ ~got.gone THEN [@ EXCEPT !.pc = "release", !.seen = Seen(got)] ELSE NoAct]
    /\ MaUnch /\ UNCHANGED <<got, acts, mailFailures, receipts, maGhost>>
ReleaseDeliveryReceiptClaim(a) ==
    /\ act[a].pc = "release" /\ act[a].op = "deliver"
    /\ IF Fresh(a) THEN Written([got EXCEPT !.dr = "none"]) /\ ActEnds(a) ELSE Again(a, "reread") /\ UNCHANGED got
    /\ MaUnch /\ UNCHANGED <<acts, mailFailures, receipts, maGhost>>

\* archive() and classify(): one try.  report(): the report and the move to Junk Email, tried again
\* on a conflict; the spam filter learns from what was written.
ReadRow(a) ==
    /\ act[a].pc = "read" /\ act[a].op \in {"archive", "report"}
    /\ act' = [act EXCEPT ![a] = IF got.gone THEN NoAct ELSE [@ EXCEPT !.pc = "write", !.seen = Seen(got)]]
    /\ MaUnch /\ UNCHANGED <<got, acts, mailFailures, receipts, maGhost>>
Archive(a) ==
    /\ act[a].pc = "write" /\ act[a].op = "archive" /\ ActEnds(a)
    /\ IF Fresh(a) THEN Written([got EXCEPT !.folder = "archive"]) ELSE UNCHANGED got
    /\ MaUnch /\ UNCHANGED <<acts, mailFailures, receipts, maGhost>>
MarkReported(a) ==
    /\ act[a].pc = "write" /\ act[a].op = "report"
    /\ IF Fresh(a) THEN Written([got EXCEPT !.reported = TRUE, !.folder = "junk"]) /\ ActEnds(a) ELSE Again(a, "read") /\ UNCHANGED got
    /\ MaUnch /\ UNCHANGED <<acts, mailFailures, receipts, maGhost>>

\* setVerificationSeal(): for the vault's generation only; the same again is fine, a different one
\* only over an older generation's.
ReadForSeal(a) ==
    /\ act[a].pc = "read" /\ act[a].op = "seal"
    /\ act' = [act EXCEPT ![a] = IF got.gone THEN NoAct
                                 ELSE [@ EXCEPT !.pc = "judge", !.seen = Seen(got), !.gen = IF act[a].gen = 0 THEN vaultGen ELSE act[a].gen]]
    /\ MaUnch /\ UNCHANGED <<got, acts, mailFailures, receipts, maGhost>>
SealAllowed(a) == act[a].gen = vaultGen /\ (act[a].seen.seal = {} \/ act[a].seen.sealGen < vaultGen)
JudgeSeal(a) ==
    /\ act[a].pc = "judge"
    /\ IF SealAllowed(a) THEN ActGoes(a, "write") ELSE ActEnds(a)
    /\ MaUnch /\ UNCHANGED <<got, acts, mailFailures, receipts, maGhost>>
SetVerificationSeal(a) ==
    /\ act[a].pc = "write" /\ act[a].op = "seal"
    /\ IF Fresh(a) THEN Written([got EXCEPT !.seal = act[a].arg, !.sealGen = act[a].gen]) /\ ActEnds(a)
       ELSE Again(a, "read") /\ UNCHANGED got
    /\ MaUnch /\ UNCHANGED <<acts, mailFailures, receipts, maGhost>>

\* A recall: a message still unread is locked by a write of nothing, then deleted, whatever its version.
StillUnread(a) == ~got.gone /\ ~got.read

ProcessRecall(a) ==
    /\ act[a].pc = "read" /\ act[a].op = "recall"
    /\ act' = [act EXCEPT ![a] = IF StillUnread(a) THEN [@ EXCEPT !.pc = "lock", !.seen = Seen(got)] ELSE NoAct]
    /\ MaUnch /\ UNCHANGED <<got, acts, mailFailures, receipts, maGhost>>
LockUnreadForRecall(a) ==
    /\ act[a].pc = "lock"
    /\ IF Fresh(a) THEN Written(got) /\ ActGoes(a, "delete") ELSE Again(a, "read") /\ UNCHANGED got
    /\ MaUnch /\ UNCHANGED <<acts, mailFailures, receipts, maGhost>>
DeleteRecalled(a) ==
    /\ act[a].pc = "delete" /\ ActEnds(a)
    /\ maGhost' = [maGhost EXCEPT !.opened = @ \/ (got.read /\ ~got.gone)]
    /\ got' = [got EXCEPT !.gone = TRUE]
    /\ MaUnch /\ UNCHANGED <<acts, mailFailures, receipts>>

\* The sender's own request: claimed, then mailed; a notice turned away gives the claim back.
ReadSent(a) ==
    /\ act[a].pc = "read" /\ act[a].op \in {"request_recall", "receipt"}
    /\ act' = [act EXCEPT ![a] = IF (act[a].op = "request_recall" /\ sentMsg.recall) \/ act[a].arg \in sentMsg.roster
                                 THEN NoAct ELSE [@ EXCEPT !.pc = "write", !.sent = sentMsg]]
    /\ MaUnch /\ UNCHANGED <<got, acts, mailFailures, receipts, maGhost>>
ClaimRecall(a) ==
    /\ act[a].pc = "write" /\ act[a].op = "request_recall"
    /\ IF FreshSent(a) THEN /\ sentMsg' = [sentMsg EXCEPT !.recall = TRUE, !.rev = @ + 1]
                            /\ act' = [act EXCEPT ![a].pc = "mail", ![a].sent = sentMsg']
       ELSE ActEnds(a) /\ UNCHANGED sentMsg
    /\ UNCHANGED <<got, acts, mailFailures, receipts, maGhost, vaultGen, lists, recallNotices>>
SendRecall(a) ==
    /\ act[a].pc = "mail" /\ act[a].op = "request_recall"
    /\ \/ recallNotices' = recallNotices + 1 /\ ActEnds(a) /\ UNCHANGED <<mailFailures, sentMsg>>
       \/ /\ MailFails /\ ActEnds(a) /\ UNCHANGED recallNotices
          /\ sentMsg' = IF FreshSent(a) THEN [sentMsg EXCEPT !.recall = FALSE, !.rev = @ + 1] ELSE sentMsg
    /\ UNCHANGED <<got, acts, receipts, maGhost, vaultGen, lists>>

\* A receipt that comes back is added to the roster as it was read; a conflict fails the entry, which is tried again.
ProcessReceipt(a) ==
    /\ act[a].pc = "write" /\ act[a].op = "receipt"
    /\ IF FreshSent(a) THEN sentMsg' = [sentMsg EXCEPT !.roster = act[a].sent.roster \cup {act[a].arg}, !.rev = @ + 1] /\ ActEnds(a)
       ELSE ActGoes(a, "read") /\ UNCHANGED sentMsg
    /\ UNCHANGED <<got, acts, mailFailures, receipts, maGhost, vaultGen, lists, recallNotices>>

\* A sender is trusted (by a not-junk report, too) or blocked: put on one list, off the other, on the
\* mailbox row as it was read; a conflict is read again.
MoveSenderEntry(old, arg) ==
    LET c == CHOOSE x \in arg : TRUE
    IN  [old EXCEPT ![c[1]] = IF c[2] \in {"safe", "blocked"} THEN c[2] ELSE IF <<c[2], @>> \in {<<"untrust", "safe">>, <<"unblock", "blocked">>} THEN "none" ELSE @]
ReadSenderLists(a) ==
    /\ act[a].pc = "read" /\ act[a].op = "sender"
    /\ act' = [act EXCEPT ![a] = IF MoveSenderEntry(lists.of, act[a].arg) = lists.of THEN NoAct ELSE [@ EXCEPT !.pc = "write", !.lists = lists]]
    /\ MaUnch /\ UNCHANGED <<got, acts, mailFailures, receipts, maGhost>>
ListsFresh_Unchecked(a) == TRUE
ListsFresh(a) == lists.rev = act[a].lists.rev
ChangeMailboxSenderList(a) ==
    /\ act[a].pc = "write" /\ act[a].op = "sender"
    /\ IF ListsFresh(a) THEN lists' = [of |-> MoveSenderEntry(act[a].lists.of, act[a].arg), rev |-> lists.rev + 1] /\ ActEnds(a)
       ELSE Again(a, "read") /\ UNCHANGED lists
    /\ UNCHANGED <<got, acts, mailFailures, receipts, maGhost, vaultGen, sentMsg, recallNotices>>

MaInit == /\ got = Message0 /\ act = [a \in Actors |-> NoAct] /\ acts = 0 /\ mailFailures = 0 /\ vaultGen = 1
          /\ receipts = [read |-> 0, delivery |-> 0] /\ sentMsg = Sent0 /\ lists = Lists0 /\ recallNotices = 0
          /\ maGhost = [double |-> FALSE, slipped |-> FALSE, opened |-> FALSE]

MaNext == Rekey \/ \E a \in Actors :
            \/ BeginAct(a) \/ ReadBefore(a) \/ WriteFlag(a) \/ MaybeSendReadReceipt(a) \/ SendReadReceipt(a) \/ ReleaseReadClaim(a)
            \/ RequirePendingReceipt(a) \/ ApproveSends(a) \/ ApproveRecords(a) \/ DeclineReceipt(a)
            \/ CompleteDeliveryReceipt(a) \/ ClaimDeliveryReceipt(a) \/ SendDeliveryReceipt(a) \/ ReleaseReads(a) \/ ReleaseDeliveryReceiptClaim(a)
            \/ ReadRow(a) \/ Archive(a) \/ MarkReported(a) \/ ReadForSeal(a) \/ JudgeSeal(a) \/ SetVerificationSeal(a)
            \/ ProcessRecall(a) \/ LockUnreadForRecall(a) \/ DeleteRecalled(a)
            \/ ReadSent(a) \/ ClaimRecall(a) \/ SendRecall(a) \/ ProcessReceipt(a)
            \/ ReadSenderLists(a) \/ ChangeMailboxSenderList(a)
MaSpec == MaInit /\ [][MaNext]_mavars

-----------------------------------------------------------------------------
(* Properties.                                                             *)

\* However requests cross, a receipt of a kind goes out once and a recall notice once - but for an
\* approval, which is sent before it is recorded and may find the row changed.
ReceiptOnce == /\ maGhost.double \/ (receipts.read <= 1 /\ receipts.delivery <= 1)
               /\ recallNotices <= 1

\* A recall deletes only what was still unread when it was locked; one opened between the lock and
\* the delete is the documented gap.
RecalledUnread == maGhost.opened => maGhost.slipped

\* Nothing a crossing write would lose is lost: a verification seal gives way only to one of a newer
\* generation, a report and a receipt of the roster stay, and a change to a sender list is only of the
\* entry it names.
MarksKept == [][/\ got.seal # {} /\ got'.seal # got.seal => got'.sealGen > got.sealGen
                /\ got.reported => got'.reported
                /\ sentMsg.roster \subseteq sentMsg'.roster
                /\ \A e, f \in Blockable : lists'.of[e] # lists.of[e] /\ lists'.of[f] # lists.of[f] => e = f]_mavars

\* What users, recipients and the server do with one message at the same time neither repeats nor undoes the
\* others' part (BaseMessageRoute).
ActionsHold == [](ReceiptOnce /\ RecalledUnread) /\ MarksKept
=============================================================================
