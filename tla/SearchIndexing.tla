--------------------------- MODULE SearchIndexing ---------------------------
(***************************************************************************)
(* One message with one attachment, and the three jobs that race over it:  *)
(* SearchIndexJob writes its search document, AttachmentExtractionJob its  *)
(* attachment's text, ZeroAccessBackfillJob seals it once its mailbox is   *)
(* zero-access.  Every row write is version-checked; the search index and  *)
(* the blob store are not.                                                 *)
(***************************************************************************)
EXTENDS Naturals, FiniteSets

CONSTANTS Indexers, MaxIndexAttempts, MaxRowTries, MaxMsgRev, MaxSiFaults

\* A message is given at least one attempt.
ASSUME SearchAssumption == MaxIndexAttempts \in Nat \ {0}

VARIABLES msg,       \* the message row: [life, draft, sealed, stamped, tries, rev]
          att,       \* the attachment row: [there, text, rev]
          doc,       \* the search document: [kind: none | readable | meta, text]
          active,    \* zero-access is active for the mailbox
          ix,        \* the indexing runs
          bf,        \* the backfill run
          ex,        \* the extraction run
          removing,  \* a purge that has not yet removed the search document
          sifaults,  \* failures and crashes so far
          sighost    \* ghost: [overtaken, gaveUp, left], see the properties

sivars == <<msg, att, doc, active, ix, bf, ex, removing, sifaults, sighost>>

NoDoc == [kind |-> "none", text |-> FALSE]
NoIx == [pc |-> "idle", row |-> 0, tries |-> 0, doc |-> NoDoc, seen |-> FALSE, replaces |-> FALSE, again |-> 0]
NoBf == [pc |-> "idle", row |-> 0, att |-> 0, again |-> 0]
NoEx == [pc |-> "idle", att |-> 0, again |-> 0]

SiInit == /\ msg \in [life : {"live"}, draft : BOOLEAN, sealed : {FALSE}, stamped : {FALSE}, tries : {0}, rev : {0}]
          /\ att = [there |-> TRUE, text |-> FALSE, rev |-> 0]
          /\ doc = NoDoc /\ active = FALSE
          /\ ix = [w \in Indexers |-> NoIx] /\ bf = NoBf /\ ex = NoEx
          /\ removing = FALSE /\ sifaults = 0
          /\ sighost = [overtaken |-> FALSE, gaveUp |-> FALSE, left |-> FALSE]

Bumped(row) == [row EXCEPT !.rev = @ + 1]
Ghost(f) == sighost' = [sighost EXCEPT ![f] = TRUE]
Faulty == sifaults < MaxSiFaults /\ sifaults' = sifaults + 1
\* The jobs' own writes always find room below MaxMsgRev + 12; the environment's stop earlier.
MayChange == msg.rev < MaxMsgRev /\ msg.life # "purged"

-----------------------------------------------------------------------------
(* The mailbox's owner: saves, deletes, restores, purges, zero-access.     *)

\* A save of the message: one that changes what is searched sends it back to be indexed.
Edit == /\ MayChange /\ msg.life = "live"
        /\ \E reindex \in BOOLEAN : msg' = [Bumped(msg) EXCEPT
                !.stamped = @ /\ ~reindex, !.tries = IF reindex THEN 0 ELSE @]
        /\ UNCHANGED <<att, doc, active, ix, bf, ex, removing, sifaults, sighost>>

SoftDelete == /\ MayChange /\ msg' = [Bumped(msg) EXCEPT !.life = IF @ = "live" THEN "deleted" ELSE "live"]
              /\ UNCHANGED <<att, doc, active, ix, bf, ex, removing, sifaults, sighost>>

Purge == /\ MayChange /\ msg' = [Bumped(msg) EXCEPT !.life = "purged"]
         /\ att' = [Bumped(att) EXCEPT !.there = FALSE, !.text = FALSE] /\ removing' = TRUE
         /\ UNCHANGED <<doc, active, ix, bf, ex, sifaults, sighost>>

RemoveFromSearchIndex ==
    /\ removing /\ removing' = FALSE
    /\ \/ doc' = NoDoc /\ UNCHANGED <<sifaults, sighost>>
       \/ Faulty /\ Ghost("left") /\ UNCHANGED doc
    /\ UNCHANGED <<msg, att, active, ix, bf, ex>>

Activate == /\ ~active /\ active' = TRUE
            /\ UNCHANGED <<msg, att, doc, ix, bf, ex, removing, sifaults, sighost>>

-----------------------------------------------------------------------------
(* SearchIndexJob.                                                         *)

Due == /\ ~msg.stamped /\ msg.tries < MaxIndexAttempts
       /\ msg.life = "live" \/ (msg.life = "deleted" /\ msg.sealed)

DocumentOf(sealed, text) == IF sealed THEN [kind |-> "meta", text |-> FALSE] ELSE [kind |-> "readable", text |-> text]

\* The row is read; the mailbox's zero-access then counts as much as the row's own.
SelectDue(w) ==
    /\ ix[w].pc = "idle" /\ Due
    /\ ix' = [ix EXCEPT ![w] = [NoIx EXCEPT !.pc = "build", !.row = msg.rev, !.tries = msg.tries,
                                            !.replaces = msg.sealed \/ active]]
    /\ UNCHANGED <<msg, att, doc, active, bf, ex, removing, sifaults, sighost>>

\* The attachments are read after the row, then the document is built ...
BuildDocument(w) ==
    /\ ix[w].pc = "build"
    /\ ix' = [ix EXCEPT ![w].pc = "bulk", ![w].doc = DocumentOf(ix[w].replaces, att.text), ![w].seen = att.text]
    /\ UNCHANGED <<msg, att, doc, active, bf, ex, removing, sifaults, sighost>>

\* ... and written to the index, whatever became of the row meanwhile.
BulkIndex(w) ==
    /\ ix[w].pc = "bulk"
    /\ doc' = ix[w].doc
    /\ ix' = [ix EXCEPT ![w].pc = "stamp"]
    \* a slow run writing over what another run wrote for the same row or a newer one
    /\ sighost' = [sighost EXCEPT !.overtaken = @
           \/ (msg.rev # ix[w].row /\ (msg.stamped \/ msg.tries = MaxIndexAttempts))
           \/ \E v \in Indexers : ix[v].pc \in {"stamp", "gone"} /\ ix[v].row >= ix[w].row]
    /\ UNCHANGED <<msg, att, active, bf, ex, removing, sifaults>>

\* A failure is counted on the row; the last one takes a readable document of protected mail out.
RecordFailure(w) ==
    /\ ix[w].pc \in {"build", "bulk"} /\ Faulty
    /\ LET last == ix[w].tries + 1 = MaxIndexAttempts
           counted(n) == msg' = IF msg.rev = ix[w].row THEN [Bumped(msg) EXCEPT !.tries = n] ELSE msg
       IN  \/ last /\ ix[w].replaces /\ doc' = NoDoc /\ counted(MaxIndexAttempts)
           \/ last /\ ix[w].replaces /\ UNCHANGED doc /\ counted(MaxIndexAttempts - 1)
           \/ ~(last /\ ix[w].replaces) /\ UNCHANGED doc /\ counted(ix[w].tries + 1)
    /\ ix' = [ix EXCEPT ![w] = NoIx]
    /\ UNCHANGED <<att, active, bf, ex, removing, sighost>>

StampWins_Unchecked(w) == msg.life # "purged"

\* The stamp is taken only by the row as it was read.
StampWins(w) == msg.rev = ix[w].row

Stamp(w) ==
    /\ ix[w].pc = "stamp"
    /\ IF StampWins(w)
       THEN /\ msg' = [Bumped(msg) EXCEPT !.stamped = TRUE, !.tries = 0]
            /\ ix' = [ix EXCEPT ![w] = IF ix[w].doc.kind = "readable" THEN [@ EXCEPT !.pc = "recheck", !.row = msg.rev + 1] ELSE NoIx]
       ELSE ix' = [ix EXCEPT ![w].pc = "gone"] /\ UNCHANGED msg
    /\ UNCHANGED <<att, doc, active, bf, ex, removing, sifaults, sighost>>

\* A stamp that lost to a delete or a purge takes the document out again.
RemoveIfGone(w) ==
    /\ ix[w].pc = "gone"
    /\ doc' = IF msg.life = "live" THEN doc ELSE NoDoc
    /\ ix' = [ix EXCEPT ![w] = NoIx]
    /\ UNCHANGED <<msg, att, active, bf, ex, removing, sifaults, sighost>>

TextUnseen(w) == att.text /\ ~ix[w].seen

\* Text extracted after the attachments were read: the stamp is cleared again, if it still stands.
RecheckAttachmentText(w) ==
    /\ ix[w].pc = "recheck"
    /\ CASE ~TextUnseen(w) \/ ~msg.stamped ->
                ix' = [ix EXCEPT ![w] = NoIx] /\ UNCHANGED <<msg, sighost>>
         [] TextUnseen(w) /\ msg.stamped /\ msg.rev = ix[w].row ->
                msg' = [Bumped(msg) EXCEPT !.stamped = FALSE] /\ ix' = [ix EXCEPT ![w] = NoIx] /\ UNCHANGED sighost
         [] OTHER -> IF ix[w].again + 1 < MaxRowTries
                     THEN ix' = [ix EXCEPT ![w].again = @ + 1, ![w].row = msg.rev] /\ UNCHANGED <<msg, sighost>>
                     ELSE ix' = [ix EXCEPT ![w] = NoIx] /\ Ghost("gaveUp") /\ UNCHANGED msg
    /\ UNCHANGED <<att, doc, active, bf, ex, removing, sifaults>>

-----------------------------------------------------------------------------
(* ZeroAccessBackfillJob.                                                  *)

SelectReadable ==
    /\ bf.pc = "idle" /\ active /\ ~msg.sealed /\ msg.life # "purged"
    /\ bf' = [NoBf EXCEPT !.pc = "seal", !.row = msg.rev]
    /\ UNCHANGED <<msg, att, doc, active, ix, ex, removing, sifaults, sighost>>

\* The sealed copy is stored under a key of its own, then the row is moved over to it.
SealMessage ==
    /\ bf.pc = "seal"
    /\ IF msg.rev = bf.row
       THEN /\ msg' = [Bumped(msg) EXCEPT !.sealed = TRUE, !.stamped = FALSE, !.tries = 0]
            /\ bf' = [bf EXCEPT !.pc = "discard", !.att = att.rev]
       ELSE bf' = NoBf /\ UNCHANGED msg
    /\ UNCHANGED <<att, doc, active, ix, ex, removing, sifaults, sighost>>

\* A draft keeps its attachment and only loses the text.  The row is written even when it holds
\* no text: the bump makes an extraction that is past its own look lose.
DropExtractedText == [Bumped(att) EXCEPT !.text = FALSE]

\* Then the readable copies go: the attachment of a message, the text of a draft's (tried again
\* against a row that changed since it was read).
Discard ==
    /\ bf.pc = "discard"
    /\ LET lost == msg.draft /\ att.there /\ att.rev # bf.att
           over == ~lost \/ bf.again + 1 = MaxRowTries
       IN  /\ att' = CASE ~att.there \/ lost -> att
                       [] att.there /\ ~msg.draft -> [Bumped(att) EXCEPT !.text = FALSE, !.there = FALSE]
                       [] OTHER -> DropExtractedText
           /\ bf' = IF over THEN NoBf ELSE [bf EXCEPT !.again = @ + 1, !.att = att.rev]
           /\ doc' = IF over /\ msg.life = "deleted" THEN NoDoc ELSE doc
           /\ sighost' = [sighost EXCEPT !.left = @ \/ (over /\ att'.text)]
    /\ UNCHANGED <<msg, active, ix, ex, removing, sifaults>>

\* A server that stops between the two leaves the copies: a sealed message is not selected again.
BackfillStops ==
    /\ bf.pc = "discard" /\ Faulty
    /\ bf' = NoBf /\ Ghost("left")
    /\ UNCHANGED <<msg, att, doc, active, ix, ex, removing>>

-----------------------------------------------------------------------------
(* AttachmentExtractionJob.                                                *)

\* The attachment, then its message: sealed mail is put off.
SelectAttachment ==
    /\ ex.pc = "idle" /\ att.there /\ ~att.text /\ ~msg.sealed
    /\ ex' = [NoEx EXCEPT !.pc = "extract", !.att = att.rev]
    /\ UNCHANGED <<msg, att, doc, active, ix, bf, removing, sifaults, sighost>>

SealedSince ==
    /\ ex.pc = "extract"
    /\ ex' = IF msg.sealed THEN NoEx ELSE [ex EXCEPT !.pc = "store"]
    /\ att' = IF msg.sealed /\ att.there /\ att.rev = ex.att THEN Bumped(att) ELSE att
    /\ UNCHANGED <<msg, doc, active, ix, bf, removing, sifaults, sighost>>

\* The text is stored and named by the row, if the row is the one that was read.
StoreText ==
    /\ ex.pc = "store"
    /\ IF att.there /\ att.rev = ex.att
       THEN att' = [Bumped(att) EXCEPT !.text = TRUE] /\ ex' = [ex EXCEPT !.pc = "invalidate"]
       ELSE ex' = NoEx /\ UNCHANGED att
    /\ UNCHANGED <<msg, doc, active, ix, bf, removing, sifaults, sighost>>

\* The message is read again: one already stamped goes back to be indexed, ...
LookForStamp ==
    /\ ex.pc = "invalidate"
    /\ ex' = IF msg.stamped /\ msg.life # "purged" THEN [ex EXCEPT !.pc = "clear", !.att = msg.rev] ELSE NoEx
    /\ UNCHANGED <<msg, att, doc, active, ix, bf, removing, sifaults, sighost>>

\* ... with a few tries against a row that keeps changing.
ClearStamp ==
    /\ ex.pc = "clear"
    /\ CASE msg.rev = ex.att -> /\ msg' = [Bumped(msg) EXCEPT !.stamped = FALSE, !.tries = 0]
                                /\ ex' = NoEx /\ UNCHANGED sighost
         [] msg.rev # ex.att /\ ex.again + 1 < MaxRowTries ->
                ex' = [ex EXCEPT !.pc = "invalidate", !.again = @ + 1] /\ UNCHANGED <<msg, sighost>>
         [] OTHER -> ex' = NoEx /\ Ghost("gaveUp") /\ UNCHANGED msg
    /\ UNCHANGED <<att, doc, active, ix, bf, removing, sifaults>>

-----------------------------------------------------------------------------
SiNext ==
    \/ Edit \/ SoftDelete \/ Purge \/ RemoveFromSearchIndex \/ Activate
    \/ \E w \in Indexers : SelectDue(w) \/ BuildDocument(w) \/ BulkIndex(w) \/ RecordFailure(w)
                             \/ Stamp(w) \/ RemoveIfGone(w) \/ RecheckAttachmentText(w)
    \/ SelectReadable \/ SealMessage \/ Discard \/ BackfillStops
    \/ SelectAttachment \/ SealedSince \/ StoreText \/ LookForStamp \/ ClearStamp

SiSpec == SiInit /\ [][SiNext]_sivars

-----------------------------------------------------------------------------
(* Properties.                                                             *)

Quiet == bf.pc = "idle" /\ ex.pc = "idle" /\ ~removing /\ \A w \in Indexers : ix[w].pc = "idle"

\* When nothing is under way and nothing waits to be indexed, a sealed message has no readable
\* search document and a purged one none at all, whatever order the runs, the seal and the purge
\* came in - unless a slow run wrote over a newer run's document, or a removal failed.
IndexFollowsMail ==
    Quiet /\ ~Due /\ ~sighost.overtaken /\ ~sighost.left
        => /\ msg.sealed => doc.kind # "readable"
           /\ msg.life = "purged" => doc.kind = "none"

\* When nothing is under way and nothing waits to be indexed, the extracted text of a readable
\* message's attachment is in its document: the index run looks again after its stamp and the
\* extraction after its own write, so whichever lands last sees the other.
TextSearchable ==
    Quiet /\ ~Due /\ msg.life = "live" /\ doc.kind = "readable" /\ msg.stamped /\ att.text
        => doc.text \/ sighost.gaveUp \/ sighost.overtaken

\* The extracted text of an attachment does not outlast the sealing of its message, however an
\* extraction crosses the backfill (discardPlaintext, dropExtractedText and sealedSince).
SealedHasNoText == Quiet /\ msg.sealed /\ att.text => sighost.left

\* What is searchable follows the mail: documents, extracted text and the sealing of both.
SearchFollows == IndexFollowsMail /\ TextSearchable /\ SealedHasNoText
=============================================================================
