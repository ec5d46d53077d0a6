----------------------------- MODULE SealedData -----------------------------
(***************************************************************************)
(* What a zero-access mailbox keeps sealed: its search index entries,      *)
(* which client devices compact into a week's segment                      *)
(* (BaseZeroAccessIndexRoute, ZeroAccessFiling.index), and the fields of   *)
(* its contacts, tasks and events (sealFieldsOnWrite and the backfill).    *)
(* One ended week, the week running now, and one record.                   *)
(***************************************************************************)
EXTENDS Naturals, FiniteSets

CONSTANTS Entries,     \* messages whose entry lies in the ended week
          Compactors,  \* the owner's devices
          MaxEntryVer, MaxUploads,
          FieldValues, \* what a field may hold
          MaxRecSaves

VARIABLES entry,   \* [Entries -> [ver, week]]: the pending entry of a message; ver 0: none
          latest,  \* ghost: the version last indexed
          seg,     \* the week's segment row: [gen, rev, blob, holds]
          segBlobs, nextBlob,
          dev,     \* [Compactors -> ...]: one compaction each
          lost,    \* ghost: an entry was replaced between the listing and the delete of the old one
          rec,     \* the record: [val, sealed: Fields -> values, marked: sealedFields is not null, rev]
          typeOn,  \* the record's type is protected
          saver,   \* [client, fill]: a save and the backfill's, between their reads and their write
          meant,   \* ghost: what each field holds for its owner
          editedOff, \* ghost: a sealed record was written while its type was off
          recSaves

idxvars == <<entry, latest, seg, segBlobs, nextBlob, dev, lost>>
recvars == <<rec, typeOn, saver, meant, editedOff, recSaves>>
sdvars == <<idxvars, recvars>>

-----------------------------------------------------------------------------
(* The week's index.                                                       *)

NoSegment == [gen |-> 0, rev |-> 0, blob |-> 0, holds |-> [e \in Entries |-> 0]]
NoCompaction == [pc |-> "idle", gen |-> 0, rev |-> 0, folded |-> {}, holds |-> NoSegment.holds,
                 blob |-> 0, old |-> 0, doomed |-> {}]

\* A message (a draft, that is) saved again: its entry is replaced by one of the week it is saved in.
IndexEntry(e) ==
    /\ latest[e] < MaxEntryVer
    /\ latest' = [latest EXCEPT ![e] = @ + 1]
    /\ entry' = [entry EXCEPT ![e] = [ver |-> latest'[e], week |-> IF latest[e] = 0 THEN "ended" ELSE "now"]]
    /\ lost' = (lost \/ \E d \in Compactors : dev[d].pc = "remove" /\ e \in dev[d].doomed)
    /\ UNCHANGED <<seg, segBlobs, nextBlob, dev>>

Pending == {e \in Entries : entry[e].ver > 0 /\ entry[e].week = "ended"}

\* A device reads the manifest, the segment's file and the pending entries (a moment later).
ReadManifest(d) ==
    /\ dev[d].pc = "idle" /\ nextBlob <= MaxUploads
    /\ dev' = [dev EXCEPT ![d] = [NoCompaction EXCEPT !.pc = "entries", !.gen = seg.gen, !.holds = seg.holds]]
    /\ UNCHANGED <<entry, latest, seg, segBlobs, nextBlob, lost>>

FoldEntries(d) ==
    /\ dev[d].pc = "entries"
    /\ LET holds == [e \in Entries |-> IF e \in Pending THEN entry[e].ver ELSE dev[d].holds[e]]
       IN  dev' = [dev EXCEPT ![d] = IF Pending = {} THEN NoCompaction
                                     ELSE [@ EXCEPT !.pc = "put", !.folded = Pending, !.holds = holds]]
    /\ UNCHANGED <<entry, latest, seg, segBlobs, nextBlob, lost>>

GenerationCurrent_Unchecked(d) == TRUE
GenerationCurrent(d) == seg.gen = dev[d].gen

\* The upload is refused when the week's generation has moved on; else its file is stored ...
PutSegment(d) ==
    /\ dev[d].pc = "put"
    /\ IF GenerationCurrent(d)
       THEN /\ dev' = [dev EXCEPT ![d].pc = "row", ![d].rev = seg.rev, ![d].blob = nextBlob, ![d].old = seg.blob]
            /\ segBlobs' = segBlobs \cup {nextBlob} /\ nextBlob' = nextBlob + 1
       ELSE dev' = [dev EXCEPT ![d] = NoCompaction] /\ UNCHANGED <<segBlobs, nextBlob>>
    /\ UNCHANGED <<entry, latest, seg, lost>>

\* ... and the row moved to it, if it is still the row that was read; a file that lost goes again.
StoreRow(d) ==
    /\ dev[d].pc = "row"
    /\ IF seg.rev = dev[d].rev
       THEN /\ seg' = [gen |-> dev[d].gen + 1, rev |-> seg.rev + 1, blob |-> dev[d].blob, holds |-> dev[d].holds]
            /\ dev' = [dev EXCEPT ![d].pc = "list"] /\ UNCHANGED segBlobs
       ELSE /\ segBlobs' = segBlobs \ {dev[d].blob}
            /\ dev' = [dev EXCEPT ![d] = NoCompaction] /\ UNCHANGED seg
    /\ UNCHANGED <<entry, latest, nextBlob, lost>>

Doomed(d) == dev[d].folded \cap Pending

\* The folded entries still in this week are listed, then deleted by uid, ...
ListFolded(d) ==
    /\ dev[d].pc = "list"
    /\ dev' = [dev EXCEPT ![d].pc = "remove", ![d].doomed = Doomed(d)]
    /\ UNCHANGED <<entry, latest, seg, segBlobs, nextBlob, lost>>

RemoveFoldedEntries(d) ==
    /\ dev[d].pc = "remove"
    /\ entry' = [e \in Entries |-> IF e \in dev[d].doomed THEN [entry[e] EXCEPT !.ver = 0] ELSE entry[e]]
    /\ dev' = [dev EXCEPT ![d].pc = "count"]
    /\ UNCHANGED <<latest, seg, segBlobs, nextBlob, lost>>

\* ... counted on the row (a row that changed meanwhile ends the request here), and the previous
\* generation's file goes.
CountAndDiscard(d) ==
    /\ dev[d].pc = "count"
    /\ IF dev[d].doomed = {} \/ seg.gen = dev[d].gen + 1
       THEN /\ seg' = IF dev[d].doomed = {} THEN seg ELSE [seg EXCEPT !.rev = @ + 1]
            /\ segBlobs' = segBlobs \ {dev[d].old}
       ELSE UNCHANGED <<seg, segBlobs>>
    /\ dev' = [dev EXCEPT ![d] = NoCompaction]
    /\ UNCHANGED <<entry, latest, nextBlob, lost>>

\* The server stops in the middle of an upload.
CompactionStops(d) ==
    /\ dev[d].pc \in {"row", "list", "remove", "count"}
    /\ dev' = [dev EXCEPT ![d] = NoCompaction]
    /\ UNCHANGED <<entry, latest, seg, segBlobs, nextBlob, lost>>

-----------------------------------------------------------------------------
(* The record's fields.                                                    *)

Fields == {"title", "body"}
Empty == "empty"
Placeholder(f) == IF f = "title" THEN "Protected" ELSE Empty
\* The values of the model stand for what an owner means, which the placeholders are not.
ASSUME FieldAssumption == \A f \in Fields : FieldValues \cap {Empty, Placeholder(f)} = {}

NoSaver == [pc |-> "idle", rev |-> 0, target |-> FALSE, patch |-> <<>>, cleared |-> {}]

\* What a device sends back because it was shown it, told from a value it means.
Echoes(f, v, row, cleared) == \E shown \in {Placeholder(f), row.val[f]} :
                                 v = shown /\ ~(f \in cleared /\ shown = Empty)

\* The row a patch leaves: values sealed under a protected type, fields still readable sealed with
\* them, placeholders sent back ignored.
SealFieldsOnWrite(patch, row, target, cleared) ==
    LET unsealed(f) == target /\ f \notin DOMAIN patch /\ row.sealed[f] = Empty /\ row.val[f] # Empty
        value(f) == IF unsealed(f) THEN row.val[f] ELSE patch[f]
        kept(f) == \/ f \notin DOMAIN patch /\ ~unsealed(f)
                   \/ row.sealed[f] # Empty /\ Echoes(f, value(f), row, cleared)
        sealed == [f \in Fields |-> CASE kept(f) -> row.sealed[f]
                                      [] ~kept(f) /\ target -> value(f)
                                      [] OTHER -> Empty]
    IN  [val |-> [f \in Fields |-> CASE kept(f) -> row.val[f]
                                     [] ~kept(f) /\ sealed[f] # Empty -> Placeholder(f)
                                     [] OTHER -> value(f)],
         sealed |-> sealed,
         marked |-> \E f \in Fields : sealed[f] # Empty,
         rev |-> row.rev + 1]

\* A device that opened the record shows its values, another the stored columns.
Shown(f, opened) == IF opened /\ rec.sealed[f] # Empty THEN rec.sealed[f] ELSE rec.val[f]

\* A save sends some fields as they were shown, one of them perhaps changed or, by a device that
\* opened the record, cleared.
ReadRecord ==
    /\ saver.client.pc = "idle" /\ recSaves < MaxRecSaves /\ recSaves' = recSaves + 1
    /\ \E sent \in SUBSET Fields, opened \in BOOLEAN :
         \E changed \in SUBSET sent, v \in FieldValues \cup {Empty} :
            /\ Cardinality(changed) <= 1 /\ (v = Empty => opened)
            /\ saver' = [saver EXCEPT !.client = [pc |-> "write", rev |-> rec.rev, target |-> typeOn,
                             cleared |-> IF v = Empty THEN changed ELSE {},
                             patch |-> [f \in sent |-> IF f \in changed THEN v ELSE Shown(f, opened)]]]
    /\ UNCHANGED <<rec, typeOn, meant, editedOff>>

\* What the owner of the fields has after the save: a value echoed as it was shown changes nothing.
MeantBy(patch, cleared) ==
    [f \in Fields |-> IF f \notin DOMAIN patch \/ (patch[f] \notin FieldValues /\ f \notin cleared) THEN meant[f]
                      ELSE patch[f]]

\* The write is refused for a record that changed since it was read.
WriteRecord(w) ==
    /\ saver[w].pc = "write"
    /\ IF rec.rev = saver[w].rev
       THEN /\ rec' = LET row == SealFieldsOnWrite(saver[w].patch, rec, saver[w].target, saver[w].cleared)
                      IN  IF w = "fill" THEN [row EXCEPT !.marked = TRUE] ELSE row
            /\ meant' = IF w = "fill" THEN meant ELSE MeantBy(saver[w].patch, saver[w].cleared)
            /\ editedOff' = (editedOff \/ (~saver[w].target /\ rec.marked))
       ELSE UNCHANGED <<rec, meant, editedOff>>
    /\ saver' = [saver EXCEPT ![w] = NoSaver]
    /\ UNCHANGED <<typeOn, recSaves>>

Unfilled == ~rec.marked

\* The backfill takes the record once, while its type is protected.
SealRecord ==
    /\ saver.fill.pc = "idle" /\ typeOn /\ Unfilled
    /\ saver' = [saver EXCEPT !.fill = [pc |-> "write", rev |-> rec.rev, target |-> TRUE, patch |-> rec.val, cleared |-> {}]]
    /\ UNCHANGED <<rec, typeOn, meant, editedOff, recSaves>>

\* The owner turns the type's protection on or off; nothing is written to the record.
SwitchType == /\ recSaves < MaxRecSaves /\ recSaves' = recSaves + 1 /\ typeOn' = ~typeOn
              /\ UNCHANGED <<rec, saver, meant, editedOff>>

-----------------------------------------------------------------------------
IdxInit == /\ entry = [e \in Entries |-> [ver |-> 0, week |-> "ended"]] /\ latest = [e \in Entries |-> 0]
           /\ seg = NoSegment /\ segBlobs = {} /\ nextBlob = 1
           /\ dev = [d \in Compactors |-> NoCompaction] /\ lost = FALSE
RecInit == /\ rec = [val |-> [f \in Fields |-> Empty], sealed |-> [f \in Fields |-> Empty], marked |-> FALSE, rev |-> 0]
           /\ typeOn = FALSE /\ saver = [client |-> NoSaver, fill |-> NoSaver] /\ meant = [f \in Fields |-> Empty]
           /\ editedOff = FALSE /\ recSaves = 0
SdInit == IdxInit /\ RecInit

IdxNext == \/ \E e \in Entries : IndexEntry(e)
           \/ \E d \in Compactors : \/ ReadManifest(d) \/ FoldEntries(d) \/ PutSegment(d) \/ StoreRow(d)
                                    \/ ListFolded(d) \/ RemoveFoldedEntries(d) \/ CountAndDiscard(d)
                                    \/ CompactionStops(d)
RecNext == ReadRecord \/ SealRecord \/ WriteRecord("client") \/ WriteRecord("fill") \/ SwitchType

SdNext == (IdxNext /\ UNCHANGED recvars) \/ (RecNext /\ UNCHANGED idxvars)

SdSpec == SdInit /\ [][SdNext]_sdvars

-----------------------------------------------------------------------------
(* Properties.                                                             *)

\* However compactions cross each other, stop halfway and cross the saves of a draft, the newest
\* entry of every message is pending or in the stored segment, and the segment's file exists - but
\* for a draft saved between the listing and the delete of its old entry.
NoEntryLost == /\ seg.gen > 0 => seg.blob \in segBlobs
               /\ \A e \in Entries : latest[e] > 0 /\ ~lost =>
                     entry[e].ver = latest[e] \/ seg.holds[e] = latest[e]

\* However protection is switched, the backfill crosses a save and a device echoes placeholders,
\* every field still holds what its owner last gave it, sealed or readable; and once the type is
\* protected and the backfill is through with it, nothing of the record is readable - but for
\* fields edited while the type was off.
RecordKept ==
    /\ \A f \in Fields : meant[f] = IF rec.sealed[f] # Empty THEN rec.sealed[f] ELSE rec.val[f]
    /\ typeOn /\ ~Unfilled /\ saver = [client |-> NoSaver, fill |-> NoSaver] /\ ~editedOff => \A f \in Fields : rec.val[f] \notin FieldValues

\* Nothing sealed is lost: index entries and records together.
SealedKept == NoEntryLost /\ RecordKept
=============================================================================
