------------------------------- MODULE Retention -------------------------------
(****************************************************************************)
(* What the retention jobs purge and what legal holds keep from them:       *)
(* RetentionEnforcementJob over expired messages (live, then soft-deleted,  *)
(* page after page by uid) and over draft bodies kept for a hold, and       *)
(* QuarantineRetentionJob over quarantined mail (by offset, the holds read  *)
(* once), while users delete, restore and compose and matters open and      *)
(* close. Every message and entry here is past its policy's cutoff. What    *)
(* one purge does with shared content is module SharedBlob.                 *)
(****************************************************************************)
EXTENDS LegalHold, Integers, FiniteSets, Sequences, SequencesExt, TLC

CONSTANTS
    NMsgs,        \* messages 1..NMsgs, in the order of their uids
    NEnts,        \* quarantine entries 1..NEnts, oldest first
    BoxOf(_),     \* the mailbox of a message or entry
    PageSize,     \* batch_size, the page and the budget of a run
    MaxEdits,     \* bound: changes by users, reviewers and matter owners
    MaxRtFaults   \* bound: purges that fail

ASSUME RetentionAssumption ==
    /\ {NMsgs, NEnts, MaxEdits, MaxRtFaults} \subseteq Nat /\ PageSize \in Nat \ {0}
    /\ \A i \in 1..NMsgs \cup 1..NEnts : BoxOf(i) \in Boxes

VARIABLES
    msg,         \* each message: live, trash or gone
    bodies,      \* retainedBodyBlobKeys of each message: the keys of draft bodies superseded under a hold
    stored,      \* the blobs of those bodies that exist
    ent,         \* the quarantine entries that exist
    ret, qua,    \* the two jobs' runs
    edits, rtFaults,
    since,       \* history: for each job, the mailboxes a hold was opened on since its last look
    excused      \* history: rows the job's run need not have purged when it ends

work   == <<msg, bodies, stored, ent>>
rtVars == <<matter, work, ret, qua, edits, rtFaults, since, excused>>

Msgs == 1..NMsgs
Ents == 1..NEnts
Keys == 1..2
NoRun == [at |-> "idle", pass |-> "live", after |-> 0, page |-> <<>>, full |-> FALSE, held |-> {},
          done |-> 0, skipped |-> 0, seen |-> <<>>, changed |-> {}, deleting |-> FALSE]

RtInit ==
    /\ HoldInit
    /\ msg \in [Msgs -> {"live", "trash"}] /\ bodies = [i \in Msgs |-> {}] /\ stored = [i \in Msgs |-> {}]
    /\ ent = Ents /\ ret = NoRun /\ qua = NoRun /\ edits = 0 /\ rtFaults = 0
    /\ since = [job |-> {}, quarantine |-> {}] /\ excused = [job |-> {}, quarantine |-> {}]

\* batch_size is the budget of a run.
BudgetLeft(done) == done < PageSize
HeldBoxes == {b \in Boxes : Held(b)}
RtFault == rtFaults < MaxRtFaults /\ rtFaults' = rtFaults + 1
\* The first rows of a page, in ascending order.
Page(rows) == LET all == SetToSortSeq(rows, <) IN SubSeq(all, 1, IF Len(all) < PageSize THEN Len(all) ELSE PageSize)

--------------------------------------------------------------------------------
(* Users and matters *)

OfBoxes(rows, boxes) == {i \in rows : BoxOf(i) \in boxes}
\* A user's write of a message: its version moves on.
Edit == edits < MaxEdits /\ edits' = edits + 1
Touch(i) == ret' = IF ret.seen = <<>> THEN ret ELSE [ret EXCEPT !.changed = @ \cup {i}]
Excuse(job, run, rows) == [excused EXCEPT ![job] = IF run.at = "idle" THEN @ ELSE @ \cup rows]

\* delete() and restore() of a message, both recoverable.
SoftDelete(i) ==
    /\ Edit /\ msg[i] # "gone" /\ msg' = [msg EXCEPT ![i] = IF @ = "live" THEN "trash" ELSE "live"]
    /\ Touch(i) /\ excused' = Excuse("job", ret, {i})
    /\ UNCHANGED <<matter, bodies, stored, ent, qua, rtFaults, since>>

\* A draft saved under a hold keeps the body it replaces.
Compose(i) ==
    /\ Edit /\ msg[i] = "live" /\ Held(BoxOf(i))
    /\ \E k \in Keys \ bodies[i] :
        bodies' = [bodies EXCEPT ![i] = @ \cup {k}] /\ stored' = [stored EXCEPT ![i] = @ \cup {k}]
    /\ Touch(i) /\ UNCHANGED <<matter, msg, ent, qua, rtFaults, since, excused>>

\* A reviewer deletes or releases a quarantined message.
EntryGoes(e) ==
    /\ Edit /\ e \in ent /\ ~Held(BoxOf(e)) /\ ent' = ent \ {e}
    /\ excused' = Excuse("quarantine", qua, Ents)
    /\ UNCHANGED <<matter, msg, bodies, stored, ret, qua, rtFaults, since>>

RtMatterChanges ==
    /\ Edit /\ HoldNext(Boxes)
    /\ LET new == HeldBoxes' \ HeldBoxes IN
       since' = [job |-> IF ret.at = "row" THEN since.job \cup new ELSE {},
                 quarantine |-> IF qua.at = "idle" THEN {} ELSE since.quarantine \cup new]
    /\ excused' = Excuse("job", ret, OfBoxes(Msgs, HeldBoxes'))
    /\ UNCHANGED <<work, ret, qua, rtFaults>>

--------------------------------------------------------------------------------
(* RetentionEnforcementJob *)

\* run(): there is a policy.
RetStarts ==
    /\ ret.at = "idle" /\ ret' = [NoRun EXCEPT !.at = "page"]
    /\ since' = [since EXCEPT !.job = {}] /\ excused' = [excused EXCEPT !.job = OfBoxes(Msgs, HeldBoxes)]
    /\ UNCHANGED <<matter, work, qua, edits, rtFaults>>

\* The rows of a pass behind the cursor. Held mailboxes are left out: of the query in the first two passes,
\* row by row in the passes over kept bodies.
Found(pass, after, held) ==
    {i \in Msgs : i > after /\ BoxOf(i) \notin held
                  /\ CASE pass \in {"live", "trash"} -> msg[i] = pass
                       [] pass = "live bodies"  -> msg[i] = "live" /\ bodies[i] # {}
                       [] pass = "trash bodies" -> msg[i] = "trash" /\ bodies[i] # {}}
NextPass == ("live" :> "trash") @@ ("trash" :> "live bodies") @@ ("live bodies" :> "trash bodies") @@ ("trash bodies" :> "end")
OfBodies(pass) == pass \in {"live bodies", "trash bodies"}
\* purgeSortedBatches(), releaseRetainedDraftBodies(): the holds are read anew for every page.
HoldsForPage_LiveOnly == IF ret.pass = "live" THEN HeldBoxes ELSE {}
HoldsForPage == HeldBoxes
RetPage ==
    /\ ret.at = "page"
    /\ LET held == HoldsForPage
           page == Page(Found(ret.pass, ret.after, held)) IN
       ret' = IF BudgetLeft(ret.done) /\ page # <<>>
              THEN [ret EXCEPT !.at = "row", !.page = page, !.full = Len(page) = PageSize,
                               !.seen = IF OfBodies(ret.pass) THEN bodies ELSE <<>>, !.changed = {}]
              ELSE [ret EXCEPT !.at = "turn"]
    /\ since' = [since EXCEPT !.job = {}]
    /\ UNCHANGED <<matter, work, qua, edits, rtFaults, excused>>

\* The next row of the page, the next page behind its last row, or the next pass.
RetNextRow(n) ==
    LET rest == Tail(ret.page)
        r    == [ret EXCEPT !.page = rest, !.done = @ + n, !.deleting = FALSE] IN
    IF rest # <<>> /\ BudgetLeft(r.done) THEN r
    ELSE [r EXCEPT !.page = <<>>, !.after = Last(ret.page), !.at = IF r.full THEN "page" ELSE "turn",
                   !.seen = <<>>, !.changed = {}, !.full = FALSE]

\* purgeMessage(), with the attachments and every body of the message.
RetPurges ==
    /\ ret.at = "row" /\ ~OfBodies(ret.pass)
    /\ LET i == Head(ret.page) IN
       \/ /\ msg' = [msg EXCEPT ![i] = "gone"] /\ ret' = RetNextRow(1)
          /\ stored' = [stored EXCEPT ![i] = {}] /\ bodies' = [bodies EXCEPT ![i] = {}]
          /\ UNCHANGED <<rtFaults, excused>>
       \/ /\ RtFault /\ ret' = RetNextRow(0) /\ excused' = [excused EXCEPT !.job = @ \cup {i}]
          /\ UNCHANGED <<msg, stored, bodies>>
    /\ UNCHANGED <<matter, ent, qua, edits, since>>

\* releaseRetainedDraftBodies(): the blobs the page's row named, then the field, by a version-checked write.
BodiesGo ==
    /\ ret.at = "row" /\ OfBodies(ret.pass) /\ ~ret.deleting
    /\ LET i == Head(ret.page) IN stored' = [stored EXCEPT ![i] = @ \ ret.seen[i]]
    /\ ret' = [ret EXCEPT !.deleting = TRUE]
    /\ UNCHANGED <<matter, msg, bodies, ent, qua, edits, rtFaults, since, excused>>
Unchanged(i) == i \notin ret.changed
BodiesCleared ==
    /\ ret.at = "row" /\ OfBodies(ret.pass) /\ ret.deleting
    /\ LET i == Head(ret.page) IN
       /\ bodies' = IF Unchanged(i) THEN [bodies EXCEPT ![i] = {}] ELSE bodies
       /\ ret' = RetNextRow(IF Unchanged(i) THEN 1 ELSE 0)
    /\ UNCHANGED <<matter, msg, stored, ent, qua, edits, rtFaults, since, excused>>

\* Live messages, then soft-deleted ones within the same budget, then the kept bodies of both with their own.
RetTurns ==
    /\ ret.at = "turn"
    /\ ret' = IF NextPass[ret.pass] = "end" THEN NoRun
              ELSE [ret EXCEPT !.at = "page", !.pass = NextPass[ret.pass], !.after = 0,
                               !.done = IF ret.pass = "trash" THEN 0 ELSE @]
    /\ excused' = IF OfBodies(ret.pass) THEN [excused EXCEPT !.job = {}] ELSE excused
    /\ UNCHANGED <<matter, work, qua, edits, rtFaults, since>>

--------------------------------------------------------------------------------
(* QuarantineRetentionJob *)

QuaStarts ==
    /\ qua.at = "idle" /\ qua' = [NoRun EXCEPT !.at = "page", !.held = HeldBoxes]
    /\ since' = [since EXCEPT !.quarantine = {}]
    /\ excused' = [excused EXCEPT !.quarantine = OfBoxes(Ents, HeldBoxes)]
    /\ UNCHANGED <<matter, work, ret, edits, rtFaults>>

\* purgeSorted(): the rows that stayed behind are ahead of the next one; purged rows are no longer counted.
Offset == qua.skipped
QuaPage ==
    /\ qua.at = "page"
    /\ LET all   == SetToSortSeq({e \in ent : BoxOf(e) \notin qua.held}, <)
           first == (Offset \div PageSize) * PageSize
           rows  == SubSeq(all, first + 1, IF Len(all) < first + PageSize THEN Len(all) ELSE first + PageSize)
           fresh == SubSeq(rows, (Offset % PageSize) + 1, Len(rows)) IN
       qua' = IF BudgetLeft(qua.done) /\ fresh # <<>>
              THEN [qua EXCEPT !.at = "row", !.page = fresh, !.full = Len(rows) = PageSize]
              ELSE [NoRun EXCEPT !.done = qua.done]
    /\ UNCHANGED <<matter, work, ret, edits, rtFaults, since, excused>>
QuaNextRow(n, s) ==
    LET done == qua.done + n IN
    IF Tail(qua.page) # <<>> /\ BudgetLeft(done)
    THEN [qua EXCEPT !.page = Tail(@), !.done = done, !.skipped = @ + s]
    ELSE IF qua.full THEN [qua EXCEPT !.at = "page", !.page = <<>>, !.done = done, !.skipped = @ + s]
    ELSE [NoRun EXCEPT !.done = done]
QuaPurges ==
    /\ qua.at = "row"
    /\ \/ /\ ent' = ent \ {Head(qua.page)} /\ qua' = QuaNextRow(1, 0) /\ UNCHANGED <<rtFaults, excused>>
       \/ /\ RtFault /\ qua' = QuaNextRow(0, 1) /\ UNCHANGED ent
          /\ excused' = [excused EXCEPT !.quarantine = @ \cup {Head(qua.page)}]
    /\ UNCHANGED <<matter, msg, bodies, stored, ret, edits, since>>

--------------------------------------------------------------------------------
RtNext ==
    \/ \E i \in Msgs : SoftDelete(i) \/ Compose(i)
    \/ \E e \in Ents : EntryGoes(e)
    \/ RtMatterChanges \/ RetStarts \/ RetPage \/ RetPurges \/ BodiesGo \/ BodiesCleared \/ RetTurns
    \/ QuaStarts \/ QuaPage \/ QuaPurges

RtSpec == RtInit /\ [][RtNext]_rtVars

--------------------------------------------------------------------------------
\* Type correctness.
RtTypeOK ==
    /\ matter \in [Matters -> MatterRow] /\ msg \in [Msgs -> {"live", "trash", "gone"}]
    /\ bodies \in [Msgs -> SUBSET Keys] /\ stored \in [Msgs -> SUBSET Keys] /\ ent \subseteq Ents
    /\ {ret.done, qua.done} \subseteq 0..PageSize /\ qua.skipped \in 0..NEnts /\ ret.after \in 0..NMsgs

\* "a hold placed after the snapshot was taken isn't seen; callers reload between batches to keep that
\* window short" (LegalHoldIndex): what a held mailbox has is purged only when its hold was opened after
\* the page was read (messages and kept bodies), or after the run began (quarantine).
Loses(i) == (msg[i] # "gone" /\ msg'[i] = "gone") \/ stored[i] \ stored'[i] # {}
HeldKept ==
    [][/\ \A i \in Msgs : Loses(i) /\ Held(BoxOf(i)) => BoxOf(i) \in since.job
       /\ \A e \in ent \ ent' : Held(BoxOf(e)) => BoxOf(e) \in since.quarantine]_rtVars

\* A run that ends within its budget has purged everything it owed: the rows that are left failed, belong to a
\* mailbox that was on hold (for quarantine, at the run's start), or were moved by somebody during the run.
Thorough ==
    [][/\ ret.pass = "trash" /\ ret'.pass = "live bodies" /\ ret.done < PageSize
          => \A i \in Msgs \ excused.job : msg[i] = "gone"
       /\ qua.at # "idle" /\ qua'.at = "idle" /\ qua'.done < PageSize
          => ent' \subseteq excused'.quarantine]_rtVars

\* Every body kept for a hold can be found again: no blob is left that its message does not name.
BodiesAccounted == \A i \in Msgs : stored[i] \subseteq bodies[i]

\* What the retention passes promise, together: they keep what is held, take what is owed and lose track of no body.
RetentionHolds == [](RtTypeOK /\ BodiesAccounted) /\ HeldKept /\ Thorough
================================================================================
