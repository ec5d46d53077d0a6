------------------------------ MODULE DkimRotation -----------------------------
(****************************************************************************)
(* The rotation of one domain's DKIM key: DkimRotationJob on several        *)
(* replicas, BaseDomainRoute's rotate and cancel, the key files of          *)
(* FsDkimKeyProvider, the mail server that picks the selector to sign with  *)
(* up from a file and acknowledges it, and the publication of records. A    *)
(* selector is its number in the order they were minted. Grace, overlap and *)
(* schedule may have passed whenever they are looked at, and a key reported *)
(* as compromised only shortens them.                                       *)
(****************************************************************************)
EXTENDS Naturals, FiniteSets

CONSTANTS
    RotationJobs, Admins,   \* replicas running the job; administrators' requests
    MaxSelectors,           \* bound: selectors minted, the first one included
    MaxLapses               \* bound: crashes and failing calls of the key provider

ASSUME RotationAssumption == MaxSelectors \in Nat \ {0} /\ MaxLapses \in Nat /\ RotationJobs \cap Admins = {}

VARIABLES
    dom,      \* dkimSelector and dkimRotation: phase, next (with its publicKey, live in DNS), previous
    minted,   \* mintedSelectors
    keyFiles, selectorFile,   \* key pairs; the selector activate() wrote
    signing,  \* the selector the mail server signs with and acknowledges
    dns,      \* published records
    task,     \* what each job or request is doing, with the row it read
    lapses

dkimVars == <<dom, minted, keyFiles, selectorFile, signing, dns, task, lapses>>
Actors == RotationJobs \cup Admins

Idle(row) == [row EXCEPT !.phase = "idle", !.next = 0, !.key = FALSE, !.live = FALSE, !.prev = 0]
FirstRow == [sel |-> 1, phase |-> "idle", next |-> 0, key |-> FALSE, live |-> FALSE, prev |-> 0]
NoTask == [at |-> "idle", row |-> FirstRow, sel |-> 0, current |-> FALSE]
DkimInit ==
    /\ dom = FirstRow
    /\ minted = 1 /\ keyFiles = {1} /\ selectorFile = 1 /\ signing = 1 /\ dns = {1} /\ lapses = 0
    /\ task = [a \in Actors |-> NoTask]

Lapse == lapses < MaxLapses /\ lapses' = lapses + 1
Goes(a, at) == task' = [task EXCEPT ![a].at = at]
Done(a) == task' = [task EXCEPT ![a] = NoTask]
Current(a) == task[a].current
\* saveDkimRotation(): by the version that was read, so everybody else's read is out of date from then on; a conflict
\* ends the step, or goes where "lost" says.
Saves(a, row, at, sel, lost) ==
    IF Current(a)
    THEN /\ dom' = row
         /\ task' = [b \in Actors |-> IF b # a THEN [task[b] EXCEPT !.current = FALSE]
                                      ELSE IF at = "idle" THEN NoTask
                                      ELSE [at |-> at, row |-> row, sel |-> sel, current |-> TRUE]]
    ELSE UNCHANGED dom /\ IF lost = "idle" THEN Done(a) ELSE Goes(a, lost)

--------------------------------------------------------------------------------
(* DkimRotationJob.step(), and rotate and cancel of the route: the row is   *)
(* read, and its phase decides.                                             *)
Reading(at, sel) == [at |-> at, row |-> dom, sel |-> sel, current |-> TRUE]
NeedsKey(row) == row.phase = "pending" /\ ~row.key
JobReads(j) ==
    /\ task[j].at = "idle"
    /\ \E at \in {"start", "generate", "look", "confirm", "retire"} :
        /\ at = CASE dom.phase = "idle" -> "start"
                  [] dom.phase = "pending" -> IF NeedsKey(dom) THEN "generate" ELSE "look"
                  [] dom.phase = "switching" -> "confirm"
                  [] dom.phase = "overlap" -> "retire"
        /\ (at = "start" => minted < MaxSelectors)
        /\ task' = [task EXCEPT ![j] = Reading(at, dom.next)]
    /\ UNCHANGED <<dom, minted, keyFiles, selectorFile, signing, dns, lapses>>
\* rotateDkim(), of a compromised key in the overlap too; cancelDkimRotation().
AdminReads(a) ==
    /\ task[a].at = "idle"
    /\ \/ dom.phase = "idle" /\ minted < MaxSelectors /\ task' = [task EXCEPT ![a] = Reading("start", 0)]
       \/ dom.phase = "overlap" /\ task' = [task EXCEPT ![a] = Reading("retire", 0)]
       \/ dom.phase = "pending" /\ task' = [task EXCEPT ![a] = Reading("cancel", dom.next)]
       \/ dom.phase = "switching" /\ task' = [task EXCEPT ![a] = Reading("revert", dom.sel)]
    /\ UNCHANGED <<dom, minted, keyFiles, selectorFile, signing, dns, lapses>>

\* startDkimRotation(): a selector that was never minted before.
StartRotation(a) ==
    /\ task[a].at = "start"
    /\ LET new == minted + 1 IN
       /\ Saves(a, [task[a].row EXCEPT !.phase = "pending", !.next = new, !.key = FALSE, !.live = FALSE], "generate", new, "idle")
       /\ minted' = IF Current(a) THEN new ELSE minted
    /\ UNCHANGED <<keyFiles, selectorFile, signing, dns, lapses>>
\* generateNextDkimKey(): the key pair, then its public key on the row; a conflict takes the pair back.
Generate(a) ==
    /\ task[a].at = "generate"
    /\ \/ keyFiles' = keyFiles \cup {task[a].sel} /\ Goes(a, "record") /\ UNCHANGED <<dom, lapses>>
       \/ Lapse /\ Saves(a, task[a].row, "idle", 0, "idle") /\ UNCHANGED keyFiles
    /\ UNCHANGED <<minted, selectorFile, signing, dns>>
Record(a) ==
    /\ task[a].at = "record" /\ Saves(a, [task[a].row EXCEPT !.key = TRUE], "idle", 0, "unrecord")
    /\ UNCHANGED <<minted, keyFiles, selectorFile, signing, dns, lapses>>
\* deleteUnrecordedDkimKey(): unless the row names the selector again.
Unrecord(a) ==
    /\ task[a].at = "unrecord"
    /\ IF task[a].sel \in {dom.sel, dom.next, dom.prev} THEN Done(a) ELSE Goes(a, "delete")
    /\ UNCHANGED <<dom, minted, keyFiles, selectorFile, signing, dns, lapses>>
\* FsDkimKeyProvider.deleteKeyPair(): never the key of the selector to sign with. Failures are logged.
InUse_Unchecked(s) == FALSE
InUse(s) == s = selectorFile
DeleteKeyPair(a) ==
    /\ task[a].at = "delete" /\ Done(a)
    /\ keyFiles' = IF InUse(task[a].sel) THEN keyFiles ELSE keyFiles \ {task[a].sel}
    /\ UNCHANGED <<dom, minted, selectorFile, signing, dns, lapses>>

\* stepPending(): is the new record live, and has it been for the grace? Then the row switches. The grace is two days:
\* an actor that was about to point the mail server somewhere has done so by then, unless it stalled.
Pointing(a) == task[a].at \in {"confirm", "activate", "recheck", "revert", "save", "again", "undo", "point"}
Look(j) ==
    /\ task[j].at = "look"
    \* A lookup nobody answers says nothing, until a long streak of them counts as absent.
    /\ LET row == task[j].row IN \E live \in {row.next \in dns, FALSE} :
       \/ Done(j) /\ UNCHANGED <<dom, lapses>>
       \/ live # row.live /\ Saves(j, [row EXCEPT !.live = live], "idle", 0, "idle") /\ UNCHANGED lapses
       \/ /\ live /\ row.live
          /\ Saves(j, [row EXCEPT !.phase = "switching", !.sel = row.next, !.prev = row.sel, !.next = 0,
                                  !.key = FALSE, !.live = FALSE], "idle", 0, "idle")
          /\ IF \E a \in Actors : Pointing(a) THEN Lapse ELSE UNCHANGED lapses
    /\ UNCHANGED <<minted, keyFiles, selectorFile, signing, dns>>
\* stepSwitching(): confirmed by the mail server, or asked for again.
Confirm(j) ==
    /\ task[j].at = "confirm"
    /\ IF signing = task[j].row.sel
       THEN Saves(j, [task[j].row EXCEPT !.phase = "overlap"], "idle", 0, "idle")
       ELSE task' = [task EXCEPT ![j].at = "activate", ![j].sel = task[j].row.sel] /\ UNCHANGED dom
    /\ UNCHANGED <<minted, keyFiles, selectorFile, signing, dns, lapses>>
\* activate(): only a selector that has a key.
Points(s) == selectorFile' = IF s \in keyFiles THEN s ELSE selectorFile
Activate(j) ==
    /\ task[j].at = "activate" /\ Points(task[j].sel)
    /\ IF task[j].sel \in keyFiles THEN Goes(j, "recheck") ELSE Done(j)
    /\ UNCHANGED <<dom, minted, keyFiles, signing, dns, lapses>>
\* A cancel may have reverted the switch meanwhile: the row is the truth.
Reverted(j) == dom.sel # task[j].sel
Recheck(j) ==
    /\ task[j].at = "recheck"
    /\ IF Reverted(j) THEN task' = [task EXCEPT ![j].at = "point", ![j].sel = dom.sel] ELSE Done(j)
    /\ UNCHANGED <<dom, minted, keyFiles, selectorFile, signing, dns, lapses>>
Point(a) ==
    /\ task[a].at = "point" /\ Points(task[a].sel) /\ Done(a)
    /\ UNCHANGED <<dom, minted, keyFiles, signing, dns, lapses>>
\* stepOverlap(), reportDkimKeyCompromised(): retireDkimRotation(), then the old key goes.
Retire(a) ==
    /\ task[a].at = "retire" /\ Saves(a, Idle(task[a].row), "delete", task[a].row.prev, "idle")
    /\ UNCHANGED <<minted, keyFiles, selectorFile, signing, dns, lapses>>

\* cancelDkimRotation() of a pending rotation; of a switch: revertDkimSwitch() points the mail server back, saves the
\* row, points it back again, and if the row was confirmed meanwhile points it where the row says.
Cancel(a) ==
    /\ task[a].at = "cancel" /\ Saves(a, Idle(task[a].row), "delete", task[a].sel, "idle")
    /\ UNCHANGED <<minted, keyFiles, selectorFile, signing, dns, lapses>>
Revert(a) ==
    /\ task[a].at = "revert"
    /\ IF task[a].row.prev \in keyFiles THEN Points(task[a].row.prev) /\ Goes(a, "save") ELSE Done(a) /\ UNCHANGED selectorFile
    /\ UNCHANGED <<dom, minted, keyFiles, signing, dns, lapses>>
SaveRevert(a) ==
    /\ task[a].at = "save"
    /\ Saves(a, [Idle(task[a].row) EXCEPT !.sel = task[a].row.prev], "again", task[a].row.sel, "undo")
    /\ UNCHANGED <<minted, keyFiles, selectorFile, signing, dns, lapses>>
PointAgain(a) ==
    /\ task[a].at = "again" /\ Points(task[a].row.sel) /\ Goes(a, "delete")
    /\ UNCHANGED <<dom, minted, keyFiles, signing, dns, lapses>>
Undo(a) ==
    /\ task[a].at = "undo" /\ task' = [task EXCEPT ![a].at = "point", ![a].sel = dom.sel]
    /\ UNCHANGED <<dom, minted, keyFiles, selectorFile, signing, dns, lapses>>

Dies(a) ==
    /\ task[a].at # "idle" /\ Lapse /\ Done(a)
    /\ UNCHANGED <<dom, minted, keyFiles, selectorFile, signing, dns>>

--------------------------------------------------------------------------------
(* Outside: the mail server, and the publication of the desired records     *)
MtaSigns ==
    /\ signing # selectorFile /\ signing' = selectorFile
    /\ UNCHANGED <<dom, minted, keyFiles, selectorFile, dns, task, lapses>>
\* DnsDesiredState: the selector in use, the next one once it has a key, the previous one until it is retired.
DesiredDkim(row) == {row.sel} \cup (IF row.key THEN {row.next} ELSE {}) \cup ({row.prev} \ {0})
Publish ==
    /\ dns # DesiredDkim(dom) /\ dns' = DesiredDkim(dom)
    /\ UNCHANGED <<dom, minted, keyFiles, selectorFile, signing, task, lapses>>

DkimNext ==
    \/ MtaSigns \/ Publish
    \/ \E j \in RotationJobs : JobReads(j) \/ Look(j) \/ Confirm(j) \/ Activate(j) \/ Recheck(j)
    \/ \E a \in Admins : AdminReads(a) \/ Cancel(a) \/ Revert(a) \/ SaveRevert(a) \/ PointAgain(a) \/ Undo(a)
    \/ \E a \in Actors : \/ StartRotation(a) \/ Generate(a) \/ Record(a) \/ Unrecord(a) \/ DeleteKeyPair(a) \/ Retire(a) \/ Point(a)
                         \/ Dies(a)
DkimSpec == DkimInit /\ [][DkimNext]_dkimVars

--------------------------------------------------------------------------------
\* The key to sign with and the keys on record exist, whoever deletes which key when.
KeysHeld == {selectorFile, dom.sel} \subseteq keyFiles /\ (dom.key => dom.next \in keyFiles)
\* "The row is the truth": once nobody is at work, the mail server is pointed at the row's selector, unless the
\* switch to it is still to be confirmed or a process died on the way.
PointedAtRow ==
    (\A a \in Actors : task[a].at = "idle") /\ lapses = 0 /\ dom.phase # "switching" => selectorFile = dom.sel

\* The mail server always has a key to sign with, and in the end signs as the row says (DkimRotationJob).
DkimHeld == KeysHeld /\ PointedAtRow
================================================================================
